------------------------------ MODULE Meaning ------------------------------
(***************************************************************************)
(* What an LPC function means: the reference the compiled code is compared *)
(* with.  Control flow is the one src/lib/doc/lpc and src/lib/doc/operators *)
(* describe; arithmetic is that of the operators the interpreter runs.     *)
(* Running a tree in an environment [loc, glob, out, fuel] gives           *)
(* [env, k, v]: how it ended (k) and with what value (v).                  *)
(*   "ok", "break", "cont", "ret", "throw" and "stuck": out of fuel        *)
(***************************************************************************)
EXTENDS Trees, Bitwise

(* C's division rounds to zero *)
Quot(a, b) == LET q == (IF a < 0 THEN -a ELSE a) \div (IF b < 0 THEN -b ELSE b)
              IN IF (a < 0) = (b < 0) THEN q ELSE -q
Bool(p) == IF p THEN 1 ELSE 0
Width == 2^8                    \* wide enough for the numbers in the runs
Bits(i) == i % Width
Signed(i) == IF i >= Width \div 2 THEN i - Width ELSE i
Fails(op, y) == op \in {"DIVIDE", "MOD"} /\ y = 0

(* The operators on two ints *)
Arith(op, x, y) ==
  CASE op = "LT" -> Bool(x < y)
    [] op = "LE" -> Bool(~(x > y))
    [] op = "GT" -> Bool(x > y)
    [] op = "GE" -> Bool(~(x < y))
    [] op = "EQ" -> Bool(x = y)
    [] op = "NE" -> Bool(~(x = y))
    [] op \in {"ADD", "ADD_INT"} -> x + y
    [] op = "SUBTRACT" -> x - y
    [] op = "MULTIPLY" -> x * y
    [] op = "DIVIDE" -> Quot(x, y)
    [] op = "MOD" -> x - y * Quot(x, y)
    [] op = "LSH" -> x * 2^y
    [] op = "RSH" -> x \div 2^y
    [] op = "AND" -> Signed(Bits(x) & Bits(y))
    [] op = "OR" -> Signed(Bits(x) | Bits(y))
    [] op = "XOR" -> Signed(Bits(x) ^^ Bits(y))
Unary(op, x) ==
  CASE op = "NOT" -> Bool(x = 0)
    [] op = "COMPL" -> -x - 1
    [] op = "NEGATE" -> -x
ArithOps == {"LT", "LE", "GT", "GE", "EQ", "NE", "ADD", "SUBTRACT", "MULTIPLY",
             "DIVIDE", "MOD", "LSH", "RSH", "AND", "OR", "XOR"}

Ended(env, k, v) == [env |-> env, k |-> k, v |-> v]
Get(env, n) == IF Tok(n) = "LOCAL" THEN env.loc[n[2]] ELSE env.glob[n[2]]
Set(env, n, v) ==
  IF Tok(n) = "LOCAL" THEN [env EXCEPT !.loc[n[2]] = v] ELSE [env EXCEPT !.glob[n[2]] = v]

RECURSIVE Run(_, _), Iterate(_, _, _, _), Each(_, _, _, _), Items(_, _)

(* while (cond) { body; inc; }, and the rest of a loop *)
Iterate(cond, body, inc, env) ==
  IF env.fuel = 0 THEN Ended(env, "stuck", 0) ELSE
  LET c == Run(cond, [env EXCEPT !.fuel = @ - 1])
      b == Run(body, c.env)
      i == Run(inc, b.env)
  IN IF c.k # "ok" THEN c
     ELSE IF c.v = 0 THEN Ended(c.env, "ok", 0)
     ELSE IF b.k = "break" THEN Ended(b.env, "ok", 0)
     ELSE IF b.k \notin {"ok", "cont"} THEN b
     ELSE IF i.k # "ok" THEN i
     ELSE Iterate(cond, body, inc, i.env)

(* foreach (items, var) body *)
Each(items, var, body, env) ==
  IF items = <<>> THEN Ended(env, "ok", 0) ELSE
  LET b == Run(body, Set(env, var, Head(items)))
  IN IF b.k = "break" THEN Ended(b.env, "ok", 0)
     ELSE IF b.k \notin {"ok", "cont"} THEN b
     ELSE Each(Tail(items), var, body, b.env)

(* The statements of a block in order, for switch to start among *)
RECURSIVE Statements(_)
Statements(n) == IF n = Nil THEN <<>>
                 ELSE IF Tok(n) = "{" THEN Statements(A(n)) \o Statements(B(n)) ELSE <<n>>
RECURSIVE RunAll(_, _)
RunAll(stmts, env) ==
  IF stmts = <<>> THEN Ended(env, "ok", 0) ELSE
  LET r == Run(Head(stmts), env)
  IN IF r.k # "ok" THEN r ELSE RunAll(Tail(stmts), r.env)
Matches(s, v) ==
  Tok(s) = "CASE" /\ IF B(s) = Nil THEN v = A(s)[2] ELSE A(s)[2] <= v /\ v <= B(s)[2]
Choose(stmts, v) ==
  LET hits == {i \in DOMAIN stmts : Matches(stmts[i], v)}
      dflt == {i \in DOMAIN stmts : Tok(stmts[i]) = "DEFAULT"}
      First(S) == CHOOSE i \in S : \A j \in S : i <= j
  IN IF hits # {} THEN First(hits) ELSE IF dflt # {} THEN First(dflt) ELSE Len(stmts) + 1

(* The values of an argument list, left to right *)
Items(n, env) ==
  IF Tok(n) = "ARG_LIST"
  THEN LET l == Items(A(n), env)
           r == Items(B(n), l.env)
       IN IF l.k # "ok" THEN l ELSE IF r.k # "ok" THEN r ELSE Ended(r.env, "ok", l.v \o r.v)
  ELSE LET r == Run(n, env) IN IF r.k # "ok" THEN r ELSE Ended(r.env, "ok", <<r.v>>)

RunEfun(f, args, env) ==
  LET r == Items(args, env)
  IN IF r.k # "ok" THEN r
     ELSE CASE f = "emit" -> Ended([r.env EXCEPT !.out = Append(@, r.v[1])], "ok", r.v[1])
            [] f = "throw" -> Ended(r.env, "throw", r.v[1])
            [] f = "SUM" -> Ended(r.env, "ok", FoldLeft(LAMBDA x, y : x + y, 0, r.v))

(* Two operands, the left one first; the first to end otherwise ends it *)
Both(n, env, Op(_, _, _)) ==
  LET l == Run(A(n), env)
      r == Run(B(n), l.env)
  IN IF l.k # "ok" THEN l ELSE IF r.k # "ok" THEN r ELSE Op(r.env, l.v, r.v)
One(m, env, Op(_, _)) ==
  LET r == Run(m, env) IN IF r.k # "ok" THEN r ELSE Op(r.env, r.v)

Run(n, env) ==
  CASE n = Nil -> Ended(env, "ok", 0)
    [] Tok(n) \in {"LOCAL", "GLOBAL"} -> Ended(env, "ok", Get(env, n))
    [] Tok(n) \in {"NUM", "ARR"} -> Ended(env, "ok", n[2])
    [] Tok(n) \in ArithOps ->
         Both(n, env, LAMBDA e, x, y : IF Fails(Tok(n), y) THEN Ended(e, "throw", 1)
                                       ELSE Ended(e, "ok", Arith(Tok(n), x, y)))
    [] Tok(n) \in {"NOT", "COMPL", "NEGATE"} ->
         One(A(n), env, LAMBDA e, x : Ended(e, "ok", Unary(Tok(n), x)))
    [] Tok(n) = "LAND" ->
         One(A(n), env, LAMBDA e, x : IF x = 0 THEN Ended(e, "ok", 0) ELSE Run(B(n), e))
    [] Tok(n) = "LOR" ->
         One(A(n), env, LAMBDA e, x : IF x # 0 THEN Ended(e, "ok", x) ELSE Run(B(n), e))
    [] Tok(n) = "?" ->
         One(A(n), env, LAMBDA e, x : Run(IF x # 0 THEN A(B(n)) ELSE B(B(n)), e))
    [] Tok(n) = "ASSIGN" ->
         One(A(n), env, LAMBDA e, x : Ended(Set(e, B(n), x), "ok", x))
    [] Tok(n) \in {"INC", "POST_INC", "DEC", "POST_DEC"} ->
         LET old == Get(env, A(n))
             new == IF Tok(n) \in Incs THEN old + 1 ELSE old - 1
         IN Ended(Set(env, A(n), new), "ok", IF Tok(n) \in {"INC", "DEC"} THEN new ELSE old)
    [] Tok(n) \in {"{", "ARG_LIST"} ->
         LET l == Run(A(n), env) IN IF l.k # "ok" THEN l ELSE Run(B(n), l.env)
    [] Tok(n) = "VOID" -> One(A(n), env, LAMBDA e, x : Ended(e, "ok", 0))
    [] Tok(n) = "EFUN" -> RunEfun(n[2], B(n), env)
    [] Tok(n) = "FOR" -> Iterate(A(n), A(B(n)), B(B(n)), env)
    [] Tok(n) = "BRANCH" -> Iterate(Num(1), A(n), Nil, env)
    [] Tok(n) = "DO" ->
         LET b == Run(A(n), env)
         IN IF b.k = "break" THEN Ended(b.env, "ok", 0)
            ELSE IF b.k \in {"ok", "cont"} THEN Iterate(B(n), A(n), Nil, b.env) ELSE b
    [] Tok(n) = "FOREACH" ->
         One(A(A(n)), env, LAMBDA e, items : Each(items, B(A(n)), B(n), e))
    [] Tok(n) = "SWITCH" ->
         One(A(n), env, LAMBDA e, v :
           LET stmts == Statements(B(n))
               r == RunAll(SubSeq(stmts, Choose(stmts, v), Len(stmts)), e)
           IN IF r.k = "break" THEN Ended(r.env, "ok", 0) ELSE r)
    [] Tok(n) \in {"CASE", "DEFAULT"} -> Ended(env, "ok", 0)
    [] Tok(n) = "BREAK" -> Ended(env, "break", 0)
    [] Tok(n) = "CONTINUE" -> Ended(env, "cont", 0)
    [] Tok(n) = "RETURN" -> One(A(n), env, LAMBDA e, x : Ended(e, "ret", x))
    [] Tok(n) = "CATCH" ->
         LET r == Run(A(n), env)
         IN CASE r.k = "throw" -> Ended(r.env, "ok", r.v)
              [] r.k \in {"stuck", "ret"} -> r
              [] OTHER -> Ended(r.env, "ok", 0)

(* break belongs in a loop, a switch or a catch, continue in a loop or a   *)
(* catch, case and default in a switch outside the loops of its body       *)
RECURSIVE WellPlaced(_, _, _, _)
WellPlaced(n, brk, cont, sw) ==
  CASE n = Nil \/ Tok(n) \in {"NUM", "ARR", "LOCAL", "GLOBAL"} -> TRUE
    [] Tok(n) = "BREAK" -> brk
    [] Tok(n) = "CONTINUE" -> cont
    [] Tok(n) \in {"CASE", "DEFAULT"} -> sw
    [] Tok(n) \in Loops \cup {"DO", "CATCH"} ->
         WellPlaced(A(n), TRUE, TRUE, FALSE) /\ WellPlaced(B(n), TRUE, TRUE, FALSE)
    [] Tok(n) = "SWITCH" -> WellPlaced(A(n), brk, cont, sw) /\ WellPlaced(B(n), TRUE, cont, TRUE)
    [] Tok(n) = "EFUN" -> WellPlaced(B(n), brk, cont, sw)
    [] OTHER -> WellPlaced(A(n), brk, cont, sw) /\ WellPlaced(B(n), brk, cont, sw)
=============================================================================

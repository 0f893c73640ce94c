----------------------------- MODULE Optimizer -----------------------------
(***************************************************************************)
(* The optimizer of las.c: do_optimize rewrites a tree bottom up,          *)
(* depend_optim removes what nothing depends on, and dooptcode runs the    *)
(* one, the other, and the first again.  Left out is the memory of the     *)
(* last assignment to a variable (remember_remember), which forwards       *)
(* values within one expression.                                           *)
(*                                                                         *)
(* A rule gives {} when it does not apply, Again(t) when the code returns  *)
(* optimize(t), and Done(t) when it returns t as it is.                    *)
(***************************************************************************)
EXTENDS Meaning

Again(t) == {<<t, TRUE>>}
Done(t) == {<<t, FALSE>>}
No == {}

(* Two trees are the same, and mean the same place or value: node_is_eq    *)
SameNode(m, n) == m = n

(* The log of a power of 2, -1 of anything else *)
Log2(i) == IF \E k \in 0..14 : i = 2^k THEN CHOOSE k \in 0..14 : i = 2^k ELSE -1
IsInt(n) == n # Num(0) /\ Tok(n) \notin {"ARR", "NIL"}  \* a type other than mixed; 0 is any type

RwCond(n) ==
  LET yes == A(B(n))
      no == B(B(n))
  IN IF IsTrue(A(n)) THEN Again(yes)
     ELSE IF IsFalse(A(n)) THEN Again(no)
     ELSE IF SameNode(yes, no) THEN Again(Node("ARG_LIST", Void(A(n)), yes))
     ELSE No

(* Blocks and argument lists: empty sides, dead code after a jump, and     *)
(* x = e; x++; as x = e + 1;                                               *)
Stops(n) == Tok(n) \in {"RETURN", "BREAK", "CONTINUE"}
Merged(n) ==
  LET last == LastCmd(A(n))
      path == CHOOSE p \in last : TRUE
      prev == At(A(n), path)
      by == IF Tok(B(n)) \in Incs THEN 1 ELSE -1
  IN IF /\ last # {} /\ prev # Nil
        /\ Tok(B(n)) \in Incs \cup Decs /\ Tok(prev) \in Assigns /\ SameNode(B(prev), A(B(n)))
     THEN {Put(A(n), path, <<prev[1], Node("ADD", A(prev), Num(by)), B(prev)>>)}
     ELSE {}

(* Mutant: code behind a jump goes although a label is in it *)
RwListDeaf(n) ==
  IF A(n) = Nil /\ B(n) = Nil THEN Done(Nil)
  ELSE IF A(n) = Nil THEN Again(B(n))
  ELSE IF B(n) = Nil THEN Again(A(n))
  ELSE IF Stops(A(n)) \/ (Tok(A(n)) \in {"{", "ARG_LIST"} /\ Stops(B(A(n)))) THEN Again(A(n))
  ELSE No

RwList(n) ==
  IF A(n) = Nil /\ B(n) = Nil THEN Done(Nil)
  ELSE IF A(n) = Nil THEN Again(B(n))
  ELSE IF B(n) = Nil THEN Again(A(n))
  ELSE IF /\ Stops(A(n)) \/ (Tok(A(n)) \in {"{", "ARG_LIST"} /\ Stops(B(A(n))))
          /\ "CASE" \notin Flags(B(n), "") THEN Again(A(n))
  ELSE No

RECURSIVE Bare(_)
Bare(n) == IF Tok(n) = "VOID" THEN Bare(A(n)) ELSE n

RwBlock(n) ==
  LET m == Node("{", Bare(A(n)), Bare(B(n)))
      few == CountArgs(A(m)) + CountArgs(B(m)) < 10
      list == RwList(n)
      merged == Merged(m)
  IN IF list # No THEN list
     ELSE IF merged # {} THEN Again(Node("{", CHOOSE t \in merged : TRUE, Nil))
     ELSE IF Flags(m, "") \cap {"CONT", "BREAK", "CASE"} = {} /\ few
     THEN Again(Void(Node("ARG_LIST", A(m), B(m))))
     ELSE No

RwMultiply(n) ==
  LET k == IF Tok(B(n)) = "NUM" THEN Log2(B(n)[2]) ELSE -1
  IN IF ~IsInt(A(n)) \/ ~IsInt(B(n)) THEN No
     ELSE IF B(n) = Num(1) THEN Done(A(n))
     ELSE IF k >= 0 THEN Again(Node("LSH", A(n), Num(k)))
     ELSE No

RwDivide(n) ==
  LET k == IF Tok(B(n)) = "NUM" THEN Log2(B(n)[2]) ELSE -1
  IN IF ~IsInt(A(n)) \/ ~IsInt(B(n)) THEN No
     ELSE IF B(n) = Num(1) THEN Done(A(n))
     ELSE IF k >= 0 THEN Again(Node("RSH", A(n), Num(k)))
     ELSE No

IsSum(n) == Tok(n) = "EFUN" /\ n[2] = "SUM"
RwAdd(n) ==
  LET l == A(n)
      r == B(n)
      Sum(x, y) == Again(Efun("SUM", Node("ARG_LIST", x, y)))
      same == IsInt(l) /\ IsInt(r)
  IN IF IsInt(l) /\ r = Num(0) THEN Again(l)
     ELSE IF IsInt(r) /\ l = Num(0) THEN Again(r)
     ELSE IF ~same THEN No
     ELSE IF Tok(l) = "ADD" THEN Sum(Node("ARG_LIST", A(l), B(l)), r)
     ELSE IF Tok(r) = "ADD" THEN Sum(l, Node("ARG_LIST", A(r), B(r)))
     ELSE IF IsSum(l) THEN Sum(l[3], r)
     ELSE IF IsSum(r) THEN Sum(l, r[3])
     ELSE No

RwAssign(n) ==
  LET v == A(n)
      Steps(op) == Tok(v) = op /\ SameNode(B(n), A(v)) /\ B(v) = Num(1)
  IN IF SameNode(v, B(n)) THEN Done(Nil)
     ELSE IF Steps("ADD") THEN Again(Node("INC", B(n), Nil))
     ELSE IF Steps("SUBTRACT") THEN Again(Node("DEC", B(n), Nil))
     ELSE No

(* sum(a + b, X) as sum(a, b, X) *)
RECURSIVE FirstArg(_)
FirstArg(n) == IF Tok(n) = "ARG_LIST" THEN <<2>> \o FirstArg(A(n)) ELSE <<>>
RwSum(n) ==
  LET first == At(n[3], FirstArg(n[3]))
  IN IF IsSum(n) /\ Tok(first) = "ADD"
     THEN Again(Efun("SUM", Put(n[3], FirstArg(n[3]), Node("ARG_LIST", A(first), B(first)))))
     ELSE No

RwXor(n) ==
  IF IsInt(A(n)) /\ B(n) = Num(0) THEN Again(A(n))
  ELSE IF IsInt(A(n)) /\ B(n) = Num(-1) THEN Again(Node("COMPL", A(n), Nil))
  ELSE No

RwAnd(n) ==
  IF (IsInt(A(n)) /\ B(n) = Num(-1)) \/ (IsInt(B(n)) /\ A(n) = Num(0)) THEN Again(A(n))
  ELSE IF (IsInt(B(n)) /\ A(n) = Num(-1)) \/ (IsInt(A(n)) /\ B(n) = Num(0)) THEN Again(B(n))
  ELSE No

RwOr(n) ==
  IF (IsInt(A(n)) /\ B(n) = Num(-1)) \/ (IsInt(B(n)) /\ A(n) = Num(0)) THEN Again(B(n))
  ELSE IF (IsInt(B(n)) /\ A(n) = Num(-1)) \/ (IsInt(A(n)) /\ B(n) = Num(0)) THEN Again(A(n))
  ELSE No

(* && and ||: !a && !b as !(a || b), (a && b) && c as a && (b && c)        *)
RECURSIVE Rotated(_)
Rotated(n) ==
  IF Tok(A(n)) = Tok(n) THEN Rotated(Node(Tok(n), A(A(n)), Node(Tok(n), B(A(n)), B(n)))) ELSE n
BothNot(n) == Tok(A(n)) = "NOT" /\ Tok(B(n)) = "NOT"
RwLand(n) ==
  LET m == Rotated(n)
  IN IF BothNot(n) THEN Again(Node("NOT", Node("LOR", A(A(n)), A(B(n))), Nil))
     ELSE IF IsTrue(A(m)) THEN Again(B(m))
     ELSE IF IsTrue(B(m)) THEN Again(A(m))
     ELSE IF IsFalse(A(m)) THEN Done(Num(0))
     ELSE No
RwLor(n) ==
  LET m == Rotated(n)
  IN IF BothNot(n) THEN Again(Node("NOT", Node("LAND", A(A(n)), A(B(n))), Nil))
     ELSE IF IsFalse(A(m)) THEN Again(B(m))
     ELSE IF IsFalse(B(m)) THEN Again(A(m))
     ELSE IF IsTrue(A(m)) THEN Again(A(m))
     ELSE No

RwVoid(n) ==
  LET m == A(n)
  IN IF m = Nil \/ Flags(n, "") \cap Effects = {} THEN Done(Nil)
     ELSE IF Tok(m) = "ASSIGN" THEN Again(Node("ASSIGN_AND_POP", A(m), B(m)))
     ELSE IF Tok(m) \in {"INC", "POST_INC"} THEN Again(Node("INC_AND_POP", A(m), Nil))
     ELSE IF Tok(m) \in {"DEC", "POST_DEC"} THEN Again(Node("DEC_AND_POP", A(m), Nil))
     ELSE No

(* for: while (--i) f(); with f() as the step is a counting loop from the  *)
(* start; and for (...; i < e; i++) becomes { i--; ++i < e loop }.  When   *)
(* the variable is on the right, the comparison is turned round first.     *)
Turned(op) == CASE op \in {"LT", "LE"} -> "GT" [] op \in {"GT", "GE"} -> "LE" [] OTHER -> op
RwFor(n) ==
  LET Free(var, bound, x, body) == SameNode(var, x) /\ ~Depends(bound, body) /\ ~Depends(bound, var)
      Limits(op, bound, inc) ==
        CASE inc /\ op = "LE" -> {Node("ADD", bound, Num(1))}
          [] ~inc /\ op = "GE" -> {Node("SUBTRACT", bound, Num(1))}
          [] (inc /\ op = "LT") \/ (~inc /\ op = "GT") -> {bound}
          [] OTHER -> {}
      Counted(x, body, inc, limit) ==
        Node("{", Void(Node(IF inc THEN "DEC" ELSE "INC", x, Nil)),
                  Node(IF inc THEN "INC_LOOP" ELSE "DEC_LOOP", Node(" ", limit, x), body))
      Compared(op, x, bound, body, inc) ==
        IF Limits(op, bound, inc) = {} THEN Done(Node("FOR", Node(op, x, bound), B(n)))
        ELSE Again(Counted(x, body, inc, CHOOSE l \in Limits(op, bound, inc) : TRUE))
      While(c, body, step) ==
        IF /\ Tok(c) \in {"INC", "DEC", "POST_INC", "POST_DEC"}
           /\ body = Nil /\ "CONT" \notin Flags(step, "")
        THEN Again(Node(IF Tok(c) \in Decs THEN "DEC_LOOP" ELSE "INC_LOOP",
                        Node(" ", Num(0), A(c)), Node("{", Nil, step)))
        ELSE IF Tok(step) \notin Incs \cup Decs \/ Tok(c) \notin {"GT", "GE", "LE", "NE", "LT"} THEN No
        ELSE IF Free(A(c), B(c), A(step), body)
        THEN Compared(Tok(c), A(step), B(c), body, Tok(step) \in Incs)
        ELSE IF Free(B(c), A(c), A(step), body)
        THEN Compared(Turned(Tok(c)), A(step), A(c), body, Tok(step) \in Incs)
        ELSE No
  IN IF IsFalse(A(n)) THEN Done(Nil) ELSE While(A(n), A(B(n)), B(B(n)))

(* A counting loop without a body, or one whose body does the same thing   *)
(* every time, leaves its variable at the limit                            *)
RwLoop(n) ==
  LET bound == Node("ASSIGN", A(A(n)), B(A(n)))
      effects == Flags(A(n), "") \cup Flags(B(n), "")
  IN IF B(n) = Nil THEN Again(Void(bound))
     ELSE IF /\ effects \cap {"SIDE_EFFECT", "RETURN", "CONT", "BREAK"} = {}
             /\ ~Depends(A(n), B(n)) /\ ~Depends(B(n), B(n)) /\ ~Depends(B(n), A(n))
     THEN Again(Node("{", bound, B(n)))
     ELSE No

(* switch: the breaks at its end go; one without a body is its condition   *)
RECURSIVE NoLastBreak(_)
NoLastBreak(n) ==
  LET last == LastCmd(n)
      path == CHOOSE p \in last : TRUE
  IN IF last # {} /\ Tok(At(n, path)) = "BREAK" THEN NoLastBreak(Put(n, path, Nil)) ELSE n
RwSwitch(n) ==
  LET body == NoLastBreak(B(n))
  IN IF body = Nil THEN Again(Void(A(n)))
     ELSE IF body # B(n) THEN Done(Node("SWITCH", A(n), body)) ELSE No

RwDo(n) ==
  IF IsTrue(B(n)) THEN Done(Node("BRANCH", A(n), Nil))
  ELSE IF IsFalse(B(n)) THEN Again(A(n)) ELSE No

RECURSIVE Unnot(_)
Unnot(n) == IF Tok(A(n)) = "NOT" THEN Unnot(Node("?", A(A(n)), Node(":", B(B(n)), A(B(n))))) ELSE n

Rewrite(n) ==
  CASE Tok(n) = "?" -> RwCond(n)
    [] Tok(n) = "ARG_LIST" -> RwList(n)
    [] Tok(n) = "{" -> RwBlock(n)
    [] Tok(n) = "MULTIPLY" -> RwMultiply(n)
    [] Tok(n) = "DIVIDE" -> RwDivide(n)
    [] Tok(n) = "ADD" -> RwAdd(n)
    [] Tok(n) \in Assigns -> RwAssign(n)
    [] Tok(n) = "EFUN" -> RwSum(n)
    [] Tok(n) = "XOR" -> RwXor(n)
    [] Tok(n) = "AND" -> RwAnd(n)
    [] Tok(n) = "OR" -> RwOr(n)
    [] Tok(n) = "LAND" -> RwLand(n)
    [] Tok(n) = "LOR" -> RwLor(n)
    [] Tok(n) = "VOID" -> RwVoid(n)
    [] Tok(n) = "FOR" -> RwFor(n)
    [] Tok(n) \in {"INC_LOOP", "DEC_LOOP"} -> RwLoop(n)
    [] Tok(n) = "SWITCH" -> RwSwitch(n)
    [] Tok(n) = "DO" -> RwDo(n)
    [] OTHER -> No

(* What the rules change before they look: the branches of !X ? Y : Z, a   *)
(* constant moved to the right of a product, && and || leaning right       *)
InOrder(n) ==
  CASE Tok(n) = "?" -> Unnot(n)
    [] Tok(n) \in {"LAND", "LOR"} /\ ~BothNot(n) -> Rotated(n)
    [] Tok(n) = "MULTIPLY" /\ IsInt(A(n)) /\ IsInt(B(n)) /\ Tok(A(n)) = "NUM" /\ Tok(B(n)) # "NUM" ->
         Node("MULTIPLY", B(n), A(n))
    [] Tok(n) = "{" /\ A(n) # Nil /\ B(n) # Nil /\ RwList(n) = No ->
         Node("{", Bare(A(n)), Bare(B(n)))
    [] OTHER -> n

(* eval: a constant expression is run by the driver itself; one that fails *)
(* is a compile error, here left alone                                     *)
Eval(n) ==
  LET r == Run(n, [loc |-> <<>>, glob |-> <<>>, out |-> <<>>, fuel |-> 0])
  IN IF r.k = "ok" THEN Num(r.v) ELSE n

RECURSIVE Optimize(_, _)
OptimizeKids(n) ==
  CASE n = Nil \/ IsLeaf(n) -> n
    [] Tok(n) = "EFUN" -> Efun(n[2], Optimize(n[3], ""))
    [] OTHER -> LET Rebuilt(kids) == Node(Tok(n), Optimize(kids[1][1], kids[1][2]),
                                          IF Len(kids) = 1 THEN B(n) ELSE Optimize(kids[2][1], kids[2][2]))
                IN Rebuilt(Kids(n, ""))

(* do_optimize *)
Optimize(n, lv) ==
  LET Rest(m) == IF /\ m # Nil /\ Tok(m) \notin {"NUM", "ARR", "LOCAL", "GLOBAL", "VOID", ":", " "}
                    /\ IsConst(m, lv) /\ "TRY" \in Flags(m, lv) THEN Eval(m)
                 ELSE m
      By(t) == IF t[2] THEN Optimize(t[1], lv) ELSE t[1]
      Tried(m, r) == IF r = No THEN Rest(m) ELSE By(CHOOSE x \in r : TRUE)
      Whole(m) == Tried(m, Rewrite(m))
  IN IF n = Nil \/ (Tok(n) \in {"LOCAL", "GLOBAL"} /\ lv # "") THEN n
     ELSE Whole(InOrder(OptimizeKids(n)))

(***************************************************************************)
(* depend_optim.  Useless(root, path, ...) are the paths it would remove   *)
(* first; root is the tree with what it holds back at the moment already   *)
(* taken out, after what may still run after the node.                     *)
(***************************************************************************)
RECURSIVE Useless(_, _, _, _, _)
Useless(root, path, chron, voided, after) ==
  LET n == At(root, path)
      without == Put(root, path, Nil)
      keeps == {"SIDE_EFFECT", "GLOBAL_ASSIGN"} \cup Jumps
      Sub(r, i, c, v, t) == Useless(r, Append(path, i), c, v, t)
      Cut(i) == Put(root, Append(path, i), Nil)
      left == Sub(root, 2, TRUE, TRUE, after)
  IN IF n = Nil THEN {}
     ELSE IF Flags(n, "") \cap keeps = {} /\ ~Depends(without, n) /\ ~Depends(after, n) THEN {path}
     ELSE CASE Tok(n) = "DO" -> Sub(root, 2, FALSE, FALSE, Node("{", B(n), after))
            [] Tok(n) \in Loops -> Sub(root, 3, FALSE, FALSE, Node("{", A(n), after))
            [] Tok(n) = "VOID" -> Sub(root, 2, chron, TRUE, after)
            [] Tok(n) = "{" \/ (Tok(n) = "ARG_LIST" /\ voided) ->
                 IF chron THEN (IF left # {} THEN left ELSE Sub(Cut(2), 3, TRUE, TRUE, after))
                 ELSE Sub(Cut(3), 2, FALSE, TRUE, Node("{", B(n), after))
                      \cup Sub(Cut(2), 3, FALSE, TRUE, Node("{", after, A(n)))
            [] OTHER -> {}

RECURSIVE DependOptim(_)
DependOptim(n) ==
  LET useless == Useless(n, <<>>, TRUE, FALSE, Nil)
  IN IF useless = {} THEN n ELSE DependOptim(Put(n, CHOOSE p \in useless : TRUE, Nil))

(* dooptcode *)
Optimized(n) == Optimize(DependOptim(Optimize(n, "")), "")
=============================================================================

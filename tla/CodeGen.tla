------------------------------ MODULE CodeGen ------------------------------
(***************************************************************************)
(* The code generator of las.c: do_docode2 and its helpers turn a tree     *)
(* into instructions.  An instruction is <<operation, operand>>, its       *)
(* address its index; the operand of a jump is the address it goes to (the *)
(* code stores the difference).  The state s that is threaded through is   *)
(*   code      the instructions so far                                     *)
(*   jumps     the table of recent jumps, a ring of JumpTable entries, by  *)
(*             which a jump to a jump is shortened; jp and mj its position *)
(*             and its highest entry (jump_ptr, max_jumps)                 *)
(*   brk, cont stacks of the breaks and continues to be patched            *)
(*   sw        the switch being compiled, NoSwitch outside one             *)
(*   sws       the finished switch tables                                  *)
(*   err       yyerror was called                                          *)
(*   n         what the last do_docode returned: values left on the stack  *)
(***************************************************************************)
EXTENDS Trees

CONSTANT JumpTable \* entries of jumps[]: 256
ASSUME JumpTableAssumption == JumpTable \in Nat \ {0}

NoSwitch == [cases |-> {}, default |-> 0, open |-> FALSE]
Start ==
  [code |-> <<>>, jumps |-> <<>>, jp |-> 0, brk |-> <<>>, cont |-> <<>>,
   sw |-> NoSwitch, sws |-> <<>>, err |-> FALSE, n |-> 0]

PC(s) == Len(s.code) + 1
Ins(s, op, x) == [s EXCEPT !.code = Append(@, <<op, x>>)]
Gives(s, k) == [s EXCEPT !.n = k]
Wrong(s) == [s EXCEPT !.err = TRUE]

(* ins_int: the shortest instruction that holds the number.  The operands  *)
(* are bytes, two bytes or four; the lower bound of a short is misprinted  *)
(* in the code (-37768).                                                   *)
ShortLow == -37768
Int16(i) == ((i + 32768) % 65536) - 32768
InsInt(s, i) ==
  CASE i = 0 -> Ins(s, "CONST0", 0)
    [] i = 1 -> Ins(s, "CONST1", 0)
    [] i = -1 -> Ins(s, "CONST_1", 0)
    [] i > 1 /\ i < 258 -> Ins(s, "BYTE", (i - 2) % 256)
    [] i < -1 /\ i > -258 -> Ins(s, "NEG_BYTE", (1024 - i - 2) % 256)
    [] (i >= ShortLow /\ i <= -258) \/ (i >= 258 /\ i < 32768) -> Ins(s, "SHORT", Int16(i))
    [] OTHER -> Ins(s, "NUMBER", i)

(* do_pop *)
RECURSIVE Pop(_, _)
Pop(s, k) ==
  CASE k = 0 -> s
    [] k = 1 -> Ins(s, "POP_VALUE", 0)
    [] k > 1 /\ k < 256 -> Ins(s, "POP_N_ELEMS", k)
    [] OTHER -> Pop(Ins(s, "POP_N_ELEMS", 255), k - 255)
Popped(s) == Pop(s, s.n)

(***************************************************************************)
(* The jump table.  set_branch looks for the open entry of the jump at     *)
(* from; if the target is itself an unconditional jump, it goes where that *)
(* one goes, and if this jump is unconditional, the jumps to it are sent   *)
(* to its own target.                                                      *)
(***************************************************************************)
Unset(j) == j.to = 0
SetBranch(s, from, to) ==
  IF from = 0 THEN s ELSE
  LET open == {j \in DOMAIN s.jumps : s.jumps[j].from = from /\ Unset(s.jumps[j])}
      relays == {j \in DOMAIN s.jumps : ~Unset(s.jumps[j]) /\ ~s.jumps[j].cond /\ s.jumps[j].from = to}
      dest == IF relays = {} THEN to
              ELSE s.jumps[CHOOSE j \in relays : \A k \in relays : j <= k].to
      mine == IF open = {} THEN 0 ELSE CHOOSE j \in open : TRUE
      toMe == IF mine = 0 \/ s.jumps[mine].cond THEN {}
              ELSE {j \in DOMAIN s.jumps : ~Unset(s.jumps[j]) /\ s.jumps[j].to = from}
      patched == {from} \cup {s.jumps[j].from : j \in toMe}
  IN [s EXCEPT !.code = [a \in DOMAIN s.code |-> IF a \in patched THEN <<s.code[a][1], dest>> ELSE s.code[a]],
               !.jumps = [j \in DOMAIN s.jumps |->
                           IF j = mine \/ j \in toMe THEN [s.jumps[j] EXCEPT !.to = dest] ELSE s.jumps[j]]]

(* do_jump: the jump is the instruction at the address before PC(result)   *)
Jump(s, op, to) ==
  LET entry == [from |-> PC(s), to |-> 0, cond |-> op # "BRANCH"]
      slot == (s.jp % JumpTable) + 1
      t == [Ins(s, op, 0) EXCEPT
              !.jumps = IF slot \in DOMAIN @ THEN [@ EXCEPT ![slot] = entry] ELSE Append(@, entry),
              !.jp = slot]
  IN IF to = 0 THEN t ELSE SetBranch(t, PC(s), to)
Here(s) == PC(s) - 1  \* the jump do_jump has just inserted
Land(s, from) == SetBranch(s, from, PC(s))

(* push_break_stack, pop_break_stack and their twins for continue          *)
OpenBreaks(s) == [s EXCEPT !.brk = Append(@, <<>>)]
OpenContinues(s) == [s EXCEPT !.cont = Append(@, <<>>)]
DropBreaks(s) == [s EXCEPT !.brk = Front(@)]  \* mutant: breaks are not patched
CloseBreaks(s) ==
  LET t == FoldRight(LAMBDA j, u : Land(u, j), Last(s.brk), s)
  IN [t EXCEPT !.brk = Front(@)]
CloseContinues(s) ==
  LET t == FoldRight(LAMBDA j, u : Land(u, j), Last(s.cont), s)
  IN [t EXCEPT !.cont = Front(@)]

BinOps == {"LT", "LE", "GT", "GE", "SUBTRACT", "MULTIPLY", "DIVIDE", "MOD",
           "LSH", "RSH", "XOR", "OR", "AND"}
Plus(a, b) == "ADD_INT"  \* ins_add between ints

RECURSIVE Gen(_, _, _)

(* do_jump_when_zero and do_jump_when_non_zero: a constant condition needs *)
(* no test.  The jump's address is at n; 0 for the code's -1: no jump.     *)
Jumped(t) == Gives(t, Here(t))
JumpWhen(s, n, op, always, never, to) ==
  CASE "SIDE_EFFECT" \in Flags(n, "") \/ ~(always \/ never) -> Jumped(Jump(Gen(s, n, ""), op, to))
    [] never -> Gives(s, 0)
    [] OTHER -> Jumped(Jump(s, "BRANCH", to))
JumpWhenZero(s, n, to) == JumpWhen(s, n, "BRANCH_WHEN_ZERO", IsFalse(n), IsTrue(n), to)
JumpWhenNonZero(s, n, to) == JumpWhen(s, n, "BRANCH_WHEN_NON_ZERO", IsTrue(n), IsFalse(n), to)

(* X ? Y : Z.  Both branches must leave as many values: the longer one     *)
(* pops, the first by an instruction whose operand is filled in later.     *)
GenCond(s, n) ==
  LET Pops(t, at, m) == IF at = 0 THEN t ELSE [t EXCEPT !.code[at] = <<"POP_N_ELEMS", m>>]
      Even(no, at, k) == CASE no.n > k -> Pop(no, no.n - k)
                           [] no.n < k -> Pops(no, at, k - no.n)
                           [] OTHER -> no
      Ends(no, at, k, skip) == Gives(Land(Even(no, at, k), skip), IF no.n < k THEN no.n ELSE k)
      Else(skip, at, k, test) == Ends(Gen(Land(skip, test), B(B(n)), ""), at, k, Here(skip))
      Rest(yes, at, k, test) == IF B(B(n)) = Nil THEN Gives(Land(Pops(yes, at, k), test), 0)
                                ELSE Else(Jump(yes, "BRANCH", 0), at, k, test)
      Then(yes, test) == IF yes.n = 0 THEN Rest(yes, 0, 0, test)
                         ELSE Rest(Ins(yes, "POP_N_ELEMS", 0), PC(yes), yes.n, test)
      If(test) == Then(Gen(test, A(B(n)), ""), test.n)
  IN If(JumpWhenZero(s, A(n), 0))

(* Assignments: X = X op Y through the lvalue, else straight               *)
GenAssign(s, n) ==
  LET v == A(n)
      keeps == IF Tok(n) = "ASSIGN" THEN 1 ELSE 0
      op == IF Tok(v) = "ADD" THEN Plus(A(v), B(v)) ELSE Tok(v)
  IN IF (Tok(v) \in BinOps \ {"LT", "LE", "GT", "GE"} \/ Tok(v) = "ADD") /\ B(n) = A(v)
     THEN Gives(Ins(Ins(Gen(Ins(Gen(s, B(n), "l"), "PUSH_LTOSVAL", 0), B(v), ""), op, 0), Tok(n), 0), keeps)
     ELSE Gives(Ins(Gen(s, v, ""),
                    Tok(n) \o "_" \o Tok(B(n)), B(n)[2]), keeps)

\* What a loop jumps over at first, and what it is in.
Inside(s) == OpenContinues(OpenBreaks([s EXCEPT !.sw = NoSwitch]))
Outside(s, test) == [CloseBreaks(test) EXCEPT !.sw = s.sw]

(* Mutant: continue goes behind the step *)
GenForStepSkipped(s, n) ==
  LET Loop(skip) ==
        LET inc == CloseContinues(Popped(Gen(Popped(Gen(skip, A(B(n)), "")), B(B(n)), "")))
        IN JumpWhenNonZero(Land(inc, Here(skip)), A(n), PC(skip))
  IN Gives(Outside(s, Loop(Jump(Inside(s), "BRANCH", 0))), 0)

(* for and while: the test stands at the end *)
GenFor(s, n) ==
  LET Loop(skip) ==
        LET body == CloseContinues(Popped(Gen(skip, A(B(n)), "")))
            inc == Popped(Gen(body, B(B(n)), ""))
        IN JumpWhenNonZero(Land(inc, Here(skip)), A(n), PC(skip))
  IN Gives(Outside(s, Loop(Jump(Inside(s), "BRANCH", 0))), 0)

(* foreach and the counting loops: their operands stay on the stack, and   *)
(* one instruction steps, tests and jumps                                  *)
LoopOver(s, n, args) ==
  LET ready == IF Tok(n) = "FOREACH" THEN Ins(args, "CONST0", 0) ELSE args
      Loop(skip) ==
        LET body == CloseContinues(Popped(Gen(OpenContinues(OpenBreaks(skip)), B(n), "")))
        IN Jump(Land(body, Here(skip)), Tok(n), PC(skip))
  IN Outside(s, Loop(Jump([ready EXCEPT !.sw = NoSwitch], "BRANCH", 0)))
(* Mutant: the counter of foreach is not said to be on the stack *)
GenLoopForgetful(s, n) ==
  LET Loop(args) == Gives(LoopOver(s, n, args), args.n) IN Loop(Gen(s, A(n), ""))
GenLoop(s, n) ==
  LET Loop(args) == Gives(LoopOver(s, n, args), IF Tok(n) = "FOREACH" THEN args.n + 1 ELSE args.n)
  IN Loop(Gen(s, A(n), ""))

(* Mutant: the switch outside stays open in the loop *)
GenDoOpen(s, n) ==
  LET Test(body) == IF Tok(n) = "DO" THEN JumpWhenNonZero(body, B(n), PC(s)) ELSE Jump(body, "BRANCH", PC(s))
  IN Gives(CloseBreaks(Test(CloseContinues(Popped(Gen(OpenContinues(OpenBreaks(s)), A(n), ""))))), 0)

(* do-while, and the endless loop the optimizer makes of while(1)          *)
GenDo(s, n) ==
  LET Test(body) == IF Tok(n) = "DO" THEN JumpWhenNonZero(body, B(n), PC(s)) ELSE Jump(body, "BRANCH", PC(s))
  IN Gives(Outside(s, Test(CloseContinues(Popped(Gen(Inside(s), A(n), ""))))), 0)

(* switch: its labels gather in sw while the body is compiled              *)
GenSwitch(s, n) ==
  LET Table(body) == [body.sw EXCEPT !.default = IF @ = 0 THEN PC(body) ELSE @]
      End(end, table, at) == [end EXCEPT !.code[at] = <<"SWITCH", Len(end.sws) + 1>>,
                                         !.sws = Append(@, table), !.sw = s.sw]
      Body(body, at) == End(CloseBreaks(body), Table(body), at)
      Switch(val) == Body(Popped(Gen([OpenBreaks(Ins(val, "SWITCH", 0)) EXCEPT
                                        !.sw = [NoSwitch EXCEPT !.open = TRUE]], B(n), "")), PC(val))
  IN Gives(Switch(Gen(s, A(n), "")), 0)

(* A label is a point (kind 0) or the two ends of a range (kinds 1 and 2)  *)
GenCase(s, n) ==
  LET has == {c.label : c \in s.sw.cases}
      Label(v, k) == [label |-> v[2], kind |-> k, at |-> PC(s)]
      labels == IF B(n) = Nil THEN {Label(A(n), 0)} ELSE {Label(A(n), 1), Label(B(n), 2)}
  IN Gives(IF ~s.sw.open \/ \E c \in labels : c.label \in has THEN Wrong(s)
           ELSE [s EXCEPT !.sw.cases = @ \cup labels], 0)

GenDefault(s) ==
  Gives(IF ~s.sw.open \/ s.sw.default # 0 THEN Wrong(s) ELSE [s EXCEPT !.sw.default = PC(s)], 0)

GenBreak(s) ==
  Gives(IF s.brk = <<>> THEN Wrong(s)
        ELSE LET t == Jump(s, "BRANCH", 0) IN [t EXCEPT !.brk[Len(s.brk)] = Append(@, Here(t))], 0)

GenContinue(s) ==
  Gives(IF s.cont = <<>> THEN Wrong(s)
        ELSE LET t == Jump(s, "BRANCH", 0) IN [t EXCEPT !.cont[Len(s.cont)] = Append(@, Here(t))], 0)

GenReturn(s, n) ==
  LET Valued(t) == IF t.n # 1 THEN Ins(t, "CONST0", 0) ELSE t
  IN Gives(Ins(Valued(Gen(s, A(n), "")), "RETURN", 0), 0)

(* catch runs its tree as a function of its own that ends by DUMB_RETURN   *)
GenCatch(s, n) ==
  LET Body(try) == CloseBreaks(CloseContinues(Popped(Gen(OpenContinues(OpenBreaks(try)), A(n), ""))))
      Caught(try) == Land(Ins(Body(try), "DUMB_RETURN", 0), Here(try))
  IN Gives([Caught(Jump([s EXCEPT !.sw = NoSwitch], "CATCH", 0)) EXCEPT !.sw = s.sw], 1)

GenEfun(s, n) ==
  LET variable == n[2] \in {"SUM", "AGGREGATE"}  \* min_arg # max_arg
      args == Gen(IF variable THEN Ins(s, "MARK", 0) ELSE s, B(n), "")
  IN Gives(Ins(args, n[2], 0), IF n[2] = "throw" THEN 0 ELSE 1)

GenShortCircuit(s, n) ==
  LET Right(t) == Land(Gen(t, B(n), ""), Here(t))
  IN Gives(Right(Jump(Gen(s, A(n), ""), Tok(n), 0)), 1)

\* An instruction behind one or two operands, and two trees whose values stay.
ThenOp(t, n, k) == Gives(Ins(t, Tok(n), 0), t.n - k)
AndOp(t, n) == Gives(Ins(Gen(t, B(n), ""), IF Tok(n) = "ADD" THEN Plus(A(n), B(n)) ELSE Tok(n), 0), t.n)
InRow(t, n, lv) == LET Sum(u) == Gives(u, t.n + u.n) IN Sum(Gen(t, B(n), lv))

(* do_docode2; lv = "l" asks for the lvalue *)
Gen(s, n, lv) ==
  CASE n = Nil -> Gives(s, 0)
    [] lv = "l" /\ Tok(n) \notin {"LOCAL", "GLOBAL"} -> Gives(InsInt(Wrong(s), 0), 1)
    [] Tok(n) \in {"LOCAL", "GLOBAL"} ->
         Gives(Ins(s, IF lv = "l" THEN "PUSH_" \o Tok(n) \o "_LVALUE" ELSE Tok(n), n[2]), 1)
    [] Tok(n) = "NUM" -> Gives(InsInt(s, n[2]), 1)
    [] Tok(n) = "ARR" -> Gives(Ins(s, "CONSTANT", n[2]), 1)
    [] Tok(n) = "?" -> GenCond(s, n)
    [] Tok(n) \in Assigns -> GenAssign(s, n)
    [] Tok(n) \in {"LAND", "LOR"} -> GenShortCircuit(s, n)
    [] Tok(n) \in BinOps \cup {"EQ", "NE", "ADD"} -> AndOp(Gen(s, A(n), ""), n)
    [] Tok(n) \in {"INC", "DEC", "POST_INC", "POST_DEC"} -> ThenOp(Gen(s, A(n), "l"), n, 0)
    [] Tok(n) \in {"INC_AND_POP", "DEC_AND_POP"} -> ThenOp(Gen(s, A(n), "l"), n, 1)
    [] Tok(n) \in {"NOT", "COMPL", "NEGATE"} -> ThenOp(Gen(s, A(n), ""), n, 0)
    [] Tok(n) = "FOR" -> GenFor(s, n)
    [] Tok(n) = " " -> InRow(Gen(s, A(n), ""), n, "l")
    [] Tok(n) \in {"FOREACH", "INC_LOOP", "DEC_LOOP"} -> GenLoop(s, n)
    [] Tok(n) \in {"DO", "BRANCH"} -> GenDo(s, n)
    [] Tok(n) = "VOID" -> Gives(Popped(Gen(s, A(n), "")), 0)
    [] Tok(n) = "EFUN" -> GenEfun(s, n)
    [] Tok(n) = "{" -> Gives(Popped(Gen(Popped(Gen(s, A(n), "")), B(n), "")), 0)
    [] Tok(n) = "ARG_LIST" -> InRow(Gen(s, A(n), ""), n, lv)
    [] Tok(n) = "SWITCH" -> GenSwitch(s, n)
    [] Tok(n) = "CASE" -> GenCase(s, n)
    [] Tok(n) = "DEFAULT" -> GenDefault(s)
    [] Tok(n) = "BREAK" -> GenBreak(s)
    [] Tok(n) = "CONTINUE" -> GenContinue(s)
    [] Tok(n) = "RETURN" -> GenReturn(s, n)
    [] Tok(n) = "CATCH" -> GenCatch(s, n)

(* docode, as dooptcode calls it *)
Compiled(n) == Popped(Gen(Start, n, ""))
=============================================================================

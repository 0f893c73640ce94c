------------------------------- MODULE Trees -------------------------------
(***************************************************************************)
(* The parse trees of LPC functions (struct node of las.h) and what las.c  *)
(* computes about one: its flags (opt_info), which variables a part reads  *)
(* before it writes them, and whether one part depends on another.         *)
(*                                                                         *)
(* A tree is Nil, a leaf <<token, value>> or a node <<token, a, b>>; the   *)
(* tokens keep the names of the code without their F_.  A call of an efun  *)
(* is <<"EFUN", name, arguments>>, a cast to void <<"VOID", tree, Nil>>,   *)
(* {}-blocks, conditions and the pairs below '?' and the loops are "{",    *)
(* "?", ":" and " " as in the code.  Every variable is declared int but    *)
(* the ones foreach runs over, so types play no part beyond this.          *)
(* lv is needlval: "" for a value, "change" and "over" for an lvalue that  *)
(* is read and written, or only written, as the OPT_LVALUE flags tell.     *)
(***************************************************************************)
EXTENDS Integers, Sequences, FiniteSets, SequencesExt

Nil == <<>>
Node(t, a, b) == <<t, a, b>>
Num(i) == <<"NUM", i>>
Arr(s) == <<"ARR", s>>
Loc(i) == <<"LOCAL", i>>
Glob(i) == <<"GLOBAL", i>>
Efun(f, args) == <<"EFUN", f, args>>
Void(n) == <<"VOID", n, Nil>>

Tok(n) == IF n = Nil THEN "NIL" ELSE n[1]
IsLeaf(n) == Tok(n) \in {"NUM", "ARR", "LOCAL", "GLOBAL", "BREAK", "CONTINUE", "DEFAULT"}
A(n) == n[2]
B(n) == n[3]

Incs == {"INC", "POST_INC", "INC_AND_POP"}
Decs == {"DEC", "POST_DEC", "DEC_AND_POP"}
Loops == {"FOR", "INC_LOOP", "DEC_LOOP", "FOREACH"}
Assigns == {"ASSIGN", "ASSIGN_AND_POP"}
(* Efuns: what func_spec.c says of them, with the lfun calls of a program  *)
(* as "emit", which returns its argument and does something the world sees *)
SideEffect(f) == f \in {"emit", "throw"}

(* node_is_true and node_is_false: nothing but a constant is either        *)
IsTrue(n) == Tok(n) = "ARR" \/ (Tok(n) = "NUM" /\ n[2] # 0)
IsFalse(n) == Tok(n) = "NUM" /\ n[2] = 0

(* The children in the order do_optimize visits them, with their needlval  *)
Kids(n, lv) ==
  LET v == <<A(n), "">>
      w == <<B(n), "">>
  IN CASE IsLeaf(n) \/ n = Nil -> <<>>
       [] Tok(n) = "EFUN" -> <<w>>
       [] Tok(n) \in Incs \cup Decs -> << <<A(n), "change">> >>
       [] Tok(n) \in Assigns -> <<v, <<B(n), "over">> >>
       [] Tok(n) = " " -> <<v, <<B(n), "change">> >>
       [] Tok(n) \in {"{", "ARG_LIST"} -> <<v, <<B(n), lv>> >>
       [] Tok(n) \in Loops \cup {"BRANCH", "DO", "CASE", "SWITCH", "RETURN"} -> <<v, w>>
       [] OTHER -> << <<A(n), lv>>, <<B(n), lv>> >>

(* opt_info.  "CONST" is the one flag both children must have; "COULD" is  *)
(* OPT_COULD_BE_CONST, "TRY" OPT_TRY_OPTIMIZE, "LV" either lvalue flag.    *)
Own == {"COULD", "LV", "CONST"}
RECURSIVE Flags(_, _)
Flags(n, lv) ==
  LET kids == Kids(n, lv)
      Kid(i, stops) == IF Len(kids) < i THEN {"CONST"} ELSE Flags(kids[i][1], kids[i][2]) \ stops
      first == Kid(1, IF Tok(n) \in {"BRANCH", "DO"} THEN {"CONT", "BREAK"} ELSE {})
      second == Kid(2, IF Tok(n) \in Loops THEN {"CONT", "BREAK"}
                       ELSE IF Tok(n) = "SWITCH" THEN {"CASE", "BREAK"} ELSE {})
      own == CASE Tok(n) = "LOCAL" -> IF lv = "" THEN {} ELSE {"LOCAL_ASSIGN"}
               [] Tok(n) = "GLOBAL" -> IF lv = "" THEN {"GLOBAL_DEPEND"} ELSE {"GLOBAL_ASSIGN"}
               [] Tok(n) = "BREAK" -> {"BREAK"}
               [] Tok(n) = "CONTINUE" -> {"CONT"}
               [] Tok(n) = "RETURN" -> {"RETURN"}
               [] Tok(n) \in {"CASE", "DEFAULT"} -> {"CASE"}
               [] Tok(n) = "EFUN" -> IF SideEffect(n[2]) THEN {"SIDE_EFFECT"} ELSE {"CONST"}
               [] OTHER -> {"CONST"}
      tries == Tok(n) \notin {"NUM", "ARR", "{", "ARG_LIST"}
      could == ~(Tok(n) = "EFUN" /\ SideEffect(n[2]))
  IN IF n = Nil THEN {"CONST"}
     ELSE (own \cap first \cap second \cap {"CONST"})
          \cup ((own \cup first \cup second) \ Own)
          \cup (IF tries THEN {"TRY"} ELSE {})
          \cup (IF could THEN {"COULD"} ELSE {})
          \cup (IF lv = "" THEN {} ELSE {"LV"})

Jumps == {"CASE", "CONT", "BREAK", "RETURN"}
Effects == {"SIDE_EFFECT", "LOCAL_ASSIGN", "GLOBAL_ASSIGN"} \cup Jumps

IsConst(n, lv) ==
  LET f == Flags(n, lv)
  IN "CONST" \in f /\ f \cap Effects = {}

(* find_used_variables: in the order things happen, a variable is "used"   *)
(* when it is read first, "blocked" when it is overwritten first; branches *)
(* are joined by or.  noblock: inside a switch nothing is sure to happen.  *)
Fresh == [v \in {"LOCAL", "GLOBAL"} \X (0..3) |-> "unused"]
Joined(p, q) ==
  [v \in DOMAIN p |-> IF "used" \in {p[v], q[v]} THEN "used"
                      ELSE IF "unused" \in {p[v], q[v]} THEN "unused" ELSE "blocked"]
RECURSIVE Used(_, _, _, _)
Used(n, lv, p, noblock) ==
  LET Then(m, q, nb) == Used(m, "", q, nb)
  IN CASE Tok(n) \in {"LOCAL", "GLOBAL"} ->
            IF p[n] # "unused" THEN p
            ELSE IF lv # "over" THEN [p EXCEPT ![n] = "used"]
            ELSE IF noblock THEN p ELSE [p EXCEPT ![n] = "blocked"]
       [] Tok(n) = "?" ->
            LET q == Then(A(n), p, noblock)
            IN Joined(Used(A(B(n)), lv, q, noblock), Used(B(B(n)), lv, q, noblock))
       [] Tok(n) \in Loops ->
            LET q == Then(A(n), p, noblock) IN Joined(q, Then(B(n), q, noblock))
       [] Tok(n) = "SWITCH" ->
            LET q == Then(A(n), p, noblock) IN Joined(q, Then(B(n), q, TRUE))
       [] Tok(n) = "DO" ->
            Then(B(n), Joined(p, Then(A(n), p, noblock)), noblock)
       [] OTHER ->
            LET kids == Kids(n, lv)
                q == Used(kids[1][1], kids[1][2], p, noblock)
            IN CASE kids = <<>> -> p
                 [] Len(kids) = 1 -> q
                 [] OTHER -> Used(kids[2][1], kids[2][2], q, noblock)

(* find_written_vars *)
RECURSIVE Written(_, _)
Written(n, lv) ==
  IF Tok(n) \in {"LOCAL", "GLOBAL"} THEN (IF lv = "" THEN {} ELSE {n})
  ELSE UNION {Written(k[1], k[2]) : k \in Range(Kids(n, lv))}

(* depend_p2, depend_p3 and depend_p: 1 if a depends on b.  A part with a  *)
(* side effect disturbs every part that could not be a constant.           *)
DependsOnVars(a, b) ==
  /\ a # Nil /\ b # Nil /\ ~IsConst(a, "")
  /\ LET used == Used(a, "", Fresh, FALSE)
     IN \E v \in Written(b, "") : used[v] = "used"

RECURSIVE DependsOnWorld(_, _)
DependsOnWorld(a, lv) ==
  /\ a # Nil /\ ~IsConst(a, lv)
  /\ \/ "COULD" \notin Flags(a, lv)
     \/ \E k \in Range(Kids(a, lv)) : DependsOnWorld(k[1], k[2])

Depends(a, b) ==
  /\ b # Nil
  /\ \/ DependsOnVars(a, b)
     \/ "SIDE_EFFECT" \in Flags(b, "") /\ DependsOnWorld(a, "")

(* cntargs: how many values a statement may leave on the stack             *)
RECURSIVE CountArgs(_)
CountArgs(n) ==
  CASE Tok(n) \in {"NIL", "ASSIGN_AND_POP", "INC_AND_POP", "DEC_AND_POP", "{", "VOID"} -> 0
    [] Tok(n) = "FOREACH" -> 3
    [] Tok(n) \in {"INC_LOOP", "DEC_LOOP"} -> 2
    [] Tok(n) \in {" ", "ARG_LIST"} -> CountArgs(A(n)) + CountArgs(B(n))
    [] OTHER -> 1

(* Places in a tree: a path of 2 (the a side) and 3 (the b side)           *)
RECURSIVE At(_, _)
At(n, path) == IF path = <<>> THEN n ELSE At(n[Head(path)], Tail(path))
RECURSIVE Put(_, _, _)
Put(n, path, m) ==
  IF path = <<>> THEN m ELSE [n EXCEPT ![Head(path)] = Put(@, Tail(path), m)]

(* last_cmd: the path of the last statement of a block, {} when there is   *)
(* none.  Both sides test the a side for ARG_LIST, as the code does.       *)
RECURSIVE LastCmd(_)
LastCmd(n) ==
  LET Side(i) ==
        IF n[i] = Nil THEN {}
        ELSE IF Tok(n[i]) \notin {"{", "VOID"} /\ Tok(A(n)) # "ARG_LIST" THEN {<<i>>}
        ELSE {<<i>> \o p : p \in LastCmd(n[i])}
  IN CASE n = Nil -> {}
       [] Tok(n) = "VOID" -> {<<2>> \o p : p \in LastCmd(A(n))}
       [] Tok(n) \notin {"{", "ARG_LIST"} -> {<<>>}
       [] OTHER -> IF Side(3) # {} THEN Side(3) ELSE Side(2)
=============================================================================

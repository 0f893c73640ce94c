------------------------------ MODULE Compiler ------------------------------
(***************************************************************************)
(* A function is compiled (dooptcode of las.c) and run (eval_instruction   *)
(* of interpret.c).  The initial states choose the tree, and whether the   *)
(* optimizer takes part; then every step executes one instruction.         *)
(*                                                                         *)
(* The stack holds what an expression has pushed above the local variables *)
(* of the function, which are in loc.  Its entries are <<"n", int>>,       *)
(* <<"a", array>> and <<"l", variable>> for an lvalue.  What a caught      *)
(* runtime error leaves as its message is the number 1.                    *)
(***************************************************************************)
EXTENDS CodeGen, Optimizer

CONSTANTS Trees,      \* the functions to compile
          Locals,     \* the values their arguments and locals start with
          Globals,    \* and the variables of the object
          MaxCost     \* max_eval_cost: jumps a run may take

VARIABLES tree, opt,  \* what is compiled, and whether the optimizer took part
          prog,       \* the outcome of the code generator
          pc, stack, loc, glob,
          marks,      \* mark_sp: stack heights under calls with any number of arguments
          frames,     \* the catches being executed
          out,        \* what the lfun "emit" did, in order
          cost,       \* eval_cost, counted in jumps
          seen,       \* the heights of the stack at each address so far
          status      \* "run", "done", "error" (uncaught) or "rejected"

mem == <<loc, glob>>
vars == <<tree, opt, prog, pc, stack, loc, glob, marks, frames, out, cost, seen, status>>

(* dooptcode; a tree with an error in it is not run *)
Program ==
  LET Kept(s) == [code |-> s.code, sws |-> s.sws, err |-> s.err]
  IN [t \in Trees |-> [o \in BOOLEAN |-> Kept(Compiled(IF o THEN Optimized(t) ELSE t))]]

Init ==
  /\ tree \in Trees
  /\ opt \in BOOLEAN
  /\ prog = Program[tree][opt]
  /\ pc = 1 /\ stack = <<>> /\ loc = Locals /\ glob = Globals
  /\ marks = <<>> /\ frames = <<>> /\ out = <<>> /\ cost = 0 /\ seen = {}
  /\ status = IF prog.err THEN "rejected" ELSE "run"


Op == prog.code[pc][1]
X == prog.code[pc][2]
Running(ops) == status = "run" /\ Op \in ops
N(i) == <<"n", i>>
Depth == Len(stack)
Top(k) == stack[Depth - k]              \* Top(0) is *sp, Top(1) is sp[-1]
Drop(k) == SubSeq(stack, 1, Depth - k)
Next1 == pc' = pc + 1
TypedInt(v) == v[1] = "n"
Zero(v) == v = N(0)
Still(vs) == UNCHANGED <<vs, tree, opt, prog, status>>
SetVar(var, v) ==
  IF var[1] = "LOCAL" THEN loc' = [loc EXCEPT ![var[2]] = v] /\ UNCHANGED glob
  ELSE glob' = [glob EXCEPT ![var[2]] = v] /\ UNCHANGED loc
Var(var) == IF var[1] = "LOCAL" THEN loc[var[2]] ELSE glob[var[2]]

(* Mutants: the limit is not looked at; jumps cost nothing *)
ChargeUnchecked == cost' = cost + 1 /\ cost < MaxCost + 5
ChargeNothing == cost' = cost /\ cost < MaxCost

(* check_eval_cost, at every jump *)
Charge == cost' = cost + 1 /\ cost < MaxCost

(* Constants: what ins_int packed is unpacked *)
Unpacked(op, x) ==
  CASE op = "CONST0" -> 0
    [] op = "CONST1" -> 1
    [] op = "CONST_1" -> -1
    [] op = "BYTE" -> x + 2
    [] op = "NEG_BYTE" -> -x - 2
    [] op \in {"SHORT", "NUMBER"} -> x
Constants == {"CONST0", "CONST1", "CONST_1", "BYTE", "NEG_BYTE", "SHORT", "NUMBER"}

PushConstant ==
  /\ Running(Constants \cup {"CONSTANT"})
  /\ stack' = Append(stack, IF Op = "CONSTANT" THEN <<"a", X>> ELSE N(Unpacked(Op, X)))
  /\ Next1 /\ Still(<<mem, marks, frames, out, cost>>)

PushVariable ==
  /\ Running({"LOCAL", "GLOBAL", "PUSH_LOCAL_LVALUE", "PUSH_GLOBAL_LVALUE"})
  /\ stack' = Append(stack, CASE Op = "LOCAL" -> N(loc[X])
                              [] Op = "GLOBAL" -> N(glob[X])
                              [] Op = "PUSH_LOCAL_LVALUE" -> <<"l", Loc(X)>>
                              [] Op = "PUSH_GLOBAL_LVALUE" -> <<"l", Glob(X)>>)
  /\ Next1 /\ Still(<<mem, marks, frames, out, cost>>)

(* F_PUSH_LTOSVAL *)
PushThroughLvalue ==
  /\ Running({"PUSH_LTOSVAL"})
  /\ stack' = Append(stack, N(Var(Top(0)[2])))
  /\ Next1 /\ Still(<<mem, marks, frames, out, cost>>)

Compute ==
  /\ Running(ArithOps \cup {"ADD_INT"})
  /\ ~Fails(Op, Top(0)[2])
  /\ stack' = Append(Drop(2), N(Arith(Op, Top(1)[2], Top(0)[2])))
  /\ Next1 /\ Still(<<mem, marks, frames, out, cost>>)

ComputeUnary ==
  /\ Running({"NOT", "COMPL", "NEGATE"})
  /\ stack' = Append(Drop(1), N(Unary(Op, Top(0)[2])))
  /\ Next1 /\ Still(<<mem, marks, frames, out, cost>>)

(* f_assign and f_assign_and_pop go through the lvalue under the value,    *)
(* F_ASSIGN_LOCAL and its like name their variable                         *)
Assign ==
  /\ Running({"ASSIGN", "ASSIGN_AND_POP"})
  /\ SetVar(Top(1)[2], Top(0)[2])
  /\ stack' = IF Op = "ASSIGN" THEN Append(Drop(2), Top(0)) ELSE Drop(2)
  /\ Next1 /\ Still(<<marks, frames, out, cost>>)

AssignVariable ==
  /\ Running({"ASSIGN_LOCAL", "ASSIGN_GLOBAL", "ASSIGN_AND_POP_LOCAL", "ASSIGN_AND_POP_GLOBAL"})
  /\ SetVar(<<IF Op \in {"ASSIGN_LOCAL", "ASSIGN_AND_POP_LOCAL"} THEN "LOCAL" ELSE "GLOBAL", X>>, Top(0)[2])
  /\ stack' = IF Op \in {"ASSIGN_LOCAL", "ASSIGN_GLOBAL"} THEN stack ELSE Drop(1)
  /\ Next1 /\ Still(<<marks, frames, out, cost>>)

Step ==
  /\ Running(Incs \cup Decs)
  /\ LET var == Top(0)[2]
         old == Var(var)
         new == IF Op \in Incs THEN old + 1 ELSE old - 1
     IN /\ SetVar(var, new)
        /\ stack' = CASE Op \in {"INC", "DEC"} -> Append(Drop(1), N(new))
                      [] Op \in {"POST_INC", "POST_DEC"} -> Append(Drop(1), N(old))
                      [] OTHER -> Drop(1)
  /\ Next1 /\ Still(<<marks, frames, out, cost>>)

PopValues ==
  /\ Running({"POP_VALUE", "POP_N_ELEMS"})
  /\ stack' = Drop(IF Op = "POP_VALUE" THEN 1 ELSE X)
  /\ Next1 /\ Still(<<mem, marks, frames, out, cost>>)

Branch ==
  /\ Running({"BRANCH", "BRANCH_WHEN_ZERO", "BRANCH_WHEN_NON_ZERO"})
  /\ Charge
  /\ LET taken == CASE Op = "BRANCH" -> TRUE
                    [] Op = "BRANCH_WHEN_ZERO" -> Zero(Top(0))
                    [] OTHER -> ~Zero(Top(0))
     IN pc' = IF taken THEN X ELSE pc + 1
  /\ stack' = IF Op = "BRANCH" THEN stack ELSE Drop(1)
  /\ Still(<<mem, marks, frames, out>>)

(* F_LAND and F_LOR keep the value when they jump *)
ShortCircuit ==
  /\ Running({"LAND", "LOR"})
  /\ IF (Op = "LAND") = Zero(Top(0))
     THEN pc' = X /\ stack' = stack
     ELSE Next1 /\ stack' = Drop(1)
  /\ Still(<<mem, marks, frames, out, cost>>)

(* F_SWITCH: search_alist gives the first label not below the value; it    *)
(* fits when it is the value, or the end of a range                        *)
SwitchJump ==
  /\ Running({"SWITCH"})
  /\ LET table == prog.sws[X]
         above == {c \in table.cases : c.label >= Top(0)[2]}
         first == CHOOSE c \in above : \A d \in above : c.label <= d.label
     IN pc' = IF above # {} /\ (first.label = Top(0)[2] \/ first.kind = 2) THEN first.at ELSE table.default
  /\ stack' = Drop(1)
  /\ Still(<<mem, marks, frames, out, cost>>)

(* The counting loops: bound and lvalue stay below *)
CountLoop ==
  /\ Running({"INC_LOOP", "DEC_LOOP"})
  /\ Charge
  /\ LET var == Top(0)[2]
         new == IF Op = "INC_LOOP" THEN Var(var) + 1 ELSE Var(var) - 1
         more == IF Op = "INC_LOOP" THEN new < Top(1)[2] ELSE new > Top(1)[2]
     IN SetVar(var, new) /\ pc' = IF more THEN X ELSE pc + 1
  /\ Still(<<stack, marks, frames, out>>)

EachLoop ==
  /\ Running({"FOREACH"})
  /\ Charge
  /\ LET i == Top(0)[2]
         items == Top(2)[2]
     IN IF i < Len(items)
        THEN /\ SetVar(Top(1)[2], items[i + 1])
             /\ stack' = Append(Drop(1), N(i + 1)) /\ pc' = X
        ELSE UNCHANGED <<mem, stack>> /\ Next1
  /\ Still(<<marks, frames, out>>)

Mark ==
  /\ Running({"MARK"})
  /\ marks' = Append(marks, Depth)
  /\ Next1 /\ Still(<<mem, stack, frames, out, cost>>)

(* f_sum on ints: the arguments down to the mark *)
Sum ==
  /\ Running({"SUM"})
  /\ LET args == SubSeq(stack, Last(marks) + 1, Depth)
     IN stack' = Append(SubSeq(stack, 1, Last(marks)), N(FoldLeft(LAMBDA s, v : s + v[2], 0, args)))
  /\ marks' = Front(marks)
  /\ Next1 /\ Still(<<mem, frames, out, cost>>)

(* A call of the lfun "emit" *)
Emit ==
  /\ Running({"emit"})
  /\ out' = Append(out, Top(0)[2])
  /\ Next1 /\ Still(<<mem, stack, marks, frames, cost>>)

(* F_CATCH pushes a context; the code it catches for is a call of          *)
(* eval_instruction, which F_DUMB_RETURN ends                              *)
Catch ==
  /\ Running({"CATCH"})
  /\ frames' = Append(frames, [pc |-> X, sp |-> Depth, marks |-> marks])
  /\ Next1 /\ Still(<<mem, stack, marks, out, cost>>)

Leave(v) ==
  LET f == Last(frames)
  IN /\ pc' = f.pc /\ stack' = Append(SubSeq(stack, 1, f.sp), v)
     /\ marks' = f.marks /\ frames' = Front(frames)

DumbReturn ==
  /\ Running({"DUMB_RETURN"})
  /\ Leave(N(0))
  /\ Still(<<mem, out, cost>>)

(* throw, division by zero and a run that costs too much: to the innermost *)
(* catch, or out of the function                                           *)
Error ==
  /\ \/ Running({"throw"})
     \/ Running({"DIVIDE", "MOD"}) /\ Fails(Op, Top(0)[2])
     \/ Running({"BRANCH", "BRANCH_WHEN_ZERO", "BRANCH_WHEN_NON_ZERO", "INC_LOOP", "DEC_LOOP", "FOREACH"})
        /\ cost >= MaxCost
  /\ IF frames # <<>>
     THEN Leave(IF Op = "throw" THEN Top(0) ELSE N(1)) /\ UNCHANGED status
     ELSE status' = "error" /\ UNCHANGED <<pc, stack, marks, frames>>
  /\ UNCHANGED <<mem, out, cost, tree, opt, prog>>

(* The function returns the value on top; what loops had left below it and *)
(* its frame go                                                            *)
Return ==
  /\ Running({"RETURN"})
  /\ frames = <<>>
  /\ status' = "done"
  /\ stack' = <<Top(0)>>
  /\ UNCHANGED <<pc, mem, marks, frames, out, cost, tree, opt, prog>>

Stop == status # "run" /\ UNCHANGED vars

Execute ==
  \/ PushConstant \/ PushVariable \/ PushThroughLvalue \/ Compute \/ ComputeUnary
  \/ Assign \/ AssignVariable \/ Step \/ PopValues \/ Branch \/ ShortCircuit
  \/ SwitchJump \/ CountLoop \/ EachLoop \/ Mark \/ Sum \/ Emit
  \/ Catch \/ DumbReturn \/ Error \/ Return

Next ==
  \/ Execute /\ seen' = IF status' = "run" THEN seen \cup {<<pc', Len(stack')>>} ELSE seen
  \/ Stop

Spec == Init /\ [][Next]_vars /\ WF_vars(Next)

-----------------------------------------------------------------------------
Meant == Run(tree, [loc |-> Locals, glob |-> Globals, out |-> <<>>, fuel |-> MaxCost \div 4])
(* The same effects in the same order, the same value or error. A function *)
(* whose loops mean more turns than a quarter of MaxCost (a turn takes up  *)
(* to four jumps) is only run until its cost ends it.                      *)
AsMeant ==
  Meant.k # "stuck" =>
  /\ glob = Meant.env.glob /\ out = Meant.env.out
  /\ (status = "done") = (Meant.k = "ret")
  /\ status = "done" => Top(0) = N(Meant.v)

TypeOK ==
  /\ status \in {"run", "done", "error", "rejected"}
  /\ cost \in 0..MaxCost
  /\ \A i \in DOMAIN stack : stack[i][1] \in {"n", "a", "l"}
  /\ \A i \in DOMAIN frames : frames[i].sp <= Depth

(* The generated code of every function does what the function means:      *)
(* jumps, loops, switch tables, short circuits, catches and the packed     *)
(* constants agree with the language.                                      *)
CodeMeansTree == status \in {"done", "error"} /\ ~opt => AsMeant

(* Nothing the optimizer rewrites or removes can be seen from outside      *)
OptimizerKeepsMeaning == status \in {"done", "error"} /\ opt => AsMeant

(* Every jump of the finished code has been patched and goes to an         *)
(* instruction, also where jumps to jumps were shortened                   *)
JumpOps == {"BRANCH", "BRANCH_WHEN_ZERO", "BRANCH_WHEN_NON_ZERO", "LAND", "LOR", "CATCH",
            "INC_LOOP", "DEC_LOOP", "FOREACH"}
JumpsLand ==
  ~prog.err =>
    /\ \A a \in DOMAIN prog.code : prog.code[a][1] \in JumpOps => prog.code[a][2] \in DOMAIN prog.code
    /\ \A s \in Range(prog.sws) : \A t \in {c.at : c \in s.cases} \cup {s.default} : t \in DOMAIN prog.code

(* Whatever way a run took through loops, switches, conditions and catches *)
(* to an instruction, it finds the stack as high as any other way: nothing *)
(* is left behind by a turn of a loop or a branch, nothing popped twice.   *)
StackBalanced == \A p, q \in seen : p[1] = q[1] => p[2] = q[2]

(* break, continue, case and default are refused exactly where they have   *)
(* nothing to refer to                                                     *)
RejectsMisplaced == ~opt => (prog.err <=> ~WellPlaced(tree, FALSE, FALSE, FALSE))

(* Every run ends, by its value, an error or the evaluation cost           *)
RunEnds == <>(status # "run")

(* What the code generator gives the interpreter is a program it can run:  *)
(* jumps that land, a stack that balances, no statement out of place.      *)
CodeSound == TypeOK /\ JumpsLand /\ StackBalanced /\ RejectsMisplaced
=============================================================================

------------------------------- MODULE Errors -------------------------------
(***************************************************************************)
(* Errors and the contexts that catch them: push_pop_error_context, catch, *)
(* throw and safe_apply (src/src/interpret.c), va_error and throw_error    *)
(* (src/src/simulate.c), constant expressions (las.c) and the expressions  *)
(* of #if (lex.c).  stack holds the frames of C; csp is the control stack  *)
(* of the interpreter, which is unwound by hand after every longjmp.       *)
(***************************************************************************)
EXTENDS Naturals, SequencesExt

CONSTANTS
  Objects, NoObject,   \* NoObject as current_object: the driver, the master
  MaxTrace,            \* frames of the control stack
  MaxCost,             \* max_eval_cost, in operations
  Releases,            \* bound of the model: socket_release() in one turn
  Contexts             \* of "catch", "safe", "eval", "calc": those in use

ASSUME NoObjectAssumption == NoObject \notin Objects
ASSUME BoundsAssumption   == {MaxTrace, MaxCost} \subseteq Nat \ {0} /\ Releases \in Nat
ASSUME ContextsAssumption == Contexts \subseteq {"catch", "safe", "eval", "calc"}

VARIABLES
  stack,           \* frames of C, with what was true when they were entered
  csp,             \* control_stack: the registers to go back to
  ecsp,            \* the error contexts that were pushed
  buf, exists,     \* error_recovery_context: the frame it leads to, its kind
  current_object, command_giver,
  catch_value,     \* "one", "string", "other"
  num_error, current_heart_beat, eval_cost, releases, fatal

machine == <<csp, current_object, command_giver>>
context == <<ecsp, buf, exists>>
vars == <<stack, machine, context, catch_value, num_error, current_heart_beat,
          eval_cost, releases, fatal>>

Top      == Last(stack)
Kind     == IF stack = <<>> THEN "backend" ELSE Top.kind
Running  == ~ fatal /\ Kind \in {"function", "catch"}
Level(k) == CASE k \in {"catch", "eval", "calc"} -> 2 [] k = "safe" -> 3 [] OTHER -> 1
IsContext(f) == f.kind \in {"catch", "safe", "eval", "calc"}

Registers == [ob |-> current_object, giver |-> command_giver]
Frame(k)  == [kind |-> k, ob |-> current_object, giver |-> command_giver, csp |-> Len(csp)]

-----------------------------------------------------------------------------
(* Leaving frames                                                          *)

\* pop_control_stack, down to a depth
PopTo(depth) ==
  /\ csp' = SubSeq(csp, 1, depth)
  /\ IF depth < Len(csp)
     THEN current_object' = csp[depth + 1].ob /\ command_giver' = csp[depth + 1].giver
     ELSE UNCHANGED <<current_object, command_giver>>

\* Mutant: the context stays on the stack of contexts.
ForgetContext ==
  buf' = Last(ecsp).buf /\ exists' = Last(ecsp).exists /\ UNCHANGED ecsp

\* Mutant: the jump buffer of the context around is not put back.
KeepBuffer ==
  exists' = Last(ecsp).exists /\ ecsp' = Front(ecsp) /\ UNCHANGED buf

PopContext ==
  /\ buf' = Last(ecsp).buf /\ exists' = Last(ecsp).exists /\ ecsp' = Front(ecsp)

\* Mutant: the frame of the catch itself stays on the control stack.
JumpShort ==
  IF buf = 0
  THEN /\ stack' = <<>> /\ csp' = <<>> /\ exists' = 1
       /\ current_object' = NoObject /\ command_giver' = NoObject
       /\ UNCHANGED <<ecsp, buf>>
  ELSE stack' = SubSeq(stack, 1, buf - 1) /\ PopContext /\ PopTo(Last(ecsp).csp)

\* longjmp to the main loop, which clears the state, or to the frame that set
\* the buffer, which pops a context and the frames above it.
Jump ==
  IF buf = 0
  THEN /\ stack' = <<>> /\ csp' = <<>> /\ exists' = 1
       /\ current_object' = NoObject /\ command_giver' = NoObject
       /\ UNCHANGED <<ecsp, buf>>
  ELSE /\ stack' = SubSeq(stack, 1, buf - 1)
       /\ PopContext
       /\ IF stack[buf].kind = "eval"
          THEN /\ csp' = SubSeq(csp, 1, Last(ecsp).csp - 1)
               /\ current_object' = stack[buf].ob /\ command_giver' = stack[buf].giver
          ELSE PopTo(Last(ecsp).csp - 1)

-----------------------------------------------------------------------------
(* Entering frames                                                         *)

\* push_control_stack with room for it, and a function of LPC code in o
Apply(s, o) ==
  /\ stack' = Append(s, Frame("function"))
  /\ csp' = Append(csp, Registers) /\ current_object' = o
  /\ UNCHANGED command_giver

\* A frame that pushes the control stack and an error context
Enter(k) ==
  /\ stack' = Append(stack, Frame(k))
  /\ csp' = Append(csp, Registers)
  /\ ecsp' = Append(ecsp, [buf |-> buf, exists |-> exists, csp |-> Len(csp) + 1])
  /\ exists' = Level(k)
  /\ buf' = IF k = "calc" THEN buf     \* lex.c 1808: a jump buffer of its own
            ELSE Len(stack) + 1
  /\ UNCHANGED command_giver

\* Mutant: an error gives the cost back, caught or not.
ErrorRefunding ==
  IF exists = 2
  THEN /\ Jump /\ catch_value' = "string" /\ eval_cost' = 0
       /\ UNCHANGED <<num_error, fatal>>
  ELSE /\ fatal' = TRUE
       /\ UNCHANGED <<stack, machine, context, catch_value, num_error, eval_cost>>

\* va_error: caught at once, or reported; a caught error of a safe_apply counts
\* as an error in an error all the same.  With no catch the master handles it.
Error ==
  IF exists = 2
  THEN /\ Jump /\ catch_value' = "string"
       /\ UNCHANGED <<num_error, eval_cost, fatal>>
  ELSE IF num_error > 0
  THEN /\ fatal' = TRUE
       /\ UNCHANGED <<stack, machine, context, catch_value, num_error, eval_cost>>
  ELSE /\ eval_cost' = 0 /\ UNCHANGED fatal
       /\ IF exists = 3
          THEN Jump /\ catch_value' = "one" /\ UNCHANGED num_error
          ELSE /\ num_error' = 1
               /\ stack' = stack \o <<Frame("handler"), [Frame("function") EXCEPT !.csp = 0]>>
               /\ csp' = <<[ob |-> NoObject, giver |-> command_giver]>>
               /\ current_object' = NoObject
               /\ UNCHANGED <<command_giver, context, catch_value>>

-----------------------------------------------------------------------------
(* What LPC code does; every step but a return costs                       *)

Operation ==
  /\ Running /\ eval_cost < MaxCost /\ eval_cost' = eval_cost + 1
  /\ UNCHANGED <<num_error, current_heart_beat, fatal>>

Room == Len(csp) < MaxTrace

CallOther(o) ==
  /\ Operation /\ Room /\ Apply(stack, o)
  /\ UNCHANGED <<context, catch_value, releases>>

SetThisPlayer(p) ==
  /\ Operation /\ p # command_giver /\ command_giver' = p
  /\ UNCHANGED <<stack, csp, current_object, context, catch_value, releases>>

Catch ==
  /\ Operation /\ Room /\ "catch" \in Contexts
  /\ Enter("catch") /\ catch_value' = "one"
  /\ UNCHANGED <<current_object, releases>>

\* socket_release calls the new owner by safe_apply_lambda.
SocketRelease(o) ==
  /\ Operation /\ "safe" \in Contexts /\ releases > 0 /\ releases' = releases - 1
  /\ Len(csp) + 1 < MaxTrace
  /\ LET regs == [ob |-> current_object, giver |-> command_giver]
     IN /\ stack' = stack \o <<Frame("safe"), [Frame("function") EXCEPT !.csp = @ + 1]>>
        /\ csp' = csp \o <<regs, regs>>
        /\ ecsp' = Append(ecsp, [buf |-> buf, exists |-> exists, csp |-> Len(csp) + 1])
        /\ exists' = 3 /\ buf' = Len(stack) + 1 /\ current_object' = o
  /\ UNCHANGED <<command_giver, catch_value>>

\* A file is compiled: a constant expression (las.c), or the expression of #if
Compile(k) ==
  /\ Operation /\ Room /\ k \in {"eval", "calc"} \cap Contexts
  /\ Enter(k)
  /\ current_object' = IF k = "eval" THEN NoObject ELSE current_object
  /\ UNCHANGED <<catch_value, releases>>

Evaluating == ~ fatal /\ Kind \in {"eval", "calc"}

\* An error in LPC code, among them too deep recursion and too high a cost
RuntimeError ==
  /\ Running \/ Evaluating
  /\ Error /\ UNCHANGED <<current_heart_beat, releases>>

\* f_throw; without a catch only a string is an error.
Throw(v) ==
  /\ Running
  /\ IF exists > 1
     THEN /\ Jump /\ catch_value' = v /\ UNCHANGED <<num_error, eval_cost, fatal>>
     ELSE IF v = "string" THEN Error
     ELSE /\ catch_value' = v /\ eval_cost < MaxCost /\ eval_cost' = eval_cost + 1
          /\ UNCHANGED <<stack, machine, context, num_error, fatal>>
  /\ UNCHANGED <<current_heart_beat, releases>>

\* The frame that called has its registers back.
Return ==
  /\ Running \/ Evaluating \/ (~ fatal /\ Kind = "safe")
  /\ stack' = Front(stack) /\ PopTo(Len(csp) - 1)
  /\ IF IsContext(Top) THEN PopContext ELSE UNCHANGED context
  /\ UNCHANGED <<catch_value, num_error, current_heart_beat, eval_cost, releases, fatal>>

-----------------------------------------------------------------------------
(* The rest of va_error, and the main loop                                 *)

\* Mutant: the heart beat goes on.
HandledButBeating ==
  /\ ~ fatal /\ Kind = "handler"
  /\ num_error' = 0 /\ Jump
  /\ UNCHANGED <<current_heart_beat, catch_value, eval_cost, releases, fatal>>

\* Mutant: the counter is not taken back when the heart beat is turned off.
HandledKeeping ==
  /\ ~ fatal /\ Kind = "handler"
  /\ IF current_heart_beat
     THEN /\ current_heart_beat' = FALSE /\ Jump /\ UNCHANGED num_error
     ELSE num_error' = 0 /\ Jump /\ UNCHANGED current_heart_beat
  /\ UNCHANGED <<catch_value, eval_cost, releases, fatal>>

\* handle_error is done: a heart beat is turned off and the master told.
Handled ==
  /\ ~ fatal /\ Kind = "handler"
  /\ IF current_heart_beat
     THEN /\ current_heart_beat' = FALSE
          /\ Apply(stack, NoObject)
          /\ UNCHANGED <<context, num_error>>
     ELSE num_error' = 0 /\ Jump /\ UNCHANGED current_heart_beat
  /\ UNCHANGED <<catch_value, eval_cost, releases, fatal>>

Init ==
  /\ stack = <<>> /\ csp = <<>> /\ ecsp = <<>> /\ buf = 0 /\ exists = 1
  /\ current_object = NoObject /\ command_giver = NoObject
  /\ catch_value = "one" /\ num_error = 0 /\ current_heart_beat = FALSE
  /\ eval_cost = 0 /\ releases = Releases /\ fatal = FALSE

\* clear_state, and a function of an object: a call out, input or a heart beat
Turn(o, beat) ==
  /\ ~ fatal /\ Kind = "backend"
  /\ stack' = <<[kind |-> "function", ob |-> NoObject, giver |-> NoObject, csp |-> 0]>>
  /\ csp' = <<[ob |-> NoObject, giver |-> NoObject]>>
  /\ current_object' = o /\ command_giver' \in {o, NoObject}
  /\ eval_cost' = 0 /\ exists' = 1 /\ current_heart_beat' = beat /\ releases' = Releases
  /\ UNCHANGED <<ecsp, buf, catch_value, num_error, fatal>>

Idle == fatal /\ UNCHANGED vars

Lpc ==
  \/ \E o \in Objects : CallOther(o) \/ SetThisPlayer(o) \/ SocketRelease(o)
  \/ Catch \/ Compile("eval") \/ Compile("calc")
  \/ RuntimeError \/ (\E v \in {"string", "other"} : Throw(v)) \/ Return

Next ==
  \/ Lpc \/ Handled \/ (\E o \in Objects, beat \in BOOLEAN : Turn(o, beat))
  \/ Idle

\* Code that runs goes on: the interpreter takes the next instruction.
Spec == Init /\ [][Next]_vars /\ WF_vars(Lpc \/ Handled)

-----------------------------------------------------------------------------
(* Properties                                                              *)

Ctx == {i \in DOMAIN stack : IsContext(stack[i])}

TypeOK ==
  /\ \A i \in DOMAIN stack :
       /\ stack[i].kind \in {"function", "catch", "safe", "eval", "calc", "handler"}
       /\ {stack[i].ob, stack[i].giver} \subseteq Objects \cup {NoObject}
  /\ csp \in Seq([ob : Objects \cup {NoObject}, giver : Objects \cup {NoObject}])
  /\ \A i \in DOMAIN ecsp : ecsp[i].csp \in 1 .. Len(csp)
  /\ exists \in 1 .. 3 /\ num_error \in 0 .. 1 /\ eval_cost \in 0 .. MaxCost
  /\ {current_object, command_giver} \subseteq Objects \cup {NoObject}

\* Whatever way catches, safe applies and constant expressions are left, the
\* contexts that are pushed are those of the frames that wait, the jump buffer
\* leads to the innermost of them, and it is of its kind.
ContextsNest ==
  /\ Len(ecsp) = Cardinality(Ctx)
  /\ buf = IF Ctx = {} THEN 0 ELSE Max(Ctx)
  /\ exists = IF Ctx = {} THEN 1 ELSE Level(stack[Max(Ctx)].kind)

\* A step that leaves the frame of a catch gives back the object and the command
\* giver it was entered with, and the control stack as deep as it was: "the
\* control stack must be restored manually here" (interpret.c 1302).
RestoresRegisters ==
  (\E f \in {"catch", "safe", "eval", "calc"} :
     stack # <<>> /\ Len(stack') < Len(stack) /\ stack' # <<>> /\ stack[Len(stack') + 1].kind = f)
  => LET f == stack[Len(stack') + 1]
     IN current_object' = f.ob /\ command_giver' = f.giver /\ Len(csp') = f.csp

\* Whatever way a context is left, the registers are restored (interpret.c 1302).
CatchRestores == [][RestoresRegisters]_vars

\* The control stack has an entry for every function and context of a stack
\* that has not been reset by va_error.
ControlStackDepth ==
  \A i \in DOMAIN stack :
    (\A j \in i .. Len(stack) : stack[j].kind # "handler")
      => Len(csp) = stack[i].csp + Cardinality(i .. Len(stack))

\* The driver ends only by an error inside handle_error or kill_heart_beat.
FatalOnlyInHandler ==
  /\ fatal => \E i \in DOMAIN stack : stack[i].kind = "handler"
  /\ num_error = Cardinality({i \in DOMAIN stack : stack[i].kind = "handler"})

\* An error that no catch took, in a heart beat, has turned it off when the
\* main loop is back.
BeatStopsAfterError ==
  [][(Kind = "handler" /\ stack' = <<>>) => ~ current_heart_beat']_vars

\* "safe_apply ... not have to worry about causing serious bugs when errors
\* occur in the applied function" (interpret.c 2224): such an error does not
\* end the driver.
SafeApplySurvives ==
  fatal => ~ \E i \in DOMAIN stack : stack[i].kind = "safe" /\ i = buf

\* Every turn of the main loop ends: the cost of code that is caught goes on
\* counting, so that no catch keeps it alive.
TurnEnds == [](stack # <<>> => <>(stack = <<>> \/ fatal))

\* The stack of contexts, the jump buffer, the control stack and the count of
\* errors in errors agree with each other.
ContextsSound == TypeOK /\ ContextsNest /\ ControlStackDepth /\ FatalOnlyInHandler
=============================================================================

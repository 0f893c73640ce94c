---------------------------- MODULE ObjectList ----------------------------
(***************************************************************************)
(* The list of all objects, the list of destructed ones, and the sweep     *)
(* that walks the first, calling reset() and clean_up(), while that code   *)
(* clones and destructs objects (src/src/backend.c 240-340, object.c       *)
(* 99-129, simulate.c 929-1067).  An object's next_all is what follows it  *)
(* in the list it is in now.                                               *)
(***************************************************************************)
EXTENDS Naturals, Sequences, SequencesExt

CONSTANTS
  Objects,   \* LPC objects, or the memory of such
  NoObject   \* the null pointer

ASSUME ObjectsAssumption == NoObject \notin Objects /\ IsFiniteSet(Objects)

VARIABLES
  obj_list, obj_list_destruct,
  life,       \* alive, destructed, or past destruct2: free for another object
  late,       \* objects whose next_reset has passed
  resetted,   \* objects with O_RESET_STATE: not used since their reset
  idle,       \* objects not used for TIME_TO_CLEAN_UP
  cleans,     \* objects with O_WILL_CLEAN_UP
  pc, ob, next_ob, save_reset_state,   \* the sweep and its locals
  present,    \* history: the objects in the list when the sweep began
  visited,    \* history: those of the list the sweep has come to
  derailed    \* history: the sweep was led off the list

lists  == <<obj_list, obj_list_destruct, life>>
flags  == <<late, resetted, idle, cleans>>
locals == <<ob, next_ob, save_reset_state>>
trace  == <<present, visited, derailed>>
vars   == <<lists, flags, pc, locals, trace>>

Sweeping == pc \in {"sweep", "reset", "check", "clean"}

Init ==
  /\ obj_list \in SetToSeqs(Objects) /\ obj_list_destruct = <<>>
  /\ life = [o \in Objects |-> "live"]
  /\ late = {} /\ resetted = {} /\ idle = {} /\ cleans = Objects
  /\ pc = "top" /\ ob = NoObject /\ next_ob = NoObject /\ save_reset_state = FALSE
  /\ present = {} /\ visited = {} /\ derailed = FALSE

-----------------------------------------------------------------------------
(* What LPC code can do: in the main loop, in reset() and in clean_up().   *)

Evaluating == pc \in {"lpc", "reset", "clean"}

\* A call of a function in o: it is in use, and a target for reset again.
Touch(o) ==
  /\ Evaluating /\ life[o] = "live"
  /\ idle' = idle \ {o} /\ resetted' = resetted \ {o}
  /\ UNCHANGED <<lists, late, cleans, pc, locals, trace>>

\* get_empty_object and reset_object(ob, 0) in memory that is free.  An object
\* without create() has never been used: it looks idle from the start.
Clone(o) ==
  /\ Evaluating /\ life[o] = "gone"
  /\ obj_list' = <<o>> \o obj_list /\ life' = [life EXCEPT ![o] = "live"]
  /\ late' = late \ {o} /\ resetted' = resetted \cup {o}
  /\ \E i, c \in {{}, {o}} :
       idle' = (idle \ {o}) \cup i /\ cleans' = (cleans \ {o}) \cup c
  /\ UNCHANGED <<obj_list_destruct, pc, locals, trace>>

\* The sweep loses its way when the object it goes on from is moved to the
\* other list.
Derails(o) == o = next_ob \/ (pc = "clean" /\ o = ob)

\* Mutant: the object stays in the list of all objects.
DestructKeeping(o) ==
  /\ Evaluating /\ life[o] = "live"
  /\ UNCHANGED obj_list
  /\ obj_list_destruct' = <<o>> \o obj_list_destruct
  /\ life' = [life EXCEPT ![o] = "destructed"]
  /\ derailed' = (derailed \/ (Sweeping /\ Derails(o)))
  /\ UNCHANGED <<flags, pc, locals, present, visited>>

Destruct(o) ==
  /\ Evaluating /\ life[o] = "live"
  /\ \E i \in DOMAIN obj_list : obj_list[i] = o /\ obj_list' = RemoveAt(obj_list, i)
  /\ obj_list_destruct' = <<o>> \o obj_list_destruct
  /\ life' = [life EXCEPT ![o] = "destructed"]
  /\ derailed' = (derailed \/ (Sweeping /\ Derails(o)))
  /\ UNCHANGED <<flags, pc, locals, present, visited>>

-----------------------------------------------------------------------------
(* The main loop.                                                          *)

\* Mutant: destructed objects are freed while reset() runs.
RemoveDestructedEarly ==
  /\ pc \in {"top", "reset"}
  /\ obj_list_destruct' = <<>>
  /\ life' = [o \in Objects |-> IF life[o] = "destructed" THEN "gone" ELSE life[o]]
  /\ late' = late \cap ToSet(obj_list) /\ resetted' = resetted \cap ToSet(obj_list)
  /\ idle' = idle \cap ToSet(obj_list) /\ cleans' = cleans \cap ToSet(obj_list)
  /\ pc' = IF pc = "top" THEN "lpc" ELSE pc
  /\ UNCHANGED <<obj_list, locals, trace>>

\* remove_destructed_objects, and the last references on them sooner or later
RemoveDestructed ==
  /\ pc = "top"
  /\ obj_list_destruct' = <<>>
  /\ life' = [o \in Objects |-> IF life[o] = "destructed" THEN "gone" ELSE life[o]]
  /\ late' = late \cap ToSet(obj_list) /\ resetted' = resetted \cap ToSet(obj_list)
  /\ idle' = idle \cap ToSet(obj_list) /\ cleans' = cleans \cap ToSet(obj_list)
  /\ pc' = "lpc"
  /\ UNCHANGED <<obj_list, locals, trace>>

\* No heart beat is due, or no sweep, or the evaluation failed.
NoSweep ==
  /\ pc = "lpc"
  /\ pc' = "top"
  /\ UNCHANGED <<lists, flags, locals, trace>>

\* Mutant: the last object is followed by the first.
AfterCyclic(o) ==
  LET l == IF o \in ToSet(obj_list) THEN obj_list ELSE obj_list_destruct
      i == CHOOSE i \in DOMAIN l : l[i] = o
  IN  IF i = Len(l) THEN l[1] ELSE l[i + 1]

\* next_all of o
After(o) ==
  LET l == IF o \in ToSet(obj_list) THEN obj_list ELSE obj_list_destruct
      i == CHOOSE i \in DOMAIN l : l[i] = o
  IN  IF i = Len(l) THEN NoObject ELSE l[i + 1]

\* Mutant: the sweep begins with the second object.
BeginSweepSecond(l, i) ==
  /\ pc = "lpc" /\ obj_list # <<>>
  /\ late' = late \cup l /\ idle' = idle \cup i
  /\ ob' = After(Head(obj_list)) /\ UNCHANGED next_ob
  /\ pc' = "sweep"
  /\ present' = ToSet(obj_list) /\ visited' = {} /\ derailed' = FALSE
  /\ UNCHANGED <<lists, resetted, cleans, save_reset_state>>

\* A quarter of an hour later.
BeginSweep(l, i) ==
  /\ pc = "lpc" /\ obj_list # <<>>
  /\ late' = late \cup l /\ idle' = idle \cup i
  /\ ob' = Head(obj_list) /\ next_ob' = After(Head(obj_list))
  /\ pc' = "sweep"
  /\ present' = ToSet(obj_list) /\ visited' = {} /\ derailed' = FALSE
  /\ UNCHANGED <<lists, resetted, cleans, save_reset_state>>

-----------------------------------------------------------------------------
(* look_for_objects_to_swap                                                *)

Stop ==
  /\ pc' = "top"
  /\ ob' = NoObject /\ next_ob' = NoObject /\ save_reset_state' = FALSE
  /\ present' = {} /\ visited' = {} /\ derailed' = FALSE

\* The end of a list.
SweepDone ==
  /\ pc = "sweep" /\ ob = NoObject
  /\ Stop
  /\ UNCHANGED <<lists, flags>>

Visit ==
  /\ pc = "sweep" /\ ob # NoObject
  /\ next_ob' = After(ob)
  /\ visited' = visited \cup ({ob} \cap ToSet(obj_list))

ResetDue == ob \in late \ resetted

\* reset_object sets the next reset before it calls reset(), if there is one.
Reset ==
  /\ Visit /\ ResetDue /\ life[ob] = "live"
  /\ late' = late \ {ob}
  /\ \/ pc' = "reset" /\ idle' = idle \ {ob} /\ UNCHANGED resetted
     \/ pc' = "check" /\ resetted' = resetted \cup {ob} /\ UNCHANGED idle
  /\ UNCHANGED <<lists, cleans, ob, save_reset_state, present, derailed>>

NoReset ==
  /\ Visit /\ ~ResetDue
  /\ pc' = "check"
  /\ UNCHANGED <<lists, flags, ob, save_reset_state, present, derailed>>

\* apply() throws: "Apply to fun: reset in destructed object."
ResetDestructed ==
  /\ pc = "sweep" /\ ob # NoObject /\ ResetDue /\ life[ob] # "live"
  /\ late' = late \ {ob}
  /\ Stop
  /\ UNCHANGED <<lists, resetted, idle, cleans>>

ResetReturns ==
  /\ pc = "reset"
  /\ resetted' = resetted \cup {ob}
  /\ pc' = "check"
  /\ UNCHANGED <<lists, late, idle, cleans, locals, trace>>

CleanUpDue == ob \in idle \cap cleans

NoCleanUp ==
  /\ pc = "check" /\ ~CleanUpDue
  /\ ob' = next_ob
  /\ pc' = "sweep"
  /\ UNCHANGED <<lists, flags, next_ob, save_reset_state, trace>>

CleanUp ==
  /\ pc = "check" /\ CleanUpDue /\ life[ob] = "live"
  /\ save_reset_state' = (ob \in resetted)
  /\ idle' = idle \ {ob} /\ resetted' = resetted \ {ob}
  /\ pc' = "clean"
  /\ UNCHANGED <<lists, late, cleans, ob, next_ob, trace>>

CleanUpDestructed ==
  /\ pc = "check" /\ CleanUpDue /\ life[ob] # "live"
  /\ Stop
  /\ UNCHANGED <<lists, flags>>

\* Mutant: the loop does not go on from an object that survived.
CleanUpReturnsAgain ==
  /\ pc = "clean" /\ life[ob] = "live"
  /\ \E c \in {{}, {ob}} : cleans' = cleans \ c
  /\ resetted' = IF save_reset_state THEN resetted \cup {ob} ELSE resetted
  /\ pc' = "sweep"
  /\ UNCHANGED <<lists, late, idle, locals, trace>>

\* If clean_up() returned 0 it is not called again.
CleanUpReturns ==
  /\ pc = "clean" /\ life[ob] = "live"
  /\ \E c \in {{}, {ob}} : cleans' = cleans \ c
  /\ resetted' = IF save_reset_state THEN resetted \cup {ob} ELSE resetted
  /\ ob' = next_ob /\ save_reset_state' = FALSE
  /\ pc' = "sweep"
  /\ UNCHANGED <<lists, late, idle, next_ob, trace>>

\* `continue': the loop goes on with the object that was destructed
CleanUpContinues ==
  /\ pc = "clean" /\ life[ob] # "live"
  /\ pc' = "sweep" /\ save_reset_state' = FALSE
  /\ UNCHANGED <<lists, flags, ob, next_ob, trace>>

\* error() in reset() or clean_up(): the rest of the sweep is given up
SweepError ==
  /\ pc \in {"reset", "clean"}
  /\ Stop
  /\ UNCHANGED <<lists, flags>>

-----------------------------------------------------------------------------
Lpc == \E o \in Objects : Touch(o) \/ Clone(o) \/ Destruct(o)

SweepStep ==
  \/ SweepDone \/ Reset \/ NoReset \/ ResetDestructed \/ ResetReturns
  \/ CleanUp \/ NoCleanUp \/ CleanUpDestructed \/ CleanUpReturns \/ CleanUpContinues
  \/ SweepError

Next ==
  \/ Lpc \/ RemoveDestructed \/ NoSweep
  \/ \E l, i \in SUBSET Objects : BeginSweep(l, i)
  \/ SweepStep

Spec == Init /\ [][Next]_vars

\* The driver goes on executing and every evaluation ends.
FairSpec == Spec /\ WF_vars(SweepStep)

-----------------------------------------------------------------------------
TypeOK ==
  /\ obj_list \in Seq(Objects) /\ IsInjective(obj_list)
  /\ ToSet(obj_list) = {o \in Objects : life[o] = "live"}
  /\ obj_list_destruct \in Seq(Objects) /\ IsInjective(obj_list_destruct)
  /\ ToSet(obj_list_destruct) = {o \in Objects : life[o] = "destructed"}
  /\ life \in [Objects -> {"live", "destructed", "gone"}]
  /\ late \cup resetted \cup idle \cup cleans \subseteq Objects
  /\ pc \in {"top", "lpc", "sweep", "reset", "check", "clean"}
  /\ ob \in Objects \cup {NoObject} /\ next_ob \in Objects \cup {NoObject}
  /\ save_reset_state \in BOOLEAN
  /\ visited \subseteq present /\ present \subseteq Objects /\ derailed \in BOOLEAN

\* The sweep never holds a pointer to memory that was given back, whatever is
\* destructed under it: destruct2 waits for the top of the main loop.
SweepHoldsMemory ==
  Sweeping => \A o \in {ob, next_ob} \cap Objects : life[o] \in {"live", "destructed"}

\* Unless the object it goes on from is destructed, a sweep that comes to its
\* end has visited every object that was there all the time.
SweepVisitsAll ==
  [][SweepDone /\ ~derailed => \A o \in present : life[o] = "live" => o \in visited]_vars

\* A sweep comes to no live object a second time, although `continue' repeats
\* the loop without going on and new objects enter the list.
VisitedOnce == [][Visit /\ life[ob] = "live" => ob \notin visited]_vars

\* The two lists stay apart and whole under the sweep, and its two pointers into
\* them stay good.
SweepSound == TypeOK /\ SweepHoldsMemory

\* The sweep comes to every object that stays, and once.
SweepComplete == SweepVisitsAll /\ VisitedOnce

\* A sweep ends, whatever reset() and clean_up() clone and destruct.
SweepEnds == Sweeping ~> ~Sweeping

\* backend.c:271-274: if the next object is destructed too, "the loop is simply
\* restarted": a sweep that comes to its end has left nobody out.
SweepRestarts ==
  [][SweepDone => \A o \in present : life[o] = "live" => o \in visited]_vars
=============================================================================

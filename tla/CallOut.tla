------------------------------ MODULE CallOut ------------------------------
(***************************************************************************)
(* The call_out queue of the driver (src/src/call_out.c) in the loop that  *)
(* drives it (src/src/backend.c): LPC code schedules functions for later,  *)
(* the heart beat advances the clock and runs what has become due.         *)
(*                                                                         *)
(* The queue is a buffer of pointers whose busy part is its right end:     *)
(* `first' is pending_calls - call_buffer, `num' is num_pending_calls.     *)
(* Times are kept relative to current_time: due[c] = c->time-current_time. *)
(***************************************************************************)
EXTENDS Integers, FiniteSets

CONSTANTS
  Calls,      \* call_out structs; malloc hands out one that is not in use
  Objects,    \* LPC objects
  Functions,  \* LPC function values
  Owner,      \* Owner[f]: the object of function f
  Delays,     \* the delays LPC code asks for, in seconds
  TimeRoom,   \* INT_MAX - current_time: a longer delay overflows c->time
  Elapse,     \* seconds that may pass between two heart beats
  InitSize,   \* first size of call_buffer (20 in the code)
  MaxLate,    \* lateness saturates here: all of it compares alike
  MaxCost,    \* LPC operations one evaluation may take (max_eval_cost)
  Beaters,    \* heart beats in a round, each turned off by its first error
  NoCall, NoObject, NoFunction

ASSUME CallsAssumption  == NoCall \notin Calls
ASSUME OwnerAssumption  == Owner \in [Functions -> Objects]
ASSUME NoneAssumption   == NoObject \notin Objects /\ NoFunction \notin Functions
ASSUME DelaysAssumption == Delays \subseteq Int /\ TimeRoom \in Nat
ASSUME ElapseAssumption == Elapse \subseteq Nat
ASSUME BoundAssumption  == /\ InitSize \in Nat \ {0} /\ MaxLate \in Nat
                           /\ MaxCost \in Nat \ {0} /\ Beaters \in Nat

VARIABLES
  size, first, num, buf,    \* call_buffer_size, pending_calls, num_pending_calls, call_buffer
  alloc, due, fun, giver,   \* the call_out structs in use and their fields
  life, ref,                \* objects: alive, on obj_list_destruct or gone; ob->ref
  command_giver,
  heart_beat_flag,          \* set by SIGALRM
  beaters, left,            \* objects that still beat; beats left in this round
  pc, ctx, cost,            \* control point, who evaluates LPC, eval_cost
  new, pos, e               \* locals of new_call_out

queue   == <<size, first, num, buf>>
structs == <<alloc, due, fun, giver>>
objs    == <<life, ref>>
locals  == <<new, pos, e>>
timer   == <<heart_beat_flag, beaters, left>>
vars    == <<queue, structs, objs, command_giver, timer, pc, ctx, cost, locals>>

Slots  == first .. size - 1
Queued == {buf[i] : i \in Slots}

-----------------------------------------------------------------------------
(* Objects and the references the queue holds on them.                     *)

\* References struct c holds on object o: its command_giver and its function.
Holds(c, o) == (IF giver[c] = o THEN 1 ELSE 0)
             + (IF fun[c] # NoFunction /\ Owner[fun[c]] = o THEN 1 ELSE 0)

\* Mutant: the command_giver is not given back.
ReleaseKeepingGiver(c) ==
  /\ alloc' = alloc \ {c}
  /\ due'   = [due EXCEPT ![c] = 0]
  /\ fun'   = [fun EXCEPT ![c] = NoFunction]
  /\ giver' = [giver EXCEPT ![c] = NoObject]
  /\ ref'   = [ref EXCEPT ![Owner[fun[c]]] = @ - 1]
  /\ UNCHANGED life

\* free_object(command_giver), free_vector(args) and free(c)
Release(c) ==
  /\ alloc' = alloc \ {c}
  /\ due'   = [due EXCEPT ![c] = 0]
  /\ fun'   = [fun EXCEPT ![c] = NoFunction]
  /\ giver' = [giver EXCEPT ![c] = NoObject]
  /\ ref'   = [o \in Objects |-> ref[o] - Holds(c, o)]
  /\ UNCHANGED life

\* pending_calls++, num_pending_calls--
DropHead ==
  /\ first' = first + 1
  /\ num' = num - 1
  /\ UNCHANGED size

\* unlink and free the first pending call
TakeHead ==
  /\ DropHead
  /\ buf' = [buf EXCEPT ![first] = NoCall]
  /\ Release(buf[first])

-----------------------------------------------------------------------------
Init ==
  /\ size = InitSize /\ first = InitSize /\ num = 0
  /\ buf = [i \in 0 .. InitSize - 1 |-> NoCall]
  /\ alloc = {} /\ due = [c \in Calls |-> 0]
  /\ fun = [c \in Calls |-> NoFunction] /\ giver = [c \in Calls |-> NoObject]
  /\ life = [o \in Objects |-> "live"] /\ ref = [o \in Objects |-> 1]
  /\ command_giver = NoObject
  /\ heart_beat_flag = FALSE /\ beaters = Beaters /\ left = 0
  /\ pc = "top" /\ ctx = "none" /\ cost = 0
  /\ new = NoCall /\ pos = 0 /\ e = 0

-----------------------------------------------------------------------------
(* LPC operations.  Each costs one unit of the evaluation's budget.        *)

\* Mutant: off by one, the budget may be overdrawn.
EvaluatingOverBudget == pc = "lpc" /\ cost <= MaxCost

Evaluating == pc = "lpc" /\ cost < MaxCost
Charge     == cost' = cost + 1 /\ UNCHANGED ctx

\* c->time for a delay of d seconds.  When the sum overflows the compiler may
\* test `time <= current_time' on the wrapped sum, or on the delay alone.
DueIn(d) == IF d > TimeRoom THEN {1, -MaxLate} ELSE IF d <= 0 THEN {1} ELSE {d}

\* Mutant: the pending calls are copied to the left half.
GrowLeft ==
  IF num = size
  THEN /\ size'  = 2 * size
       /\ first' = size
       /\ buf'   = [i \in 0 .. 2 * size - 1 |->
                      IF i < size THEN buf[i] ELSE NoCall]
  ELSE UNCHANGED <<size, first, buf>>

Grow ==
  IF num = size
  THEN /\ size'  = 2 * size
       /\ first' = size
       /\ buf'   = [i \in 0 .. 2 * size - 1 |->
                      IF i < size THEN NoCall ELSE buf[i - size]]
  ELSE UNCHANGED <<size, first, buf>>

\* Mutant: the search is also skipped for a delay of two seconds.
CallOutShortcut(f, t) ==
  /\ Grow /\ UNCHANGED num
  /\ new' = CHOOSE c \in Calls : c \notin alloc
  /\ alloc' = alloc \cup {new'}
  /\ due'   = [due EXCEPT ![new'] = t]
  /\ fun'   = [fun EXCEPT ![new'] = f]
  /\ giver' = [giver EXCEPT ![new'] = command_giver]
  /\ ref'   = [o \in Objects |-> ref[o] + (IF command_giver = o THEN 1 ELSE 0)
                                        + (IF Owner[f] = o THEN 1 ELSE 0)]
  /\ pos' = first'
  /\ e' = IF t > 2 THEN num ELSE 0

\* new_call_out up to its search: grow the buffer, fill a struct, take the
\* references.  The search is skipped for a call due in the next second.
CallOutWith(f, t) ==
  /\ Grow /\ UNCHANGED num
  /\ new' = CHOOSE c \in Calls : c \notin alloc
  /\ alloc' = alloc \cup {new'}
  /\ due'   = [due EXCEPT ![new'] = t]
  /\ fun'   = [fun EXCEPT ![new'] = f]
  /\ giver' = [giver EXCEPT ![new'] = command_giver]
  /\ ref'   = [o \in Objects |-> ref[o] + (IF command_giver = o THEN 1 ELSE 0)
                                        + (IF Owner[f] = o THEN 1 ELSE 0)]
  /\ pos' = first'
  /\ e' = IF t > 1 THEN num ELSE 0

CallOut(f, d) ==
  /\ Evaluating
  /\ life[Owner[f]] = "live"
  /\ Calls \ alloc # {}
  /\ \E t \in DueIn(d) : CallOutWith(f, t)
  /\ pc' = "search" /\ Charge
  /\ UNCHANGED <<life, command_giver, timer>>

\* Mutant: the comparison is the wrong way round.
SearchBackwards ==
  /\ pc = "search" /\ e > 0
  /\ LET c == e \div 2
     IN  IF due[new] < due[buf[pos + c]]
         THEN pos' = pos + c + 1 /\ e' = e - (c + 1)
         ELSE e' = c /\ UNCHANGED pos
  /\ UNCHANGED <<queue, structs, objs, command_giver, timer, pc, ctx, cost, new>>

\* One round of the binary search over the pending calls.
Search ==
  /\ pc = "search" /\ e > 0
  /\ LET c == e \div 2
     IN  IF due[new] > due[buf[pos + c]]
         THEN pos' = pos + c + 1 /\ e' = e - (c + 1)
         ELSE e' = c /\ UNCHANGED pos
  /\ UNCHANGED <<queue, structs, objs, command_giver, timer, pc, ctx, cost, new>>

\* Shift what is due earlier one slot down and store the new call.
Link ==
  /\ pc = "search" /\ e = 0
  /\ first' = first - 1 /\ num' = num + 1
  /\ buf' = [i \in 0 .. size - 1 |->
               IF i = pos - 1 THEN new
               ELSE IF first - 1 <= i /\ i < pos - 1 THEN buf[i + 1]
               ELSE buf[i]]
  /\ new' = NoCall /\ pos' = 0 /\ e' = 0
  /\ pc' = "lpc"
  /\ UNCHANGED <<size, structs, objs, command_giver, timer, ctx, cost>>

\* Mutant: the last slot that holds a call of f
FindsLastAt(f, i) ==
  /\ i \in Slots /\ fun[buf[i]] = f
  /\ \A j \in Slots : fun[buf[j]] = f => i >= j

\* find_call_out: the first slot that holds a call of f
FindsAt(f, i) ==
  /\ i \in Slots /\ fun[buf[i]] = f
  /\ \A j \in Slots : fun[buf[j]] = f => i <= j

RemoveCallOut(f) ==
  /\ Evaluating
  /\ life[Owner[f]] = "live"
  /\ \E i \in Slots :
       /\ FindsAt(f, i)
       /\ Release(buf[i])
       /\ buf' = [j \in 0 .. size - 1 |->
                    IF j = first THEN NoCall
                    ELSE IF first < j /\ j <= i THEN buf[j - 1]
                    ELSE buf[j]]
  /\ DropHead /\ Charge
  /\ UNCHANGED <<command_giver, timer, pc, locals>>

SetThisPlayer(o) ==
  /\ Evaluating
  /\ life[o] = "live" /\ command_giver' = o
  /\ Charge
  /\ UNCHANGED <<queue, structs, objs, timer, pc, locals>>

\* A frame is popped and gives back the command_giver of its caller, which
\* may have been destructed since, but never before this evaluation began.
ReturnToFrame(o) ==
  /\ Evaluating
  /\ o # NoObject => life[o] # "gone"
  /\ command_giver' = o
  /\ Charge
  /\ UNCHANGED <<queue, structs, objs, timer, pc, locals>>

Destruct(o) ==
  /\ Evaluating
  /\ life[o] = "live"
  /\ life' = [life EXCEPT ![o] = "destructed"]
  /\ command_giver' = IF command_giver = o THEN NoObject ELSE command_giver
  /\ Charge
  /\ UNCHANGED <<queue, structs, ref, timer, pc, locals>>

\* clone_object; the memory of an object is reused once its count is zero
Clone(o) ==
  /\ Evaluating
  /\ life[o] = "gone" /\ ref[o] = 0
  /\ life' = [life EXCEPT ![o] = "live"]
  /\ ref' = [ref EXCEPT ![o] = 1]
  /\ Charge
  /\ UNCHANGED <<queue, structs, command_giver, timer, pc, locals>>

-----------------------------------------------------------------------------
(* The backend loop.                                                       *)

\* clear_state and remove_destructed_objects (destruct2 drops the list's
\* own reference).
Top ==
  /\ pc = "top"
  /\ command_giver' = NoObject /\ cost' = 0
  /\ life' = [o \in Objects |-> IF life[o] = "live" THEN "live" ELSE "gone"]
  /\ ref' = [o \in Objects |-> IF life[o] = "destructed" THEN ref[o] - 1 ELSE ref[o]]
  /\ pc' = "select"
  /\ UNCHANGED <<queue, structs, timer, ctx, locals>>

\* shutdowngame ends the process; before that free_all_call_outs releases
\* the pending calls one by one.
Shutdown ==
  /\ pc = "select"
  /\ pc' = "shutdown"
  /\ UNCHANGED <<queue, structs, objs, command_giver, timer, ctx, cost, locals>>

FreeCallOut ==
  /\ pc = "shutdown" /\ num > 0
  /\ TakeHead
  /\ UNCHANGED <<command_giver, timer, pc, ctx, cost, locals>>

Exit ==
  /\ pc = "shutdown" /\ num = 0
  /\ pc' = "exit"
  /\ UNCHANGED <<queue, structs, objs, command_giver, timer, ctx, cost, locals>>

Exited == pc = "exit" /\ UNCHANGED vars

\* select found a descriptor ready: process_io calls LPC code
ProcessIo ==
  /\ pc = "select"
  /\ pc' = "lpc" /\ ctx' = "io"
  /\ UNCHANGED <<queue, structs, objs, command_giver, timer, cost, locals>>

NoIo ==
  /\ pc = "select"
  /\ pc' = "flag"
  /\ UNCHANGED <<queue, structs, objs, command_giver, timer, ctx, cost, locals>>

\* sigalrm_handler, at any instruction
Alarm ==
  /\ ~heart_beat_flag /\ pc # "exit"
  /\ heart_beat_flag' = TRUE
  /\ UNCHANGED <<queue, structs, objs, command_giver, beaters, left, pc, ctx, cost, locals>>

NoHeartBeat ==
  /\ pc = "flag" /\ ~heart_beat_flag
  /\ pc' = "top"
  /\ UNCHANGED <<queue, structs, objs, command_giver, timer, ctx, cost, locals>>

Later(t, k) == IF t - k < -MaxLate THEN -MaxLate ELSE t - k

\* call_heart_beat reads the clock: k seconds have passed
HeartBeat(k) ==
  /\ pc = "flag" /\ heart_beat_flag
  /\ heart_beat_flag' = FALSE /\ left' = beaters
  /\ due' = [c \in Calls |-> IF c \in alloc THEN Later(due[c], k) ELSE 0]
  /\ pc' = "beat"
  /\ UNCHANGED <<queue, alloc, fun, giver, objs, command_giver, beaters, ctx, cost, locals>>

\* apply heart_beat() in the next object: every one has its own budget
Beat(o) ==
  /\ pc = "beat" /\ left > 0 /\ ~heart_beat_flag
  /\ left' = left - 1
  /\ cost' = 0
  /\ command_giver' = o
  /\ o # NoObject => life[o] = "live"
  /\ pc' = "lpc" /\ ctx' = "beat"
  /\ UNCHANGED <<queue, structs, objs, heart_beat_flag, beaters, locals>>

BeatsDone ==
  /\ pc = "beat" /\ (left = 0 \/ heart_beat_flag)
  /\ left' = 0
  /\ pc' = "sweep"
  /\ UNCHANGED <<queue, structs, objs, command_giver, heart_beat_flag, beaters, ctx, cost, locals>>

\* look_for_objects_to_swap: reset() and clean_up() run, on what the last
\* heart beat left of the budget, or no object is due for either.
Sweep ==
  /\ pc = "sweep"
  /\ \/ pc' = "lpc" /\ ctx' = "sweep"
     \/ pc' = "due" /\ UNCHANGED ctx
  /\ UNCHANGED <<queue, structs, objs, command_giver, timer, cost, locals>>

\* error() starts a new budget and lets the master's handle_error() spend of
\* it.  What that does to the queue, the evaluation that failed could do too.
HandleError == cost' \in 0 .. MaxCost

\* Mutant: a call due in this very second has to wait.
HeadOverdue == num > 0 /\ due[buf[first]] < 0

\* Mutant: the last call of the queue is never taken.
HeadNotLast == num > 1 /\ due[buf[first]] <= 0

HeadDue == num > 0 /\ due[buf[first]] <= 0

\* do_call_outs: unlink the head and take over its command_giver.  The
\* queue's reference on that object is given back before the call is made.
TakeDue ==
  /\ pc = "due" /\ HeadDue
  /\ TakeHead
  /\ command_giver' = giver[buf[first]]
  /\ UNCHANGED <<timer, locals>>

HeadAlive == life[Owner[fun[buf[first]]]] = "live"

RunDue == /\ TakeDue /\ HeadAlive /\ cost < MaxCost
          /\ pc' = "lpc" /\ ctx' = "call"
          /\ UNCHANGED cost

\* The object is destructed: the function was pushed as 0, nothing is called.
SkipDue == /\ TakeDue /\ ~HeadAlive
           /\ UNCHANGED <<pc, ctx, cost>>

\* check_eval_cost throws before the call is made: eval_cost is not reset
\* between two call outs, nor after the last heart beat.
RefuseDue == /\ TakeDue /\ HeadAlive /\ cost = MaxCost
             /\ HandleError
             /\ pc' = "top" /\ UNCHANGED ctx

CallOutsDone ==
  /\ pc = "due" /\ ~HeadDue
  /\ command_giver' = NoObject
  /\ pc' = "top"
  /\ UNCHANGED <<queue, structs, objs, timer, ctx, cost, locals>>

Resume == [io |-> "flag", beat |-> "beat", sweep |-> "due", call |-> "due"]

Return ==
  /\ pc = "lpc"
  /\ pc' = Resume[ctx] /\ ctx' = "none"
  /\ UNCHANGED <<queue, structs, objs, command_giver, timer, cost, locals>>

\* error(): longjmp to the backend's setjmp, the rest of the round is lost.
\* A heart beat that throws is turned off.
Throw ==
  /\ pc = "lpc" /\ ctx # "sweep"
  /\ pc' = "top" /\ ctx' = "none"
  /\ beaters' = IF ctx = "beat" THEN beaters - 1 ELSE beaters
  /\ left' = 0
  /\ HandleError
  /\ UNCHANGED <<queue, structs, objs, command_giver, heart_beat_flag, locals>>

\* error() in the sweep: its own setjmp gives the sweep up and goes on to the
\* call outs.  The command_giver it puts back is set anew before it is read.
ThrowInSweep ==
  /\ pc = "lpc" /\ ctx = "sweep"
  /\ pc' = "due" /\ ctx' = "none"
  /\ HandleError
  /\ UNCHANGED <<queue, structs, objs, command_giver, timer, locals>>

-----------------------------------------------------------------------------
Lpc ==
  \/ \E f \in Functions : (\E d \in Delays : CallOut(f, d)) \/ RemoveCallOut(f)
  \/ Search \/ Link
  \/ \E o \in Objects : SetThisPlayer(o) \/ Destruct(o) \/ Clone(o)
  \/ \E o \in Objects \cup {NoObject} : ReturnToFrame(o)
  \/ Return \/ Throw \/ ThrowInSweep

DoCallOuts == RunDue \/ SkipDue \/ RefuseDue \/ CallOutsDone

Backend ==
  \/ Top \/ ProcessIo \/ NoIo \/ NoHeartBeat
  \/ \E k \in Elapse : HeartBeat(k)
  \/ \E o \in Objects \cup {NoObject} : Beat(o)
  \/ BeatsDone \/ Sweep \/ DoCallOuts
  \/ Shutdown \/ FreeCallOut \/ Exit

Next == Lpc \/ Backend \/ Alarm \/ Exited

Spec == Init /\ [][Next]_vars
-----------------------------------------------------------------------------
(* What the queue promises.                                                *)

TypeOK ==
  /\ size \in Nat \ {0} /\ first \in 0 .. size /\ num \in 0 .. size
  /\ buf \in [0 .. size - 1 -> Calls \cup {NoCall}]
  /\ alloc \subseteq Calls
  /\ due \in [Calls -> Int]
  /\ fun \in [Calls -> Functions \cup {NoFunction}]
  /\ giver \in [Calls -> Objects \cup {NoObject}]
  /\ life \in [Objects -> {"live", "destructed", "gone"}]
  /\ ref \in [Objects -> Int]
  /\ command_giver \in Objects \cup {NoObject}
  /\ heart_beat_flag \in BOOLEAN /\ beaters \in Int /\ left \in Int
  /\ pc \in {"top", "select", "flag", "lpc", "search", "beat", "sweep",
             "due", "shutdown", "exit"}
  /\ ctx \in {"io", "beat", "sweep", "call", "none"}
  /\ pc \in {"lpc", "search"} <=> ctx # "none"
  /\ cost \in 0 .. MaxCost
  /\ new \in Calls \cup {NoCall} /\ pos \in Int /\ e \in Nat

\* The busy part is the right end of the buffer, and every call_out struct in
\* use is in exactly one of its slots, but for the one new_call_out is about
\* to link: no insertion, removal or growth loses, doubles or leaks a call.
QueuedExactlyOnce ==
  /\ first + num = size
  /\ \A i, j \in Slots : buf[i] = buf[j] => i = j
  /\ Queued = alloc \ {new}
  /\ (pc = "search") <=> (new # NoCall)
  /\ new # NoCall => new \in alloc

\* The reference count of an object is what its list and the queue hold.
Holding(o) == {c \in alloc : giver[c] = o}
Owning(o)  == {c \in alloc : Owner[fun[c]] = o}
RefCountExact ==
  \A o \in Objects :
    ref[o] = (IF life[o] = "gone" THEN 0 ELSE 1)
             + Cardinality(Holding(o)) + Cardinality(Owning(o))

\* The pending calls are sorted by due time.
Sorted == \A i, j \in Slots : i < j => due[buf[i]] <= due[buf[j]]

\* An immediate call is put before calls that are overdue: the code takes it
\* for granted that nothing pending is due before the next second.
Overtakes == /\ pc = "search" /\ pc' = "lpc"
             /\ due[new] = 1 /\ num > 0 /\ due[buf[first]] < 1

\* Binary search, shift, removal, growth and the passing of time keep the
\* order; only an immediate call made while others are overdue breaks it.
OrderKept == [][Sorted /\ ~Overtakes => Sorted']_vars

\* What leaves the queue leaves it in order of time: do_call_outs takes a call
\* that no pending one precedes, remove_call_out the next call of its function.
LeavesInOrder ==
  [][\A c \in alloc \ alloc', d \in alloc :
       /\ pc # "shutdown"
       /\ pc = "lpc" => fun[d] = fun[c]
       => due[c] <= due[d]]_vars

\* When do_call_outs ends without an error nothing that is due is left.
NoDueLeft ==
  [][pc = "due" /\ pc' = "top" /\ num' = num =>
       \A c \in Queued : due[c] > 0]_vars

\* A call that has become due leaves the queue.
DueTaken ==
  \A c \in Calls : (c \in Queued /\ due[c] <= 0) ~> ~(c \in Queued /\ due[c] <= 0)

\* call_out.c 70 and 94: the queue through every operation of it.
QueueSound == TypeOK /\ QueuedExactlyOnce

\* do_call_outs runs what is due, in the order of time, and leaves none behind.
ServedInOrder == []Sorted /\ NoDueLeft /\ LeavesInOrder

\* this_player() is never memory that has been given back.
GiverAllocated == command_giver # NoObject => ref[command_giver] > 0

-----------------------------------------------------------------------------
(* Fairness.  The driver goes on executing, the interval timer goes off,   *)
(* and the descriptors are not ready at every single select: process_io    *)
(* runs before the heart beat and its errors skip the heart beat.          *)
FairSpec ==
  /\ Spec
  /\ WF_vars(Lpc \/ Backend)
  /\ WF_vars(Alarm)
  /\ SF_vars(NoIo)
=============================================================================

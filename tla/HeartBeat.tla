----------------------------- MODULE HeartBeat -----------------------------
(***************************************************************************)
(* The heart beat list of the driver (src/src/backend.c 341-453) and what  *)
(* destruction does to it (src/src/simulate.c).  An object that is turned  *)
(* off or destructed stays linked until it comes to the head of the list,  *)
(* or until destruct2 walks the list for it.                               *)
(***************************************************************************)
EXTENDS Integers, FiniteSets

CONSTANTS
  Objects,   \* LPC objects; also the memory they live in
  NoObject,  \* the null pointer
  Ops        \* what LPC code does besides switching heart beats on

(* "off"            set_heart_beat(0)                                      *)
(* "error"          an error in heart_beat()                               *)
(* "destruct"       destruct(), of an object that is not hb_tail           *)
(* "clone"          a new object in memory that was freed                  *)
(* "relink_tail"    set_heart_beat(1) in hb_tail after it was turned off   *)
(* "destruct_tail"  destruct() of hb_tail                                  *)
(* "early_alarm"    a timeout before the round has called anything         *)
AllOps == {"off", "error", "destruct", "clone", "relink_tail", "destruct_tail",
           "early_alarm"}

ASSUME ObjectsAssumption == NoObject \notin Objects /\ IsFiniteSet(Objects)
ASSUME OpsAssumption     == Ops \subseteq AllOps

VARIABLES
  hb_list, hb_tail,    \* head and last element of the list
  next_heart_beat,     \* the link in every object
  beating,             \* objects with O_HEART_BEAT
  num_hb_objs,
  life,                \* alive, on obj_list_destruct, past destruct2, or freed
  num_done,            \* heart beats called in this round
  current_heart_beat,
  heart_beat_flag,     \* set by SIGALRM
  pc,
  called,              \* history: the objects called in this round
  owed,                \* history: those beating since it began, not yet called
  tail_touched         \* history: hb_tail was relinked or destructed

list    == <<hb_list, hb_tail, next_heart_beat>>
count   == <<beating, num_hb_objs>>
round   == <<num_done, current_heart_beat, heart_beat_flag>>
history == <<called, owed, tail_touched>>
vars    == <<list, count, life, round, pc, history>>

Init ==
  /\ hb_list = NoObject /\ hb_tail = NoObject
  /\ next_heart_beat = [o \in Objects |-> NoObject]
  /\ beating = {} /\ num_hb_objs = 0
  /\ life = [o \in Objects |-> "live"]
  /\ num_done = 0 /\ current_heart_beat = NoObject /\ heart_beat_flag = FALSE
  /\ pc = "top"
  /\ called = {} /\ owed = {} /\ tail_touched = FALSE

-----------------------------------------------------------------------------
(* What an evaluation of LPC code can do: in process_io, in a heart_beat() *)
(* and in the sweep and the call outs after the round.                     *)

Evaluating == pc \in {"io", "lpc", "after"}

\* Mutant: an object that is still linked is not counted again.
TurnOnUncounted(o) ==
  /\ beating' = beating \cup {o}
  /\ num_hb_objs' = num_hb_objs + (IF next_heart_beat[o] = NoObject THEN 1 ELSE 0)
  /\ IF next_heart_beat[o] = NoObject
     THEN /\ next_heart_beat' = [next_heart_beat EXCEPT ![o] = hb_list]
          /\ hb_list' = o
     ELSE UNCHANGED <<next_heart_beat, hb_list>>
  /\ hb_tail' = IF hb_tail = NoObject THEN o ELSE hb_tail
  /\ UNCHANGED owed

TurnOn(o) ==
  /\ beating' = beating \cup {o}
  /\ num_hb_objs' = num_hb_objs + 1
  /\ IF next_heart_beat[o] = NoObject
     THEN /\ next_heart_beat' = [next_heart_beat EXCEPT ![o] = hb_list]
          /\ hb_list' = o
     ELSE UNCHANGED <<next_heart_beat, hb_list>>
  /\ hb_tail' = IF hb_tail = NoObject THEN o ELSE hb_tail
  /\ UNCHANGED owed

\* Mutant: set_heart_beat without its return when nothing changes
TurnOffAlways(o) ==
  /\ beating' = beating \ {o}
  /\ num_hb_objs' = num_hb_objs - 1
  /\ owed' = owed \ {o}
  /\ UNCHANGED list

\* call_heart_beat is left to unlink the object.
TurnOff(o) ==
  /\ beating' = beating \ {o}
  /\ num_hb_objs' = num_hb_objs - (IF o \in beating THEN 1 ELSE 0)
  /\ owed' = owed \ {o}
  /\ UNCHANGED list

\* set_heart_beat() in object o; without a change it does nothing
SetHeartBeat(o, to) ==
  /\ Evaluating /\ life[o] = "live"
  /\ IF to
     THEN /\ o \notin beating
          /\ o = hb_tail => "relink_tail" \in Ops
          /\ TurnOn(o)
          /\ tail_touched' = (tail_touched \/ o = hb_tail)
     ELSE o \in beating /\ "off" \in Ops /\ TurnOff(o) /\ UNCHANGED tail_touched
  /\ UNCHANGED <<life, round, pc, called>>

Destruct(o) ==
  /\ Evaluating /\ life[o] = "live"
  /\ (IF o = hb_tail THEN "destruct_tail" ELSE "destruct") \in Ops
  /\ TurnOff(o)
  /\ life' = [life EXCEPT ![o] = "destructed"]
  /\ tail_touched' = (tail_touched \/ o = hb_tail)
  /\ UNCHANGED <<round, pc, called>>

\* The last reference on an object that is past destruct2 goes.
FreeObject(o) ==
  /\ Evaluating /\ life[o] = "unlinked"
  /\ life' = [life EXCEPT ![o] = "freed"]
  /\ UNCHANGED <<list, count, round, pc, history>>

\* get_empty_object: calloc hands out memory that was freed
Clone(o) ==
  /\ Evaluating /\ life[o] = "freed" /\ "clone" \in Ops
  /\ life' = [life EXCEPT ![o] = "live"]
  /\ next_heart_beat' = [next_heart_beat EXCEPT ![o] = NoObject]
  /\ UNCHANGED <<hb_list, hb_tail, count, round, pc, history>>

-----------------------------------------------------------------------------
(* remove_destructed_objects                                               *)

\* The k-th pointer on the way from hb_list.
Follow[k \in 0 .. Cardinality(Objects)] ==
  IF k = 0 THEN hb_list
  ELSE IF Follow[k - 1] = NoObject THEN NoObject
  ELSE next_heart_beat[Follow[k - 1]]

Linked == {Follow[k] : k \in DOMAIN Follow} \ {NoObject}

\* The objects whose links the walk for o reads.
Before(o) ==
  {Follow[k] : k \in {k \in DOMAIN Follow : \A j \in 0 .. k : Follow[j] # o}}

Unlink(o) ==
  /\ IF hb_list = o
     THEN hb_list' = next_heart_beat[o] /\ next_heart_beat' = [next_heart_beat EXCEPT ![o] = NoObject]
     ELSE /\ \E p \in Before(o) :
               /\ next_heart_beat[p] = o
               /\ next_heart_beat' = [next_heart_beat EXCEPT ![p] = next_heart_beat[o],
                                                             ![o] = NoObject]
          /\ UNCHANGED hb_list
  /\ UNCHANGED hb_tail

\* destruct2 looks for o in the list unless o's link is null; then it gives
\* the list's reference back, which may be the last one.
Destruct2(o) ==
  /\ pc = "top" /\ life[o] = "destructed"
  /\ \/ next_heart_beat[o] = NoObject /\ UNCHANGED <<list, pc>>
     \/ next_heart_beat[o] # NoObject /\ o \in Linked /\ Unlink(o) /\ UNCHANGED pc
  /\ \E l \in {"unlinked", "freed"} : life' = [life EXCEPT ![o] = l]
  /\ UNCHANGED <<count, round, history>>

\* The walk reads memory that was freed, comes to the end of the list, or
\* goes round for ever.
WalkFails(o) ==
  /\ pc = "top" /\ life[o] = "destructed"
  /\ next_heart_beat[o] # NoObject
  /\ LET walked == Before(o)
     IN  \/ (\E p \in walked \cap Objects : life[p] = "freed") /\ pc' = "crash"
         \/ NoObject \in walked /\ pc' = "fatal"
         \/ o \notin Linked /\ NoObject \notin walked /\ pc' = "hang"
  /\ UNCHANGED <<list, count, life, round, history>>

ToIo ==
  /\ pc = "top" /\ \A o \in Objects : life[o] # "destructed"
  /\ pc' = "io"
  /\ UNCHANGED <<list, count, life, round, history>>

-----------------------------------------------------------------------------
(* The backend loop and call_heart_beat.                                   *)

\* sigalrm_handler, at any instruction
Alarm ==
  /\ ~heart_beat_flag /\ pc \notin {"crash", "fatal", "hang"}
  /\ pc = "round" /\ num_done = 0 => "early_alarm" \in Ops
  /\ heart_beat_flag' = TRUE
  /\ UNCHANGED <<list, count, life, num_done, current_heart_beat, pc, history>>

BeginRound ==
  /\ pc = "io" /\ heart_beat_flag
  /\ heart_beat_flag' = FALSE /\ num_done' = 0
  /\ called' = {} /\ owed' = beating
  /\ pc' = "round"
  /\ UNCHANGED <<list, count, life, current_heart_beat, tail_touched>>

\* No heart beat is due, or process_io ended in an error.
SkipRound ==
  /\ pc = "io"
  /\ pc' = "top"
  /\ UNCHANGED <<list, count, life, round, history>>

\* Mutants of the loop condition: one call too many, one too few
MoreByOne == hb_list # NoObject /\ ~heart_beat_flag /\ num_done <= num_hb_objs
FewerByOne == hb_list # NoObject /\ ~heart_beat_flag /\ num_done + 1 < num_hb_objs

More == hb_list # NoObject /\ ~heart_beat_flag /\ num_done < num_hb_objs

\* Mutant: the link of the dropped object is not reset.
DropKeepingLink ==
  /\ pc = "round" /\ More
  /\ life[hb_list] # "freed" /\ hb_list \notin beating
  /\ hb_list' = next_heart_beat[hb_list]
  /\ UNCHANGED <<next_heart_beat, hb_tail, count, life, round, pc, history>>

\* The head is not beating any more: take it off the list.
Drop ==
  /\ pc = "round" /\ More
  /\ life[hb_list] # "freed" /\ hb_list \notin beating
  /\ hb_list' = next_heart_beat[hb_list]
  /\ next_heart_beat' = [next_heart_beat EXCEPT ![hb_list] = NoObject]
  /\ UNCHANGED <<hb_tail, count, life, round, pc, history>>

\* Mutant: the list is not rotated.
CycleNever == UNCHANGED list

\* cycle_hb_list: the head becomes the tail
Cycle ==
  IF hb_list = hb_tail
  THEN UNCHANGED list
  ELSE /\ hb_list' = next_heart_beat[hb_list]
       /\ next_heart_beat' = [next_heart_beat EXCEPT ![hb_tail] = hb_list,
                                                     ![hb_list] = NoObject]
       /\ hb_tail' = hb_list

\* apply heart_beat() in the object that is now at the end of the list
Beat ==
  /\ pc = "round" /\ More
  /\ hb_list \in beating /\ life[hb_list] # "freed" /\ life[hb_tail] # "freed"
  /\ Cycle
  /\ num_done' = num_done + 1
  /\ current_heart_beat' = hb_tail'
  /\ called' = called \cup {hb_tail'} /\ owed' = owed \ {hb_tail'}
  /\ pc' = "lpc"
  /\ UNCHANGED <<count, life, heart_beat_flag, tail_touched>>

\* The head, or the tail it is to be linked to, is memory that was freed.
ReadsFreed ==
  /\ pc = "round" /\ More
  /\ life[hb_list] = "freed" \/ (hb_list \in beating /\ life[hb_tail] = "freed")
  /\ pc' = "crash"
  /\ UNCHANGED <<list, count, life, round, history>>

Return ==
  /\ pc = "lpc"
  /\ pc' = "round"
  /\ UNCHANGED <<list, count, life, round, history>>

\* error() that nothing catches: the heart beat is turned off and the rest of
\* the round is lost.
Error ==
  /\ pc = "lpc" /\ "error" \in Ops
  /\ TurnOff(current_heart_beat)
  /\ current_heart_beat' = NoObject
  /\ pc' = "top"
  /\ UNCHANGED <<life, num_done, heart_beat_flag, called, tail_touched>>

RoundDone ==
  /\ pc = "round" /\ ~More
  /\ current_heart_beat' = NoObject
  /\ pc' = "after"
  /\ UNCHANGED <<list, count, life, num_done, heart_beat_flag, history>>

AfterDone ==
  /\ pc = "after"
  /\ pc' = "top"
  /\ UNCHANGED <<list, count, life, round, history>>

Stopped == pc \in {"crash", "fatal", "hang"} /\ UNCHANGED vars

Lpc == \E o \in Objects :
         \/ \E to \in BOOLEAN : SetHeartBeat(o, to)
         \/ Destruct(o) \/ FreeObject(o) \/ Clone(o)

Backend ==
  \/ \E o \in Objects : Destruct2(o) \/ WalkFails(o)
  \/ ToIo \/ BeginRound \/ SkipRound
  \/ Drop \/ Beat \/ ReadsFreed \/ Return \/ Error \/ RoundDone \/ AfterDone

Next == Lpc \/ Backend \/ Alarm \/ Stopped

Spec == Init /\ [][Next]_vars

-----------------------------------------------------------------------------
(* What the list promises.                                                 *)

TypeOK ==
  /\ hb_list \in Objects \cup {NoObject} /\ hb_tail \in Objects \cup {NoObject}
  /\ next_heart_beat \in [Objects -> Objects \cup {NoObject}]
  /\ beating \subseteq Objects /\ num_hb_objs \in 0 .. Cardinality(Objects)
  /\ life \in [Objects -> {"live", "destructed", "unlinked", "freed"}]
  /\ num_done \in Nat
  /\ current_heart_beat \in Objects \cup {NoObject}
  /\ heart_beat_flag \in BOOLEAN
  /\ pc \in {"top", "io", "round", "lpc", "after", "crash", "fatal", "hang"}
  /\ called \subseteq Objects /\ owed \subseteq Objects /\ tail_touched \in BOOLEAN
  /\ pc = "lpc" => current_heart_beat # NoObject

\* num_hb_objs, which ends the round, counts the objects that are to be called,
\* all of them alive, through every order of switching, errors and destruction.
CountExact ==
  /\ num_hb_objs = Cardinality(beating)
  /\ \A o \in beating : life[o] = "live"

\* As long as nobody switched a heart beat on in hb_tail after switching it
\* off, or destructed hb_tail, the list is a chain without a cycle that ends in
\* hb_tail.  It holds every object that is to be called and none whose memory is
\* gone, and an object outside has a null link, which set_heart_beat and
\* destruct2 rely on: destruct2 always finds what it looks for.
ListWellFormed ==
  ~tail_touched =>
    /\ NoObject \in {Follow[k] : k \in DOMAIN Follow}
    /\ \A o \in Linked : next_heart_beat[o] = NoObject <=> o = hb_tail
    /\ hb_list = NoObject <=> hb_tail = NoObject
    /\ beating \subseteq Linked
    /\ \A o \in Linked : life[o] \in {"live", "destructed"}
    /\ \A o \in Objects \ Linked : next_heart_beat[o] = NoObject
    /\ pc \notin {"crash", "fatal", "hang"}

\* Then no object has its heart_beat() called twice in one round.
OncePerRound ==
  [][~tail_touched /\ pc = "round" /\ pc' = "lpc" => current_heart_beat' \notin called]_vars

\* Then a round that ends neither by a timeout nor by an error has called every
\* object that was to be called all the time, but for as many as were turned off
\* after their call: those lower the bound of the loop, which counts their calls.
RoundShortfall ==
  [][~tail_touched /\ pc = "round" /\ pc' = "after" /\ ~heart_beat_flag =>
       Cardinality(owed) <= Cardinality(called \ beating)]_vars

\* The bound of call_heart_beat's loop is what set_heart_beat counted.
BeatsCounted == TypeOK /\ CountExact

\* What a round owes to those whose heart beat is on: one call, not two.
RoundFair == OncePerRound /\ RoundShortfall

\* destruct(3): "Completely destroy and remove this_object": no memory that was
\* given back is in the list.
NoFreedLinked == \A o \in Linked : life[o] # "freed"

\* heart_beat(3): "this function will be called in that object regularly".
KeepsBeating == \A o \in Objects : []<>(o \in called \/ o \notin beating)

-----------------------------------------------------------------------------
(* Fairness.  The driver goes on executing, an evaluation ends, the        *)
(* interval timer goes off, and not every process_io ends in an error.     *)
FairSpec ==
  /\ Spec
  /\ WF_vars(Backend)
  /\ WF_vars(BeginRound \/ SkipRound \/ Return \/ Error \/ AfterDone)
  /\ WF_vars(Alarm)
  /\ SF_vars(BeginRound)
=============================================================================

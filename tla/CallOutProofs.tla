--------------------------- MODULE CallOutProofs ---------------------------
(***************************************************************************)
(* Type correctness of CallOut and the integrity of its buffer, for every  *)
(* buffer size and any number of calls.  QueuedExactlyOnce is not inductive*)
(* alone: while new_call_out searches, its position has to lie inside the  *)
(* busy part and a free slot has to be left of it (SearchInBounds). Then    *)
(* the references the queue holds on objects: an object's count is what    *)
(* its list and the queue hold (RefInv).                                   *)
(***************************************************************************)
EXTENDS CallOut, TLAPS, FiniteSetTheorems

\* Half of the interval: where the binary search (call_out.c:140) looks.
LEMMA HalfBelow == \A n \in Nat \ {0} : n \div 2 \in Nat /\ n \div 2 < n
  BY SMT

SearchInBounds ==
  pc = "search" => first > 0 /\ first <= pos /\ pos + e <= size

Inv == TypeOK /\ QueuedExactlyOnce /\ SearchInBounds

\* What is in the busy part of the buffer is a call_out struct in use.
LEMMA SlotsHoldCalls ==
  ASSUME Inv
  PROVE  /\ \A i \in Slots : i \in Int /\ buf[i] \in alloc /\ buf[i] \in Calls /\ buf[i] # new
         /\ new = NoCall => Queued = alloc
<1>1. Queued = alloc \ {new} /\ alloc \subseteq Calls /\ first \in Int /\ size \in Int
  BY DEF Inv, TypeOK, QueuedExactlyOnce
<1>2. \A i \in Slots : buf[i] \in Queued /\ i \in Int
  BY <1>1 DEF Queued, Slots
<1> QED BY <1>1, <1>2, CallsAssumption

\* A step that leaves the queue and the search alone.
Quiet == UNCHANGED <<queue, alloc, fun, giver, locals>> /\ (pc = "search" <=> pc' = "search")

\* A step that leaves the queue alone keeps what is said of it.
LEMMA QuietKeepsQueue ==
  ASSUME Inv, Quiet
  PROVE  (QueuedExactlyOnce /\ SearchInBounds)'
<1>1. QueuedExactlyOnce'
  BY DEF Inv, Quiet, queue, locals, QueuedExactlyOnce, Slots, Queued
<1>2. SearchInBounds'
  BY DEF Inv, Quiet, queue, locals, SearchInBounds
<1> QED BY <1>1, <1>2

\* Growing the buffer moves every pending call by the same distance.
LEMMA GrowShifts ==
  ASSUME Inv, Grow, UNCHANGED num
  PROVE  \E g \in {0, size} :
           /\ g \in Nat /\ size \in Nat \ {0} /\ first \in Nat /\ num \in Nat
           /\ first + num = size /\ first + g <= size + g
           /\ first + g > 0
           /\ size' = size + g /\ first' = first + g
           /\ buf' = [i \in 0 .. size + g - 1 |-> IF i < g THEN NoCall ELSE buf[i - g]]
           /\ Slots' = first + g .. size + g - 1
           /\ \A i \in Slots' : i \in Int /\ i - g \in Slots /\ buf'[i] = buf[i - g]
           /\ \A i \in Slots : i + g \in Slots' /\ (i + g) - g = i
<1> USE DEF Inv
<1>1. PICK g \in {0, size} :
        /\ first + g > 0
        /\ size' = size + g /\ first' = first + g
        /\ buf' = [i \in 0 .. size + g - 1 |-> IF i < g THEN NoCall ELSE buf[i - g]]
  <2>1. CASE num = size
    BY <2>1 DEF Grow, TypeOK, QueuedExactlyOnce
  <2>2. CASE num # size
    <3>1. size' = size /\ first' = first /\ buf' = buf
      BY <2>2 DEF Grow
    <3>2. /\ first > 0 /\ size \in Nat
          /\ buf = [i \in 0 .. size - 1 |-> buf[i]]
      BY <2>2 DEF TypeOK, QueuedExactlyOnce
    <3>3. buf = [i \in 0 .. size + 0 - 1 |-> IF i < 0 THEN NoCall ELSE buf[i - 0]]
      BY <3>2
    <3>4. first + 0 > 0 /\ size' = size + 0 /\ first' = first + 0
      BY <3>1, <3>2 DEF TypeOK
    <3> QED BY <3>1, <3>3, <3>4
  <2> QED BY <2>1, <2>2
<1>2. /\ g \in Nat /\ size \in Nat \ {0} /\ first \in Nat /\ num \in Nat
      /\ first + num = size /\ first + g <= size + g
  BY <1>1 DEF TypeOK, QueuedExactlyOnce
<1>3. Slots' = first + g .. size + g - 1
  BY <1>1, <1>2 DEF Slots
<1>4. \A i \in Slots' : i \in Int /\ i - g \in Slots /\ buf'[i] = buf[i - g]
  BY <1>1, <1>2, <1>3 DEF Slots
<1>5. \A i \in Slots : i + g \in Slots' /\ (i + g) - g = i
  BY <1>1, <1>2 DEF Slots
<1> QED BY <1>1, <1>2, <1>3, <1>4, <1>5

\* new_call_out up to its search (call_out.c:95-138) keeps the invariant.
LEMMA CallOutKeepsInv ==
  ASSUME Inv, NEW f \in Functions, NEW d \in Delays, CallOut(f, d)
  PROVE  Inv'
<1> USE DEF Inv
<1>1. PICK t \in DueIn(d) : CallOutWith(f, t)
  BY DEF CallOut
<1>2. t \in Int
  BY DelaysAssumption, BoundAssumption DEF DueIn
<1>3. new' \in Calls /\ new' \notin alloc
  BY <1>1 DEF CallOut, CallOutWith
<1>4. PICK g \in {0, size} :
        /\ g \in Nat /\ size \in Nat \ {0} /\ first \in Nat /\ num \in Nat
        /\ first + num = size /\ first + g <= size + g
        /\ first + g > 0
        /\ size' = size + g /\ first' = first + g
        /\ buf' = [i \in 0 .. size + g - 1 |-> IF i < g THEN NoCall ELSE buf[i - g]]
        /\ Slots' = first + g .. size + g - 1
        /\ \A i \in Slots' : i \in Int /\ i - g \in Slots /\ buf'[i] = buf[i - g]
        /\ \A i \in Slots : i + g \in Slots' /\ (i + g) - g = i
  BY <1>1, GrowShifts DEF CallOutWith
<1>5. /\ g \in Nat /\ size \in Nat \ {0} /\ first \in Nat /\ num \in Nat
      /\ first + num = size /\ first + g <= size + g /\ first + g > 0
      /\ size' = size + g /\ first' = first + g
      /\ buf' = [i \in 0 .. size + g - 1 |-> IF i < g THEN NoCall ELSE buf[i - g]]
  BY <1>4
<1>6. num' = num /\ pos' = first + g /\ e' \in {num, 0}
  BY <1>1, <1>5 DEF CallOutWith
<1>7. TypeOK'
  <2>1. /\ size' \in Nat \ {0} /\ first' \in 0 .. size' /\ num' \in 0 .. size'
        /\ pos' \in Int /\ e' \in Nat
    BY <1>5, <1>6
  <2>2. buf' \in [0 .. size' - 1 -> Calls \cup {NoCall}]
    <3>1. \A i \in 0 .. size + g - 1 : i < g \/ i - g \in 0 .. size - 1
      BY <1>5
    <3> QED BY <1>5, <3>1 DEF TypeOK
  <2>3. /\ alloc' \subseteq Calls /\ due' \in [Calls -> Int]
        /\ fun' \in [Calls -> Functions \cup {NoFunction}]
        /\ giver' \in [Calls -> Objects \cup {NoObject}]
        /\ new' \in Calls \cup {NoCall}
    BY <1>1, <1>2, <1>3 DEF CallOutWith, TypeOK
  <2>4. ref' \in [Objects -> Int]
    BY <1>1 DEF CallOutWith, TypeOK
  <2>5. /\ life' = life /\ command_giver' = command_giver /\ ctx' = ctx
        /\ heart_beat_flag' = heart_beat_flag /\ beaters' = beaters /\ left' = left
        /\ pc = "lpc" /\ pc' = "search" /\ cost < MaxCost /\ cost' = cost + 1
    BY DEF CallOut, Evaluating, Charge, timer
  <2>6. /\ life' \in [Objects -> {"live", "destructed", "gone"}]
        /\ command_giver' \in Objects \cup {NoObject}
        /\ heart_beat_flag' \in BOOLEAN /\ beaters' \in Int /\ left' \in Int
    BY <2>5 DEF TypeOK
  <2>7. /\ ctx' \in {"io", "beat", "sweep", "call", "none"}
        /\ pc' \in {"lpc", "search"} <=> ctx' # "none"
    BY <2>5 DEF TypeOK
  <2>8. cost' \in 0 .. MaxCost
    BY <2>5, BoundAssumption DEF TypeOK
  <2> QED BY <2>1, <2>2, <2>3, <2>4, <2>5, <2>6, <2>7, <2>8 DEF TypeOK
<1>8. QueuedExactlyOnce'
  <2>1. \A i \in Slots' : i \in Int /\ i - g \in Slots /\ buf'[i] = buf[i - g]
    BY <1>4
  <2>2. \A i, j \in Slots' : buf'[i] = buf'[j] => i = j
    <3> SUFFICES ASSUME NEW i \in Slots', NEW j \in Slots', buf'[i] = buf'[j] PROVE i = j
      OBVIOUS
    <3>1. i - g = j - g
      BY <2>1 DEF QueuedExactlyOnce
    <3>2. i \in Int /\ j \in Int
      BY <1>4
    <3> QED BY <1>5, <3>1, <3>2
  <2>3. Queued' = Queued
    <3>1. ASSUME NEW i \in Slots PROVE buf[i] \in Queued'
      BY <1>4, <3>1 DEF Queued
    <3>2. ASSUME NEW i \in Slots' PROVE buf'[i] \in Queued
      BY <1>4, <3>2 DEF Queued
    <3> QED BY <3>1, <3>2 DEF Queued
  <2>4. new = NoCall /\ pc' = "search"
    BY DEF CallOut, Evaluating, QueuedExactlyOnce
  <2>5. Queued = alloc
    BY <2>4, CallsAssumption DEF QueuedExactlyOnce, TypeOK
  <2>6. Queued' = alloc' \ {new'} /\ new' \in alloc' /\ new' # NoCall
    BY <1>1, <1>3, <2>3, <2>5, CallsAssumption DEF CallOutWith
  <2>7. first' + num' = size'
    BY <1>5, <1>6
  <2> QED BY <2>2, <2>4, <2>6, <2>7 DEF QueuedExactlyOnce
<1>9. SearchInBounds'
  <2>1. CASE e' = num
    BY <1>5, <1>6, <2>1 DEF SearchInBounds
  <2>2. CASE e' = 0
    BY <1>5, <1>6, <2>2 DEF SearchInBounds
  <2> QED BY <1>6, <2>1, <2>2
<1> QED BY <1>7, <1>8, <1>9

\* A round of the binary search stays inside the busy part.
LEMMA SearchKeepsInv ==
  ASSUME Inv, Search
  PROVE  Inv'
<1> USE DEF Inv
<1>1. /\ e \in Nat \ {0} /\ pos \in Int /\ e \div 2 \in Nat /\ e \div 2 < e
      /\ pos + e <= size /\ first <= pos /\ first > 0 /\ size \in Nat /\ first \in Nat
  BY HalfBelow DEF Search, TypeOK, SearchInBounds
<1>2. \/ pos' = pos + (e \div 2) + 1 /\ e' = e - ((e \div 2) + 1)
      \/ pos' = pos /\ e' = e \div 2
  BY DEF Search
<1>3. UNCHANGED <<queue, structs, objs, command_giver, timer, pc, ctx, cost, new>>
  BY DEF Search
<1>4. pos' \in Int /\ e' \in Nat
  BY <1>1, <1>2
<1>5. TypeOK'
  BY <1>3, <1>4 DEF TypeOK, queue, structs, objs, timer
<1>6. QueuedExactlyOnce'
  BY <1>3 DEF QueuedExactlyOnce, Slots, Queued, queue, structs
<1>7. SearchInBounds'
  <2>1. first' = first /\ size' = size
    BY <1>3 DEF queue
  <2>2. CASE pos' = pos + (e \div 2) + 1 /\ e' = e - ((e \div 2) + 1)
    BY <1>1, <2>1, <2>2 DEF SearchInBounds
  <2>3. CASE pos' = pos /\ e' = e \div 2
    BY <1>1, <2>1, <2>3 DEF SearchInBounds
  <2> QED BY <1>2, <2>2, <2>3
<1> QED BY <1>5, <1>6, <1>7

\* Where a call that is in the queue after Link was before it.
LEMMA LinkShifts ==
  ASSUME Inv, Link
  PROVE  /\ Slots' = first - 1 .. size - 1
         /\ pos - 1 \in Slots' /\ buf'[pos - 1] = new
         /\ \A i \in Slots' : i < pos - 1 => i + 1 \in Slots /\ i + 1 < pos /\ buf'[i] = buf[i + 1]
         /\ \A i \in Slots' : i > pos - 1 => i \in Slots /\ i >= pos /\ buf'[i] = buf[i]
         /\ \A i \in Slots : i < pos => i - 1 \in Slots' /\ buf'[i - 1] = buf[i]
         /\ \A i \in Slots : i >= pos => i \in Slots' /\ buf'[i] = buf[i]
<1>1. /\ pos \in Int /\ size \in Nat /\ first \in Nat
      /\ pos <= size /\ first <= pos /\ first > 0
      /\ first' = first - 1 /\ size' = size
      /\ buf' = [i \in 0 .. size - 1 |->
               IF i = pos - 1 THEN new
               ELSE IF first - 1 <= i /\ i < pos - 1 THEN buf[i + 1]
               ELSE buf[i]]
  BY DEF Inv, Link, TypeOK, SearchInBounds
<1> QED BY <1>1 DEF Slots

\* Storing the new call (call_out.c:151-155) keeps the invariant: the free
\* slot left of the busy part is there because Grow ran before.
LEMMA LinkKeepsInv ==
  ASSUME Inv, Link
  PROVE  Inv'
<1> USE DEF Inv
<1>1. /\ pos \in Int /\ size \in Nat \ {0} /\ first \in Nat /\ num \in Nat
      /\ first + num = size /\ first > 0
      /\ first' = first - 1 /\ size' = size /\ num' = num + 1
      /\ pos' = 0 /\ e' = 0 /\ new' = NoCall
      /\ new \in Calls /\ new \in alloc /\ pc = "search" /\ pc' = "lpc"
      /\ Queued = alloc \ {new}
  BY DEF Link, TypeOK, QueuedExactlyOnce, SearchInBounds
<1>2. UNCHANGED <<structs, objs, command_giver, timer, ctx, cost>>
  BY DEF Link
<1>3. buf' \in [0 .. size - 1 -> Calls \cup {NoCall}]
  <2>1. \A i \in 0 .. size - 1 : first - 1 <= i /\ i < pos - 1 => i + 1 \in 0 .. size - 1
    BY <1>1 DEF SearchInBounds, TypeOK
  <2> QED BY <1>1, <2>1 DEF Link, TypeOK
<1>4. TypeOK'
  <2>1. first' \in 0 .. size' /\ num' \in 0 .. size'
    BY <1>1
  <2>2. ctx' # "none" /\ ctx' \in {"io", "beat", "sweep", "call"}
    BY <1>1, <1>2 DEF TypeOK
  <2> QED BY <1>1, <1>2, <1>3, <2>1, <2>2 DEF TypeOK, structs, objs, timer
<1>5. QueuedExactlyOnce'
  <2>1. \A i \in Slots : buf[i] # new
    BY <1>1 DEF Queued
  <2>0. \A i \in Slots' : i \in Int
    BY LinkShifts, <1>1
  <2>2. \A i, j \in Slots' : buf'[i] = buf'[j] => i = j
    <3> SUFFICES ASSUME NEW i \in Slots', NEW j \in Slots', buf'[i] = buf'[j], i < j
                 PROVE  FALSE
      BY <2>0
    <3>0. i \in Int /\ j \in Int
      BY <2>0
    <3>1. CASE j < pos - 1
      BY LinkShifts, <1>1, <3>0, <3>1 DEF QueuedExactlyOnce
    <3>2. CASE j = pos - 1
      BY LinkShifts, <1>1, <2>1, <3>0, <3>2
    <3>3. CASE j > pos - 1 /\ i = pos - 1
      BY LinkShifts, <1>1, <2>1, <3>0, <3>3
    <3>4. CASE j > pos - 1 /\ i > pos - 1
      BY LinkShifts, <1>1, <3>0, <3>4 DEF QueuedExactlyOnce
    <3>5. CASE j > pos - 1 /\ i < pos - 1
      <4>1. buf[i + 1] = buf[j] /\ i + 1 \in Slots /\ j \in Slots
        BY LinkShifts, <3>5
      <4> QED BY <1>1, <3>0, <3>5, <4>1 DEF QueuedExactlyOnce
    <3> QED BY <1>1, <3>0, <3>1, <3>2, <3>3, <3>4, <3>5
  <2>3. Queued' = Queued \cup {new}
    <3>1. ASSUME NEW i \in Slots' PROVE buf'[i] \in Queued \cup {new}
      <4>1. \/ buf'[i] = new
            \/ i + 1 \in Slots /\ buf'[i] = buf[i + 1]
            \/ i \in Slots /\ buf'[i] = buf[i]
        <5>1. i \in Int /\ (i < pos - 1 \/ i = pos - 1 \/ i > pos - 1)
          BY <1>1, <2>0
        <5> QED BY LinkShifts, <5>1
      <4> QED BY <4>1 DEF Queued
    <3>2. ASSUME NEW i \in Slots PROVE buf[i] \in Queued'
      <4>1. i \in Int
        BY <1>1 DEF Slots
      <4> QED BY LinkShifts, <1>1, <4>1 DEF Queued
    <3>3. new \in Queued'
      BY LinkShifts DEF Queued
    <3> QED BY <3>1, <3>2, <3>3 DEF Queued
  <2>4. Queued' = alloc' \ {new'}
    BY <1>1, <1>2, <2>3, CallsAssumption DEF TypeOK, structs
  <2>5. first' + num' = size'
    BY <1>1
  <2> QED BY <1>1, <2>2, <2>4, <2>5 DEF QueuedExactlyOnce
<1>6. SearchInBounds'
  BY <1>1 DEF SearchInBounds
<1> QED BY <1>4, <1>5, <1>6

\* What Release leaves of the types.
LEMMA ReleaseTypes ==
  ASSUME Inv, NEW c \in Calls, Release(c)
  PROVE  /\ alloc' \subseteq Calls
         /\ due' \in [Calls -> Int]
         /\ fun' \in [Calls -> Functions \cup {NoFunction}]
         /\ giver' \in [Calls -> Objects \cup {NoObject}]
         /\ life' \in [Objects -> {"live", "destructed", "gone"}]
         /\ ref' \in [Objects -> Int]
<1>1. ref' \in [Objects -> Int]
  BY DEF Inv, TypeOK, Release, Holds
<1> QED BY <1>1 DEF Inv, TypeOK, Release

\* remove_call_out moves what is before the removed call by one slot.
LEMMA RemoveShifts ==
  ASSUME Inv, NEW f \in Functions, RemoveCallOut(f)
  PROVE  \E i \in Slots :
           /\ FindsAt(f, i) /\ Release(buf[i])
           /\ buf' = [j \in 0 .. size - 1 |->
                       IF j = first THEN NoCall
                       ELSE IF first < j /\ j <= i THEN buf[j - 1]
                       ELSE buf[j]]
           /\ i \in Int /\ first <= i /\ i < size
           /\ Slots' = first + 1 .. size - 1
           /\ \A j \in Slots' : j \in Int /\ j \in Slots
           /\ \A j \in Slots' : j <= i => j - 1 \in Slots /\ buf'[j] = buf[j - 1]
           /\ \A j \in Slots' : j > i => buf'[j] = buf[j]
           /\ \A j \in Slots : j < i => j + 1 \in Slots' /\ buf'[j + 1] = buf[j]
           /\ \A j \in Slots : j > i => j \in Slots' /\ buf'[j] = buf[j]
           /\ \A j \in Slots : j \in Int
<1>1. PICK i \in Slots :
        /\ FindsAt(f, i) /\ Release(buf[i])
        /\ buf' = [j \in 0 .. size - 1 |->
                    IF j = first THEN NoCall
                    ELSE IF first < j /\ j <= i THEN buf[j - 1]
                    ELSE buf[j]]
  BY DEF RemoveCallOut
<1>2. /\ size \in Nat \ {0} /\ first \in Nat
      /\ i \in Int /\ first <= i /\ i < size
      /\ size' = size /\ first' = first + 1
  BY DEF RemoveCallOut, DropHead, Inv, TypeOK, Slots
<1>3. Slots' = first + 1 .. size - 1
  BY <1>2 DEF Slots
<1>4. /\ \A j \in Slots' : j \in Int /\ j \in Slots
      /\ \A j \in Slots' : j <= i => j - 1 \in Slots /\ buf'[j] = buf[j - 1]
      /\ \A j \in Slots' : j > i => buf'[j] = buf[j]
      /\ \A j \in Slots : j < i => j + 1 \in Slots' /\ buf'[j + 1] = buf[j]
      /\ \A j \in Slots : j > i => j \in Slots' /\ buf'[j] = buf[j]
      /\ \A j \in Slots : j \in Int
  BY <1>1, <1>2 DEF Slots
<1> QED BY <1>1, <1>2, <1>3, <1>4

\* remove_call_out (call_out.c:232-256) keeps the invariant.
LEMMA RemoveKeepsInv ==
  ASSUME Inv, NEW f \in Functions, RemoveCallOut(f)
  PROVE  Inv'
<1> USE DEF Inv
<1>1. PICK i \in Slots :
        /\ FindsAt(f, i) /\ Release(buf[i])
        /\ buf' = [j \in 0 .. size - 1 |->
                    IF j = first THEN NoCall
                    ELSE IF first < j /\ j <= i THEN buf[j - 1]
                    ELSE buf[j]]
        /\ i \in Int /\ first <= i /\ i < size
        /\ Slots' = first + 1 .. size - 1
        /\ \A j \in Slots' : j \in Int /\ j \in Slots
        /\ \A j \in Slots' : j <= i => j - 1 \in Slots /\ buf'[j] = buf[j - 1]
        /\ \A j \in Slots' : j > i => buf'[j] = buf[j]
        /\ \A j \in Slots : j < i => j + 1 \in Slots' /\ buf'[j + 1] = buf[j]
        /\ \A j \in Slots : j > i => j \in Slots' /\ buf'[j] = buf[j]
        /\ \A j \in Slots : j \in Int
  BY RemoveShifts
<1>2. /\ size \in Nat \ {0} /\ first \in Nat /\ num \in Nat /\ first + num = size
      /\ i \in Int /\ first <= i /\ i < size
      /\ size' = size /\ first' = first + 1 /\ num' = num - 1
      /\ pc = "lpc" /\ pc' = "lpc" /\ new = NoCall /\ cost < MaxCost /\ cost' = cost + 1 /\ ctx' = ctx
  BY <1>1 DEF RemoveCallOut, DropHead, Evaluating, Charge, TypeOK, QueuedExactlyOnce, locals
<1>3. UNCHANGED <<command_giver, timer, locals>>
  BY DEF RemoveCallOut
<1>4. buf[i] \in Calls /\ Queued = alloc /\ \A j \in Slots : buf[j] \in Calls
  BY SlotsHoldCalls, <1>2
<1>6. /\ \A j \in Slots' : j \in Int /\ j \in Slots
      /\ \A j \in Slots' : j <= i => j - 1 \in Slots /\ buf'[j] = buf[j - 1]
      /\ \A j \in Slots' : j > i => buf'[j] = buf[j]
      /\ \A j \in Slots : j < i => j + 1 \in Slots' /\ buf'[j + 1] = buf[j]
      /\ \A j \in Slots : j > i => j \in Slots' /\ buf'[j] = buf[j]
      /\ \A j \in Slots : j \in Int
  BY <1>1
<1>7. TypeOK'
  <2>1. buf' \in [0 .. size - 1 -> Calls \cup {NoCall}]
    <3>1. \A j \in 0 .. size - 1 : first < j => j - 1 \in 0 .. size - 1
      BY <1>2
    <3> QED BY <1>1, <1>2, <3>1 DEF TypeOK
  <2>2. first' \in 0 .. size' /\ num' \in 0 .. size' /\ cost' \in 0 .. MaxCost
    BY <1>2, BoundAssumption DEF TypeOK
  <2>3. ctx' # "none" /\ ctx' \in {"io", "beat", "sweep", "call"}
    BY <1>2 DEF TypeOK
  <2> QED BY <1>1, <1>2, <1>3, <1>4, <2>1, <2>2, <2>3, ReleaseTypes DEF TypeOK, timer, locals
<1>8. QueuedExactlyOnce'
  <2>1. \A j, k \in Slots' : buf'[j] = buf'[k] => j = k
    <3> SUFFICES ASSUME NEW j \in Slots', NEW k \in Slots', buf'[j] = buf'[k], j < k
                 PROVE  FALSE
      BY <1>6
    <3>1. CASE k <= i
      <4>1. buf[j - 1] = buf[k - 1] /\ j - 1 \in Slots /\ k - 1 \in Slots
        BY <1>2, <1>6, <3>1
      <4> QED BY <1>2, <1>6, <3>1, <4>1 DEF QueuedExactlyOnce
    <3>2. CASE k > i /\ j <= i
      <4>1. buf[j - 1] = buf[k] /\ j - 1 \in Slots /\ k \in Slots
        BY <1>2, <1>6, <3>2
      <4> QED BY <1>2, <1>6, <3>2, <4>1 DEF QueuedExactlyOnce
    <3>3. CASE k > i /\ j > i
      BY <1>2, <1>6, <3>3 DEF QueuedExactlyOnce
    <3> QED BY <1>2, <1>6, <3>1, <3>2, <3>3
  <2>2. Queued' = Queued \ {buf[i]}
    <3>1. ASSUME NEW j \in Slots' PROVE buf'[j] \in Queued \ {buf[i]}
      <4>1. CASE j <= i
        <5>1. buf'[j] = buf[j - 1] /\ j - 1 \in Slots /\ j - 1 # i
          BY <1>2, <1>6, <4>1
        <5> QED BY <5>1 DEF Queued, QueuedExactlyOnce
      <4>2. CASE j > i
        <5>1. buf'[j] = buf[j] /\ j \in Slots /\ j # i
          BY <1>2, <1>6, <4>2
        <5> QED BY <5>1 DEF Queued, QueuedExactlyOnce
      <4> QED BY <1>2, <1>6, <4>1, <4>2
    <3>2. ASSUME NEW j \in Slots, buf[j] # buf[i] PROVE buf[j] \in Queued'
      <4>1. j < i \/ j > i
        BY <1>2, <1>6, <3>2
      <4> QED BY <1>6, <4>1 DEF Queued
    <3> QED BY <3>1, <3>2 DEF Queued
  <2>3. alloc' = alloc \ {buf[i]} /\ new' = NoCall
    BY <1>1, <1>2, <1>3 DEF Release, locals
  <2>4. NoCall \notin alloc'
    BY <2>3, CallsAssumption DEF TypeOK
  <2>5. first' + num' = size'
    BY <1>2
  <2> QED BY <1>2, <1>4, <2>1, <2>2, <2>3, <2>4, <2>5 DEF QueuedExactlyOnce
<1>9. SearchInBounds'
  BY <1>2 DEF SearchInBounds
<1> QED BY <1>7, <1>8, <1>9

\* Unlinking the head, as do_call_outs and free_all_call_outs do.
LEMMA TakeHeadKeepsQueue ==
  ASSUME Inv, num > 0, TakeHead, UNCHANGED locals, pc # "search", pc' # "search"
  PROVE  /\ Slots' = Slots \ {first}
         /\ \A i \in Slots' : i \in Slots /\ buf'[i] = buf[i]
         /\ buf[first] \in Calls
         /\ size' \in Nat \ {0} /\ first' \in 0 .. size' /\ num' \in 0 .. size'
         /\ buf' \in [0 .. size' - 1 -> Calls \cup {NoCall}]
         /\ QueuedExactlyOnce'
         /\ SearchInBounds'
<1>1. /\ size \in Nat \ {0} /\ first \in Nat /\ num \in Nat /\ first + num = size
      /\ size' = size /\ first' = first + 1 /\ num' = num - 1
      /\ buf' = [buf EXCEPT ![first] = NoCall]
      /\ alloc' = alloc \ {buf[first]}
      /\ new = NoCall /\ new' = NoCall
  BY DEF Inv, TakeHead, DropHead, Release, TypeOK, QueuedExactlyOnce, locals
<1>2. first \in Slots /\ buf[first] \in Calls /\ Queued = alloc
  <2>1. first \in Slots
    BY <1>1 DEF Slots
  <2> QED BY <1>1, <2>1, SlotsHoldCalls
<1>3. /\ Slots' = Slots \ {first}
      /\ \A i \in Slots : i \in 0 .. size - 1
  BY <1>1 DEF Slots
<1>4. \A i \in Slots' : i \in Slots /\ buf'[i] = buf[i]
  BY <1>1, <1>3 DEF Inv, TypeOK
<1>5. Queued' = Queued \ {buf[first]}
  <2>1. ASSUME NEW i \in Slots' PROVE buf'[i] \in Queued \ {buf[first]}
    BY <1>2, <1>3, <1>4, <2>1 DEF Queued, Inv, QueuedExactlyOnce
  <2>2. ASSUME NEW i \in Slots, buf[i] # buf[first] PROVE buf[i] \in Queued'
    BY <1>3, <1>4, <2>2 DEF Queued
  <2> QED BY <2>1, <2>2 DEF Queued
<1>6. QueuedExactlyOnce'
  <2>1. \A i, j \in Slots' : buf'[i] = buf'[j] => i = j
    BY <1>4 DEF Inv, QueuedExactlyOnce
  <2>2. Queued' = alloc' \ {new'}
    BY <1>1, <1>2, <1>5, CallsAssumption DEF Inv, TypeOK
  <2>3. first' + num' = size'
    BY <1>1
  <2> QED BY <1>1, <2>1, <2>2, <2>3 DEF QueuedExactlyOnce
<1>7. SearchInBounds'
  BY DEF SearchInBounds
<1>8. buf' \in [0 .. size' - 1 -> Calls \cup {NoCall}]
  BY <1>1 DEF Inv, TypeOK
<1>9. size' \in Nat \ {0} /\ first' \in 0 .. size' /\ num' \in 0 .. size'
  BY <1>1
<1> QED BY <1>2, <1>3, <1>4, <1>6, <1>7, <1>8, <1>9

\* do_call_outs taking the head (call_out.c:182-197) keeps the invariant.
LEMMA TakeDueKeepsInv ==
  ASSUME Inv, RunDue \/ SkipDue \/ RefuseDue
  PROVE  Inv'
<1>1. /\ TakeDue /\ num > 0 /\ TakeHead /\ UNCHANGED <<timer, locals>>
      /\ command_giver' = giver[buf[first]] /\ pc = "due"
  BY DEF RunDue, SkipDue, RefuseDue, TakeDue, HeadDue
<1>7. cost' \in 0 .. MaxCost
  BY DEF Inv, TypeOK, RunDue, SkipDue, RefuseDue, HandleError
<1>2. \/ pc' = "lpc" /\ ctx' = "call"
      \/ pc' \in {"due", "top"} /\ ctx' = ctx
  BY <1>1 DEF RunDue, SkipDue, RefuseDue
<1>3. Release(buf[first])
  BY <1>1 DEF TakeHead
<1>4. ctx = "none"
  BY <1>1 DEF Inv, TypeOK
<1>5. command_giver' \in Objects \cup {NoObject}
  BY <1>1, <1>2, TakeHeadKeepsQueue DEF Inv, TypeOK
<1>6. TypeOK'
  BY <1>1, <1>2, <1>3, <1>4, <1>5, <1>7, TakeHeadKeepsQueue, ReleaseTypes DEF Inv, TypeOK, timer, locals
<1> QED BY <1>1, <1>2, <1>6, TakeHeadKeepsQueue DEF Inv

\* free_all_call_outs (call_out.c:335-351) keeps the invariant.
LEMMA FreeCallOutKeepsInv ==
  ASSUME Inv, FreeCallOut
  PROVE  Inv'
<1>1. /\ num > 0 /\ TakeHead /\ Release(buf[first])
      /\ UNCHANGED <<command_giver, timer, pc, ctx, cost, locals>> /\ pc = "shutdown"
  BY DEF FreeCallOut, TakeHead
<1>2. TypeOK'
  BY <1>1, TakeHeadKeepsQueue, ReleaseTypes DEF Inv, TypeOK, timer, locals
<1> QED BY <1>1, <1>2, TakeHeadKeepsQueue DEF Inv

\* The steps that touch neither the queue nor the search.
QuietStep ==
  \/ \E o \in Objects : SetThisPlayer(o) \/ Destruct(o) \/ Clone(o)
  \/ \E o \in Objects \cup {NoObject} : ReturnToFrame(o) \/ Beat(o)
  \/ \E k \in Elapse : HeartBeat(k)
  \/ Return \/ Throw \/ ThrowInSweep \/ Top \/ ProcessIo \/ NoIo \/ NoHeartBeat
  \/ BeatsDone \/ Sweep \/ CallOutsDone \/ Shutdown \/ Exit \/ Alarm \/ Exited

\* Every step outside call_out.c leaves the queue alone.
LEMMA QuietSteps ==
  ASSUME Inv, QuietStep \/ UNCHANGED vars
  PROVE  Quiet
<1>1. pc # "search" /\ ctx # "none" /\ pc = "lpc" => Resume[ctx] # "search"
  BY DEF Inv, TypeOK, Resume
<1>2. CASE UNCHANGED vars
  BY <1>2 DEF vars, queue, structs, locals, Quiet
<1>3. CASE Return
  BY <1>3, <1>1 DEF Return, queue, structs, locals, Quiet, Inv, TypeOK
<1>4. CASE QuietStep /\ ~Return
  BY <1>4 DEF QuietStep, SetThisPlayer, Destruct, Clone, ReturnToFrame, Beat, HeartBeat, Throw,
     ThrowInSweep, Top, ProcessIo, NoIo, NoHeartBeat, BeatsDone, Sweep, CallOutsDone, Shutdown,
     Exit, Alarm, Exited, Evaluating, queue, structs, locals, vars, Quiet
<1> QED BY <1>2, <1>3, <1>4 DEF QuietStep

\* Every step outside call_out.c keeps the types.
LEMMA QuietKeepsTypes ==
  ASSUME Inv, QuietStep \/ UNCHANGED vars
  PROVE  TypeOK'
<1> USE DEF Inv, TypeOK, queue, structs, objs, locals, timer
<1>1. CASE UNCHANGED vars
  BY <1>1 DEF vars
<1>2. ASSUME NEW o \in Objects, SetThisPlayer(o) PROVE TypeOK'
  BY <1>2, BoundAssumption DEF SetThisPlayer, Evaluating, Charge
<1>3. ASSUME NEW o \in Objects, Destruct(o) PROVE TypeOK'
  BY <1>3, BoundAssumption DEF Destruct, Evaluating, Charge
<1>4. ASSUME NEW o \in Objects, Clone(o) PROVE TypeOK'
  BY <1>4, BoundAssumption DEF Clone, Evaluating, Charge
<1>5. ASSUME NEW o \in Objects \cup {NoObject}, ReturnToFrame(o) PROVE TypeOK'
  BY <1>5, BoundAssumption DEF ReturnToFrame, Evaluating, Charge
<1>6. ASSUME NEW o \in Objects \cup {NoObject}, Beat(o) PROVE TypeOK'
  BY <1>6, BoundAssumption DEF Beat
<1>7. ASSUME NEW k \in Elapse, HeartBeat(k) PROVE TypeOK'
  <2>1. due' \in [Calls -> Int]
    BY <1>7, ElapseAssumption, BoundAssumption DEF HeartBeat, Later
  <2> QED BY <1>7, <2>1 DEF HeartBeat
<1>8. CASE Top
  <2>1. /\ life' \in [Objects -> {"live", "destructed", "gone"}]
        /\ ref' \in [Objects -> Int]
    BY <1>8 DEF Top
  <2> QED BY <1>8, <2>1, BoundAssumption DEF Top
<1>9. CASE Return
  BY <1>9 DEF Return, Resume
<1>10. CASE Throw
  BY <1>10 DEF Throw, HandleError
<1>11. CASE ThrowInSweep
  BY <1>11 DEF ThrowInSweep, HandleError
<1>12. CASE ProcessIo
  BY <1>12 DEF ProcessIo
<1>13. CASE NoIo \/ NoHeartBeat \/ BeatsDone \/ CallOutsDone \/ Shutdown \/ Exit
  <2>1. CASE NoIo
    BY <2>1 DEF NoIo
  <2>2. CASE NoHeartBeat
    BY <2>2 DEF NoHeartBeat
  <2>3. CASE BeatsDone
    BY <2>3 DEF BeatsDone
  <2>4. CASE CallOutsDone
    BY <2>4 DEF CallOutsDone
  <2>5. CASE Shutdown
    BY <2>5 DEF Shutdown
  <2>6. CASE Exit
    BY <2>6 DEF Exit
  <2> QED BY <1>13, <2>1, <2>2, <2>3, <2>4, <2>5, <2>6
<1>14. CASE Sweep
  BY <1>14 DEF Sweep
<1>15. CASE Alarm
  BY <1>15 DEF Alarm
<1>16. CASE Exited
  BY <1>16 DEF Exited, vars
<1> QED BY <1>1, <1>2, <1>3, <1>4, <1>5, <1>6, <1>7, <1>8, <1>9, <1>10, <1>11, <1>12,
           <1>13, <1>14, <1>15, <1>16 DEF QuietStep

\* The invariant holds in the state main() leaves behind.
LEMMA InitInv == Init => Inv
<1> SUFFICES ASSUME Init PROVE Inv
  OBVIOUS
<1>1. Slots = {} /\ Queued = {}
  BY BoundAssumption DEF Init, Slots, Queued
<1>2. TypeOK
  <2>1. /\ size \in Nat \ {0} /\ first \in 0 .. size /\ num \in 0 .. size
        /\ buf \in [0 .. size - 1 -> Calls \cup {NoCall}]
    BY BoundAssumption DEF Init
  <2>2. /\ alloc \subseteq Calls /\ due \in [Calls -> Int]
        /\ fun \in [Calls -> Functions \cup {NoFunction}]
        /\ giver \in [Calls -> Objects \cup {NoObject}]
        /\ life \in [Objects -> {"live", "destructed", "gone"}]
        /\ ref \in [Objects -> Int]
    BY DEF Init
  <2>3. heart_beat_flag \in BOOLEAN
    BY Zenon DEF Init
  <2>4. /\ cost \in 0 .. MaxCost /\ pos \in Int /\ e \in Nat
        /\ beaters \in Int /\ left \in Int
    BY BoundAssumption DEF Init
  <2> QED BY <2>1, <2>2, <2>3, <2>4 DEF Init, TypeOK
<1>3. QueuedExactlyOnce /\ SearchInBounds
  BY <1>1, BoundAssumption DEF Init, QueuedExactlyOnce, SearchInBounds
<1> QED BY <1>2, <1>3 DEF Inv

\* Every step keeps the invariant.
LEMMA NextInv == Inv /\ [Next]_vars => Inv'
<1> SUFFICES ASSUME Inv, [Next]_vars PROVE Inv'
  OBVIOUS
<1>1. ASSUME NEW f \in Functions, NEW d \in Delays, CallOut(f, d) PROVE Inv'
  BY <1>1, CallOutKeepsInv
<1>2. ASSUME NEW f \in Functions, RemoveCallOut(f) PROVE Inv'
  BY <1>2, RemoveKeepsInv
<1>3. CASE Search
  BY <1>3, SearchKeepsInv
<1>4. CASE Link
  BY <1>4, LinkKeepsInv
<1>5. CASE RunDue \/ SkipDue \/ RefuseDue
  BY <1>5, TakeDueKeepsInv
<1>6. CASE FreeCallOut
  BY <1>6, FreeCallOutKeepsInv
<1>7. CASE QuietStep \/ UNCHANGED vars
  BY <1>7, QuietSteps, QuietKeepsTypes, QuietKeepsQueue DEF Inv
<1> QED BY <1>1, <1>2, <1>3, <1>4, <1>5, <1>6, <1>7 DEF Next, Lpc, Backend, DoCallOuts, QuietStep

\* The types are right in every reachable state, whatever the constants are.
THEOREM TypeCorrect == Spec => []TypeOK
<1>1. Inv => TypeOK
  BY DEF Inv
<1> QED BY <1>1, InitInv, NextInv, PTL DEF Spec

\* No interleaving of call_out, remove_call_out, do_call_outs and growth of
\* the buffer loses, doubles or leaks a call (call_out.c:52-160, 177-201,
\* 232-256): for every buffer size and any number of calls.
THEOREM CallsQueuedOnce == Spec => []QueuedExactlyOnce
<1>1. Inv => QueuedExactlyOnce
  BY DEF Inv
<1> QED BY <1>1, InitInv, NextInv, PTL DEF Spec

\* The queue is sound in every reachable state, during growth and insertion and
\* when errors leave do_call_outs halfway (call_out.c:52-256).
THEOREM QueueStaysSound == Spec => []QueueSound
<1>1. Inv => QueueSound
  BY DEF Inv, QueueSound
<1> QED BY <1>1, InitInv, NextInv, PTL DEF Spec

-----------------------------------------------------------------------------
(* The references                                                          *)

\* Only finitely many structs are in use, and each of them has a function.
Filled == IsFiniteSet(alloc) /\ \A c \in alloc : fun[c] \in Functions

RefInv == Inv /\ Filled /\ RefCountExact

\* The reference of the list an object is on.
Listed(o) == IF life[o] = "gone" THEN 0 ELSE 1

\* What is counted are finite sets.
LEMMA CountsFinite ==
  ASSUME Filled, NEW o \in Objects
  PROVE  /\ IsFiniteSet(Holding(o)) /\ Cardinality(Holding(o)) \in Nat
         /\ IsFiniteSet(Owning(o)) /\ Cardinality(Owning(o)) \in Nat
<1>1. Holding(o) \in SUBSET alloc /\ Owning(o) \in SUBSET alloc
  BY DEF Holding, Owning
<1> QED BY <1>1, FS_Subset, FS_CardinalityType DEF Filled

\* A struct that is filled in adds its own two references (call_out.c:88-127).
LEMMA FillCounts ==
  ASSUME RefInv, NEW c \in Calls \ alloc, NEW f \in Functions, NEW g \in Objects \cup {NoObject},
         alloc' = alloc \cup {c},
         fun' = [fun EXCEPT ![c] = f], giver' = [giver EXCEPT ![c] = g],
         life' = life,
         ref' = [o \in Objects |-> ref[o] + (IF g = o THEN 1 ELSE 0)
                                          + (IF Owner[f] = o THEN 1 ELSE 0)]
  PROVE  Filled' /\ RefCountExact'
<1>1. /\ \A d \in alloc : d # c /\ fun'[d] = fun[d] /\ giver'[d] = giver[d]
      /\ fun'[c] = f /\ giver'[c] = g /\ c \notin alloc
  BY DEF RefInv, Inv, TypeOK
<1>2. Filled'
  BY <1>1, FS_AddElement DEF RefInv, Filled
<1>3. ASSUME NEW o \in Objects
      PROVE  /\ Cardinality(Holding(o)') = Cardinality(Holding(o)) + (IF g = o THEN 1 ELSE 0)
             /\ Cardinality(Owning(o)') = Cardinality(Owning(o)) + (IF Owner[f] = o THEN 1 ELSE 0)
  <2>1. /\ Holding(o)' = IF g = o THEN Holding(o) \cup {c} ELSE Holding(o)
        /\ Owning(o)' = IF Owner[f] = o THEN Owning(o) \cup {c} ELSE Owning(o)
        /\ c \notin Holding(o) /\ c \notin Owning(o)
    BY <1>1 DEF Holding, Owning
  <2>2. /\ Cardinality(Holding(o) \cup {c}) = Cardinality(Holding(o)) + 1
        /\ Cardinality(Owning(o) \cup {c}) = Cardinality(Owning(o)) + 1
    BY <2>1, CountsFinite, FS_AddElement DEF RefInv
  <2>3. Cardinality(Holding(o)) \in Nat /\ Cardinality(Owning(o)) \in Nat
    BY CountsFinite DEF RefInv
  <2> QED BY <2>1, <2>2, <2>3
<1>4. ASSUME NEW o \in Objects
      PROVE  ref'[o] = Listed(o)' + Cardinality(Holding(o)') + Cardinality(Owning(o)')
  <2>1. ref[o] = Listed(o) + Cardinality(Holding(o)) + Cardinality(Owning(o))
    BY DEF RefInv, RefCountExact, Listed
  <2>2. Cardinality(Holding(o)) \in Nat /\ Cardinality(Owning(o)) \in Nat
    BY CountsFinite DEF RefInv
  <2>3. Listed(o)' = Listed(o) /\ Listed(o) \in Nat
    BY DEF Listed
  <2>4. ref'[o] = ref[o] + (IF g = o THEN 1 ELSE 0) + (IF Owner[f] = o THEN 1 ELSE 0)
    OBVIOUS
  <2> QED BY <1>3, <2>1, <2>2, <2>3, <2>4
<1> QED BY <1>2, <1>4 DEF RefCountExact, Listed

\* A struct that is freed gives back exactly what it held (call_out.c:40-50).
LEMMA ReleaseCounts ==
  ASSUME RefInv, NEW c \in alloc, Release(c)
  PROVE  Filled' /\ RefCountExact'
<1>1. /\ c \in Calls /\ alloc \subseteq Calls
      /\ \A d \in alloc \ {c} : fun'[d] = fun[d] /\ giver'[d] = giver[d]
      /\ alloc' = alloc \ {c} /\ life' = life /\ fun[c] \in Functions
  BY DEF RefInv, Inv, TypeOK, Release, Filled
<1>2. Filled'
  BY <1>1, FS_RemoveElement DEF RefInv, Filled
<1>3. ASSUME NEW o \in Objects
      PROVE  Cardinality(Holding(o)') + Cardinality(Owning(o)')
               = Cardinality(Holding(o)) + Cardinality(Owning(o)) - Holds(c, o)
  <2>1. Holding(o)' = Holding(o) \ {c} /\ Owning(o)' = Owning(o) \ {c}
    BY <1>1 DEF Holding, Owning
  <2>2. (c \in Holding(o) <=> giver[c] = o) /\ (c \in Owning(o) <=> Owner[fun[c]] = o)
    BY DEF Holding, Owning
  <2>3. /\ Cardinality(Holding(o)') =
             Cardinality(Holding(o)) - (IF giver[c] = o THEN 1 ELSE 0)
        /\ Cardinality(Owning(o)') =
             Cardinality(Owning(o)) - (IF Owner[fun[c]] = o THEN 1 ELSE 0)
        /\ Cardinality(Holding(o)) \in Nat /\ Cardinality(Owning(o)) \in Nat
    <3>1. IsFiniteSet(Holding(o)) /\ Cardinality(Holding(o)) \in Nat
      BY CountsFinite DEF RefInv
    <3>2. IsFiniteSet(Owning(o)) /\ Cardinality(Owning(o)) \in Nat
      BY CountsFinite DEF RefInv
    <3>3. Cardinality(Holding(o) \ {c}) =
            IF c \in Holding(o) THEN Cardinality(Holding(o)) - 1 ELSE Cardinality(Holding(o))
      BY <3>1, FS_RemoveElement
    <3>4. Cardinality(Owning(o) \ {c}) =
            IF c \in Owning(o) THEN Cardinality(Owning(o)) - 1 ELSE Cardinality(Owning(o))
      BY <3>2, FS_RemoveElement
    <3> QED BY <2>1, <2>2, <3>1, <3>2, <3>3, <3>4
  <2>4. fun[c] # NoFunction
    BY <1>1, NoneAssumption
  <2> QED BY <2>3, <2>4 DEF Holds
<1>4. ASSUME NEW o \in Objects
      PROVE  ref'[o] = Listed(o)' + Cardinality(Holding(o)') + Cardinality(Owning(o)')
  <2>1. ref[o] = Listed(o) + Cardinality(Holding(o)) + Cardinality(Owning(o))
    BY DEF RefInv, RefCountExact, Listed
  <2>2. Cardinality(Holding(o)) \in Nat /\ Cardinality(Owning(o)) \in Nat
    BY CountsFinite DEF RefInv
  <2>3. Cardinality(Holding(o)') \in Nat /\ Cardinality(Owning(o)') \in Nat
    <3>1. Holding(o)' \in SUBSET alloc' /\ Owning(o)' \in SUBSET alloc'
      BY DEF Holding, Owning
    <3> QED BY <1>2, <3>1, FS_Subset, FS_CardinalityType DEF Filled
  <2>4. Listed(o)' = Listed(o) /\ Listed(o) \in Nat
    BY <1>1 DEF Listed
  <2>5. ref'[o] = ref[o] - Holds(c, o) /\ Holds(c, o) \in Nat
    BY DEF Release, Holds
  <2> QED BY <1>3, <2>1, <2>2, <2>3, <2>4, <2>5
<1> QED BY <1>2, <1>4 DEF RefCountExact, Listed

\* A step that leaves the structs alone and moves the reference of the list
\* with the object keeps the counts.
LEMMA ListCounts ==
  ASSUME RefInv, UNCHANGED <<alloc, fun, giver>>,
         \A o \in Objects : ref'[o] = ref[o] + Listed(o)' - Listed(o)
  PROVE  Filled' /\ RefCountExact'
<1>1. Filled'
  BY DEF RefInv, Filled
<1>2. ASSUME NEW o \in Objects
      PROVE  ref'[o] = Listed(o)' + Cardinality(Holding(o)') + Cardinality(Owning(o)')
  <2>1. Holding(o)' = Holding(o) /\ Owning(o)' = Owning(o)
    BY DEF Holding, Owning
  <2>2. ref[o] = Listed(o) + Cardinality(Holding(o)) + Cardinality(Owning(o))
    BY DEF RefInv, RefCountExact, Listed
  <2>3. Cardinality(Holding(o)) \in Nat /\ Cardinality(Owning(o)) \in Nat
    BY CountsFinite DEF RefInv
  <2>4. Listed(o)' \in Nat /\ Listed(o) \in Nat
    BY DEF Listed
  <2> QED BY <2>1, <2>2, <2>3, <2>4
<1> QED BY <1>1, <1>2 DEF RefCountExact, Listed

-----------------------------------------------------------------------------
\* An empty queue holds nothing.
LEMMA InitRefs == Init => RefInv
<1> SUFFICES ASSUME Init PROVE RefInv
  OBVIOUS
<1>1. alloc = {} /\ \A o \in Objects : Holding(o) = {} /\ Owning(o) = {} /\ life[o] = "live" /\ ref[o] = 1
  BY DEF Init, Holding, Owning
<1>2. Filled
  BY <1>1, FS_EmptySet DEF Filled
<1>3. RefCountExact
  BY <1>1, FS_EmptySet DEF RefCountExact
<1> QED BY <1>2, <1>3, InitInv DEF RefInv

\* Every step keeps the counts.
LEMMA NextRefs == RefInv /\ [Next]_vars => RefInv'
<1> SUFFICES ASSUME RefInv, [Next]_vars PROVE Filled' /\ RefCountExact'
  BY NextInv DEF RefInv
<1>1. ASSUME NEW f \in Functions, NEW d \in Delays, CallOut(f, d) PROVE Filled' /\ RefCountExact'
  <2>1. PICK t \in DueIn(d) : CallOutWith(f, t)
    BY <1>1 DEF CallOut
  <2>2. new' \in Calls \ alloc
    BY <1>1, <2>1 DEF CallOut, CallOutWith
  <2>3. command_giver \in Objects \cup {NoObject} /\ life' = life
    BY <1>1 DEF CallOut, RefInv, Inv, TypeOK
  <2>4. /\ alloc' = alloc \cup {new'}
        /\ fun' = [fun EXCEPT ![new'] = f] /\ giver' = [giver EXCEPT ![new'] = command_giver]
        /\ ref' = [o \in Objects |-> ref[o] + (IF command_giver = o THEN 1 ELSE 0)
                                            + (IF Owner[f] = o THEN 1 ELSE 0)]
    BY <2>1 DEF CallOutWith
  <2> QED BY <2>2, <2>3, <2>4, FillCounts
<1>2. ASSUME NEW f \in Functions, RemoveCallOut(f) PROVE Filled' /\ RefCountExact'
  <2>1. PICK i \in Slots : Release(buf[i])
    BY <1>2 DEF RemoveCallOut
  <2> QED BY <2>1, SlotsHoldCalls, ReleaseCounts DEF RefInv
<1>3. CASE RunDue \/ SkipDue \/ RefuseDue \/ FreeCallOut
  <2>1. Release(buf[first]) /\ num > 0
    BY <1>3 DEF RunDue, SkipDue, RefuseDue, TakeDue, HeadDue, FreeCallOut, TakeHead
  <2>2. first \in Slots
    BY <2>1 DEF RefInv, Inv, TypeOK, QueuedExactlyOnce, Slots
  <2> QED BY <2>1, <2>2, SlotsHoldCalls, ReleaseCounts DEF RefInv
<1>4. ASSUME NEW o \in Objects, Destruct(o) PROVE Filled' /\ RefCountExact'
  <2>1. \A p \in Objects : ref'[p] = ref[p] + Listed(p)' - Listed(p)
    BY <1>4 DEF Destruct, Listed, RefInv, Inv, TypeOK
  <2> QED BY <1>4, <2>1, ListCounts DEF Destruct, structs
<1>5. ASSUME NEW o \in Objects, Clone(o) PROVE Filled' /\ RefCountExact'
  <2>1. \A p \in Objects : ref'[p] = ref[p] + Listed(p)' - Listed(p)
    BY <1>5 DEF Clone, Listed, RefInv, Inv, TypeOK
  <2> QED BY <1>5, <2>1, ListCounts DEF Clone, structs
<1>6. CASE Top
  <2>1. \A p \in Objects : ref'[p] = ref[p] + Listed(p)' - Listed(p)
    BY <1>6 DEF Top, Listed, RefInv, Inv, TypeOK
  <2> QED BY <1>6, <2>1, ListCounts DEF Top, structs
<1>7. ASSUME UNCHANGED <<alloc, fun, giver, objs>> PROVE Filled' /\ RefCountExact'
  <2>1. \A p \in Objects : ref'[p] = ref[p] + Listed(p)' - Listed(p)
    BY <1>7 DEF objs, Listed, RefInv, Inv, TypeOK
  <2> QED BY <1>7, <2>1, ListCounts DEF objs
<1>8. CASE Search \/ Link \/ UNCHANGED vars
  BY <1>7, <1>8 DEF Search, Link, vars, structs
<1>9. CASE QuietStep /\ ~Top /\ ~(\E o \in Objects : Destruct(o) \/ Clone(o))
  BY <1>7, <1>9 DEF QuietStep, SetThisPlayer, ReturnToFrame, Beat, HeartBeat, Return, Throw,
     ThrowInSweep, ProcessIo, NoIo, NoHeartBeat, BeatsDone, Sweep, CallOutsDone, Shutdown,
     Exit, Alarm, Exited, structs, vars
<1> QED BY <1>1, <1>2, <1>3, <1>4, <1>5, <1>6, <1>8, <1>9
        DEF Next, Lpc, Backend, DoCallOuts, QuietStep

\* The queue holds exactly the references it counts: no order of call_out,
\* remove_call_out, do_call_outs, shutdown, destruct and the reuse of memory
\* leaks one or gives one back twice (call_out.c:40-50, 114-127, 189, 348).
THEOREM ReferencesExact == Spec => []RefCountExact
<1>1. RefInv => RefCountExact
  BY DEF RefInv
<1> QED BY <1>1, InitRefs, NextRefs, PTL DEF Spec
-----------------------------------------------------------------------------
(***************************************************************************)
(* The order of the queue: only an immediate call made while others are    *)
(* overdue can break it, and without immediate calls nothing can.          *)
(***************************************************************************)

\* What the binary search of new_call_out knows: every pending call left of
\* pos is due before the new one, none from pos + e on is.
Split ==
  /\ \A i \in Slots : i < pos => due[buf[i]] < due[new]
  /\ \A i \in Slots : i >= pos + e => due[new] <= due[buf[i]]

\* No call is later than the saturation bound; the search is skipped exactly
\* for a call due in the next second (or whose time has overflown).
SearchOrder ==
  /\ \A c \in Calls : -MaxLate <= due[c]
  /\ pc = "search" /\ due[new] <= 1 =>
        pos = first /\ e = 0 /\ due[new] \in {1, -MaxLate}
  /\ pc = "search" /\ due[new] > 1 /\ Sorted => Split

OrderInv == Inv /\ SearchOrder

\* Facts on a pending call that most leaves need.
LEMMA SlotDue ==
  ASSUME OrderInv
  PROVE  /\ \A i \in Slots : due[buf[i]] \in Int /\ i \in Int
         /\ MaxLate \in Nat
         /\ pc = "search" => due[new] \in Int /\ new \in Calls
<1>1. pc = "search" => new \in Calls
  BY CallsAssumption DEF OrderInv, Inv, TypeOK, QueuedExactlyOnce
<1> QED BY <1>1, SlotsHoldCalls, BoundAssumption DEF OrderInv, Inv, TypeOK

-----------------------------------------------------------------------------
\* new_call_out up to its search keeps the order and starts a search whose
\* interval holds the place of the new call.
LEMMA CallOutOrder ==
  ASSUME OrderInv, NEW f \in Functions, NEW d \in Delays, CallOut(f, d)
  PROVE  SearchOrder' /\ (Sorted => Sorted')
<1>1. PICK t \in DueIn(d) : CallOutWith(f, t)
  BY DEF CallOut
<1>2. PICK g \in {0, size} :
        /\ g \in Nat /\ size \in Nat \ {0} /\ first \in Nat /\ num \in Nat
        /\ first + num = size /\ first + g <= size + g
        /\ first + g > 0
        /\ size' = size + g /\ first' = first + g
        /\ buf' = [i \in 0 .. size + g - 1 |-> IF i < g THEN NoCall ELSE buf[i - g]]
        /\ Slots' = first + g .. size + g - 1
        /\ \A i \in Slots' : i \in Int /\ i - g \in Slots /\ buf'[i] = buf[i - g]
        /\ \A i \in Slots : i + g \in Slots' /\ (i + g) - g = i
  BY <1>1, GrowShifts DEF CallOutWith, OrderInv
<1>3. /\ t \in Int /\ (t <= 1 => t \in {1, -MaxLate}) /\ -MaxLate <= t /\ MaxLate \in Nat
  BY DelaysAssumption, BoundAssumption DEF DueIn
<1>4. /\ new' \in Calls /\ new' \notin alloc
      /\ due' = [due EXCEPT ![new'] = t] /\ due'[new'] = t
      /\ pc' = "search" /\ pos' = first + g /\ (t <= 1 => e' = 0) /\ (t > 1 => e' = num)
  <2>1. new' \in Calls /\ new' \notin alloc
    BY <1>1 DEF CallOut, CallOutWith
  <2>2. pos' = first + g /\ (t <= 1 => e' = 0) /\ (t > 1 => e' = num)
    BY <1>1, <1>2, <1>3 DEF CallOutWith
  <2> QED BY <1>1, <2>1, <2>2 DEF CallOut, CallOutWith, OrderInv, Inv, TypeOK
<1>5. \A c \in Calls : -MaxLate <= due'[c]
  BY <1>3, <1>4 DEF OrderInv, SearchOrder, Inv, TypeOK
<1>6. \A i \in Slots' : i \in Int /\ first + g <= i /\ i < size + g
  <2>1. Slots' = first + g .. size + g - 1 /\ first \in Nat /\ g \in Nat /\ size \in Nat
    BY <1>2
  <2> QED BY <2>1
<1>7. SearchOrder'
  <2>1. pc' = "search" /\ due'[new'] <= 1 =>
          pos' = first' /\ e' = 0 /\ due'[new'] \in {1, -MaxLate}
    BY <1>2, <1>3, <1>4
  <2>2. ASSUME due'[new'] > 1 PROVE Split'
    <3>1. e' = num /\ pos' = first + g /\ first + num = size /\ first \in Nat /\ g \in Nat /\ num \in Nat
      BY <1>2, <1>4, <2>2
    <3>2. \A i \in Slots' : ~(i < pos') /\ ~(i >= pos' + e')
      BY <1>6, <3>1
    <3> QED BY <3>2 DEF Split
  <2> QED BY <1>5, <2>1, <2>2 DEF SearchOrder
<1>8. ASSUME Sorted PROVE Sorted'
  <2>1. \A i \in Slots' : i \in Int /\ i - g \in Slots /\ due'[buf'[i]] = due[buf[i - g]]
    <3>1. \A i \in Slots' : i \in Int /\ i - g \in Slots /\ buf'[i] = buf[i - g]
      BY <1>2
    <3>2. \A i \in Slots : buf[i] # new' /\ buf[i] \in Calls
      BY <1>4, SlotsHoldCalls DEF OrderInv
    <3> QED BY <1>4, <3>1, <3>2 DEF OrderInv, Inv, TypeOK
  <2>2. g \in Int
    BY <1>2
  <2> QED BY <1>8, <2>1, <2>2 DEF Sorted
<1> QED BY <1>7, <1>8

\* A round of the binary search keeps the place of the new call inside.
LEMMA SearchKeepsOrder ==
  ASSUME OrderInv, Search
  PROVE  SearchOrder' /\ (Sorted => Sorted')
<1>1. UNCHANGED <<first, size, buf, due, new, pc>> /\ pc = "search" /\ e > 0
  BY DEF Search, queue, structs
<1>2. /\ e \in Nat \ {0} /\ pos \in Int /\ e \div 2 \in Nat /\ e \div 2 < e
      /\ pos + e <= size /\ first <= pos /\ size \in Nat /\ first \in Nat
  BY <1>1, HalfBelow DEF OrderInv, Inv, TypeOK, SearchInBounds
<1>3. Slots' = Slots /\ (Sorted' <=> Sorted) /\ \A i \in Slots : first <= i /\ i < size
  BY <1>1, <1>2 DEF Slots, Sorted
<1>4. due[new] > 1 /\ due[new] \in Int
  BY <1>1, <1>2, SlotDue DEF OrderInv, SearchOrder
<1>5. ASSUME Sorted PROVE Split'
  <2> DEFINE c == e \div 2
  <2>0. c \in Nat /\ pos + c \in Slots /\ pos + c \in Int
    BY <1>2 DEF Slots
  <2>1. Split /\ \A i, j \in Slots : i <= j => due[buf[i]] <= due[buf[j]]
    BY <1>1, <1>4, <1>5, SlotDue DEF OrderInv, SearchOrder, Sorted
  <2>2. CASE due[new] > due[buf[pos + c]]
    <3>1. pos' = pos + c + 1 /\ e' = e - (c + 1) /\ pos + c + 1 + (e - (c + 1)) = pos + e
      BY <1>2, <2>2 DEF Search
    <3>2. ASSUME NEW i \in Slots, i < pos + c + 1 PROVE due[buf[i]] < due[new]
      <4>1. due[buf[i]] <= due[buf[pos + c]]
        BY <2>0, <2>1, <3>2, SlotDue
      <4> QED BY <1>4, <2>0, <2>2, <4>1, SlotDue
    <3> HIDE DEF c
    <3> QED BY <1>1, <1>3, <2>1, <3>1, <3>2 DEF Split
  <2>3. CASE ~(due[new] > due[buf[pos + c]])
    <3>1. pos' = pos /\ e' = c
      BY <2>3 DEF Search
    <3>2. ASSUME NEW i \in Slots, i >= pos + c PROVE due[new] <= due[buf[i]]
      <4>1. due[buf[pos + c]] <= due[buf[i]]
        BY <2>0, <2>1, <3>2, SlotDue
      <4> QED BY <1>4, <2>0, <2>3, <4>1, SlotDue
    <3> HIDE DEF c
    <3> QED BY <1>1, <1>3, <2>1, <3>1, <3>2 DEF Split
  <2> QED BY <2>2, <2>3
<1> QED BY <1>1, <1>3, <1>4, <1>5 DEF OrderInv, SearchOrder

\* Storing the new call at the place found keeps the order.
LEMMA LinkKeepsOrder ==
  ASSUME OrderInv, Link
  PROVE  SearchOrder' /\ (Sorted /\ ~Overtakes => Sorted')
<1>1. /\ pc = "search" /\ e = 0 /\ pc' = "lpc" /\ due' = due
      /\ pos \in Int /\ new \in Calls /\ due[new] \in Int
  BY SlotDue DEF Link, structs, OrderInv, Inv, TypeOK
<1>2. SearchOrder'
  BY <1>1 DEF OrderInv, SearchOrder
<1>3. ASSUME Sorted, ~Overtakes
      PROVE  /\ \A i \in Slots : i < pos => due[buf[i]] <= due[new]
             /\ \A i \in Slots : i >= pos => due[new] <= due[buf[i]]
  <2>1. CASE due[new] > 1
    <3>1. Split
      BY <1>1, <1>3, <2>1 DEF OrderInv, SearchOrder
    <3> QED BY <1>1, <3>1, SlotDue DEF Split
  <2>2. CASE due[new] <= 1
    <3>1. pos = first /\ due[new] \in {1, -MaxLate}
      BY <1>1, <2>2 DEF OrderInv, SearchOrder
    <3>2. \A i \in Slots : ~(i < pos)
      BY <3>1 DEF Slots, OrderInv, Inv, TypeOK
    <3>3. ASSUME NEW i \in Slots PROVE due[new] <= due[buf[i]]
      <4>1. CASE due[new] = -MaxLate
        BY <4>1, SlotsHoldCalls, <3>3 DEF OrderInv, SearchOrder
      <4>2. CASE due[new] = 1
        <5>1. num > 0 /\ first \in Slots /\ first <= i
          BY <3>3 DEF OrderInv, Inv, TypeOK, QueuedExactlyOnce, Slots
        <5>2. ~(due[buf[first]] < 1)
          BY <1>1, <1>3, <4>2, <5>1 DEF Overtakes
        <5>3. due[buf[first]] <= due[buf[i]]
          BY <1>3, <3>3, <5>1, SlotDue DEF Sorted
        <5> QED BY <3>3, <4>2, <5>1, <5>2, <5>3, SlotDue
      <4> QED BY <3>1, <4>1, <4>2
    <3> QED BY <3>2, <3>3
  <2> QED BY <1>1, <2>1, <2>2
<1>4. ASSUME Sorted, ~Overtakes PROVE Sorted'
  <2>1. /\ \A i \in Slots' : i < pos - 1 => i + 1 \in Slots /\ i + 1 < pos /\ buf'[i] = buf[i + 1]
        /\ \A i \in Slots' : i > pos - 1 => i \in Slots /\ i >= pos /\ buf'[i] = buf[i]
        /\ buf'[pos - 1] = new
        /\ \A i \in Slots' : i \in Int
    BY LinkShifts, <1>1 DEF OrderInv, Inv, TypeOK
  <2>2. SUFFICES ASSUME NEW i \in Slots', NEW j \in Slots', i < j
                 PROVE  due[buf'[i]] <= due[buf'[j]]
    BY <1>1 DEF Sorted
  <2>3. i \in Int /\ j \in Int
    BY <2>1
  <2>4. CASE j < pos - 1
    BY <1>1, <1>4, <2>1, <2>2, <2>3, <2>4 DEF Sorted
  <2>5. CASE j = pos - 1
    <3>1. i + 1 \in Slots /\ i + 1 < pos /\ buf'[i] = buf[i + 1] /\ buf'[j] = new
      BY <1>1, <2>1, <2>2, <2>3, <2>5
    <3> QED BY <1>3, <1>4, <3>1
  <2>6. CASE i = pos - 1
    <3>1. j \in Slots /\ j >= pos /\ buf'[j] = buf[j] /\ buf'[i] = new
      BY <1>1, <2>1, <2>2, <2>3, <2>6
    <3> QED BY <1>3, <1>4, <3>1
  <2>7. CASE i > pos - 1
    <3>1. i \in Slots /\ j \in Slots /\ buf'[i] = buf[i] /\ buf'[j] = buf[j]
      BY <1>1, <2>1, <2>2, <2>3, <2>7
    <3> QED BY <1>4, <2>2, <3>1 DEF Sorted
  <2>8. CASE i < pos - 1 /\ j > pos - 1
    <3>1. /\ i + 1 \in Slots /\ i + 1 < pos /\ buf'[i] = buf[i + 1]
          /\ j \in Slots /\ j >= pos /\ buf'[j] = buf[j]
      BY <2>1, <2>8
    <3>2. due[buf[i + 1]] <= due[new] /\ due[new] <= due[buf[j]]
      BY <1>3, <1>4, <3>1
    <3>3. due[buf[i + 1]] \in Int /\ due[buf[j]] \in Int
      BY <3>1, SlotDue
    <3> QED BY <1>1, <3>1, <3>2, <3>3
  <2> QED BY <1>1, <2>2, <2>3, <2>4, <2>5, <2>6, <2>7, <2>8
<1> QED BY <1>2, <1>4

\* remove_call_out keeps the order.
LEMMA RemoveKeepsOrder ==
  ASSUME OrderInv, NEW f \in Functions, RemoveCallOut(f)
  PROVE  SearchOrder' /\ (Sorted => Sorted')
<1>1. PICK i \in Slots :
        /\ Release(buf[i]) /\ i \in Int
        /\ \A j \in Slots' : j \in Int /\ j \in Slots
        /\ \A j \in Slots' : j <= i => j - 1 \in Slots /\ buf'[j] = buf[j - 1]
        /\ \A j \in Slots' : j > i => buf'[j] = buf[j]
  BY RemoveShifts DEF OrderInv
<1>2. pc' # "search" /\ buf[i] \in Calls /\ MaxLate \in Nat
  BY SlotsHoldCalls, BoundAssumption DEF RemoveCallOut, Evaluating, OrderInv
<1>3. \A c \in Calls : due'[c] = (IF c = buf[i] THEN 0 ELSE due[c])
  BY <1>1, <1>2 DEF Release, OrderInv, Inv, TypeOK
<1>4. SearchOrder'
  <2>1. \A c \in Calls : -MaxLate <= due'[c]
    BY <1>2, <1>3 DEF OrderInv, SearchOrder
  <2> QED BY <1>2, <2>1 DEF SearchOrder
<1>5. ASSUME Sorted PROVE Sorted'
  <2>1. SUFFICES ASSUME NEW j \in Slots', NEW k \in Slots', j < k
                 PROVE  due'[buf'[j]] <= due'[buf'[k]]
    BY DEF Sorted
  <2> DEFINE From(m) == IF m <= i THEN m - 1 ELSE m
  <2>2. ASSUME NEW m \in Slots'
        PROVE  From(m) \in Slots /\ From(m) # i /\ buf'[m] = buf[From(m)]
    BY <1>1, <2>2
  <2>3. ASSUME NEW m \in Slots' PROVE due'[buf'[m]] = due[buf[From(m)]]
    <3>1. buf[From(m)] # buf[i] /\ buf[From(m)] \in Calls
      BY <2>2, SlotsHoldCalls DEF OrderInv, Inv, QueuedExactlyOnce
    <3> QED BY <1>3, <2>2, <3>1
  <2>4. From(j) < From(k)
    BY <1>1, <2>1
  <2> HIDE DEF From
  <2> QED BY <1>5, <2>2, <2>3, <2>4 DEF Sorted
<1> QED BY <1>4, <1>5

\* do_call_outs taking the head keeps the order.
LEMMA TakeHeadKeepsOrder ==
  ASSUME OrderInv, num > 0, TakeHead, UNCHANGED locals, pc # "search", pc' # "search"
  PROVE  SearchOrder' /\ (Sorted => Sorted')
<1>1. /\ \A i \in Slots' : i \in Slots /\ buf'[i] = buf[i] /\ i # first
      /\ buf[first] \in Calls /\ first \in Slots
  <2>1. first \in Slots
    BY DEF OrderInv, Inv, TypeOK, QueuedExactlyOnce, Slots
  <2> QED BY <2>1, TakeHeadKeepsQueue DEF OrderInv
<1>2. \A c \in Calls : due'[c] = (IF c = buf[first] THEN 0 ELSE due[c])
  BY <1>1 DEF TakeHead, Release, OrderInv, Inv, TypeOK
<1>3. \A c \in Calls : -MaxLate <= due'[c]
  BY <1>2, BoundAssumption DEF OrderInv, SearchOrder
<1>4. \A i \in Slots' : due'[buf'[i]] = due[buf[i]]
  <2>1. \A i \in Slots' : buf[i] # buf[first] /\ buf[i] \in Calls
    BY <1>1, SlotsHoldCalls DEF OrderInv, Inv, QueuedExactlyOnce
  <2> QED BY <1>1, <1>2, <2>1
<1>5. ASSUME Sorted PROVE Sorted'
  BY <1>1, <1>4, <1>5 DEF Sorted
<1> QED BY <1>3, <1>5 DEF SearchOrder

\* The passing of time keeps the order.
LEMMA HeartBeatKeepsOrder ==
  ASSUME OrderInv, NEW k \in Elapse, HeartBeat(k)
  PROVE  SearchOrder' /\ (Sorted => Sorted')
<1>1. /\ k \in Nat /\ MaxLate \in Nat /\ pc' # "search"
      /\ UNCHANGED <<first, size, buf>>
      /\ due' = [c \in Calls |-> IF c \in alloc THEN Later(due[c], k) ELSE 0]
  BY ElapseAssumption, BoundAssumption DEF HeartBeat, queue
<1>2. \A c \in Calls : -MaxLate <= due'[c]
  BY <1>1 DEF Later, OrderInv, Inv, TypeOK
<1>3. Slots' = Slots
  BY <1>1 DEF Slots
<1>4. \A i \in Slots : due'[buf'[i]] = Later(due[buf[i]], k)
  BY <1>1, SlotsHoldCalls DEF OrderInv
<1>5. \A s, t \in Int : s <= t => Later(s, k) <= Later(t, k)
  BY <1>1 DEF Later
<1>6. ASSUME Sorted PROVE Sorted'
  <2>1. SUFFICES ASSUME NEW i \in Slots, NEW j \in Slots, i < j
                 PROVE  due'[buf'[i]] <= due'[buf'[j]]
    BY <1>3 DEF Sorted
  <2>2. due[buf[i]] <= due[buf[j]] /\ due[buf[i]] \in Int /\ due[buf[j]] \in Int
    BY <1>6, <2>1, SlotDue DEF Sorted
  <2> QED BY <1>4, <1>5, <2>2
<1> QED BY <1>1, <1>2, <1>6 DEF SearchOrder

\* A step that leaves queue and times alone keeps the order.
LEMMA QuietKeepsOrder ==
  ASSUME OrderInv, Quiet, due' = due
  PROVE  SearchOrder' /\ (Sorted => Sorted')
<1>1. UNCHANGED <<first, size, buf, due, new, pos, e>> /\ (pc = "search" <=> pc' = "search")
  BY DEF Quiet, queue, locals
<1>2. Slots' = Slots /\ (Sorted' <=> Sorted) /\ (Split' <=> Split)
  BY <1>1 DEF Slots, Sorted, Split
<1> QED BY <1>1, <1>2 DEF OrderInv, SearchOrder

-----------------------------------------------------------------------------
\* The empty queue is in order.
LEMMA InitOrder == Init => OrderInv
<1> SUFFICES ASSUME Init PROVE OrderInv
  OBVIOUS
<1>1. pc # "search" /\ \A c \in Calls : -MaxLate <= due[c]
  BY BoundAssumption DEF Init
<1> QED BY <1>1, InitInv DEF OrderInv, SearchOrder

\* Every step that overtakes nothing keeps the order.
LEMMA OrderStep ==
  ASSUME OrderInv, [Next]_vars
  PROVE  SearchOrder' /\ (Sorted /\ ~Overtakes => Sorted')
<1>1. ASSUME NEW f \in Functions, NEW d \in Delays, CallOut(f, d)
      PROVE SearchOrder' /\ (Sorted => Sorted')
  BY <1>1, CallOutOrder
<1>2. ASSUME NEW f \in Functions, RemoveCallOut(f) PROVE SearchOrder' /\ (Sorted => Sorted')
  BY <1>2, RemoveKeepsOrder
<1>3. CASE Search
  BY <1>3, SearchKeepsOrder
<1>4. CASE Link
  BY <1>4, LinkKeepsOrder
<1>5. CASE RunDue \/ SkipDue \/ RefuseDue
  <2>1. num > 0 /\ TakeHead /\ UNCHANGED locals /\ pc = "due" /\ pc' \in {"lpc", "due", "top"}
    BY <1>5 DEF RunDue, SkipDue, RefuseDue, TakeDue, HeadDue, locals
  <2> QED BY <2>1, TakeHeadKeepsOrder
<1>6. CASE FreeCallOut
  <2>1. num > 0 /\ TakeHead /\ UNCHANGED locals /\ pc = "shutdown" /\ pc' = pc
    BY <1>6 DEF FreeCallOut, locals
  <2> QED BY <2>1, TakeHeadKeepsOrder
<1>7. ASSUME NEW k \in Elapse, HeartBeat(k) PROVE SearchOrder' /\ (Sorted => Sorted')
  BY <1>7, HeartBeatKeepsOrder
<1>8. CASE (QuietStep /\ ~(\E k \in Elapse : HeartBeat(k))) \/ UNCHANGED vars
  <2>1. Quiet
    BY <1>8, QuietSteps DEF OrderInv
  <2>2. due' = due
    BY <1>8 DEF QuietStep, SetThisPlayer, Destruct, Clone, ReturnToFrame, Beat, Return, Throw,
       ThrowInSweep, Top, ProcessIo, NoIo, NoHeartBeat, BeatsDone, Sweep, CallOutsDone, Shutdown,
       Exit, Alarm, Exited, structs, vars
  <2> QED BY <2>1, <2>2, QuietKeepsOrder
<1> QED BY <1>1, <1>2, <1>3, <1>4, <1>5, <1>6, <1>7, <1>8
        DEF Next, Lpc, Backend, DoCallOuts, QuietStep

\* Every step keeps the bounds of the search.
LEMMA OrderInvStep == OrderInv /\ [Next]_vars => OrderInv'
  BY OrderStep, NextInv DEF OrderInv

\* Binary search, shifting, removal, growth of the buffer and the passing of
\* time keep the pending calls in the order of their times (call_out.c:134-155,
\* 184-187, 246-249); only an immediate call made while another is overdue
\* can break it.
THEOREM QueueOrderKept == Spec => OrderKept
<1>1. OrderInv /\ [Next]_vars => [Sorted /\ ~Overtakes => Sorted']_vars
  BY OrderStep
<1> QED BY <1>1, InitOrder, OrderInvStep, PTL DEF Spec, OrderKept

-----------------------------------------------------------------------------
\* No delay is so short that new_call_out skips the search, none overflows.
FarDelays == \A d \in Delays : d >= 2 /\ d <= TimeRoom

FarInv ==
  /\ OrderInv
  /\ Sorted
  /\ pc = "search" => due[new] >= 2

\* Without immediate calls: the empty queue is sorted.
LEMMA FarInit == Init => FarInv
<1> SUFFICES ASSUME Init PROVE FarInv
  OBVIOUS
<1>1. Slots = {} /\ pc # "search"
  BY BoundAssumption DEF Init, Slots
<1> QED BY <1>1, InitOrder DEF FarInv, Sorted

\* Without immediate calls: every step keeps the queue sorted.
LEMMA FarStep ==
  ASSUME FarDelays, FarInv, [Next]_vars
  PROVE  FarInv'
<1>1. ~Overtakes
  BY SlotDue DEF Overtakes, FarInv
<1>2. ASSUME pc' = "search" PROVE due'[new'] >= 2
  <2>1. ASSUME NEW f \in Functions, NEW d \in Delays, CallOut(f, d) PROVE due'[new'] >= 2
    <3>1. PICK t \in DueIn(d) : CallOutWith(f, t)
      BY <2>1 DEF CallOut
    <3>2. t = d /\ d >= 2
      BY DelaysAssumption DEF DueIn, FarDelays
    <3>3. new' \in Calls /\ due' = [due EXCEPT ![new'] = t]
      BY <2>1, <3>1 DEF CallOut, CallOutWith
    <3> QED BY <3>2, <3>3 DEF FarInv, OrderInv, Inv, TypeOK
  <2>2. CASE Search
    BY <2>2, <1>2 DEF Search, structs, FarInv
  <2>3. CASE Link
    BY <2>3, <1>2 DEF Link
  <2>4. CASE QuietStep \/ UNCHANGED vars
    <3>1. Quiet
      BY <2>4, QuietSteps DEF FarInv, OrderInv
    <3>2. pc = "search" /\ new' = new
      BY <1>2, <3>1 DEF Quiet, locals
    <3>3. due' = due
      BY <2>4, <3>2 DEF QuietStep, SetThisPlayer, Destruct, Clone, ReturnToFrame, Beat, HeartBeat,
         Return, Throw, ThrowInSweep, Top, ProcessIo, NoIo, NoHeartBeat, BeatsDone, Sweep,
         CallOutsDone, Shutdown, Exit, Alarm, Exited, Evaluating, structs, vars
    <3> QED BY <3>2, <3>3 DEF FarInv
  <2>5. CASE RunDue \/ SkipDue \/ RefuseDue \/ FreeCallOut \/ \E f \in Functions : RemoveCallOut(f)
    BY <1>2, <2>5 DEF RunDue, SkipDue, RefuseDue, TakeDue, FreeCallOut, RemoveCallOut, Evaluating
  <2> QED BY <2>1, <2>2, <2>3, <2>4, <2>5 DEF Next, Lpc, Backend, DoCallOuts, QuietStep
<1> QED BY <1>1, <1>2, OrderStep, OrderInvStep DEF FarInv

\* Without immediate calls the queue is always sorted.
THEOREM SortedWithoutImmediateCalls ==
  ASSUME FarDelays
  PROVE  Spec => []Sorted
<1>1. FarInv /\ [Next]_vars => FarInv'
  BY FarStep
<1>2. FarInv => Sorted
  BY DEF FarInv
<1> QED BY <1>1, <1>2, FarInit, PTL DEF Spec

\* Without immediate calls a round of do_call_outs that ends without an error
\* has made every call that is due (call_out.c:182).
THEOREM NothingDueLeft ==
  ASSUME FarDelays
  PROVE  Spec => NoDueLeft
<1>1. ASSUME FarInv, [Next]_vars, pc = "due", pc' = "top", num' = num
      PROVE  \A c \in Queued : due[c] > 0
  <2>1. CallOutsDone
    <3>1. ~(RunDue \/ SkipDue \/ RefuseDue)
      <4>1. TakeHead => num' = num - 1 /\ num \in Int
        BY <1>1 DEF TakeHead, DropHead, FarInv, OrderInv, Inv, TypeOK
      <4> QED BY <1>1, <4>1 DEF RunDue, SkipDue, RefuseDue, TakeDue
    <3> QED BY <1>1, <3>1 DEF Next, Lpc, Backend, DoCallOuts, CallOut, RemoveCallOut, Search, Link,
               SetThisPlayer, Destruct, Clone, ReturnToFrame, Evaluating, Return, Throw, ThrowInSweep,
               Top, ProcessIo, NoIo, NoHeartBeat, HeartBeat, Beat, BeatsDone, Sweep, Shutdown,
               FreeCallOut, Exit, Alarm, Exited, vars
  <2>2. SUFFICES ASSUME NEW i \in Slots PROVE due[buf[i]] > 0
    BY DEF Queued
  <2>3. num > 0 /\ first \in Slots /\ first <= i
    BY <1>1 DEF FarInv, OrderInv, Inv, TypeOK, QueuedExactlyOnce, Slots
  <2>4. due[buf[first]] > 0
    BY <1>1, <2>1, <2>3, SlotDue DEF CallOutsDone, HeadDue, FarInv
  <2>5. due[buf[first]] <= due[buf[i]]
    BY <1>1, <2>3, <2>4, SlotDue DEF FarInv, Sorted
  <2> QED BY <1>1, <2>3, <2>4, <2>5, SlotDue DEF FarInv
<1>2. FarInv /\ [Next]_vars => [pc = "due" /\ pc' = "top" /\ num' = num =>
                                 \A c \in Queued : due[c] > 0]_vars
  BY <1>1
<1>3. FarInv /\ [Next]_vars => FarInv'
  BY FarStep
<1> QED BY <1>2, <1>3, FarInit, PTL DEF Spec, NoDueLeft

\* Without immediate calls do_call_outs takes a call that no pending one
\* precedes, and remove_call_out the next call of its function
\* (call_out.c:182-187, 232-256).
THEOREM CallsLeaveInOrder ==
  ASSUME FarDelays
  PROVE  Spec => LeavesInOrder
<1>1. ASSUME FarInv, [Next]_vars, NEW c \in alloc \ alloc', NEW d \in alloc,
             pc # "shutdown", pc = "lpc" => fun[d] = fun[c]
      PROVE  due[c] <= due[d]
  <2>1. ASSUME pc # "search" PROVE \E j \in Slots : d = buf[j]
    <3>1. new \notin alloc
      BY <1>1, <2>1, CallsAssumption DEF FarInv, OrderInv, Inv, TypeOK, QueuedExactlyOnce
    <3> QED BY <1>1, <3>1 DEF FarInv, OrderInv, Inv, QueuedExactlyOnce, Queued
  <2>2. ASSUME NEW i \in Slots, NEW j \in Slots, i <= j PROVE due[buf[i]] <= due[buf[j]]
    BY <1>1, <2>2, SlotDue DEF FarInv, Sorted
  <2>3. ASSUME NEW f \in Functions, RemoveCallOut(f) PROVE due[c] <= due[d]
    <3>1. PICK i \in Slots : FindsAt(f, i) /\ Release(buf[i])
      BY <1>1, <2>3, RemoveShifts DEF FarInv, OrderInv
    <3>2. c = buf[i] /\ fun[c] = f /\ pc = "lpc"
      BY <1>1, <2>3, <3>1 DEF Release, FindsAt, RemoveCallOut, Evaluating
    <3>3. PICK j \in Slots : d = buf[j]
      BY <2>1, <3>2
    <3>4. i <= j
      BY <1>1, <3>1, <3>2, <3>3 DEF FindsAt
    <3> QED BY <2>2, <3>2, <3>3, <3>4
  <2>4. CASE RunDue \/ SkipDue \/ RefuseDue
    <3>1. num > 0 /\ Release(buf[first]) /\ pc = "due"
      BY <2>4 DEF RunDue, SkipDue, RefuseDue, TakeDue, HeadDue, TakeHead
    <3>2. c = buf[first]
      BY <1>1, <3>1 DEF Release
    <3>3. first \in Slots /\ \A j \in Slots : first <= j
      BY <1>1, <3>1 DEF FarInv, OrderInv, Inv, TypeOK, QueuedExactlyOnce, Slots
    <3>4. PICK j \in Slots : d = buf[j]
      BY <2>1, <3>1
    <3> QED BY <2>2, <3>2, <3>3, <3>4
  <2>5. ASSUME NEW f \in Functions, NEW t \in Delays, CallOut(f, t) PROVE FALSE
    BY <1>1, <2>5 DEF CallOut, CallOutWith
  <2>6. ~Search /\ ~Link /\ ~FreeCallOut
    BY <1>1 DEF Search, Link, FreeCallOut, structs
  <2>7. CASE QuietStep \/ UNCHANGED vars
    BY <1>1, <2>7, QuietSteps DEF FarInv, OrderInv, Quiet, vars, structs
  <2> QED BY <1>1, <2>3, <2>4, <2>5, <2>6, <2>7 DEF Next, Lpc, Backend, DoCallOuts, QuietStep
<1>2. FarInv /\ [Next]_vars =>
        [\A c \in alloc \ alloc', d \in alloc :
           /\ pc # "shutdown"
           /\ pc = "lpc" => fun[d] = fun[c]
           => due[c] <= due[d]]_vars
  BY <1>1
<1>3. FarInv /\ [Next]_vars => FarInv'
  BY FarStep
<1> QED BY <1>2, <1>3, FarInit, PTL DEF Spec, LeavesInOrder

\* Without immediate calls do_call_outs serves the queue in the order of time
\* (call_out.c:134-201).
THEOREM CallsServedInOrder ==
  ASSUME FarDelays
  PROVE  Spec => ServedInOrder
<1> QED BY SortedWithoutImmediateCalls, NothingDueLeft, CallsLeaveInOrder DEF ServedInOrder
=============================================================================

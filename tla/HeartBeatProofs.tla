-------------------------- MODULE HeartBeatProofs --------------------------
(***************************************************************************)
(* The counter that ends a round of heart beats is exact for every number  *)
(* of objects, whatever LPC code does and however broken the list is; as   *)
(* long as hb_tail is left alone, the list is a chain, and rounds are fair.*)
(***************************************************************************)
EXTENDS HeartBeat, FiniteSetTheorems, WellFoundedInduction, TLAPS

CountInv == TypeOK /\ CountExact

\* The objects that beat are finitely many.
LEMMA BeatingFinite ==
  ASSUME TypeOK
  PROVE  IsFiniteSet(beating) /\ Cardinality(beating) \in Nat
BY ObjectsAssumption, FS_Subset, FS_CardinalityType DEF TypeOK

\* As many objects beat as there are, or fewer.
LEMMA CountBounded ==
  ASSUME NEW S \in SUBSET Objects
  PROVE  Cardinality(S) \in 0 .. Cardinality(Objects)
BY ObjectsAssumption, FS_Subset, FS_CardinalityType

\* set_heart_beat(ob, 1) counts the object it sets the flag of.
LEMMA TurnOnCounts ==
  ASSUME CountInv, NEW o \in Objects, o \notin beating, TurnOn(o)
  PROVE  /\ num_hb_objs' = Cardinality(beating')
         /\ num_hb_objs' \in 0 .. Cardinality(Objects)
         /\ beating' = beating \cup {o}
         /\ hb_list' \in Objects \cup {NoObject} /\ hb_tail' \in Objects \cup {NoObject}
         /\ next_heart_beat' \in [Objects -> Objects \cup {NoObject}]
         /\ owed' \subseteq Objects
<1>1. Cardinality(beating \cup {o}) = Cardinality(beating) + 1
  BY BeatingFinite, FS_AddElement DEF CountInv
<1>2. beating' = beating \cup {o} /\ num_hb_objs' = num_hb_objs + 1
  BY DEF TurnOn
<1>3. num_hb_objs' = Cardinality(beating')
  BY <1>1, <1>2 DEF CountInv, CountExact
<1>4. num_hb_objs' \in 0 .. Cardinality(Objects)
  BY <1>2, <1>3, CountBounded DEF CountInv, TypeOK
<1>5. hb_list' \in Objects \cup {NoObject} /\ hb_tail' \in Objects \cup {NoObject}
      /\ next_heart_beat' \in [Objects -> Objects \cup {NoObject}]
      /\ owed' \subseteq Objects
  BY DEF TurnOn, CountInv, TypeOK
<1> QED BY <1>2, <1>3, <1>4, <1>5

\* set_heart_beat(ob, 0) uncounts the object if its flag was set.
LEMMA TurnOffCounts ==
  ASSUME CountInv, NEW o \in Objects, TurnOff(o)
  PROVE  /\ num_hb_objs' = Cardinality(beating')
         /\ num_hb_objs' \in 0 .. Cardinality(Objects)
         /\ beating' = beating \ {o} /\ UNCHANGED list
         /\ owed' \subseteq Objects
<1>1. Cardinality(beating \ {o}) = Cardinality(beating) - (IF o \in beating THEN 1 ELSE 0)
  BY BeatingFinite, FS_RemoveElement DEF CountInv
<1>2. /\ beating' = beating \ {o} /\ UNCHANGED list /\ owed' \subseteq Objects
      /\ num_hb_objs' = num_hb_objs - (IF o \in beating THEN 1 ELSE 0)
  BY DEF TurnOff, CountInv, TypeOK
<1>3. num_hb_objs' = Cardinality(beating')
  BY <1>1, <1>2 DEF CountInv, CountExact
<1>4. num_hb_objs' \in 0 .. Cardinality(Objects)
  BY <1>2, <1>3, CountBounded DEF CountInv, TypeOK
<1> QED BY <1>2, <1>3, <1>4

\* No object beats when the driver starts.
LEMMA InitCount == Init => CountInv
<1> SUFFICES ASSUME Init PROVE CountInv
  OBVIOUS
<1>1. num_hb_objs = Cardinality(beating) /\ num_hb_objs \in 0 .. Cardinality(Objects)
  BY FS_EmptySet, CountBounded DEF Init
<1>2. heart_beat_flag \in BOOLEAN
  BY Zenon DEF Init
<1> QED BY <1>1, <1>2 DEF Init, CountInv, TypeOK, CountExact

\* Every step keeps the counter exact.
LEMMA NextCount == CountInv /\ [Next]_vars => CountInv'
<1> SUFFICES ASSUME CountInv, [Next]_vars PROVE CountInv'
  OBVIOUS
<1> USE DEF CountInv, TypeOK, CountExact, list, count, round, history
<1>1. ASSUME NEW o \in Objects, NEW to \in BOOLEAN, SetHeartBeat(o, to) PROVE CountInv'
  <2>1. CASE o \notin beating /\ TurnOn(o)
    BY <1>1, <2>1, TurnOnCounts DEF SetHeartBeat
  <2>2. CASE TurnOff(o)
    BY <1>1, <2>2, TurnOffCounts DEF SetHeartBeat
  <2> QED BY <1>1, <2>1, <2>2 DEF SetHeartBeat
<1>2. ASSUME NEW o \in Objects, Destruct(o) PROVE CountInv'
  BY <1>2, TurnOffCounts DEF Destruct
<1>3. ASSUME NEW o \in Objects, FreeObject(o) \/ Clone(o) PROVE CountInv'
  BY <1>3 DEF FreeObject, Clone
<1>4. ASSUME NEW o \in Objects, Destruct2(o) PROVE CountInv'
  <2>1. /\ hb_list' \in Objects \cup {NoObject} /\ hb_tail' = hb_tail
        /\ next_heart_beat' \in [Objects -> Objects \cup {NoObject}]
    BY <1>4 DEF Destruct2, Unlink
  <2>2. pc' = pc
    BY <1>4 DEF Destruct2
  <2> QED BY <1>4, <2>1, <2>2 DEF Destruct2
<1>5. ASSUME NEW o \in Objects, WalkFails(o) PROVE CountInv'
  BY <1>5 DEF WalkFails
<1>6. CASE ToIo \/ SkipRound
  BY <1>6 DEF ToIo, SkipRound
<1>12. CASE BeginRound
  <2>1. heart_beat_flag' \in BOOLEAN
    BY <1>12, Zenon DEF BeginRound
  <2> QED BY <1>12, <2>1 DEF BeginRound
<1>13. CASE Alarm
  <2>1. heart_beat_flag' \in BOOLEAN
    BY <1>13, Zenon DEF Alarm
  <2> QED BY <1>13, <2>1 DEF Alarm
<1>7. CASE Drop
  BY <1>7 DEF Drop, More
<1>8. CASE Beat
  <2>1. /\ hb_list' \in Objects \cup {NoObject} /\ hb_tail' \in Objects
        /\ next_heart_beat' \in [Objects -> Objects \cup {NoObject}]
    BY <1>8 DEF Beat, More, Cycle
  <2> QED BY <1>8, <2>1, ObjectsAssumption DEF Beat
<1>9. CASE ReadsFreed \/ Return \/ RoundDone \/ AfterDone
  BY <1>9 DEF ReadsFreed, Return, RoundDone, AfterDone
<1>10. CASE Error
  BY <1>10, TurnOffCounts DEF Error
<1>11. CASE Stopped \/ UNCHANGED vars
  BY <1>11 DEF Stopped, vars
<1> QED BY <1>1, <1>2, <1>3, <1>4, <1>5, <1>6, <1>7, <1>8, <1>9, <1>10, <1>11,
           <1>12, <1>13
        DEF Next, Lpc, Backend

\* The types are right in every reachable state, for every number of objects.
THEOREM HeartBeatTypes == Spec => []TypeOK
<1>1. CountInv => TypeOK
  BY DEF CountInv
<1> QED BY <1>1, InitCount, NextCount, PTL DEF Spec

\* num_hb_objs counts the live objects whose heart beat is on, through every
\* order of set_heart_beat, errors, destruct and destruct2 (backend.c:432-453,
\* simulate.c:966, 1001, 1806-1808), even once the list itself is broken.
THEOREM HeartBeatsCounted == Spec => []CountExact
<1>1. CountInv => CountExact
  BY DEF CountInv
<1> QED BY <1>1, InitCount, NextCount, PTL DEF Spec

\* The bound of call_heart_beat's loop (backend.c:380) is exact and well typed.
THEOREM BeatsStayCounted == Spec => []BeatsCounted
<1>1. CountInv => BeatsCounted
  BY DEF CountInv, BeatsCounted
<1> QED BY <1>1, InitCount, NextCount, PTL DEF Spec

-----------------------------------------------------------------------------
(* The list as the function s of its n objects, first to last: link is     *)
(* next_heart_beat, and objects outside the list have a null link.         *)

Links == [Objects -> Objects \cup {NoObject}]

Chain(n, s, head, tail, link) ==
  /\ \A i, j \in 1 .. n : s[i] = s[j] => i = j
  /\ \A i \in 1 .. n : link[s[i]] = IF i < n THEN s[i + 1] ELSE NoObject
  /\ head = IF n = 0 THEN NoObject ELSE s[1]
  /\ tail = IF n = 0 THEN NoObject ELSE s[n]
  /\ \A o \in Objects : (\A i \in 1 .. n : s[i] # o) => link[o] = NoObject

Pushed(n, s, o)  == [i \in 1 .. n + 1 |-> IF i = 1 THEN o ELSE s[i - 1]]
Turned(n, s)     == [i \in 1 .. n |-> IF i < n THEN s[i + 1] ELSE s[1]]
Removed(n, s, j) == [i \in 1 .. n - 1 |-> IF i < j THEN s[i] ELSE s[i + 1]]

\* set_heart_beat puts an object in front (backend.c:439-442).
LEMMA PushedChain ==
  ASSUME NEW n \in Nat, NEW s \in [1 .. n -> Objects], NEW head, NEW tail,
         NEW link \in Links, Chain(n, s, head, tail, link),
         NEW o \in Objects, \A i \in 1 .. n : s[i] # o
  PROVE  /\ Pushed(n, s, o) \in [1 .. n + 1 -> Objects]
         /\ Chain(n + 1, Pushed(n, s, o), o, IF tail = NoObject THEN o ELSE tail,
                  [link EXCEPT ![o] = head])
<1> DEFINE t == Pushed(n, s, o)
           l == [link EXCEPT ![o] = head]
<1>1. t \in [1 .. n + 1 -> Objects]
  BY DEF Pushed
<1>2. t[1] = o /\ \A i \in 2 .. n + 1 : t[i] = s[i - 1] /\ i - 1 \in 1 .. n
  BY DEF Pushed
<1>3. l[o] = head /\ \A p \in Objects \ {o} : l[p] = link[p]
  BY DEF Links
<1>4. \A i \in 1 .. n : s[i] \in Objects \ {o}
  OBVIOUS
<1> HIDE DEF t, l
<1>5. \A i, j \in 1 .. n + 1 : t[i] = t[j] => i = j
  <2> SUFFICES ASSUME NEW i \in 1 .. n + 1, NEW j \in 1 .. n + 1, t[i] = t[j] PROVE i = j
    OBVIOUS
  <2>1. CASE i = 1 \/ j = 1
    BY <2>1, <1>2, <1>4
  <2>2. CASE i # 1 /\ j # 1
    <3>1. i \in 2 .. n + 1 /\ j \in 2 .. n + 1
      BY <2>2
    <3>2. s[i - 1] = s[j - 1] /\ i - 1 \in 1 .. n /\ j - 1 \in 1 .. n
      BY <3>1, <1>2
    <3>3. i - 1 = j - 1
      BY <3>2 DEF Chain
    <3> QED BY <3>3
  <2> QED BY <2>1, <2>2
<1>6. \A i \in 1 .. n + 1 : l[t[i]] = IF i < n + 1 THEN t[i + 1] ELSE NoObject
  <2> SUFFICES ASSUME NEW i \in 1 .. n + 1
               PROVE l[t[i]] = IF i < n + 1 THEN t[i + 1] ELSE NoObject
    OBVIOUS
  <2>1. CASE i = 1
    <3>1. n > 0 => t[2] = s[1]
      BY <1>2
    <3> QED BY <2>1, <3>1, <1>2, <1>3 DEF Chain
  <2>2. CASE i # 1
    <3>1. i - 1 \in 1 .. n /\ t[i] = s[i - 1]
      BY <2>2, <1>2
    <3>2. l[t[i]] = IF i - 1 < n THEN s[i - 1 + 1] ELSE NoObject
      BY <3>1, <1>3, <1>4 DEF Chain
    <3>3. i < n + 1 => t[i + 1] = s[i]
      BY <2>2, <1>2
    <3> QED BY <3>2, <3>3
  <2> QED BY <2>1, <2>2
<1>7. (IF tail = NoObject THEN o ELSE tail) = t[n + 1]
  <2>1. CASE n = 0
    BY <2>1, <1>2 DEF Chain
  <2>2. CASE n # 0
    <3>1. t[n + 1] = s[n] /\ s[n] \in Objects
      BY <2>2, <1>2
    <3> QED BY <2>2, <3>1, ObjectsAssumption DEF Chain
  <2> QED BY <2>1, <2>2
<1>8. ASSUME NEW p \in Objects, \A i \in 1 .. n + 1 : t[i] # p PROVE l[p] = NoObject
  <2>1. p # o
    BY <1>8, <1>2
  <2>2. \A i \in 1 .. n : s[i] # p
    <3> TAKE i \in 1 .. n
    <3>1. i + 1 \in 2 .. n + 1 /\ t[i + 1] = s[i]
      BY <1>2
    <3> QED BY <3>1, <1>8
  <2> QED BY <2>1, <2>2, <1>3 DEF Chain
<1>9. n + 1 # 0
  OBVIOUS
<1>10. Chain(n + 1, t, o, IF tail = NoObject THEN o ELSE tail, l)
  BY <1>2, <1>5, <1>6, <1>7, <1>8, <1>9 DEF Chain
<1> QED BY <1>1, <1>10 DEF t, l

\* cycle_hb_list (backend.c:341-360) makes the first object the last.
LEMMA TurnedChain ==
  ASSUME NEW n \in Nat, n > 1, NEW s \in [1 .. n -> Objects], NEW head, NEW tail,
         NEW link \in Links, Chain(n, s, head, tail, link)
  PROVE  /\ Turned(n, s) \in [1 .. n -> Objects]
         /\ Chain(n, Turned(n, s), link[head], head,
                  [link EXCEPT ![tail] = head, ![head] = NoObject])
<1> DEFINE t == Turned(n, s)
           l == [link EXCEPT ![tail] = head, ![head] = NoObject]
<1>1. t \in [1 .. n -> Objects]
  BY DEF Turned
<1>2. t[n] = s[1] /\ \A i \in 1 .. n - 1 : t[i] = s[i + 1] /\ i + 1 \in 2 .. n
  BY DEF Turned
<1>3. head = s[1] /\ tail = s[n] /\ head # tail /\ head \in Objects /\ tail \in Objects
  BY DEF Chain
<1>4. /\ l[head] = NoObject /\ l[tail] = head
      /\ \A p \in Objects \ {head, tail} : l[p] = link[p]
  BY <1>3 DEF Links
<1>5. \A i \in 2 .. n - 1 : s[i] \in Objects \ {head, tail}
  BY <1>3 DEF Chain
<1> HIDE DEF t, l
<1>6. \A i, j \in 1 .. n : t[i] = t[j] => i = j
  <2> DEFINE at(k) == IF k < n THEN k + 1 ELSE 1
  <2>1. \A k \in 1 .. n : t[k] = s[at(k)] /\ at(k) \in 1 .. n
    BY <1>2
  <2>2. \A i, j \in 1 .. n : at(i) = at(j) => i = j
    OBVIOUS
  <2> HIDE DEF at
  <2> QED BY <2>1, <2>2 DEF Chain
<1>7. \A i \in 1 .. n : l[t[i]] = IF i < n THEN t[i + 1] ELSE NoObject
  <2> SUFFICES ASSUME NEW i \in 1 .. n
               PROVE l[t[i]] = IF i < n THEN t[i + 1] ELSE NoObject
    OBVIOUS
  <2>1. CASE i = n
    BY <2>1, <1>2, <1>3, <1>4
  <2>2. CASE i = n - 1
    BY <2>2, <1>2, <1>3, <1>4
  <2>3. CASE i < n - 1
    <3>1. t[i] = s[i + 1] /\ t[i + 1] = s[i + 1 + 1] /\ i + 1 \in 2 .. n - 1
      BY <2>3, <1>2
    <3>2. l[s[i + 1]] = link[s[i + 1]]
      BY <3>1, <1>4, <1>5
    <3>3. link[s[i + 1]] = s[i + 1 + 1]
      BY <3>1 DEF Chain
    <3> QED BY <2>3, <3>1, <3>2, <3>3
  <2> QED BY <2>1, <2>2, <2>3
<1>8. link[head] = t[1]
  BY <1>2, <1>3 DEF Chain
<1>9. ASSUME NEW p \in Objects, \A i \in 1 .. n : t[i] # p PROVE l[p] = NoObject
  <2>1. \A i \in 1 .. n : s[i] # p
    <3> TAKE i \in 1 .. n
    <3>1. CASE i = 1
      BY <3>1, <1>2, <1>9
    <3>2. CASE i # 1
      <4>1. i - 1 \in 1 .. n - 1 /\ t[i - 1] = s[i - 1 + 1]
        BY <3>2, <1>2
      <4> QED BY <4>1, <1>9
    <3> QED BY <3>1, <3>2
  <2>2. p # head /\ p # tail
    BY <2>1, <1>3
  <2> QED BY <2>1, <2>2, <1>4 DEF Chain
<1>10. Chain(n, t, link[head], head, l)
  BY <1>2, <1>3, <1>6, <1>7, <1>8, <1>9 DEF Chain
<1> QED BY <1>1, <1>10 DEF t, l

\* The j-th object is taken out: the first by call_heart_beat
\* (backend.c:389-392), any by destruct2 (simulate.c:1836-1846).
LEMMA RemovedChain ==
  ASSUME NEW n \in Nat, NEW s \in [1 .. n -> Objects], NEW head, NEW tail,
         NEW link \in Links, Chain(n, s, head, tail, link), NEW j \in 1 .. n - 1,
         NEW l \in Links, NEW first,
         IF j = 1
         THEN first = link[head] /\ l = [link EXCEPT ![head] = NoObject]
         ELSE /\ first = head
              /\ l = [link EXCEPT ![s[j - 1]] = link[s[j]], ![s[j]] = NoObject]
  PROVE  /\ Removed(n, s, j) \in [1 .. n - 1 -> Objects]
         /\ Chain(n - 1, Removed(n, s, j), first, tail, l)
<1> DEFINE t == Removed(n, s, j)
<1>1. t \in [1 .. n - 1 -> Objects]
  BY DEF Removed
<1>2. \A i \in 1 .. n - 1 : t[i] = IF i < j THEN s[i] ELSE s[i + 1]
  BY DEF Removed
<1>3. head = s[1] /\ tail = s[n] /\ \A i \in 1 .. n : s[i] \in Objects
  BY DEF Chain
<1>4. /\ l[s[j]] = NoObject
      /\ j > 1 => l[s[j - 1]] = s[j + 1]
      /\ \A p \in Objects : p # s[j] /\ (j > 1 => p # s[j - 1]) => l[p] = link[p]
  <2>1. CASE j = 1
    BY <2>1, <1>3 DEF Links
  <2>2. CASE j > 1
    <3>1. j - 1 \in 1 .. n /\ s[j - 1] # s[j] /\ link[s[j]] = s[j + 1]
      BY <2>2 DEF Chain
    <3> QED BY <2>2, <3>1, <1>3 DEF Links
  <2> QED BY <2>1, <2>2
<1>5. \A a, b \in 1 .. n : s[a] = s[b] => a = b
  BY DEF Chain
<1>6. \A i \in 1 .. n : link[s[i]] = IF i < n THEN s[i + 1] ELSE NoObject
  BY DEF Chain
<1> HIDE DEF t
<1>7. \A a, b \in 1 .. n - 1 : t[a] = t[b] => a = b
  <2> DEFINE at(k) == IF k < j THEN k ELSE k + 1
  <2>1. \A k \in 1 .. n - 1 : t[k] = s[at(k)] /\ at(k) \in 1 .. n
    BY <1>2
  <2>2. \A a, b \in 1 .. n - 1 : at(a) = at(b) => a = b
    OBVIOUS
  <2> HIDE DEF at
  <2> QED BY <2>1, <2>2, <1>5
<1>8. \A i \in 1 .. n - 1 : l[t[i]] = IF i < n - 1 THEN t[i + 1] ELSE NoObject
  <2> SUFFICES ASSUME NEW i \in 1 .. n - 1
               PROVE l[t[i]] = IF i < n - 1 THEN t[i + 1] ELSE NoObject
    OBVIOUS
  <2>1. CASE i < j - 1
    <3>1. t[i] = s[i] /\ t[i + 1] = s[i + 1] /\ i < n - 1 /\ i \in 1 .. n
      BY <2>1, <1>2
    <3>2. s[i] # s[j] /\ (j > 1 => s[i] # s[j - 1])
      BY <2>1, <3>1, <1>5
    <3> QED BY <3>1, <3>2, <1>3, <1>4, <1>6
  <2>2. CASE i = j - 1
    <3>1. t[i] = s[j - 1] /\ t[i + 1] = s[j + 1] /\ i < n - 1 /\ j > 1
      BY <2>2, <1>2
    <3> QED BY <3>1, <1>4
  <2>3. CASE i >= j
    <3>1. t[i] = s[i + 1] /\ i + 1 \in 1 .. n
      BY <2>3, <1>2
    <3>2. i < n - 1 => t[i + 1] = s[i + 1 + 1]
      BY <2>3, <1>2
    <3>3. s[i + 1] # s[j] /\ (j > 1 => s[i + 1] # s[j - 1])
      BY <2>3, <3>1, <1>5
    <3>4. l[s[i + 1]] = IF i + 1 < n THEN s[i + 1 + 1] ELSE NoObject
      BY <3>1, <3>3, <1>3, <1>4, <1>6
    <3> QED BY <3>1, <3>2, <3>4
  <2> QED BY <2>1, <2>2, <2>3
<1>9. first = t[1] /\ tail = t[n - 1] /\ n - 1 # 0
  <2>1. tail = t[n - 1] /\ n - 1 # 0
    BY <1>2, <1>3
  <2>2. CASE j = 1
    BY <2>1, <2>2, <1>2, <1>3, <1>6
  <2>3. CASE j > 1
    BY <2>1, <2>3, <1>2, <1>3
  <2> QED BY <2>1, <2>2, <2>3
<1>10. ASSUME NEW p \in Objects, \A i \in 1 .. n - 1 : t[i] # p PROVE l[p] = NoObject
  <2>1. CASE p = s[j]
    BY <2>1, <1>4
  <2>2. CASE p # s[j]
    <3>1. \A i \in 1 .. n : s[i] # p
      <4> TAKE i \in 1 .. n
      <4>1. CASE i < j
        BY <4>1, <1>2, <1>10
      <4>2. CASE i = j
        BY <4>2, <2>2
      <4>3. CASE i > j
        <5>1. i - 1 \in 1 .. n - 1 /\ t[i - 1] = s[i - 1 + 1]
          BY <4>3, <1>2
        <5> QED BY <5>1, <1>10
      <4> QED BY <4>1, <4>2, <4>3
    <3>2. link[p] = NoObject
      BY <3>1 DEF Chain
    <3>3. j > 1 => p # s[j - 1]
      BY <3>1
    <3> QED BY <3>2, <3>3, <2>2, <1>4
  <2> QED BY <2>1, <2>2
<1>11. Chain(n - 1, t, first, tail, l)
  BY <1>7, <1>8, <1>9, <1>10 DEF Chain
<1> QED BY <1>1, <1>11 DEF t

-----------------------------------------------------------------------------
(* The walk from hb_list meets these objects in this order.                *)

\* A set of numbers has a least one: strict inclusion of finite sets is
\* well-founded, so one of the sets 0 .. x is inside all the others.
LEMMA LeastNumber ==
  ASSUME NEW S \in SUBSET Nat, S # {}
  PROVE  \E x \in S : \A y \in S : x <= y
<1> DEFINE R == StrictSubsetOrdering(Nat)
           T == {0 .. x : x \in S}
<1>1. IsWellFoundedOn(R, FiniteSubsetsOf(Nat))
  BY FS_StrictSubsetOrderingWellFounded
<1>2. T \subseteq FiniteSubsetsOf(Nat)
  <2>1. \A x \in S : IsFiniteSet(0 .. x) /\ 0 .. x \in SUBSET Nat
    BY FS_Interval
  <2>2. \A x \in S : 0 .. x \in FiniteSubsetsOf(Nat)
    BY <2>1, Zenon DEF FiniteSubsetsOf
  <2> QED BY <2>2
<1>3. \E u \in T : \A v \in T : ~ (<<v, u>> \in R)
  <2>1. T # {}
    OBVIOUS
  <2> HIDE DEF R, T
  <2> QED BY <1>1, <1>2, <2>1, WFMin
<1>4. PICK x \in S : \A y \in S : ~ (<<0 .. y, 0 .. x>> \in R)
  BY <1>3
<1>5. ASSUME NEW y \in S, y < x PROVE FALSE
  <2>1. 0 .. y \in SUBSET Nat /\ 0 .. x \in SUBSET Nat
    OBVIOUS
  <2>2. 0 .. y \subseteq 0 .. x /\ x \in 0 .. x /\ x \notin 0 .. y
    BY <1>5
  <2> QED BY <1>4, <2>1, <2>2 DEF StrictSubsetOrdering
<1> QED BY <1>5

LEMMA ChainFits ==
  ASSUME NEW n \in Nat, NEW s \in [1 .. n -> Objects],
         \A i, j \in 1 .. n : s[i] = s[j] => i = j
  PROVE  n <= Cardinality(Objects)
<1>1. s \in Injection(1 .. n, Objects)
  BY DEF Injection, IsInjective
<1>2. Cardinality(1 .. n) <= Cardinality(Objects)
  BY <1>1, FS_Injection, ObjectsAssumption
<1>3. Cardinality(1 .. n) = n
  BY FS_Interval
<1> QED BY <1>2, <1>3

\* What f would be if it followed the links and f[k] were already known.
Step(f, k) ==
  IF k = 0 THEN hb_list
  ELSE IF f[k - 1] = NoObject THEN NoObject
  ELSE next_heart_beat[f[k - 1]]

LEMMA FollowsChain ==
  ASSUME NEW n \in Nat, NEW s \in [1 .. n -> Objects],
         Chain(n, s, hb_list, hb_tail, next_heart_beat)
  PROVE  /\ n <= Cardinality(Objects) /\ Cardinality(Objects) \in Nat
         /\ DOMAIN Follow = 0 .. Cardinality(Objects)
         /\ \A k \in 0 .. Cardinality(Objects) :
              Follow[k] = IF k < n THEN s[k + 1] ELSE NoObject
<1> DEFINE C == Cardinality(Objects)
           D == 0 .. C
           g == [k \in D |-> IF k < n THEN s[k + 1] ELSE NoObject]
<1>1. C \in Nat /\ n <= C
  BY ChainFits, ObjectsAssumption, FS_CardinalityType DEF Chain
<1>2. ASSUME NEW k \in D PROVE g[k] = Step(g, k)
  <2>1. CASE k = 0
    BY <2>1, <1>1 DEF Chain, Step
  <2>2. CASE k # 0
    <3>1. k - 1 \in D /\ g[k - 1] = IF k - 1 < n THEN s[k - 1 + 1] ELSE NoObject
      BY <2>2, <1>1
    <3>2. CASE k - 1 < n
      <4>1. k \in 1 .. n /\ g[k - 1] = s[k] /\ s[k] \in Objects
        BY <3>1, <3>2, <2>2, <1>1
      <4>2. Step(g, k) = next_heart_beat[s[k]]
        <5> HIDE DEF g
        <5> QED BY <4>1, <2>2, ObjectsAssumption DEF Step
      <4>3. next_heart_beat[s[k]] = IF k < n THEN s[k + 1] ELSE NoObject
        BY <4>1 DEF Chain
      <4> QED BY <4>2, <4>3
    <3>3. CASE ~(k - 1 < n)
      <4>1. g[k - 1] = NoObject /\ g[k] = NoObject
        BY <3>1, <3>3, <1>1
      <4> HIDE DEF g
      <4> QED BY <4>1, <2>2 DEF Step
    <3> QED BY <3>2, <3>3
  <2> QED BY <2>1, <2>2
<1>3. g = [k \in D |-> Step(g, k)]
  <2> HIDE DEF D
  <2>1. g = [k \in D |-> g[k]]
    BY SMTT(30)
  <2> HIDE DEF g
  <2> QED BY <1>2, <2>1
<1>4. Follow = [k \in D |-> Step(Follow, k)]
  <2> HIDE DEF g
  <2>1. \E f : f = [k \in D |-> Step(f, k)]
    BY <1>3
  <2> QED BY <2>1 DEF Follow, Step
<1>5. \A k \in D : Follow[k] = g[k]
  <2> DEFINE Bad == {k \in D : Follow[k] # g[k]}
  <2>1. CASE Bad # {}
    <3>1. Bad \in SUBSET Nat
      BY <1>1
    <3>2. PICK k \in Bad : \A i \in Bad : k <= i
      <4> HIDE DEF Bad
      <4> QED BY <2>1, <3>1, LeastNumber
    <3>3. k \in D /\ Follow[k] = Step(Follow, k) /\ g[k] = Step(g, k)
      <4> HIDE DEF g
      <4>1. k \in D
        BY <3>2
      <4> HIDE DEF D
      <4> QED BY <4>1, <1>2, <1>4
    <3>4. k # 0
      <4> HIDE DEF g, D
      <4>1. CASE k = 0
        <5>1. Follow[k] = g[k]
          BY <3>3, <4>1 DEF Step
        <5> QED BY <5>1, <3>2
      <4> QED BY <4>1
    <3>5. k - 1 \in D /\ k - 1 \notin Bad
      BY <3>2, <3>4, <1>1
    <3>6. Follow[k - 1] = g[k - 1]
      BY <3>5
    <3>7. Follow[k] = g[k]
      <4> HIDE DEF g, D
      <4> QED BY <3>3, <3>6 DEF Step
    <3> QED BY <3>2, <3>7
  <2>2. CASE Bad = {}
    BY <2>2
  <2> QED BY <2>1, <2>2
<1>6. \A k \in D : g[k] = IF k < n THEN s[k + 1] ELSE NoObject
  OBVIOUS
<1> HIDE DEF g
<1>7. DOMAIN Follow = D
  BY <1>4
<1> QED BY <1>1, <1>5, <1>6, <1>7

-----------------------------------------------------------------------------
(* What holds of the list until somebody touches hb_tail: the objects that *)
(* beat are in it, no memory that is gone is, its last object is alive,    *)
(* and in a round the objects called so far are its last ones.             *)

Members(n, s) ==
  /\ \A o \in beating : \E i \in 1 .. n : s[i] = o
  /\ \A i \in 1 .. n : life[s[i]] \in {"live", "destructed"}
  /\ n > 0 => life[s[n]] = "live"

CalledLast(n, s, m) == called = {s[i] : i \in m + 1 .. n}

Round(n, s) ==
  pc \in {"round", "lpc"} =>
    /\ \E m \in 0 .. n : CalledLast(n, s, m)
    /\ num_done = Cardinality(called)
    /\ owed \subseteq beating \ called

Linkage(n, s) ==
  /\ Chain(n, s, hb_list, hb_tail, next_heart_beat)
  /\ Members(n, s)
  /\ Round(n, s)

ListInv ==
  ~tail_touched =>
    /\ pc \notin {"crash", "fatal", "hang"}
    /\ \E n \in Nat : \E s \in [1 .. n -> Objects] : Linkage(n, s)

\* The links have their type: the lemmas about chains apply.
LEMMA LinksTyped == TypeOK => next_heart_beat \in Links
BY DEF TypeOK, Links

\* As long as the loop goes on, the head has not been called: else all had
\* been, and their calls would have reached the bound.
LEMMA HeadNotCalled ==
  ASSUME CountInv, NEW n \in Nat, NEW s \in [1 .. n -> Objects], Linkage(n, s),
         pc = "round", More
  PROVE  /\ n > 0 /\ hb_list = s[1] /\ hb_tail = s[n]
         /\ \E m \in 1 .. n : CalledLast(n, s, m)
         /\ s[1] \notin called
<1>1. n > 0 /\ hb_list = s[1] /\ hb_tail = s[n]
  BY DEF More, Linkage, Chain
<1>2. PICK m \in 0 .. n : CalledLast(n, s, m)
  BY DEF Linkage, Round
<1>3. m # 0
  <2> SUFFICES ASSUME m = 0 PROVE FALSE
    OBVIOUS
  <2>1. beating \subseteq called
    BY <1>2 DEF CalledLast, Linkage, Members
  <2>2. IsFiniteSet(called) /\ Cardinality(called) \in Nat
    BY ObjectsAssumption, FS_Subset, FS_CardinalityType DEF CountInv, TypeOK
  <2>3. Cardinality(beating) <= Cardinality(called)
    BY <2>1, <2>2, FS_Subset
  <2>4. num_done < num_hb_objs /\ num_hb_objs = Cardinality(beating)
        /\ num_done = Cardinality(called)
    BY DEF More, CountInv, CountExact, Linkage, Round
  <2>5. Cardinality(beating) \in Nat
    BY BeatingFinite DEF CountInv
  <2> QED BY <2>2, <2>3, <2>4, <2>5
<1>4. s[1] \notin called
  <2> SUFFICES ASSUME NEW i \in m + 1 .. n, s[i] = s[1] PROVE FALSE
    BY <1>2 DEF CalledLast
  <2>1. i \in 1 .. n /\ i # 1 /\ 1 \in 1 .. n
    BY <1>1, <1>3
  <2> QED BY <2>1 DEF Linkage, Chain
<1> QED BY <1>1, <1>2, <1>3, <1>4

\* set_heart_beat(1) in an object whose link is null and that is not hb_tail
\* puts it in front; in an object that is still linked it leaves the list.
LEMMA TurnOnLinks ==
  ASSUME CountInv, NEW n \in Nat, NEW s \in [1 .. n -> Objects], Linkage(n, s),
         NEW o \in Objects, SetHeartBeat(o, TRUE), o # hb_tail
  PROVE  \E k \in Nat : \E t \in [1 .. k -> Objects] : Linkage(k, t)'
<1>1. /\ beating' = beating \cup {o} /\ life[o] = "live" /\ TurnOn(o)
      /\ life' = life /\ pc' = pc /\ called' = called /\ owed' = owed
      /\ num_done' = num_done
  BY DEF SetHeartBeat, TurnOn, round
<1>2. /\ \A p \in beating : \E i \in 1 .. n : s[i] = p
      /\ \A i \in 1 .. n : life[s[i]] \in {"live", "destructed"}
      /\ n > 0 => life[s[n]] = "live"
      /\ Chain(n, s, hb_list, hb_tail, next_heart_beat)
  BY DEF Linkage, Members
<1>3. CASE next_heart_beat[o] # NoObject
  <2>1. \E i \in 1 .. n : s[i] = o
    BY <1>2, <1>3 DEF Chain
  <2>2. hb_list' = hb_list /\ hb_tail' = hb_tail /\ next_heart_beat' = next_heart_beat
    BY <1>1, <1>2, <1>3, <2>1, ObjectsAssumption DEF TurnOn, Chain
  <2>3. Members(n, s)'
    BY <1>1, <1>2, <2>1 DEF Members
  <2>4. Round(n, s)'
    BY <1>1 DEF Linkage, Round, CalledLast
  <2> QED BY <1>2, <2>2, <2>3, <2>4 DEF Linkage
<1>4. CASE next_heart_beat[o] = NoObject
  <2> DEFINE t == Pushed(n, s, o)
  <2>1. \A i \in 1 .. n : s[i] # o
    <3> TAKE i \in 1 .. n
    <3>1. CASE i = n
      BY <3>1, <1>2 DEF Chain
    <3>2. CASE i < n
      <4>1. next_heart_beat[s[i]] = s[i + 1] /\ s[i + 1] \in Objects
        BY <3>2, <1>2 DEF Chain
      <4> QED BY <4>1, <1>4, ObjectsAssumption
    <3> QED BY <3>1, <3>2
  <2>2. /\ hb_list' = o /\ hb_tail' = IF hb_tail = NoObject THEN o ELSE hb_tail
        /\ next_heart_beat' = [next_heart_beat EXCEPT ![o] = hb_list]
    BY <1>1, <1>4 DEF TurnOn
  <2>3. next_heart_beat \in Links
    BY LinksTyped DEF CountInv
  <2>4. t \in [1 .. n + 1 -> Objects] /\ Chain(n + 1, t, hb_list', hb_tail', next_heart_beat')
    BY <1>2, <2>1, <2>2, <2>3, PushedChain
  <2>5. t[1] = o /\ \A i \in 1 .. n : t[i + 1] = s[i]
    BY DEF Pushed
  <2> HIDE DEF t
  <2>6. Members(n + 1, t)'
    <3>1. \A p \in beating' : \E i \in 1 .. n + 1 : t[i] = p
      <4> SUFFICES ASSUME NEW p \in beating' PROVE \E i \in 1 .. n + 1 : t[i] = p
        OBVIOUS
      <4>1. CASE p = o
        BY <4>1, <2>5
      <4>2. CASE p \in beating
        <5>1. PICK i \in 1 .. n : s[i] = p
          BY <4>2, <1>2
        <5>2. i + 1 \in 1 .. n + 1 /\ t[i + 1] = p
          BY <5>1, <2>5
        <5> QED BY <5>2
      <4> QED BY <4>1, <4>2, <1>1
    <3>2. \A i \in 1 .. n + 1 : i = 1 \/ (i - 1 \in 1 .. n /\ t[i] = s[i - 1])
      <4> TAKE i \in 1 .. n + 1
      <4>1. i # 1 => i - 1 \in 1 .. n /\ t[i - 1 + 1] = s[i - 1]
        BY <2>5
      <4> QED BY <4>1
    <3>3. \A i \in 1 .. n + 1 : life'[t[i]] \in {"live", "destructed"}
      BY <3>2, <1>1, <1>2, <2>5
    <3>4. life'[t[n + 1]] = "live"
      BY <1>1, <1>2, <2>5
    <3> QED BY <3>1, <3>3, <3>4 DEF Members
  <2>7. Round(n + 1, t)'
    <3> SUFFICES ASSUME pc' \in {"round", "lpc"}
                 PROVE /\ \E m \in 0 .. n + 1 : CalledLast(n + 1, t, m)'
                       /\ num_done' = Cardinality(called')
                       /\ owed' \subseteq beating' \ called'
      BY DEF Round
    <3>1. PICK m \in 0 .. n : CalledLast(n, s, m)
      BY <1>1 DEF Linkage, Round
    <3>2. \A p : (\E i \in m + 1 .. n : s[i] = p) <=> (\E i \in m + 1 + 1 .. n + 1 : t[i] = p)
      <4> TAKE p
      <4>1. ASSUME NEW i \in m + 1 .. n, s[i] = p
            PROVE \E j \in m + 1 + 1 .. n + 1 : t[j] = p
        <5>1. i + 1 \in m + 1 + 1 .. n + 1 /\ t[i + 1] = p
          BY <4>1, <2>5
        <5> QED BY <5>1
      <4>2. ASSUME NEW i \in m + 1 + 1 .. n + 1, t[i] = p
            PROVE \E j \in m + 1 .. n : s[j] = p
        <5>1. i - 1 \in m + 1 .. n /\ t[i - 1 + 1] = s[i - 1] /\ i - 1 + 1 = i
          BY <2>5
        <5> QED BY <4>2, <5>1
      <4> QED BY <4>1, <4>2
    <3>3. CalledLast(n + 1, t, m + 1)'
      <4>1. {s[i] : i \in m + 1 .. n} = {t[i] : i \in m + 1 + 1 .. n + 1}
        BY <3>2
      <4> QED BY <1>1, <3>1, <4>1 DEF CalledLast
    <3>4. m + 1 \in 0 .. n + 1
      OBVIOUS
    <3> QED BY <1>1, <3>3, <3>4 DEF Linkage, Round
  <2> QED BY <2>4, <2>6, <2>7 DEF Linkage
<1> QED BY <1>3, <1>4

\* Nobody but TurnOn, Drop, Beat and Destruct2 changes the list; its members
\* stay so when fewer beat and a live one that is not the last is destructed.
LEMMA SameList ==
  ASSUME NEW n \in Nat, NEW s \in [1 .. n -> Objects], Linkage(n, s),
         hb_list' = hb_list, hb_tail' = hb_tail, next_heart_beat' = next_heart_beat,
         beating' \subseteq beating,
         \A i \in 1 .. n : \/ life'[s[i]] = life[s[i]]
                           \/ i < n /\ life'[s[i]] = "destructed"
  PROVE  Chain(n, s, hb_list, hb_tail, next_heart_beat)' /\ Members(n, s)'
<1>1. Chain(n, s, hb_list, hb_tail, next_heart_beat)'
  BY DEF Linkage
<1>2. Members(n, s)'
  BY DEF Linkage, Members
<1> QED BY <1>1, <1>2

\* set_heart_beat(0) and destruct of an object that is not hb_tail.
LEMMA TurnOffLinks ==
  ASSUME CountInv, NEW n \in Nat, NEW s \in [1 .. n -> Objects], Linkage(n, s),
         NEW o \in Objects, TurnOff(o),
         life' = life \/ (o # hb_tail /\ life' = [life EXCEPT ![o] = "destructed"]),
         pc' \in {"round", "lpc"} => pc' = pc /\ called' = called /\ num_done' = num_done
  PROVE  Linkage(n, s)'
<1>1. /\ beating' = beating \ {o} /\ owed' = owed \ {o}
      /\ hb_list' = hb_list /\ hb_tail' = hb_tail /\ next_heart_beat' = next_heart_beat
  BY DEF TurnOff, list
<1>2. \A i \in 1 .. n : \/ life'[s[i]] = life[s[i]]
                        \/ i < n /\ life'[s[i]] = "destructed"
  BY DEF Linkage, Chain, CountInv, TypeOK
<1>3. Round(n, s)'
  <2> SUFFICES ASSUME pc' \in {"round", "lpc"} PROVE Round(n, s)'
    BY DEF Round
  <2>1. /\ \E m \in 0 .. n : called = {s[i] : i \in m + 1 .. n}
        /\ num_done = Cardinality(called) /\ owed \subseteq beating \ called
    BY DEF Linkage, Round, CalledLast
  <2> QED BY <1>1, <2>1 DEF Round, CalledLast
<1> QED BY <1>1, <1>2, <1>3, SameList DEF Linkage

\* call_heart_beat takes off a head that does not beat: it is not the last,
\* as something else still beats, and was not called in this round.
LEMMA DropLinks ==
  ASSUME CountInv, NEW n \in Nat, NEW s \in [1 .. n -> Objects], Linkage(n, s), Drop
  PROVE  \E k \in Nat : \E t \in [1 .. k -> Objects] : Linkage(k, t)'
<1> DEFINE t == Removed(n, s, 1)
<1>1. /\ pc = "round" /\ More /\ hb_list \notin beating
      /\ hb_list' = next_heart_beat[hb_list] /\ hb_tail' = hb_tail
      /\ next_heart_beat' = [next_heart_beat EXCEPT ![hb_list] = NoObject]
      /\ beating' = beating /\ life' = life /\ pc' = pc /\ called' = called
      /\ owed' = owed /\ num_done' = num_done
  BY DEF Drop, count, round, history
<1>2. /\ n > 0 /\ hb_list = s[1] /\ \E m \in 1 .. n : CalledLast(n, s, m)
  BY <1>1, HeadNotCalled
<1>3. /\ \A p \in beating : \E i \in 1 .. n : s[i] = p
      /\ \A i \in 1 .. n : life[s[i]] \in {"live", "destructed"}
      /\ life[s[n]] = "live"
      /\ Chain(n, s, hb_list, hb_tail, next_heart_beat)
  BY <1>2 DEF Linkage, Members
<1>4. n > 1
  <2> SUFFICES ASSUME n = 1 PROVE FALSE
    BY <1>2
  <2>1. beating = {}
    BY <1>1, <1>2, <1>3 DEF CountInv, TypeOK
  <2>2. Cardinality(beating) = 0
    BY <2>1, FS_EmptySet
  <2>3. num_done \in Nat /\ num_done < 0
    BY <1>1, <2>2 DEF More, CountInv, TypeOK, CountExact
  <2> QED BY <2>3
<1>5. next_heart_beat \in Links /\ next_heart_beat' \in Links
  BY <1>1, LinksTyped DEF CountInv, Links
<1>6. t \in [1 .. n - 1 -> Objects] /\ Chain(n - 1, t, hb_list', hb_tail', next_heart_beat')
  <2>1. 1 \in 1 .. n - 1
    BY <1>4
  <2> QED BY <1>1, <1>3, <1>5, <2>1, RemovedChain
<1>7. \A i \in 1 .. n - 1 : t[i] = s[i + 1] /\ i + 1 \in 1 .. n
  BY DEF Removed
<1> HIDE DEF t
<1>8. Members(n - 1, t)'
  <2>1. \A p \in beating' : \E i \in 1 .. n - 1 : t[i] = p
    <3> SUFFICES ASSUME NEW p \in beating PROVE \E i \in 1 .. n - 1 : t[i] = p
      BY <1>1
    <3>1. PICK i \in 1 .. n : s[i] = p
      BY <1>3
    <3>2. i # 1
      BY <3>1, <1>1, <1>2
    <3>3. i - 1 \in 1 .. n - 1 /\ t[i - 1] = s[i - 1 + 1] /\ i - 1 + 1 = i
      BY <3>2, <1>7
    <3> QED BY <3>1, <3>3
  <2>2. \A i \in 1 .. n - 1 : life'[t[i]] \in {"live", "destructed"}
    BY <1>1, <1>3, <1>7
  <2>3. life'[t[n - 1]] = "live"
    <3>1. t[n - 1] = s[n - 1 + 1] /\ n - 1 + 1 = n
      BY <1>4, <1>7
    <3> QED BY <3>1, <1>1, <1>3
  <2> QED BY <2>1, <2>2, <2>3 DEF Members
<1>9. Round(n - 1, t)'
  <2>1. PICK m \in 1 .. n : CalledLast(n, s, m)
    BY <1>2
  <2>2. \A p : (\E i \in m + 1 .. n : s[i] = p) <=> (\E i \in m - 1 + 1 .. n - 1 : t[i] = p)
    <3> TAKE p
    <3>1. ASSUME NEW i \in m + 1 .. n, s[i] = p
          PROVE \E j \in m - 1 + 1 .. n - 1 : t[j] = p
      <4>1. i - 1 \in 1 .. n - 1 /\ i - 1 \in m - 1 + 1 .. n - 1 /\ i - 1 + 1 = i
        OBVIOUS
      <4>2. t[i - 1] = s[i - 1 + 1]
        BY <4>1, <1>7
      <4> QED BY <3>1, <4>1, <4>2
    <3>2. ASSUME NEW i \in m - 1 + 1 .. n - 1, t[i] = p
          PROVE \E j \in m + 1 .. n : s[j] = p
      <4>1. i \in 1 .. n - 1 /\ i + 1 \in m + 1 .. n
        OBVIOUS
      <4>2. t[i] = s[i + 1]
        BY <4>1, <1>7
      <4> QED BY <3>2, <4>1, <4>2
    <3> QED BY <3>1, <3>2
  <2>3. CalledLast(n - 1, t, m - 1)'
    <3>1. {s[i] : i \in m + 1 .. n} = {t[i] : i \in m - 1 + 1 .. n - 1}
      BY <2>2
    <3> QED BY <1>1, <2>1, <3>1 DEF CalledLast
  <2>4. m - 1 \in 0 .. n - 1
    OBVIOUS
  <2>5. num_done' = Cardinality(called') /\ owed' \subseteq beating' \ called'
    BY <1>1 DEF Linkage, Round
  <2> QED BY <2>3, <2>4, <2>5 DEF Round
<1>10. n - 1 \in Nat
  BY <1>4
<1> QED BY <1>6, <1>8, <1>9, <1>10 DEF Linkage

\* The head is called: it becomes the last object, the last of those called.
LEMMA BeatLinks ==
  ASSUME CountInv, NEW n \in Nat, NEW s \in [1 .. n -> Objects], Linkage(n, s), Beat
  PROVE  \E k \in Nat : \E t \in [1 .. k -> Objects] : Linkage(k, t)'
<1> DEFINE t == Turned(n, s)
<1>1. /\ pc = "round" /\ More /\ hb_list \in beating /\ Cycle
      /\ num_done' = num_done + 1
      /\ called' = called \cup {hb_tail'} /\ owed' = owed \ {hb_tail'}
      /\ beating' = beating /\ life' = life
  BY DEF Beat, count
<1>2. /\ n > 0 /\ hb_list = s[1] /\ hb_tail = s[n] /\ s[1] \notin called
      /\ \E m \in 1 .. n : CalledLast(n, s, m)
  BY <1>1, HeadNotCalled
<1>3. /\ \A p \in beating : \E i \in 1 .. n : s[i] = p
      /\ \A i \in 1 .. n : life[s[i]] \in {"live", "destructed"} /\ s[i] \in Objects
      /\ Chain(n, s, hb_list, hb_tail, next_heart_beat)
      /\ life[s[1]] = "live"
  BY <1>1, <1>2 DEF Linkage, Members, CountInv, CountExact
<1>4. next_heart_beat \in Links
  BY LinksTyped DEF CountInv
<1>5. t \in [1 .. n -> Objects] /\ Chain(n, t, hb_list', hb_tail', next_heart_beat')
      /\ hb_tail' = s[1]
  <2>1. CASE n = 1
    <3>1. hb_list' = hb_list /\ hb_tail' = hb_tail /\ next_heart_beat' = next_heart_beat
      BY <1>1, <1>2, <2>1 DEF Cycle, list
    <3>2. t = s
      BY <2>1 DEF Turned
    <3> HIDE DEF t
    <3> QED BY <1>2, <1>3, <2>1, <3>1, <3>2
  <2>2. CASE n > 1
    <3>1. hb_list # hb_tail
      BY <1>2, <1>3, <2>2 DEF Chain
    <3>2. /\ hb_list' = next_heart_beat[hb_list] /\ hb_tail' = hb_list
          /\ next_heart_beat' = [next_heart_beat EXCEPT ![hb_tail] = hb_list,
                                                        ![hb_list] = NoObject]
      BY <1>1, <3>1 DEF Cycle
    <3> QED BY <1>2, <1>3, <1>4, <2>2, <3>2, TurnedChain
  <2> QED BY <1>2, <2>1, <2>2
<1>6. /\ t[n] = s[1] /\ \A i \in 1 .. n - 1 : t[i] = s[i + 1] /\ i + 1 \in 1 .. n
      /\ \A i \in 1 .. n : \E j \in 1 .. n : t[i] = s[j]
  BY <1>2 DEF Turned
<1> HIDE DEF t
<1>7. Members(n, t)'
  <2>1. \A p \in beating' : \E i \in 1 .. n : t[i] = p
    <3> SUFFICES ASSUME NEW p \in beating PROVE \E i \in 1 .. n : t[i] = p
      BY <1>1
    <3>1. PICK i \in 1 .. n : s[i] = p
      BY <1>3
    <3>2. CASE i = 1
      BY <3>1, <3>2, <1>6
    <3>3. CASE i # 1
      <4>1. i - 1 \in 1 .. n - 1 /\ i - 1 \in 1 .. n /\ i - 1 + 1 = i
        BY <3>3
      <4>2. t[i - 1] = s[i]
        BY <4>1, <1>6
      <4> QED BY <3>1, <4>1, <4>2
    <3> QED BY <3>2, <3>3
  <2>2. \A i \in 1 .. n : life'[t[i]] \in {"live", "destructed"}
    BY <1>1, <1>3, <1>6
  <2>3. life'[t[n]] = "live"
    BY <1>1, <1>3, <1>6
  <2> QED BY <2>1, <2>2, <2>3 DEF Members
<1>8. Round(n, t)'
  <2>1. PICK m \in 1 .. n : CalledLast(n, s, m)
    BY <1>2
  <2>2. \A p : (p = s[1] \/ \E i \in m + 1 .. n : s[i] = p)
               <=> (\E i \in m - 1 + 1 .. n : t[i] = p)
    <3> TAKE p
    <3>1. ASSUME NEW i \in m + 1 .. n, s[i] = p
          PROVE \E j \in m - 1 + 1 .. n : t[j] = p
      <4>1. i - 1 \in 1 .. n - 1 /\ i - 1 \in m - 1 + 1 .. n /\ i - 1 + 1 = i
        OBVIOUS
      <4>2. t[i - 1] = s[i - 1 + 1]
        BY <4>1, <1>6
      <4> QED BY <3>1, <4>1, <4>2
    <3>2. ASSUME NEW i \in m - 1 + 1 .. n, t[i] = p, i # n
          PROVE \E j \in m + 1 .. n : s[j] = p
      <4>1. i \in 1 .. n - 1 /\ i + 1 \in m + 1 .. n
        BY <3>2
      <4>2. t[i] = s[i + 1]
        BY <4>1, <1>6
      <4> QED BY <3>2, <4>1, <4>2
    <3>3. n \in m - 1 + 1 .. n
      OBVIOUS
    <3> QED BY <3>1, <3>2, <3>3, <1>6
  <2>3. CalledLast(n, t, m - 1)'
    <3>1. {s[i] : i \in m + 1 .. n} \cup {s[1]} = {t[i] : i \in m - 1 + 1 .. n}
      BY <2>2
    <3> QED BY <1>1, <1>5, <2>1, <3>1 DEF CalledLast
  <2>4. m - 1 \in 0 .. n
    OBVIOUS
  <2>5. num_done' = Cardinality(called')
    <3>1. IsFiniteSet(called)
      BY ObjectsAssumption, FS_Subset DEF CountInv, TypeOK
    <3>2. Cardinality(called \cup {s[1]}) = Cardinality(called) + 1
      BY <3>1, <1>2, FS_AddElement
    <3>3. num_done = Cardinality(called)
      BY <1>1 DEF Linkage, Round
    <3> QED BY <1>1, <1>5, <3>2, <3>3
  <2>6. owed' \subseteq beating' \ called'
    BY <1>1 DEF Linkage, Round
  <2> QED BY <2>3, <2>4, <2>5, <2>6 DEF Round
<1> QED BY <1>5, <1>7, <1>8 DEF Linkage

\* What the walk for the object s[j] sees: the objects before it.
LEMMA WalkSees ==
  ASSUME NEW n \in Nat, NEW s \in [1 .. n -> Objects],
         Chain(n, s, hb_list, hb_tail, next_heart_beat)
  PROVE  /\ Linked = {s[i] : i \in 1 .. n}
         /\ NoObject \in {Follow[k] : k \in DOMAIN Follow}
         /\ \A j \in 1 .. n : Before(s[j]) = {s[i] : i \in 1 .. j - 1}
<1> DEFINE C == Cardinality(Objects)
<1>1. /\ n <= C /\ C \in Nat
      /\ \A k \in 0 .. C : Follow[k] = IF k < n THEN s[k + 1] ELSE NoObject
      /\ DOMAIN Follow = 0 .. C
  BY FollowsChain
<1>2. \A i \in 1 .. n : s[i] \in Objects /\ s[i] # NoObject
  BY ObjectsAssumption
<1>3. \A i \in 1 .. n : i - 1 \in 0 .. C /\ Follow[i - 1] = s[i]
  <2> TAKE i \in 1 .. n
  <2>1. i - 1 \in 0 .. C /\ i - 1 < n /\ i - 1 + 1 = i
    BY <1>1
  <2> HIDE DEF C
  <2> QED BY <2>1, <1>1
<1>4. \A k \in 0 .. C : k < n => k + 1 \in 1 .. n /\ Follow[k] = s[k + 1]
  BY <1>1
<1>5. \A k \in 0 .. C : ~(k < n) => Follow[k] = NoObject
  BY <1>1
<1> HIDE DEF C
<1>6. Linked = {s[i] : i \in 1 .. n}
  <2>1. \A p : (p # NoObject /\ \E k \in 0 .. C : Follow[k] = p) <=> (\E i \in 1 .. n : s[i] = p)
    <3> TAKE p
    <3>1. ASSUME NEW k \in 0 .. C, Follow[k] = p, p # NoObject PROVE \E i \in 1 .. n : s[i] = p
      BY <3>1, <1>4, <1>5
    <3>2. ASSUME NEW i \in 1 .. n, s[i] = p
          PROVE p # NoObject /\ \E k \in 0 .. C : Follow[k] = p
      BY <3>2, <1>2, <1>3
    <3> QED BY <3>1, <3>2
  <2>2. Linked = {Follow[k] : k \in 0 .. C} \ {NoObject}
    BY <1>1 DEF Linked
  <2> QED BY <2>1, <2>2
<1>7. NoObject \in {Follow[k] : k \in DOMAIN Follow}
  <2>1. n \in 0 .. C /\ Follow[n] = NoObject
    BY <1>1, <1>5
  <2> QED BY <2>1, <1>1
<1>8. ASSUME NEW j \in 1 .. n PROVE Before(s[j]) = {s[i] : i \in 1 .. j - 1}
  <2> DEFINE Seen(k) == \A i \in 0 .. k : Follow[i] # s[j]
  <2>1. \A k \in 0 .. C : Seen(k) <=> k < j - 1
    <3> TAKE k \in 0 .. C
    <3>1. ASSUME Seen(k) PROVE k < j - 1
      <4>1. j - 1 \in 0 .. C /\ Follow[j - 1] = s[j]
        BY <1>3
      <4>2. ~(j - 1 \in 0 .. k)
        BY <3>1, <4>1
      <4> QED BY <4>1, <4>2, <1>1
    <3>2. ASSUME k < j - 1, NEW i \in 0 .. k, Follow[i] = s[j] PROVE FALSE
      <4>1. i \in 0 .. C /\ i < n /\ i + 1 # j
        BY <3>2, <1>1
      <4>2. Follow[i] = s[i + 1] /\ i + 1 \in 1 .. n
        BY <4>1, <1>4
      <4> QED BY <3>2, <4>1, <4>2 DEF Chain
    <3> QED BY <3>1, <3>2
  <2>2. Before(s[j]) = {Follow[k] : k \in {k \in 0 .. C : Seen(k)}}
    BY <1>1 DEF Before
  <2> HIDE DEF Seen
  <2>3. \A p : (\E k \in 0 .. C : Seen(k) /\ Follow[k] = p) <=> (\E i \in 1 .. j - 1 : s[i] = p)
    <3> TAKE p
    <3>1. ASSUME NEW k \in 0 .. C, Seen(k), Follow[k] = p PROVE \E i \in 1 .. j - 1 : s[i] = p
      <4>1. k < j - 1
        BY <3>1, <2>1
      <4>2. k < n /\ k + 1 \in 1 .. j - 1
        BY <4>1, <1>1
      <4> QED BY <3>1, <4>2, <1>4
    <3>2. ASSUME NEW i \in 1 .. j - 1, s[i] = p PROVE \E k \in 0 .. C : Seen(k) /\ Follow[k] = p
      <4>1. i \in 1 .. n /\ i - 1 < j - 1
        OBVIOUS
      <4>2. i - 1 \in 0 .. C /\ Follow[i - 1] = s[i]
        BY <4>1, <1>3
      <4>3. Seen(i - 1)
        BY <4>1, <4>2, <2>1
      <4> QED BY <3>2, <4>2, <4>3
    <3> QED BY <3>1, <3>2
  <2> QED BY <2>2, <2>3
<1> QED BY <1>6, <1>7, <1>8

\* An object is in the list and not its last, or its link is null.
LEMMA LinkOrNull ==
  ASSUME NEW n \in Nat, NEW s \in [1 .. n -> Objects],
         Chain(n, s, hb_list, hb_tail, next_heart_beat), NEW o \in Objects
  PROVE  next_heart_beat[o] # NoObject <=> \E j \in 1 .. n - 1 : s[j] = o
<1>1. ASSUME NEW j \in 1 .. n - 1 PROVE next_heart_beat[s[j]] # NoObject
  <2>1. next_heart_beat[s[j]] = s[j + 1] /\ s[j + 1] \in Objects
    BY DEF Chain
  <2> QED BY <2>1, ObjectsAssumption
<1>2. ASSUME next_heart_beat[o] # NoObject PROVE \E j \in 1 .. n - 1 : s[j] = o
  <2>1. PICK j \in 1 .. n : s[j] = o
    BY <1>2 DEF Chain
  <2>2. j < n
    BY <1>2, <2>1 DEF Chain
  <2> QED BY <2>1, <2>2
<1> QED BY <1>1, <1>2

\* destruct2 finds a linked object and takes it out; one with a null link was
\* not in the list, for the last object is alive.
LEMMA Destruct2Links ==
  ASSUME CountInv, NEW n \in Nat, NEW s \in [1 .. n -> Objects], Linkage(n, s),
         NEW o \in Objects, Destruct2(o)
  PROVE  \E k \in Nat : \E t \in [1 .. k -> Objects] : Linkage(k, t)'
<1>1. /\ pc' = "top" /\ life[o] = "destructed" /\ beating' = beating
      /\ \A p \in Objects \ {o} : life'[p] = life[p]
      /\ o \notin beating
  BY DEF Destruct2, count, CountInv, TypeOK, CountExact
<1>2. /\ \A p \in beating : \E i \in 1 .. n : s[i] = p
      /\ \A i \in 1 .. n : life[s[i]] \in {"live", "destructed"}
      /\ n > 0 => life[s[n]] = "live"
      /\ Chain(n, s, hb_list, hb_tail, next_heart_beat)
  BY DEF Linkage, Members
<1>3. CASE next_heart_beat[o] = NoObject
  <2>1. hb_list' = hb_list /\ hb_tail' = hb_tail /\ next_heart_beat' = next_heart_beat
    BY <1>3 DEF Destruct2, list
  <2>2. \A i \in 1 .. n : s[i] # o
    <3> SUFFICES ASSUME NEW i \in 1 .. n, s[i] = o PROVE FALSE
      OBVIOUS
    <3>1. i = n
      BY <1>2, <1>3, LinkOrNull
    <3> QED BY <3>1, <1>1, <1>2
  <2>3. \A i \in 1 .. n : life'[s[i]] = life[s[i]]
    BY <2>2, <1>1
  <2>4. Chain(n, s, hb_list, hb_tail, next_heart_beat)' /\ Members(n, s)'
    BY <1>1, <2>1, <2>3, SameList
  <2>5. Round(n, s)'
    BY <1>1 DEF Round
  <2> QED BY <2>4, <2>5 DEF Linkage
<1>4. CASE next_heart_beat[o] # NoObject
  <2>1. PICK j \in 1 .. n - 1 : s[j] = o
    BY <1>2, <1>4, LinkOrNull
  <2> DEFINE t == Removed(n, s, j)
  <2>2. Unlink(o)
    BY <1>4 DEF Destruct2
  <2>3. next_heart_beat \in Links
    BY LinksTyped DEF CountInv
  <2>4. /\ hb_tail' = hb_tail /\ next_heart_beat' \in Links
        /\ IF j = 1
           THEN /\ hb_list' = next_heart_beat[hb_list]
                /\ next_heart_beat' = [next_heart_beat EXCEPT ![hb_list] = NoObject]
           ELSE /\ hb_list' = hb_list
                /\ next_heart_beat' = [next_heart_beat EXCEPT ![s[j - 1]] = next_heart_beat[s[j]],
                                                              ![s[j]] = NoObject]
    <3>1. hb_list = s[1] /\ \A a, b \in 1 .. n : s[a] = s[b] => a = b
      BY <1>2, <2>1 DEF Chain
    <3>2. CASE j = 1
      <4>1. hb_list = o
        BY <2>1, <3>1, <3>2
      <4> QED BY <2>2, <2>3, <3>2, <4>1 DEF Unlink, Links
    <3>3. CASE j # 1
      <4>1. hb_list # o
        BY <2>1, <3>1, <3>3
      <4>2. Before(s[j]) = {s[i] : i \in 1 .. j - 1}
        <5>1. j \in 1 .. n
          BY <2>1
        <5> QED BY <5>1, <1>2, WalkSees
      <4>3. PICK i \in 1 .. j - 1 :
               /\ next_heart_beat[s[i]] = o
               /\ next_heart_beat' = [next_heart_beat EXCEPT ![s[i]] = next_heart_beat[o],
                                                             ![o] = NoObject]
               /\ hb_list' = hb_list /\ hb_tail' = hb_tail
        BY <2>1, <2>2, <4>1, <4>2 DEF Unlink
      <4>4. i = j - 1
        <5>1. next_heart_beat[s[i]] = s[i + 1] /\ i + 1 \in 1 .. n
          BY <1>2 DEF Chain
        <5>2. i + 1 = j
          BY <2>1, <3>1, <4>3, <5>1
        <5> QED BY <5>2
      <4>5. s[i] \in Objects
        OBVIOUS
      <4> QED BY <2>1, <2>3, <3>3, <4>3, <4>4, <4>5 DEF Links
    <3> QED BY <3>2, <3>3
  <2>5. t \in [1 .. n - 1 -> Objects] /\ Chain(n - 1, t, hb_list', hb_tail', next_heart_beat')
    <3>1. n \in Nat /\ s \in [1 .. n -> Objects] /\ Chain(n, s, hb_list, hb_tail, next_heart_beat)
      BY <1>2
    <3>2. next_heart_beat' \in Links /\ next_heart_beat \in Links /\ hb_tail' = hb_tail
      BY <2>3, <2>4
    <3>3. IF j = 1
          THEN /\ hb_list' = next_heart_beat[hb_list]
               /\ next_heart_beat' = [next_heart_beat EXCEPT ![hb_list] = NoObject]
          ELSE /\ hb_list' = hb_list
               /\ next_heart_beat' = [next_heart_beat EXCEPT ![s[j - 1]] = next_heart_beat[s[j]],
                                                             ![s[j]] = NoObject]
      BY <2>4
    <3>4. /\ Removed(n, s, j) \in [1 .. n - 1 -> Objects]
          /\ Chain(n - 1, Removed(n, s, j), hb_list', hb_tail, next_heart_beat')
      BY <3>1, <3>2, <3>3, RemovedChain
    <3> QED BY <3>2, <3>4
  <2>6. \A i \in 1 .. n - 1 : t[i] = IF i < j THEN s[i] ELSE s[i + 1]
    BY DEF Removed
  <2> HIDE DEF t
  <2>7. \A i \in 1 .. n : s[i] = o => i = j
    BY <1>2, <2>1 DEF Chain
  <2>8. Members(n - 1, t)'
    <3>1. ASSUME NEW p \in beating PROVE \E i \in 1 .. n - 1 : t[i] = p
      <4>1. PICK i \in 1 .. n : s[i] = p
        BY <1>2
      <4>2. i # j
        BY <1>1, <2>1, <4>1
      <4>3. CASE i < j
        BY <4>1, <4>3, <2>6
      <4>4. CASE i > j
        <5>1. i - 1 \in 1 .. n - 1 /\ ~(i - 1 < j) /\ i - 1 + 1 = i
          BY <4>4
        <5>2. t[i - 1] = s[i]
          BY <5>1, <2>6
        <5> QED BY <4>1, <5>1, <5>2
      <4> QED BY <4>2, <4>3, <4>4
    <3>2. \A i \in 1 .. n - 1 : \E k \in 1 .. n : t[i] = s[k] /\ k # j
      <4> TAKE i \in 1 .. n - 1
      <4>1. CASE i < j
        BY <4>1, <2>6
      <4>2. CASE i >= j
        <5>1. i + 1 \in 1 .. n /\ i + 1 # j /\ t[i] = s[i + 1]
          BY <4>2, <2>6
        <5> QED BY <5>1
      <4> QED BY <4>1, <4>2
    <3>3. \A k \in 1 .. n : k # j => life'[s[k]] = life[s[k]]
      BY <1>1, <2>7
    <3>4. \A i \in 1 .. n - 1 : life'[t[i]] \in {"live", "destructed"}
      BY <1>2, <3>2, <3>3
    <3>5. life'[t[n - 1]] = "live"
      <4>1. n - 1 \in 1 .. n - 1 /\ ~(n - 1 < j) /\ n - 1 + 1 = n /\ n \in 1 .. n /\ n # j
        BY <2>1
      <4>2. t[n - 1] = s[n]
        BY <4>1, <2>6
      <4> QED BY <4>1, <4>2, <3>3, <1>2
    <3> QED BY <3>1, <3>4, <3>5, <1>1 DEF Members
  <2>9. Round(n - 1, t)'
    BY <1>1 DEF Round
  <2>10. n - 1 \in Nat
    BY <2>1
  <2> QED BY <2>5, <2>8, <2>9, <2>10 DEF Linkage
<1> QED BY <1>3, <1>4

\* The walk of destruct2 does not fail.
LEMMA WalkSucceeds ==
  ASSUME NEW n \in Nat, NEW s \in [1 .. n -> Objects], Linkage(n, s),
         NEW o \in Objects
  PROVE  ~WalkFails(o)
<1> SUFFICES ASSUME WalkFails(o) PROVE FALSE
  OBVIOUS
<1>1. Chain(n, s, hb_list, hb_tail, next_heart_beat)
  BY DEF Linkage
<1>2. PICK j \in 1 .. n - 1 : s[j] = o
  BY <1>1, LinkOrNull DEF WalkFails
<1>3. Before(o) = {s[i] : i \in 1 .. j - 1} /\ Linked = {s[i] : i \in 1 .. n}
  <2>1. /\ Linked = {s[i] : i \in 1 .. n}
        /\ \A k \in 1 .. n : Before(s[k]) = {s[i] : i \in 1 .. k - 1}
    BY <1>1, WalkSees
  <2>2. j \in 1 .. n
    OBVIOUS
  <2> QED BY <1>2, <2>1, <2>2
<1>4. \A p \in Before(o) : p \in Objects /\ p # NoObject /\ life[p] # "freed"
  BY <1>3, ObjectsAssumption DEF Linkage, Members
<1>5. o \in Linked
  BY <1>2, <1>3
<1> QED BY <1>4, <1>5 DEF WalkFails

\* Nothing takes back that hb_tail was touched.
LEMMA TouchedStays == [Next]_vars /\ tail_touched => tail_touched'
<1> SUFFICES ASSUME [Next]_vars, tail_touched PROVE tail_touched'
  OBVIOUS
<1>1. ASSUME NEW o \in Objects, \/ \E to \in BOOLEAN : SetHeartBeat(o, to)
                                \/ Destruct(o) \/ FreeObject(o) \/ Clone(o)
                                \/ Destruct2(o) \/ WalkFails(o)
      PROVE  tail_touched'
  BY <1>1, Zenon DEF SetHeartBeat, Destruct, FreeObject, Clone, Destruct2, WalkFails, history
<1>2. CASE \/ ToIo \/ BeginRound \/ SkipRound \/ Drop \/ Beat \/ ReadsFreed \/ Return
           \/ Error \/ RoundDone \/ AfterDone \/ Alarm \/ Stopped \/ UNCHANGED vars
  BY <1>2, Zenon DEF ToIo, BeginRound, SkipRound, Drop, Beat, ReadsFreed, Return, Error,
              RoundDone, AfterDone, Alarm, Stopped, vars, history
<1> QED BY <1>1, <1>2, Zenon DEF Next, Lpc, Backend

\* Every step keeps the list a chain, or touches hb_tail.
LEMMA NextList == CountInv /\ ListInv /\ [Next]_vars => ListInv'
<1> SUFFICES ASSUME CountInv, ListInv, [Next]_vars, ~tail_touched'
             PROVE  /\ pc' \notin {"crash", "fatal", "hang"}
                    /\ \E k \in Nat : \E t \in [1 .. k -> Objects] : Linkage(k, t)'
  BY DEF ListInv
<1>1. ~tail_touched /\ pc \notin {"crash", "fatal", "hang"}
  BY TouchedStays DEF ListInv
<1>a. PICK n \in Nat : \E s \in [1 .. n -> Objects] : Linkage(n, s)
  BY <1>1 DEF ListInv
<1>2. PICK s \in [1 .. n -> Objects] : Linkage(n, s)
  BY <1>a
<1> DEFINE Ok == pc' \notin {"crash", "fatal", "hang"}
           Kept == \E k \in Nat : \E t \in [1 .. k -> Objects] : Linkage(k, t)'
<1>3. Linkage(n, s)' => Kept
  OBVIOUS
<1>4. \A i \in 1 .. n : s[i] \in Objects /\ life[s[i]] \in {"live", "destructed"}
  BY <1>2 DEF Linkage, Members
<1> SUFFICES Ok /\ Kept
  OBVIOUS
<1> HIDE DEF Kept
<1>5. ASSUME NEW o \in Objects, NEW to \in BOOLEAN, SetHeartBeat(o, to) PROVE Ok /\ Kept
  <2>1. Ok
    BY <1>1, <1>5 DEF SetHeartBeat
  <2>2. CASE to = TRUE
    <3>1. SetHeartBeat(o, TRUE) /\ o # hb_tail
      BY <1>5, <2>2 DEF SetHeartBeat
    <3> QED BY <3>1, <1>2, <2>1, TurnOnLinks DEF Kept
  <2>3. CASE to = FALSE
    <3>1. /\ TurnOff(o) /\ life' = life /\ pc' = pc /\ called' = called
          /\ num_done' = num_done
      BY <1>5, <2>3 DEF SetHeartBeat, round
    <3> QED BY <3>1, <1>2, <1>3, <2>1, TurnOffLinks
  <2> QED BY <2>2, <2>3
<1>6. ASSUME NEW o \in Objects, Destruct(o) PROVE Ok /\ Kept
  <2>1. /\ TurnOff(o) /\ o # hb_tail /\ life' = [life EXCEPT ![o] = "destructed"]
        /\ pc' = pc /\ called' = called /\ num_done' = num_done
    BY <1>6 DEF Destruct, round
  <2> QED BY <2>1, <1>1, <1>2, <1>3, TurnOffLinks
<1>7. ASSUME NEW o \in Objects, FreeObject(o) \/ Clone(o) PROVE Ok /\ Kept
  <2>1. /\ hb_list' = hb_list /\ hb_tail' = hb_tail /\ beating' = beating /\ pc' = pc
        /\ called' = called /\ num_done' = num_done /\ owed' = owed
        /\ life[o] \in {"unlinked", "freed"} /\ \A p \in Objects \ {o} : life'[p] = life[p]
        /\ \/ next_heart_beat' = next_heart_beat
           \/ next_heart_beat' = [next_heart_beat EXCEPT ![o] = NoObject]
    BY <1>7 DEF FreeObject, Clone, list, count, round, history, CountInv, TypeOK
  <2>2. \A i \in 1 .. n : s[i] # o
    BY <2>1, <1>4
  <2>3. next_heart_beat[o] = NoObject
    BY <2>2, <1>2 DEF Linkage, Chain
  <2>4. next_heart_beat' = next_heart_beat
    BY <2>1, <2>3 DEF CountInv, TypeOK
  <2>5. \A i \in 1 .. n : life'[s[i]] = life[s[i]]
    BY <2>1, <2>2, <1>4
  <2>6. Chain(n, s, hb_list, hb_tail, next_heart_beat)' /\ Members(n, s)'
    BY <1>2, <2>1, <2>4, <2>5, SameList
  <2>7. Round(n, s)'
    BY <1>2, <2>1 DEF Linkage, Round, CalledLast
  <2> QED BY <2>1, <2>6, <2>7, <1>1, <1>3 DEF Linkage
<1>8. ASSUME NEW o \in Objects, Destruct2(o) PROVE Ok /\ Kept
  <2>1. pc' = pc
    BY <1>8 DEF Destruct2
  <2> QED BY <2>1, <1>1, <1>2, <1>8, Destruct2Links DEF Kept
<1>9. ASSUME NEW o \in Objects, WalkFails(o) PROVE FALSE
  BY <1>2, <1>9, WalkSucceeds
<1>10. CASE Drop
  <2>1. pc' = pc
    BY <1>10 DEF Drop
  <2> QED BY <2>1, <1>1, <1>2, <1>10, DropLinks DEF Kept
<1>11. CASE Beat
  <2>1. pc' = "lpc"
    BY <1>11 DEF Beat
  <2> QED BY <2>1, <1>2, <1>11, BeatLinks DEF Kept
<1>12. CASE ReadsFreed
  <2>1. pc = "round" /\ More /\ (life[hb_list] = "freed" \/ life[hb_tail] = "freed")
    BY <1>12 DEF ReadsFreed
  <2>2. n > 0 /\ hb_list = s[1] /\ hb_tail = s[n]
    BY <1>2, <2>1, HeadNotCalled
  <2> QED BY <2>1, <2>2, <1>4
<1>13. CASE Error
  <2>1. /\ TurnOff(current_heart_beat) /\ current_heart_beat \in Objects /\ pc' = "top"
        /\ life' = life
    BY <1>13 DEF Error, CountInv, TypeOK
  <2> QED BY <2>1, <1>2, <1>3, TurnOffLinks
<1>14. CASE \/ ToIo \/ BeginRound \/ SkipRound \/ Return \/ RoundDone \/ AfterDone
            \/ Alarm \/ Stopped \/ UNCHANGED vars
  <2>1. /\ hb_list' = hb_list /\ hb_tail' = hb_tail /\ next_heart_beat' = next_heart_beat
        /\ beating' = beating /\ life' = life
    BY <1>14 DEF ToIo, BeginRound, SkipRound, Return, RoundDone, AfterDone, Alarm, Stopped,
                 vars, list, count
  <2>2. Ok
    BY <1>1, <1>14 DEF ToIo, BeginRound, SkipRound, Return, RoundDone, AfterDone, Alarm,
                       Stopped, vars
  <2>3. Chain(n, s, hb_list, hb_tail, next_heart_beat)' /\ Members(n, s)'
    BY <1>2, <2>1, SameList
  <2>4. Round(n, s)'
    <3>1. CASE BeginRound
      <4>1. called' = {} /\ num_done' = 0 /\ owed' = beating
        BY <3>1 DEF BeginRound
      <4>2. CalledLast(n, s, n)' /\ n \in 0 .. n /\ Cardinality(called') = 0
        BY <4>1, FS_EmptySet DEF CalledLast
      <4> QED BY <2>1, <4>1, <4>2 DEF Round
    <3>2. CASE \/ Alarm \/ Return \/ Stopped \/ UNCHANGED vars
      <4>1. /\ called' = called /\ num_done' = num_done /\ owed' = owed
            /\ pc' \in {"round", "lpc"} => pc \in {"round", "lpc"}
        BY <3>2 DEF Alarm, Return, Stopped, vars, round, history
      <4> QED BY <1>2, <2>1, <4>1 DEF Linkage, Round, CalledLast
    <3>3. CASE ToIo \/ SkipRound \/ RoundDone \/ AfterDone
      BY <3>3 DEF ToIo, SkipRound, RoundDone, AfterDone, Round
    <3> QED BY <1>14, <3>1, <3>2, <3>3
  <2> QED BY <2>2, <2>3, <2>4, <1>3 DEF Linkage
<1> QED
  <2> HIDE DEF Ok
  <2>1. CASE Lpc
    <3>1. PICK o \in Objects : \/ \E to \in BOOLEAN : SetHeartBeat(o, to)
                                \/ Destruct(o) \/ FreeObject(o) \/ Clone(o)
      BY <2>1, Zenon DEF Lpc
    <3>2. CASE \E to \in BOOLEAN : SetHeartBeat(o, to)
      BY <3>2, <1>5
    <3>3. CASE Destruct(o) \/ FreeObject(o) \/ Clone(o)
      BY <3>3, <1>6, <1>7
    <3> QED BY <3>1, <3>2, <3>3
  <2>2. CASE \E o \in Objects : Destruct2(o) \/ WalkFails(o)
    <3>1. PICK o \in Objects : Destruct2(o) \/ WalkFails(o)
      BY <2>2
    <3> QED BY <3>1, <1>8, <1>9
  <2>3. CASE Drop \/ Beat \/ ReadsFreed \/ Error
    BY <2>3, <1>10, <1>11, <1>12, <1>13
  <2>4. CASE \/ ToIo \/ BeginRound \/ SkipRound \/ Return \/ RoundDone \/ AfterDone
             \/ Alarm \/ Stopped \/ UNCHANGED vars
    BY <2>4, <1>14
  <2>5. \/ Lpc \/ (\E o \in Objects : Destruct2(o) \/ WalkFails(o))
        \/ Drop \/ Beat \/ ReadsFreed \/ Error
        \/ ToIo \/ BeginRound \/ SkipRound \/ Return \/ RoundDone \/ AfterDone
        \/ Alarm \/ Stopped \/ UNCHANGED vars
    BY Zenon DEF Next, Backend
  <2> QED BY <2>1, <2>2, <2>3, <2>4, <2>5

\* The list is empty when the driver starts.
LEMMA InitList == Init => ListInv
<1> SUFFICES ASSUME Init PROVE ListInv
  OBVIOUS
<1> DEFINE s == [i \in 1 .. 0 |-> NoObject]
<1>1. s \in [1 .. 0 -> Objects] /\ 0 \in Nat
  OBVIOUS
<1> HIDE DEF s
<1>2. Linkage(0, s)
  BY DEF Init, Linkage, Chain, Members, Round
<1>3. pc = "top"
  BY DEF Init
<1> QED BY <1>1, <1>2, <1>3 DEF ListInv

-----------------------------------------------------------------------------
(* The theorems about the list and the round                               *)

\* A chain is what the list promises.
LEMMA LinkageIsWellFormed == TypeOK /\ ListInv => ListWellFormed
<1> SUFFICES ASSUME TypeOK, ListInv, ~tail_touched PROVE ListWellFormed
  BY DEF ListWellFormed
<1>a. PICK n \in Nat : \E s \in [1 .. n -> Objects] : Linkage(n, s)
  BY DEF ListInv
<1>1. PICK s \in [1 .. n -> Objects] : Linkage(n, s)
  BY <1>a
<1>2. /\ Chain(n, s, hb_list, hb_tail, next_heart_beat)
      /\ \A p \in beating : \E i \in 1 .. n : s[i] = p
      /\ \A i \in 1 .. n : life[s[i]] \in {"live", "destructed"}
  BY <1>1 DEF Linkage, Members
<1>3. Linked = {s[i] : i \in 1 .. n} /\ NoObject \in {Follow[k] : k \in DOMAIN Follow}
  BY <1>2, WalkSees
<1>4. \A i \in 1 .. n : next_heart_beat[s[i]] = NoObject <=> s[i] = hb_tail
  <2> TAKE i \in 1 .. n
  <2>1. hb_tail = s[n] /\ n \in 1 .. n
    BY <1>2 DEF Chain
  <2>2. CASE i = n
    BY <1>2, <2>1, <2>2 DEF Chain
  <2>3. CASE i < n
    <3>1. next_heart_beat[s[i]] = s[i + 1] /\ s[i + 1] \in Objects
      BY <1>2, <2>3 DEF Chain
    <3>2. s[i] # s[n]
      BY <1>2, <2>1, <2>3 DEF Chain
    <3> QED BY <2>1, <3>1, <3>2, ObjectsAssumption
  <2> QED BY <2>2, <2>3
<1>5. hb_list = NoObject <=> hb_tail = NoObject
  <2>1. n # 0 => s[1] \in Objects /\ s[n] \in Objects
    OBVIOUS
  <2> QED BY <1>2, <2>1, ObjectsAssumption DEF Chain
<1>6. \A p \in Objects \ Linked : next_heart_beat[p] = NoObject
  BY <1>2, <1>3 DEF Chain
<1>7. /\ \A p \in Linked : next_heart_beat[p] = NoObject <=> p = hb_tail
      /\ beating \subseteq Linked
      /\ \A p \in Linked : life[p] \in {"live", "destructed"}
  BY <1>2, <1>3, <1>4
<1>8. pc \notin {"crash", "fatal", "hang"}
  BY DEF ListInv
<1> QED BY <1>3, <1>5, <1>6, <1>7, <1>8 DEF ListWellFormed

\* Until somebody switches a heart beat on again in hb_tail or destructs it,
\* the list is a chain of the objects that beat and some that do not any more,
\* none of them freed, and destruct2 finds what it looks for
\* (backend.c:381-451, simulate.c:1027-1036).
THEOREM ListStaysWellFormed == Spec => []ListWellFormed
<1>1. Init => CountInv /\ ListInv
  BY InitCount, InitList
<1>2. CountInv /\ ListInv /\ [Next]_vars => (CountInv /\ ListInv)'
  BY NextCount, NextList
<1>3. CountInv /\ ListInv => ListWellFormed
  BY LinkageIsWellFormed DEF CountInv
<1> QED BY <1>1, <1>2, <1>3, PTL DEF Spec

\* The object that is called was at the head: it had not been called.
LEMMA BeatIsFirst ==
  ASSUME CountInv, ListInv, [Next]_vars, ~tail_touched, pc = "round", pc' = "lpc"
  PROVE  current_heart_beat' \notin called
<1>1. Beat
  BY Zenon DEF Next, Lpc, Backend, SetHeartBeat, Destruct, FreeObject, Clone, Destruct2, WalkFails,
         ToIo, BeginRound, SkipRound, Drop, ReadsFreed, Return, Error, RoundDone, AfterDone,
         Alarm, Stopped, vars, Evaluating
<1>a. PICK n \in Nat : \E s \in [1 .. n -> Objects] : Linkage(n, s)
  BY DEF ListInv
<1>2. PICK s \in [1 .. n -> Objects] : Linkage(n, s)
  BY <1>a
<1>3. More /\ current_heart_beat' = hb_tail' /\ Cycle
  BY <1>1 DEF Beat
<1>4. hb_list \notin called /\ (hb_list = hb_tail => hb_tail' = hb_tail)
      /\ (hb_list # hb_tail => hb_tail' = hb_list)
  BY <1>2, <1>3, HeadNotCalled DEF Cycle, list
<1> QED BY <1>3, <1>4

\* A round that ends by its bound made as many calls as objects beat: those
\* not called are no more than those called that do not beat any more.
LEMMA DoneIsFair ==
  ASSUME CountInv, ListInv, [Next]_vars, ~tail_touched, pc = "round", pc' = "after",
         ~heart_beat_flag
  PROVE  Cardinality(owed) <= Cardinality(called \ beating)
<1>1. ~More
  BY Zenon DEF Next, Lpc, Backend, SetHeartBeat, Destruct, FreeObject, Clone, Destruct2, WalkFails,
         ToIo, BeginRound, SkipRound, Drop, Beat, ReadsFreed, Return, Error, RoundDone,
         AfterDone, Alarm, Stopped, vars, Evaluating
<1>a. PICK n \in Nat : \E s \in [1 .. n -> Objects] : Linkage(n, s)
  BY DEF ListInv
<1>2. PICK s \in [1 .. n -> Objects] : Linkage(n, s)
  BY <1>a
<1>3. num_done = Cardinality(called) /\ owed \subseteq beating \ called
  BY <1>2 DEF Linkage, Round
<1>4. IsFiniteSet(called) /\ IsFiniteSet(beating) /\ num_hb_objs = Cardinality(beating)
  BY ObjectsAssumption, FS_Subset DEF CountInv, TypeOK, CountExact
<1> DEFINE both == called \cap beating
<1>5. /\ IsFiniteSet(both) /\ IsFiniteSet(called \ beating) /\ IsFiniteSet(beating \ called)
      /\ both \cup (called \ beating) = called /\ both \cup (beating \ called) = beating
      /\ both \cap (called \ beating) = {} /\ both \cap (beating \ called) = {}
  BY <1>4, FS_Subset
<1> HIDE DEF both
<1>6. /\ Cardinality(called) = Cardinality(both) + Cardinality(called \ beating) - 0
      /\ Cardinality(beating) = Cardinality(both) + Cardinality(beating \ called) - 0
  BY <1>5, FS_Union, FS_EmptySet
<1>7. /\ Cardinality(both) \in Nat /\ Cardinality(called \ beating) \in Nat
      /\ Cardinality(beating \ called) \in Nat /\ Cardinality(owed) \in Nat
      /\ Cardinality(owed) <= Cardinality(beating \ called)
  BY <1>3, <1>5, FS_CardinalityType, FS_Subset
<1>8. CASE hb_list = NoObject
  <2>1. n = 0
    BY <1>2, <1>8, ObjectsAssumption DEF Linkage, Chain
  <2>2. owed = {}
    BY <1>2, <1>3, <2>1 DEF Linkage, Members
  <2> QED BY <2>2, <1>7, FS_EmptySet
<1>9. CASE num_done >= num_hb_objs
  <2>1. Cardinality(called) >= Cardinality(beating)
    BY <1>3, <1>4, <1>9
  <2> QED BY <2>1, <1>6, <1>7
<1>10. num_done \in Nat /\ num_hb_objs \in Nat
  BY ObjectsAssumption, FS_CardinalityType DEF CountInv, TypeOK
<1>11. hb_list = NoObject \/ num_done >= num_hb_objs
  BY <1>1, <1>10 DEF More
<1> QED BY <1>8, <1>9, <1>11

\* As long as hb_tail is left alone, a round calls no object twice, and if it
\* ends by its bound it has called all that beat throughout but as many as were
\* switched off after their call (backend.c:379-401).
THEOREM RoundsStayFair == Spec => RoundFair
<1>1. Init => CountInv /\ ListInv
  BY InitCount, InitList
<1>2. CountInv /\ ListInv /\ [Next]_vars => (CountInv /\ ListInv)'
  BY NextCount, NextList
<1>3. CountInv /\ ListInv /\ [Next]_vars =>
        [~tail_touched /\ pc = "round" /\ pc' = "lpc" => current_heart_beat' \notin called]_vars
  BY BeatIsFirst
<1>4. CountInv /\ ListInv /\ [Next]_vars =>
        [~tail_touched /\ pc = "round" /\ pc' = "after" /\ ~heart_beat_flag =>
           Cardinality(owed) <= Cardinality(called \ beating)]_vars
  BY DoneIsFair
<1> QED BY <1>1, <1>2, <1>3, <1>4, PTL DEF Spec, RoundFair, OncePerRound, RoundShortfall
=============================================================================

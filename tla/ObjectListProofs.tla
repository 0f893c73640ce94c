-------------------------- MODULE ObjectListProofs --------------------------
(***************************************************************************)
(* The two lists of objects stay whole and apart, and the sweep never      *)
(* holds memory that was given back, for every number of objects.          *)
(***************************************************************************)
EXTENDS ObjectList, FiniteSetTheorems, SequenceTheorems, TLAPS

\* The object the sweep comes to next.
Coming == IF pc = "sweep" THEN ob ELSE next_ob

\* Objects that were there when the sweep began stay in memory, and behind the
\* new ones.
PresentBehind ==
  /\ \A o \in present : life[o] # "gone"
  /\ \A i, j \in DOMAIN obj_list : i < j /\ obj_list[i] \in present => obj_list[j] \in present

\* Only a sweep that was led off the list comes to a destructed object.
OffTheList ==
  /\ Coming \in Objects /\ life[Coming] = "destructed" => derailed
  /\ pc = "clean" /\ life[ob] = "destructed" => derailed

\* What was visited is before the object the sweep comes to.
VisitedBefore ==
  \A i, j \in DOMAIN obj_list :
    obj_list[j] = Coming =>
      Coming \in present /\ (obj_list[i] \in visited => i < j)

\* On the list, everything before that object was visited.
BeforeVisited ==
  ~derailed =>
    /\ Coming = NoObject => \A o \in present : life[o] = "live" => o \in visited
    /\ \A i, j \in DOMAIN obj_list :
         obj_list[j] = Coming /\ i < j /\ obj_list[i] \in present => obj_list[i] \in visited

SweepInv ==
  /\ SweepSound
  /\ pc \in {"reset", "check", "clean"} => ob \in Objects
  /\ Sweeping => PresentBehind /\ OffTheList /\ VisitedBefore /\ BeforeVisited

-----------------------------------------------------------------------------
\* A new object moves the rest of its list by one.
LEMMA ConsShifts ==
  ASSUME NEW s \in Seq(Objects), NEW o \in Objects
  PROVE  /\ <<o>> \o s \in Seq(Objects) /\ Len(s) \in Nat
         /\ DOMAIN s = 1 .. Len(s) /\ DOMAIN (<<o>> \o s) = 1 .. Len(s) + 1
         /\ \A i \in 1 .. Len(s) + 1 : (<<o>> \o s)[i] = IF i = 1 THEN o ELSE s[i - 1]
OBVIOUS

\* A new object comes to the front of a list.
LEMMA ConsSet ==
  ASSUME NEW s \in Seq(Objects), NEW o \in Objects, o \notin ToSet(s), IsInjective(s)
  PROVE  /\ <<o>> \o s \in Seq(Objects)
         /\ ToSet(<<o>> \o s) = ToSet(s) \cup {o}
         /\ IsInjective(<<o>> \o s)
<1> DEFINE t == <<o>> \o s
<1>1. /\ t \in Seq(Objects) /\ Len(s) \in Nat
      /\ DOMAIN s = 1 .. Len(s) /\ DOMAIN t = 1 .. Len(s) + 1
      /\ \A i \in 1 .. Len(s) + 1 : t[i] = IF i = 1 THEN o ELSE s[i - 1]
  BY ConsShifts
<1> HIDE DEF t
<1>2. ToSet(t) = ToSet(s) \cup {o}
  <2>1. \A i \in DOMAIN s : i + 1 \in DOMAIN t /\ t[i + 1] = s[i]
    BY <1>1
  <2>2. 1 \in DOMAIN t /\ t[1] = o
    BY <1>1
  <2>3. \A i \in DOMAIN t : t[i] = o \/ (i - 1 \in DOMAIN s /\ t[i] = s[i - 1])
    BY <1>1
  <2> QED BY <2>1, <2>2, <2>3 DEF ToSet
<1>3. IsInjective(t)
  <2> SUFFICES ASSUME NEW i \in 1 .. Len(s) + 1, NEW j \in 1 .. Len(s) + 1, t[i] = t[j]
               PROVE  i = j
    BY <1>1 DEF IsInjective
  <2>1. \A k \in 1 .. Len(s) : s[k] # o
    BY <1>1 DEF ToSet
  <2>2. \A k, m \in 1 .. Len(s) : s[k] = s[m] => k = m
    BY <1>1 DEF IsInjective
  <2>3. CASE i = 1 \/ j = 1
    BY <1>1, <2>1, <2>3
  <2>4. CASE i # 1 /\ j # 1
    <3>1. i - 1 \in 1 .. Len(s) /\ j - 1 \in 1 .. Len(s) /\ s[i - 1] = s[j - 1]
      BY <1>1, <2>4
    <3>2. i - 1 = j - 1
      BY <2>2, <3>1
    <3> QED BY <3>2
  <2> QED BY <2>3, <2>4
<1> QED BY <1>1, <1>2, <1>3 DEF t

\* Unlinking closes the gap.
LEMMA RemoveShifts ==
  ASSUME NEW s \in Seq(Objects), NEW i \in DOMAIN s
  PROVE  /\ RemoveAt(s, i) \in Seq(Objects) /\ Len(s) \in Nat /\ i \in 1 .. Len(s)
         /\ DOMAIN s = 1 .. Len(s) /\ DOMAIN RemoveAt(s, i) = 1 .. Len(s) - 1
         /\ \A j \in 1 .. Len(s) - 1 : RemoveAt(s, i)[j] = IF j < i THEN s[j] ELSE s[j + 1]
<1> DEFINE t == RemoveAt(s, i)
           a == SubSeq(s, 1, i - 1)
           b == SubSeq(s, i + 1, Len(s))
<1>1. i \in 1 .. Len(s) /\ Len(s) \in Nat /\ \A j \in 1 .. Len(s) : s[j] \in Objects
  BY LenProperties, ElementOfSeq
<1>2. a \in Seq(Objects) /\ Len(a) = i - 1 /\ \A j \in 1 .. i - 1 : a[j] = s[j]
  BY <1>1, SubSeqProperties
<1>3. /\ b \in Seq(Objects) /\ Len(b) = Len(s) - i
      /\ \A j \in 1 .. Len(s) - i : b[j] = s[i + j]
  BY <1>1, SubSeqProperties
<1>4. t = a \o b
  BY DEF RemoveAt
<1> HIDE DEF a, b, t
<1>5. /\ t \in Seq(Objects) /\ Len(t) = Len(a) + Len(b)
      /\ \A j \in 1 .. Len(a) + Len(b) : t[j] = IF j <= Len(a) THEN a[j] ELSE b[j - Len(a)]
  BY <1>2, <1>3, <1>4, ConcatProperties
<1>6. Len(t) = Len(s) - 1 /\ Len(a) + Len(b) = Len(s) - 1 /\ DOMAIN t = 1 .. Len(s) - 1
  BY <1>1, <1>2, <1>3, <1>5, LenProperties
<1>7. ASSUME NEW j \in 1 .. Len(s) - 1 PROVE t[j] = IF j < i THEN s[j] ELSE s[j + 1]
  <2>1. CASE j < i
    <3>1. j \in 1 .. i - 1 /\ j <= Len(a)
      BY <1>1, <1>2, <2>1
    <3> QED BY <1>2, <1>5, <1>6, <2>1, <3>1
  <2>2. CASE ~(j < i)
    <3>1. /\ j - (i - 1) \in 1 .. Len(s) - i /\ i + (j - (i - 1)) = j + 1
          /\ ~(j <= Len(a)) /\ j - Len(a) = j - (i - 1)
      BY <1>1, <1>2, <2>2
    <3> QED BY <1>3, <1>5, <1>6, <2>2, <3>1
  <2> QED BY <2>1, <2>2
<1> QED BY <1>1, <1>5, <1>6, <1>7, LenProperties DEF t

\* Where an element of the shortened list was before.
From(i, k) == IF k < i THEN k ELSE k + 1

\* Unlinking an object takes it, and nothing else, out of a list.
LEMMA RemoveSet ==
  ASSUME NEW s \in Seq(Objects), NEW i \in DOMAIN s, IsInjective(s)
  PROVE  /\ RemoveAt(s, i) \in Seq(Objects)
         /\ ToSet(RemoveAt(s, i)) = ToSet(s) \ {s[i]}
         /\ IsInjective(RemoveAt(s, i))
<1> DEFINE t == RemoveAt(s, i)
<1>1. /\ t \in Seq(Objects) /\ Len(s) \in Nat /\ i \in 1 .. Len(s)
      /\ DOMAIN s = 1 .. Len(s) /\ DOMAIN t = 1 .. Len(s) - 1
      /\ \A j \in 1 .. Len(s) - 1 : t[j] = IF j < i THEN s[j] ELSE s[j + 1]
  BY RemoveShifts
<1> HIDE DEF t
<1>2. ToSet(t) = ToSet(s) \ {s[i]}
  <2>1. \A j \in DOMAIN s : j # i => \E k \in DOMAIN t : t[k] = s[j]
    <3> SUFFICES ASSUME NEW j \in DOMAIN s, j # i PROVE \E k \in DOMAIN t : t[k] = s[j]
      OBVIOUS
    <3>1. CASE j < i
      BY <1>1, <3>1
    <3>2. CASE j > i
      <4>1. j - 1 \in DOMAIN t /\ t[j - 1] = s[j]
        BY <1>1, <3>2
      <4> QED BY <4>1
    <3> QED BY <1>1, <3>1, <3>2
  <2>2. \A k \in DOMAIN t : t[k] \in ToSet(s) /\ t[k] # s[i]
    BY <1>1 DEF IsInjective, ToSet
  <2> QED BY <1>1, <2>1, <2>2 DEF ToSet
<1>3. IsInjective(t)
  <2> SUFFICES ASSUME NEW j \in 1 .. Len(s) - 1, NEW k \in 1 .. Len(s) - 1, t[j] = t[k]
               PROVE  j = k
    BY <1>1 DEF IsInjective
  <2>1. /\ From(i, j) \in 1 .. Len(s) /\ t[j] = s[From(i, j)]
        /\ From(i, k) \in 1 .. Len(s) /\ t[k] = s[From(i, k)]
    BY <1>1 DEF From
  <2>2. From(i, j) = From(i, k)
    BY <1>1, <2>1 DEF IsInjective
  <2> QED BY <1>1, <2>2 DEF From
<1> QED BY <1>1, <1>2, <1>3 DEF t

\* Unlinking keeps the order of what stays.
LEMMA RemoveOrder ==
  ASSUME NEW s \in Seq(Objects), NEW i \in DOMAIN s
  PROVE  /\ \A k \in DOMAIN RemoveAt(s, i) :
              From(i, k) \in DOMAIN s /\ RemoveAt(s, i)[k] = s[From(i, k)]
         /\ \A j, k \in DOMAIN RemoveAt(s, i) : j < k <=> From(i, j) < From(i, k)
<1>1. /\ i \in 1 .. Len(s) /\ Len(s) \in Nat /\ DOMAIN s = 1 .. Len(s)
      /\ DOMAIN RemoveAt(s, i) = 1 .. Len(s) - 1
      /\ \A k \in 1 .. Len(s) - 1 : RemoveAt(s, i)[k] = IF k < i THEN s[k] ELSE s[k + 1]
  BY RemoveShifts, LenProperties
<1> HIDE DEF RemoveAt
<1>2. \A k \in DOMAIN RemoveAt(s, i) :
        From(i, k) \in DOMAIN s /\ RemoveAt(s, i)[k] = s[From(i, k)]
  BY <1>1 DEF From
<1>3. \A j, k \in DOMAIN RemoveAt(s, i) : j < k <=> From(i, j) < From(i, k)
  BY <1>1 DEF From
<1> QED BY <1>2, <1>3

-----------------------------------------------------------------------------
\* What is in the lists, and where next_all leads.
LEMMA ListFacts ==
  ASSUME TypeOK
  PROVE  /\ Len(obj_list) \in Nat /\ DOMAIN obj_list = 1 .. Len(obj_list)
         /\ \A i \in DOMAIN obj_list : obj_list[i] \in Objects /\ life[obj_list[i]] = "live"
         /\ \A o \in Objects : life[o] = "live" => \E i \in DOMAIN obj_list : obj_list[i] = o
         /\ \A i, j \in DOMAIN obj_list : obj_list[i] = obj_list[j] => i = j
         /\ NoObject \notin Objects
BY LenProperties, ObjectsAssumption DEF TypeOK, ToSet, IsInjective

\* From a live object next_all leads to the next one of the list.
LEMMA AfterLive ==
  ASSUME TypeOK, NEW j \in DOMAIN obj_list
  PROVE  After(obj_list[j]) = IF j = Len(obj_list) THEN NoObject ELSE obj_list[j + 1]
<1>1. obj_list[j] \in ToSet(obj_list)
  BY DEF ToSet
<1>2. (CHOOSE i \in DOMAIN obj_list : obj_list[i] = obj_list[j]) = j
  BY ListFacts
<1> QED BY <1>1, <1>2 DEF After

\* From a destructed object next_all leads to another one, and never back.
LEMMA AfterDestructed ==
  ASSUME TypeOK, NEW o \in Objects, life[o] = "destructed"
  PROVE  After(o) = NoObject \/ (After(o) \in Objects /\ life[After(o)] = "destructed")
<1> DEFINE l == obj_list_destruct
           i == CHOOSE i \in DOMAIN l : l[i] = o
<1>1. o \notin ToSet(obj_list) /\ \E k \in DOMAIN l : l[k] = o
  BY DEF TypeOK, ToSet
<1>2. i \in DOMAIN l /\ l[i] = o
  BY <1>1
<1>3. DOMAIN l = 1 .. Len(l) /\ Len(l) \in Nat
  BY LenProperties DEF TypeOK
<1>4. \A k \in DOMAIN l : l[k] \in Objects /\ life[l[k]] = "destructed"
  BY DEF TypeOK, ToSet
<1>5. After(o) = IF i = Len(l) THEN NoObject ELSE l[i + 1]
  BY <1>1 DEF After
<1> HIDE DEF l, i
<1>6. i # Len(l) => i + 1 \in DOMAIN l
  BY <1>2, <1>3
<1> QED BY <1>4, <1>5, <1>6

\* A step that leaves the lists alone keeps them in order.
LEMMA ListsKept ==
  ASSUME TypeOK, UNCHANGED lists,
         late' \cup resetted' \cup idle' \cup cleans' \subseteq Objects,
         pc' \in {"top", "lpc", "sweep", "reset", "check", "clean"},
         ob' \in Objects \cup {NoObject}, next_ob' \in Objects \cup {NoObject},
         save_reset_state' \in BOOLEAN,
         visited' \subseteq present', present' \subseteq Objects, derailed' \in BOOLEAN
  PROVE  TypeOK'
BY DEF TypeOK, lists

\* At the top of the loop nothing is said of the sweep.
LEMMA NotSweeping ==
  ASSUME TypeOK', pc' \in {"top", "lpc"}
  PROVE  SweepInv'
BY DEF SweepInv, SweepSound, SweepHoldsMemory, Sweeping

-----------------------------------------------------------------------------
\* A step that changes neither the lists nor what the sweep comes to next.
LEMMA SteadyKeeps ==
  ASSUME SweepInv, TypeOK', UNCHANGED <<lists, trace>>, Sweeping,
         Coming' = Coming, next_ob' = next_ob,
         \/ pc' = "sweep" /\ ob' = next_ob
         \/ pc' \in {"reset", "check", "clean"} /\ pc # "sweep" /\ ob' = ob,
         pc' = "clean" => pc = "clean" \/ life[ob] = "live"
  PROVE  SweepInv'
<1>1. UNCHANGED <<obj_list, life, present, visited, derailed>>
  BY DEF lists, trace
<1>2. SweepHoldsMemory' /\ (pc' \in {"reset", "check", "clean"} => ob' \in Objects)
  BY <1>1 DEF SweepInv, SweepSound, SweepHoldsMemory, Sweeping
<1>3. PresentBehind' /\ VisitedBefore' /\ BeforeVisited'
  BY <1>1 DEF SweepInv, PresentBehind, VisitedBefore, BeforeVisited
<1>4. OffTheList'
  BY <1>1 DEF SweepInv, OffTheList
<1> QED BY <1>2, <1>3, <1>4 DEF SweepInv, SweepSound

\* Going on from an object that clean_up() destructed leads off the list.
LEMMA ContinuesKeeps ==
  ASSUME SweepInv, TypeOK', CleanUpContinues
  PROVE  SweepInv'
<1>1. /\ UNCHANGED <<obj_list, life, present, visited, derailed, ob, next_ob>>
      /\ pc = "clean" /\ pc' = "sweep" /\ Sweeping /\ Coming' = ob /\ ob \in Objects
      /\ life[ob] # "live"
  BY DEF CleanUpContinues, lists, trace, Sweeping, Coming, SweepInv
<1>2. life[ob] = "destructed" /\ derailed
  BY <1>1 DEF SweepInv, SweepSound, SweepHoldsMemory, OffTheList
<1>3. \A i \in DOMAIN obj_list : obj_list[i] # ob
  BY <1>1, ListFacts DEF SweepInv, SweepSound
<1>4. PresentBehind' /\ VisitedBefore' /\ BeforeVisited' /\ OffTheList'
  BY <1>1, <1>2, <1>3 DEF SweepInv, PresentBehind, VisitedBefore, BeforeVisited, OffTheList
<1>5. SweepHoldsMemory'
  BY <1>1 DEF SweepInv, SweepSound, SweepHoldsMemory
<1> QED BY <1>1, <1>4, <1>5 DEF SweepInv, SweepSound

\* A visit goes on along the list the object is in (backend.c:262-274).
LEMMA VisitFacts ==
  ASSUME SweepInv, Visit
  PROVE  /\ next_ob' \in Objects \cup {NoObject} /\ visited' \subseteq present
         /\ next_ob' \in Objects => life[next_ob'] \in {"live", "destructed"}
         /\ ob \in Objects /\ Sweeping /\ Coming = ob /\ life[ob] \in {"live", "destructed"}
         /\ life[ob] = "live" =>
              \E j \in DOMAIN obj_list :
                /\ obj_list[j] = ob /\ visited' = visited \cup {ob}
                /\ next_ob' = IF j = Len(obj_list) THEN NoObject ELSE obj_list[j + 1]
         /\ life[ob] = "destructed" =>
              /\ derailed /\ visited' = visited
              /\ next_ob' \in Objects => life[next_ob'] = "destructed"
<1>1. /\ TypeOK /\ pc = "sweep" /\ ob \in Objects /\ Sweeping /\ Coming = ob
      /\ life[ob] \in {"live", "destructed"} /\ visited \subseteq present
      /\ next_ob' = After(ob) /\ visited' = visited \cup ({ob} \cap ToSet(obj_list))
  BY DEF Visit, SweepInv, SweepSound, SweepHoldsMemory, TypeOK, Sweeping, Coming
<1>2. CASE life[ob] = "live"
  <2>1. PICK j \in DOMAIN obj_list : obj_list[j] = ob
    BY <1>1, <1>2, ListFacts
  <2>2. ob \in ToSet(obj_list) /\ visited' = visited \cup {ob}
    BY <1>1, <2>1 DEF ToSet
  <2>3. ob \in present
    BY <1>1, <2>1 DEF SweepInv, VisitedBefore
  <2>4. next_ob' = IF j = Len(obj_list) THEN NoObject ELSE obj_list[j + 1]
    BY <1>1, <2>1, AfterLive
  <2>5. j # Len(obj_list) => j + 1 \in DOMAIN obj_list
    BY <1>1, ListFacts
  <2> QED BY <1>1, <1>2, <2>1, <2>2, <2>3, <2>4, <2>5, ListFacts
<1>3. CASE life[ob] = "destructed"
  <2>1. ob \notin ToSet(obj_list)
    BY <1>1, <1>3 DEF TypeOK
  <2>2. derailed
    BY <1>1, <1>3 DEF SweepInv, OffTheList
  <2> QED BY <1>1, <1>3, <2>1, <2>2, AfterDestructed, ListFacts
<1> QED BY <1>1, <1>2, <1>3

\* A visit keeps the invariant.
LEMMA VisitKeeps ==
  ASSUME SweepInv, TypeOK', Visit, UNCHANGED <<lists, ob, present, derailed>>,
         pc' \in {"reset", "check"}
  PROVE  SweepInv'
<1>1. /\ UNCHANGED <<obj_list, life>> /\ TypeOK /\ ob \in Objects /\ Coming = ob /\ Sweeping
      /\ Coming' = next_ob' /\ life[ob] \in {"live", "destructed"}
  BY VisitFacts DEF lists, SweepInv, SweepSound, Coming
<1>2. SweepHoldsMemory' /\ (pc' \in {"reset", "check", "clean"} => ob' \in Objects)
  BY <1>1, VisitFacts DEF SweepHoldsMemory
<1>3. PresentBehind' /\ PresentBehind /\ OffTheList /\ VisitedBefore /\ BeforeVisited
  BY <1>1 DEF SweepInv, PresentBehind
<1>4. CASE life[ob] = "live"
  <2>1. PICK j \in DOMAIN obj_list :
          /\ obj_list[j] = ob /\ visited' = visited \cup {ob}
          /\ next_ob' = IF j = Len(obj_list) THEN NoObject ELSE obj_list[j + 1]
    BY <1>4, VisitFacts
  <2>2. /\ ob \in present
        /\ \A i \in DOMAIN obj_list : obj_list[i] \in visited' => i <= j
        /\ ~derailed => \A i \in DOMAIN obj_list : i <= j /\ obj_list[i] \in present
                                                     => obj_list[i] \in visited'
    BY <1>1, <1>3, <2>1, ListFacts DEF VisitedBefore, BeforeVisited
  <2>3. \A k \in DOMAIN obj_list : obj_list[k] = next_ob' => j # Len(obj_list) /\ k = j + 1
    <3>1. j # Len(obj_list) => j + 1 \in DOMAIN obj_list
      BY <1>1, ListFacts
    <3> QED BY <1>1, <2>1, <3>1, ListFacts
  <2>4. VisitedBefore'
    <3> SUFFICES ASSUME NEW i \in DOMAIN obj_list, NEW k \in DOMAIN obj_list, obj_list[k] = next_ob'
                 PROVE  next_ob' \in present /\ (obj_list[i] \in visited' => i < k)
      BY <1>1 DEF VisitedBefore
    <3>1. k = j + 1 /\ j \in Nat /\ i \in Nat
      BY <1>1, <2>3, ListFacts
    <3> QED BY <1>3, <2>1, <2>2, <3>1 DEF PresentBehind
  <2>5. BeforeVisited'
    <3>1. next_ob' = NoObject => j = Len(obj_list)
      <4>1. j # Len(obj_list) => j + 1 \in DOMAIN obj_list
        BY <1>1, ListFacts
      <4> QED BY <1>1, <2>1, <4>1, ListFacts
    <3>2. ASSUME ~derailed, next_ob' = NoObject, NEW o \in present, life[o] = "live"
          PROVE  o \in visited'
      <4>1. PICK i \in DOMAIN obj_list : obj_list[i] = o
        BY <1>1, <3>2, ListFacts DEF TypeOK
      <4>2. i <= j
        BY <1>1, <3>1, <3>2, ListFacts
      <4> QED BY <2>2, <3>2, <4>1, <4>2
    <3>3. ASSUME ~derailed, NEW i \in DOMAIN obj_list, NEW k \in DOMAIN obj_list,
                 obj_list[k] = next_ob', i < k, obj_list[i] \in present
          PROVE  obj_list[i] \in visited'
      <4>1. k = j + 1 /\ j \in Nat /\ i \in Nat
        BY <1>1, <2>3, <3>3, ListFacts
      <4> QED BY <2>2, <3>3, <4>1
    <3> QED BY <1>1, <3>2, <3>3 DEF BeforeVisited
  <2>6. OffTheList'
    <3>1. next_ob' \in Objects => life[next_ob'] = "live"
      <4>1. j # Len(obj_list) => j + 1 \in DOMAIN obj_list
        BY <1>1, ListFacts
      <4> QED BY <1>1, <2>1, <4>1, ListFacts
    <3> QED BY <1>1, <3>1 DEF OffTheList
  <2> QED BY <1>1, <1>2, <1>3, <2>4, <2>5, <2>6 DEF SweepInv, SweepSound
<1>5. CASE life[ob] = "destructed"
  <2>1. derailed /\ visited' = visited /\ (next_ob' \in Objects => life[next_ob'] = "destructed")
    BY <1>5, VisitFacts
  <2>2. \A i \in DOMAIN obj_list : obj_list[i] # next_ob'
    BY <1>1, <2>1, ListFacts
  <2>3. VisitedBefore' /\ BeforeVisited' /\ OffTheList'
    BY <1>1, <2>1, <2>2 DEF VisitedBefore, BeforeVisited, OffTheList
  <2> QED BY <1>1, <1>2, <1>3, <2>3 DEF SweepInv, SweepSound
<1> QED BY <1>1, <1>4, <1>5

\* destruct_object moves the object to the other list (simulate.c:990-1008).
LEMMA DestructKeeps ==
  ASSUME SweepInv, NEW o \in Objects, Destruct(o)
  PROVE  SweepInv'
<1>1. PICK k \in DOMAIN obj_list : obj_list[k] = o /\ obj_list' = RemoveAt(obj_list, k)
  BY DEF Destruct
<1>2. /\ life[o] = "live" /\ life' = [life EXCEPT ![o] = "destructed"]
      /\ obj_list_destruct' = <<o>> \o obj_list_destruct
      /\ derailed' = (derailed \/ (Sweeping /\ Derails(o)))
      /\ UNCHANGED <<flags, pc, ob, next_ob, save_reset_state, present, visited>>
      /\ pc \in {"lpc", "reset", "clean"}
  BY DEF Destruct, Evaluating, locals
<1>3. /\ TypeOK /\ life \in [Objects -> {"live", "destructed", "gone"}]
      /\ life' \in [Objects -> {"live", "destructed", "gone"}] /\ life'[o] = "destructed"
      /\ \A p \in Objects : p # o => life'[p] = life[p]
  BY <1>2 DEF SweepInv, SweepSound, TypeOK
<1>4. TypeOK'
  <2>1. /\ obj_list' \in Seq(Objects) /\ IsInjective(obj_list')
        /\ ToSet(obj_list') = ToSet(obj_list) \ {o}
    BY <1>1, <1>3, RemoveSet DEF TypeOK
  <2>2. /\ obj_list_destruct' \in Seq(Objects) /\ IsInjective(obj_list_destruct')
        /\ ToSet(obj_list_destruct') = ToSet(obj_list_destruct) \cup {o}
    <3>1. o \notin ToSet(obj_list_destruct)
      BY <1>2, <1>3 DEF TypeOK
    <3> QED BY <1>2, <1>3, <3>1, ConsSet DEF TypeOK
  <2>3. /\ ToSet(obj_list') = {p \in Objects : life'[p] = "live"}
        /\ ToSet(obj_list_destruct') = {p \in Objects : life'[p] = "destructed"}
    BY <1>2, <1>3, <2>1, <2>2 DEF TypeOK
  <2>4. derailed' \in BOOLEAN
    BY <1>2, <1>3 DEF TypeOK
  <2> QED BY <1>2, <1>3, <2>1, <2>2, <2>3, <2>4 DEF TypeOK, flags
<1>5. CASE pc = "lpc"
  BY <1>2, <1>4, <1>5, NotSweeping
<1>6. CASE pc \in {"reset", "clean"}
  <2>1. Sweeping /\ Sweeping' /\ Coming = next_ob /\ Coming' = next_ob /\ ob \in Objects
    BY <1>2, <1>6 DEF Sweeping, Coming, SweepInv
  <2>2. /\ PresentBehind /\ OffTheList /\ VisitedBefore /\ BeforeVisited
        /\ present \subseteq Objects /\ visited \subseteq present
    BY <1>3, <2>1 DEF SweepInv, TypeOK
  <2>3. /\ \A j \in DOMAIN obj_list' :
            From(k, j) \in DOMAIN obj_list /\ obj_list'[j] = obj_list[From(k, j)]
        /\ \A i, j \in DOMAIN obj_list' : i < j <=> From(k, i) < From(k, j)
    BY <1>1, <1>3, RemoveOrder DEF TypeOK
  <2>4. PresentBehind'
    BY <1>2, <1>3, <2>2, <2>3 DEF PresentBehind
  <2>5. OffTheList'
    BY <1>2, <1>3, <1>6, <2>1, <2>2 DEF OffTheList, Derails
  <2>6. VisitedBefore'
    BY <1>2, <2>1, <2>2, <2>3 DEF VisitedBefore
  <2>7. BeforeVisited'
    <3>1. ~derailed' => ~derailed
      BY <1>2
    <3>2. ASSUME ~derailed', next_ob' = NoObject, NEW p \in present', life'[p] = "live"
          PROVE  p \in visited'
      BY <1>2, <1>3, <2>1, <2>2, <3>1, <3>2 DEF BeforeVisited
    <3>3. ASSUME ~derailed', NEW i \in DOMAIN obj_list', NEW j \in DOMAIN obj_list',
                 obj_list'[j] = next_ob', i < j, obj_list'[i] \in present'
          PROVE  obj_list'[i] \in visited'
      <4>1. From(k, i) < From(k, j) /\ From(k, i) \in DOMAIN obj_list /\ From(k, j) \in DOMAIN obj_list
        BY <2>3, <3>3
      <4>2. obj_list[From(k, j)] = next_ob /\ obj_list[From(k, i)] \in present
        BY <1>2, <2>3, <3>3
      <4>3. obj_list[From(k, i)] \in visited
        BY <2>1, <2>2, <3>1, <3>3, <4>1, <4>2 DEF BeforeVisited
      <4>4. obj_list'[i] = obj_list[From(k, i)] /\ visited' = visited
        BY <1>2, <2>3, <3>3
      <4> QED BY <4>3, <4>4
    <3>4. Coming' = next_ob'
      BY <1>2, <2>1
    <3> QED BY <3>2, <3>3, <3>4 DEF BeforeVisited
  <2>8. SweepHoldsMemory'
    BY <1>2, <1>3, <2>1 DEF SweepHoldsMemory, SweepInv, SweepSound
  <2> QED BY <1>2, <1>4, <2>1, <2>4, <2>5, <2>6, <2>7, <2>8 DEF SweepInv, SweepSound
<1> QED BY <1>2, <1>5, <1>6

\* A new object comes to the front, where the sweep has been (object.c:99-129).
LEMMA CloneKeeps ==
  ASSUME SweepInv, NEW o \in Objects, Clone(o)
  PROVE  SweepInv'
<1>1. /\ life[o] = "gone" /\ life' = [life EXCEPT ![o] = "live"]
      /\ obj_list' = <<o>> \o obj_list /\ pc \in {"lpc", "reset", "clean"}
      /\ late' \subseteq late /\ resetted' = resetted \cup {o}
      /\ idle' \subseteq idle \cup {o} /\ cleans' \subseteq cleans \cup {o}
      /\ UNCHANGED <<obj_list_destruct, pc, ob, next_ob, save_reset_state, present, visited, derailed>>
  BY DEF Clone, Evaluating, locals, trace
<1>2. /\ TypeOK /\ life'[o] = "live" /\ \A p \in Objects : p # o => life'[p] = life[p]
      /\ life' \in [Objects -> {"live", "destructed", "gone"}]
  BY <1>1 DEF SweepInv, SweepSound, TypeOK
<1>3. TypeOK'
  <2>1. o \notin ToSet(obj_list)
    BY <1>1, <1>2 DEF TypeOK
  <2>2. /\ obj_list' \in Seq(Objects) /\ IsInjective(obj_list')
        /\ ToSet(obj_list') = ToSet(obj_list) \cup {o}
    BY <1>1, <1>2, <2>1, ConsSet DEF TypeOK
  <2>3. /\ ToSet(obj_list') = {p \in Objects : life'[p] = "live"}
        /\ ToSet(obj_list_destruct') = {p \in Objects : life'[p] = "destructed"}
    BY <1>1, <1>2, <2>2 DEF TypeOK
  <2>4. late' \cup resetted' \cup idle' \cup cleans' \subseteq Objects
    BY <1>1, <1>2 DEF TypeOK
  <2> QED BY <1>1, <1>2, <2>2, <2>3, <2>4 DEF TypeOK
<1>4. CASE pc = "lpc"
  BY <1>1, <1>3, <1>4, NotSweeping
<1>5. CASE pc \in {"reset", "clean"}
  <2>1. Sweeping /\ Sweeping' /\ Coming = next_ob /\ Coming' = next_ob /\ ob \in Objects
    BY <1>1, <1>5 DEF Sweeping, Coming, SweepInv
  <2>2. /\ PresentBehind /\ OffTheList /\ VisitedBefore /\ BeforeVisited /\ SweepHoldsMemory
        /\ present \subseteq Objects /\ visited \subseteq present
    BY <1>2, <2>1 DEF SweepInv, SweepSound, TypeOK
  <2>3. o \notin present /\ o # ob /\ o # next_ob
    BY <1>1, <2>1, <2>2 DEF PresentBehind, SweepHoldsMemory
  <2>4. \A j \in DOMAIN obj_list' :
          \/ obj_list'[j] = o
          \/ j - 1 \in DOMAIN obj_list /\ obj_list'[j] = obj_list[j - 1]
    BY <1>1, <1>2, ConsShifts DEF TypeOK
  <2>5. /\ DOMAIN obj_list' \subseteq Nat
        /\ \A j \in DOMAIN obj_list' : obj_list'[j] = o => j = 1
        /\ \A j \in DOMAIN obj_list' : 1 <= j
    <3>1. obj_list'[1] = o /\ 1 \in DOMAIN obj_list' /\ DOMAIN obj_list' = 1 .. Len(obj_list) + 1
          /\ Len(obj_list) \in Nat
      BY <1>1, <1>2, ConsShifts DEF TypeOK
    <3> QED BY <1>3, <3>1 DEF TypeOK, IsInjective
  <2>6. PresentBehind'
    BY <1>1, <1>2, <2>2, <2>3, <2>4, <2>5 DEF PresentBehind
  <2>7. OffTheList'
    BY <1>1, <1>2, <2>1, <2>2, <2>3 DEF OffTheList
  <2>8. VisitedBefore'
    BY <1>1, <2>1, <2>2, <2>3, <2>4, <2>5 DEF VisitedBefore
  <2>9. BeforeVisited'
    BY <1>1, <1>2, <2>1, <2>2, <2>3, <2>4, <2>5 DEF BeforeVisited
  <2>10. SweepHoldsMemory'
    BY <1>1, <1>2, <2>1, <2>2, <2>3 DEF SweepHoldsMemory
  <2> QED BY <1>1, <1>3, <2>1, <2>6, <2>7, <2>8, <2>9, <2>10 DEF SweepInv, SweepSound
<1> QED BY <1>1, <1>4, <1>5

\* The sweep begins with the head of the list (backend.c:252-256).
LEMMA BeginKeeps ==
  ASSUME SweepInv, NEW l \in SUBSET Objects, NEW i \in SUBSET Objects, BeginSweep(l, i)
  PROVE  SweepInv'
<1>1. /\ UNCHANGED <<obj_list, life>> /\ pc' = "sweep" /\ ob' = Head(obj_list)
      /\ next_ob' = After(Head(obj_list)) /\ obj_list # <<>>
      /\ present' = ToSet(obj_list) /\ visited' = {} /\ derailed' = FALSE
  BY DEF BeginSweep, lists
<1>2. /\ TypeOK /\ 1 \in DOMAIN obj_list /\ Head(obj_list) = obj_list[1]
      /\ \A j \in DOMAIN obj_list : 1 <= j /\ j \in Nat
  <2>1. TypeOK /\ obj_list \in Seq(Objects)
    BY DEF SweepInv, SweepSound, TypeOK
  <2>2. Len(obj_list) \in Nat \ {0} /\ DOMAIN obj_list = 1 .. Len(obj_list)
    <3>1. obj_list \in Seq(Objects) /\ obj_list # <<>>
      BY <1>1, <2>1
    <3>2. Len(obj_list) \in Nat \ {0}
      BY <3>1, EmptySeq
    <3> QED BY <3>1, <3>2, LenProperties
  <2>3. Head(obj_list) = obj_list[1]
    BY <1>1, <2>1
  <2> QED BY <2>1, <2>2, <2>3
<1>3. /\ ob' \in Objects /\ life[ob'] = "live" /\ next_ob' \in Objects \cup {NoObject}
      /\ next_ob' \in Objects => life[next_ob'] = "live"
  <2>1. next_ob' = IF 1 = Len(obj_list) THEN NoObject ELSE obj_list[2]
    <3>1. After(obj_list[1]) = IF 1 = Len(obj_list) THEN NoObject ELSE obj_list[1 + 1]
      BY <1>2, AfterLive
    <3> QED BY <1>1, <1>2, <3>1
  <2>2. 1 # Len(obj_list) => 2 \in DOMAIN obj_list
    BY <1>2, ListFacts
  <2> QED BY <1>1, <1>2, <2>1, <2>2, ListFacts
<1>4. TypeOK'
  <2>1. present' \subseteq Objects
    BY <1>1, <1>2 DEF TypeOK
  <2>2. late' \cup resetted' \cup idle' \cup cleans' \subseteq Objects
    BY <1>2 DEF BeginSweep, TypeOK
  <2> QED BY <1>1, <1>2, <1>3, <2>1, <2>2, ListsKept DEF BeginSweep, TypeOK
<1>5. Coming' = ob' /\ SweepHoldsMemory'
  BY <1>1, <1>3 DEF Coming, SweepHoldsMemory
<1>6. PresentBehind' /\ OffTheList' /\ VisitedBefore' /\ BeforeVisited'
  <2>1. \A o \in present' : o \in Objects /\ life[o] = "live"
    BY <1>1, <1>2 DEF TypeOK
  <2>2. \A j \in DOMAIN obj_list : obj_list[j] \in present'
    BY <1>1 DEF ToSet
  <2>3. ob' # NoObject /\ \A j \in DOMAIN obj_list : obj_list[j] = ob' => j = 1
    BY <1>1, <1>2, <1>3, ListFacts
  <2> QED BY <1>1, <1>2, <1>3, <1>5, <2>1, <2>2, <2>3
          DEF PresentBehind, OffTheList, VisitedBefore, BeforeVisited
<1> QED BY <1>1, <1>4, <1>5, <1>6 DEF SweepInv, SweepSound

-----------------------------------------------------------------------------
\* The first list holds every object.
LEMMA InitSweep == Init => SweepInv
<1> SUFFICES ASSUME Init PROVE SweepInv
  OBVIOUS
<1> DEFINE n == Cardinality(Objects)
<1>1. n \in Nat /\ obj_list \in [1 .. n -> Objects]
      /\ \A i, j \in 1 .. n : i # j => obj_list[i] # obj_list[j]
  BY ObjectsAssumption, FS_CardinalityType DEF Init, SetToSeqs
<1> HIDE DEF n
<1>2. obj_list \in Seq(Objects) /\ IsInjective(obj_list) /\ DOMAIN obj_list = 1 .. n
  BY <1>1 DEF IsInjective
<1>3. ToSet(obj_list) = Objects
  <2>1. obj_list \in Injection(1 .. n, Objects)
    BY <1>1 DEF Injection, IsInjective
  <2>2. IsFiniteSet(1 .. n) /\ Cardinality(1 .. n) = n
    BY <1>1, FS_Interval
  <2>3. obj_list \in Surjection(1 .. n, Objects)
    BY <2>1, <2>2, FS_Injection, ObjectsAssumption DEF n
  <2> QED BY <1>2, <2>3 DEF Surjection, ToSet
<1>4. /\ obj_list_destruct \in Seq(Objects) /\ IsInjective(obj_list_destruct)
      /\ ToSet(obj_list_destruct) = {}
  BY DEF Init, IsInjective, ToSet
<1>5. TypeOK
  BY <1>2, <1>3, <1>4 DEF Init, TypeOK
<1> QED BY <1>5 DEF Init, SweepInv, SweepSound, SweepHoldsMemory, Sweeping

\* remove_destructed_objects waits for the top of the loop.
LEMMA RemoveKeeps ==
  ASSUME SweepInv, RemoveDestructed
  PROVE  SweepInv'
<1>1. /\ TypeOK /\ pc' = "lpc" /\ obj_list' = obj_list /\ obj_list_destruct' = <<>>
      /\ life' = [o \in Objects |-> IF life[o] = "destructed" THEN "gone" ELSE life[o]]
      /\ late' \subseteq late /\ resetted' \subseteq resetted
      /\ idle' \subseteq idle /\ cleans' \subseteq cleans
      /\ UNCHANGED <<ob, next_ob, save_reset_state, present, visited, derailed>>
  BY DEF RemoveDestructed, SweepInv, SweepSound, locals, trace
<1>2. /\ \A o \in Objects : life'[o] = "live" <=> life[o] = "live"
      /\ \A o \in Objects : life'[o] # "destructed"
      /\ life' \in [Objects -> {"live", "destructed", "gone"}]
  BY <1>1 DEF TypeOK
<1>3. /\ obj_list_destruct' \in Seq(Objects) /\ IsInjective(obj_list_destruct')
      /\ ToSet(obj_list_destruct') = {o \in Objects : life'[o] = "destructed"}
  BY <1>1, <1>2 DEF IsInjective, ToSet
<1>4. ToSet(obj_list') = {o \in Objects : life'[o] = "live"}
  BY <1>1, <1>2 DEF TypeOK
<1>5. TypeOK'
  BY <1>1, <1>2, <1>3, <1>4 DEF TypeOK
<1> QED BY <1>1, <1>5, NotSweeping

\* The end of a sweep, for whatever reason.
LEMMA StopKeeps ==
  ASSUME SweepInv, Stop, UNCHANGED <<lists, resetted, idle, cleans>>, late' \subseteq late
  PROVE  SweepInv'
<1>1. TypeOK'
  BY ListsKept DEF Stop, SweepInv, SweepSound, TypeOK
<1> QED BY <1>1, NotSweeping DEF Stop

\* Every step keeps the invariant.
LEMMA NextSweep == SweepInv /\ [Next]_vars => SweepInv'
<1> SUFFICES ASSUME SweepInv, [Next]_vars PROVE SweepInv'
  OBVIOUS
<1>0. TypeOK /\ (pc \in {"reset", "check", "clean"} => ob \in Objects)
  BY DEF SweepInv, SweepSound
<1>1. ASSUME NEW o \in Objects, Destruct(o) PROVE SweepInv'
  BY <1>1, DestructKeeps
<1>2. ASSUME NEW o \in Objects, Clone(o) PROVE SweepInv'
  BY <1>2, CloneKeeps
<1>3. ASSUME NEW l \in SUBSET Objects, NEW i \in SUBSET Objects, BeginSweep(l, i) PROVE SweepInv'
  BY <1>3, BeginKeeps
<1>4. CASE RemoveDestructed
  BY <1>4, RemoveKeeps
<1>5. CASE SweepDone \/ ResetDestructed \/ CleanUpDestructed \/ SweepError
  <2>1. Stop /\ UNCHANGED <<lists, resetted, idle, cleans>> /\ late' \subseteq late
    BY <1>5 DEF SweepDone, ResetDestructed, CleanUpDestructed, SweepError, flags
  <2> QED BY <2>1, StopKeeps
<1>6. CASE Reset \/ NoReset
  <2>1. /\ Visit /\ UNCHANGED <<lists, ob, present, derailed, cleans, save_reset_state>>
        /\ pc' \in {"reset", "check"}
        /\ late' \subseteq late /\ idle' \subseteq idle /\ resetted' \subseteq resetted \cup {ob}
    BY <1>6 DEF Reset, NoReset, flags
  <2>2. TypeOK'
    BY <1>0, <2>1, VisitFacts, ListsKept DEF TypeOK
  <2> QED BY <2>1, <2>2, VisitKeeps
<1>7. ASSUME NEW o \in Objects, Touch(o) PROVE SweepInv'
  <2>1. TypeOK'
    BY <1>0, <1>7, ListsKept DEF Touch, TypeOK, locals, trace
  <2>2. CASE pc = "lpc"
    BY <1>7, <2>1, <2>2, NotSweeping DEF Touch
  <2>3. CASE pc # "lpc"
    BY <1>7, <2>1, <2>3, SteadyKeeps DEF Touch, Evaluating, Sweeping, Coming, locals
  <2> QED BY <2>2, <2>3
<1>8. CASE ResetReturns \/ CleanUp \/ NoCleanUp \/ CleanUpReturns
  <2>1. /\ UNCHANGED <<lists, trace, next_ob>> /\ pc \in {"reset", "check", "clean"}
        /\ \/ pc' = "sweep" /\ ob' = next_ob
           \/ pc' \in {"check", "clean"} /\ ob' = ob
        /\ pc' = "clean" => life[ob] = "live"
        /\ late' \subseteq late /\ idle' \subseteq idle /\ resetted' \subseteq resetted \cup {ob}
        /\ cleans' \subseteq cleans /\ save_reset_state' \in BOOLEAN
    <3>1. CASE ResetReturns
      BY <1>0, <3>1 DEF ResetReturns, locals, trace, TypeOK
    <3>2. CASE CleanUp
      BY <1>0, <3>2 DEF CleanUp
    <3>3. CASE NoCleanUp
      BY <1>0, <3>3 DEF NoCleanUp, flags, TypeOK
    <3>4. CASE CleanUpReturns
      BY <1>0, <3>4 DEF CleanUpReturns
    <3> QED BY <1>8, <3>1, <3>2, <3>3, <3>4
  <2>2. TypeOK'
    BY <1>0, <2>1, ListsKept DEF TypeOK, trace
  <2> QED BY <2>1, <2>2, SteadyKeeps DEF Sweeping, Coming
<1>9. CASE CleanUpContinues
  <2>1. TypeOK'
    BY <1>0, <1>9, ListsKept DEF CleanUpContinues, TypeOK, flags, trace
  <2> QED BY <1>9, <2>1, ContinuesKeeps
<1>10. CASE NoSweep
  <2>1. TypeOK'
    BY <1>0, <1>10, ListsKept DEF NoSweep, TypeOK, flags, locals, trace
  <2> QED BY <1>10, <2>1, NotSweeping DEF NoSweep
<1>11. CASE UNCHANGED vars
  BY <1>11 DEF vars, lists, flags, locals, trace, SweepInv, SweepSound, SweepHoldsMemory, TypeOK,
     Sweeping, PresentBehind, OffTheList, VisitedBefore, BeforeVisited, Coming
<1> QED BY <1>1, <1>2, <1>3, <1>4, <1>5, <1>6, <1>7, <1>8, <1>9, <1>10, <1>11
        DEF Next, Lpc, SweepStep

\* The two lists stay whole and apart, and the sweep's pointers stay in memory,
\* whatever reset() and clean_up() clone and destruct (backend.c:240-340).
THEOREM SweepStaysSound == Spec => []SweepSound
<1>1. SweepInv => SweepSound
  BY DEF SweepInv
<1> QED BY <1>1, InitSweep, NextSweep, PTL DEF Spec

\* A sweep that is not led off the list visits every object that stays, and no
\* sweep visits a live object twice (backend.c:256-338).
THEOREM SweepVisitsAllOnce == Spec => SweepComplete
<1>1. ASSUME SweepInv, SweepDone, ~derailed, NEW o \in present, life[o] = "live"
      PROVE  o \in visited
  BY <1>1 DEF SweepInv, SweepDone, Sweeping, Coming, BeforeVisited
<1>2. ASSUME SweepInv, Visit, life[ob] = "live"
      PROVE  ob \notin visited
  <2>1. Sweeping /\ Coming = ob /\ \E j \in DOMAIN obj_list : obj_list[j] = ob
    BY <1>2, VisitFacts
  <2>2. VisitedBefore /\ \A j \in DOMAIN obj_list : j \in Nat
    BY <1>2, <2>1, ListFacts DEF SweepInv, SweepSound
  <2> QED BY <2>1, <2>2 DEF VisitedBefore
<1>3. SweepInv /\ [Next]_vars =>
        [SweepDone /\ ~derailed => \A o \in present : life[o] = "live" => o \in visited]_vars
  BY <1>1
<1>4. SweepInv /\ [Next]_vars => [Visit /\ life[ob] = "live" => ob \notin visited]_vars
  BY <1>2
<1> QED BY <1>3, <1>4, InitSweep, NextSweep, PTL DEF Spec, SweepComplete, SweepVisitsAll, VisitedOnce
=============================================================================

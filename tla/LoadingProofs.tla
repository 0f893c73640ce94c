--------------------------- MODULE LoadingProofs ---------------------------
(***************************************************************************)
(* Programs are counted and found right, for every finite number of names, *)
(* programs and objects, whatever a file inherits and however loads,       *)
(* errors, updates and calls of LPC code nest (Loading.tla).  The argument *)
(* for the counts is a ledger: who holds a reference to a program, apart   *)
(* from the programs that inherit it, is written down as a pair of a       *)
(* holder and a program.  Every operation adds pairs and takes pairs out,  *)
(* and each count is that of the pairs and of the places in the lists of   *)
(* what is inherited.  The names are right because of the shape of the     *)
(* stack: who waits for a program stands right below who gets it.          *)
(***************************************************************************)
EXTENDS Loading, TLAPS, FiniteSetTheorems, FunctionTheorems, SequenceTheorems, WellFoundedInduction

Programs == [name: Names \cup {None}, ref: Int, inherits: Seq(Progs), approves: BOOLEAN]

\* What a ledger says of a program
Claims(L, p) == {x \in L : x[2] = p}
Ledgers(L)   == IsFiniteSet(L) /\ \A x \in L : x[2] \in Progs

\* A count is that of the holders; what has none left is free.
Sound(c, L) ==
  /\ c \in [Progs -> Programs] /\ Ledgers(L)
  /\ \A p \in Progs :
       /\ c[p].ref = Cardinality(Claims(L, p)) + Cardinality(Inheriting(c, Progs, p))
       /\ c[p].ref = 0 => c[p] = Free
       /\ c[p].ref # 0 => c[p].name \in Names

\* What goes on living keeps its name and what it inherits.
Within(d, c) ==
  \A p \in Progs : d[p].ref # 0 =>
    c[p].ref # 0 /\ d[p].name = c[p].name /\ d[p].inherits = c[p].inherits

-----------------------------------------------------------------------------
(* Counting                                                                *)

LEMMA InheritingHas ==
  ASSUME NEW c, NEW ps, NEW p
  PROVE  \A x : x \in Inheriting(c, ps, p) <=>
           \E q \in ps : \E i \in DOMAIN c[q].inherits : c[q].inherits[i] = p /\ x = <<q, i>>
BY DEF Inheriting

\* The places where a program is inherited are finitely many.
LEMMA InheritingFinite ==
  ASSUME NEW c \in [Progs -> Programs], NEW ps \in SUBSET Progs, NEW p
  PROVE  IsFiniteSet(Inheriting(c, ps, p)) /\ Cardinality(Inheriting(c, ps, p)) \in Nat
<1> DEFINE Places(q) == {q} \X (1 .. Len(c[q].inherits))
           f == [q \in ps |-> Places(q)]
           T == {Places(q) : q \in ps}
<1>1. \A q \in ps : DOMAIN c[q].inherits = 1 .. Len(c[q].inherits) /\ Len(c[q].inherits) \in Nat
  <2> SUFFICES ASSUME NEW q \in ps PROVE DOMAIN c[q].inherits = 1 .. Len(c[q].inherits) /\ Len(c[q].inherits) \in Nat
    OBVIOUS
  <2>1. c[q].inherits \in Seq(Progs)
    BY DEF Programs
  <2> QED BY <2>1, LenProperties
<1>2. IsFiniteSet(ps)
  BY FS_Subset, MemoryAssumption
<1>3. IsFiniteSet(T)
  <2>1. f \in [ps -> T] /\ \A t \in T : \E q \in ps : f[q] = t
    OBVIOUS
  <2>2. f \in Surjection(ps, T)
    BY <2>1, Fun_IsSurj
  <2> QED BY <1>2, <2>2, FS_Surjection
<1>4. \A t \in T : IsFiniteSet(t)
  <2> SUFFICES ASSUME NEW q \in ps PROVE IsFiniteSet(Places(q))
    OBVIOUS
  <2>1. IsFiniteSet({q})
    BY FS_Singleton
  <2>2. IsFiniteSet(1 .. Len(c[q].inherits))
    <3>1. Len(c[q].inherits) \in Int
      BY <1>1
    <3> QED BY <3>1, FS_Interval
  <2> QED BY <2>1, <2>2, FS_Product
<1>5. IsFiniteSet(UNION T)
  BY <1>3, <1>4, FS_UNION
<1>6. Inheriting(c, ps, p) \subseteq UNION T
  <2>1. \A q \in ps : \A i \in DOMAIN c[q].inherits : <<q, i>> \in Places(q) /\ Places(q) \in T
    BY <1>1
  <2> HIDE DEF Places, T
  <2>2. \A q \in ps : \A i \in DOMAIN c[q].inherits : <<q, i>> \in UNION T
    BY <2>1
  <2> QED BY <2>2, InheritingHas
<1> HIDE DEF T
<1>7. IsFiniteSet(Inheriting(c, ps, p))
  BY <1>5, <1>6, FS_Subset
<1> QED BY <1>7, FS_CardinalityType

\* The programs in two groups
LEMMA InheritingSplit ==
  ASSUME NEW c \in [Progs -> Programs], NEW ps \in SUBSET Progs, NEW p
  PROVE  Cardinality(Inheriting(c, Progs, p))
           = Cardinality(Inheriting(c, ps, p)) + Cardinality(Inheriting(c, Progs \ ps, p))
<1> DEFINE A == Inheriting(c, ps, p)
           B == Inheriting(c, Progs \ ps, p)
<1>1. IsFiniteSet(A) /\ IsFiniteSet(B) /\ Cardinality(A) \in Nat /\ Cardinality(B) \in Nat
  BY InheritingFinite
<1>2. A \cap B = {}
  <2>1. \A x \in A : x[1] \in ps
    BY InheritingHas
  <2>2. \A x \in B : x[1] \notin ps
    BY InheritingHas
  <2> QED BY <2>1, <2>2
<1>3. Inheriting(c, Progs, p) = A \cup B
  <2>1. \A x : x \in Inheriting(c, Progs, p) <=> x \in A \/ x \in B
    BY InheritingHas
  <2> QED BY <2>1
<1> HIDE DEF A, B
<1>4. Cardinality(A \cup B) = Cardinality(A) + Cardinality(B) - Cardinality(A \cap B)
  BY <1>1, FS_Union
<1>5. Cardinality(A \cup B) = Cardinality(A) + Cardinality(B)
  <2>1. Cardinality(A \cap B) = 0
    BY <1>2, FS_EmptySet
  <2> QED BY <1>1, <1>4, <2>1
<1>6. Cardinality(Inheriting(c, Progs, p)) = Cardinality(A) + Cardinality(B)
  BY <1>3, <1>5
<1> QED BY <1>6 DEF A, B

\* Fewer programs inherit less.
LEMMA InheritingGrows ==
  ASSUME NEW c \in [Progs -> Programs], NEW ps \in SUBSET Progs, NEW qs \in SUBSET ps, NEW p
  PROVE  Cardinality(Inheriting(c, qs, p)) <= Cardinality(Inheriting(c, ps, p))
<1>1. Inheriting(c, qs, p) \subseteq Inheriting(c, ps, p)
  BY InheritingHas
<1> QED BY <1>1, InheritingFinite, FS_Subset

LEMMA ClaimsFinite ==
  ASSUME NEW L, Ledgers(L), NEW p
  PROVE  IsFiniteSet(Claims(L, p)) /\ Cardinality(Claims(L, p)) \in Nat
  BY FS_Subset, FS_CardinalityType DEF Ledgers, Claims

\* A holder more, or one less.
LEMMA ClaimsAdded ==
  ASSUME NEW L, Ledgers(L), NEW y, y \notin L, y[2] \in Progs
  PROVE  /\ Ledgers(L \cup {y})
         /\ \A p : Cardinality(Claims(L \cup {y}, p)) =
                     Cardinality(Claims(L, p)) + (IF p = y[2] THEN 1 ELSE 0)
<1>1. Ledgers(L \cup {y})
  BY FS_AddElement DEF Ledgers
<1>2. ASSUME NEW p
      PROVE  Cardinality(Claims(L \cup {y}, p)) = Cardinality(Claims(L, p)) + (IF p = y[2] THEN 1 ELSE 0)
  <2>1. IsFiniteSet(Claims(L, p)) /\ Cardinality(Claims(L, p)) \in Nat
    BY ClaimsFinite
  <2>2. CASE p = y[2]
    <3>1. Claims(L \cup {y}, p) = Claims(L, p) \cup {y} /\ y \notin Claims(L, p)
      BY <2>2 DEF Claims
    <3>2. Cardinality(Claims(L, p) \cup {y}) = Cardinality(Claims(L, p)) + 1
      BY <2>1, <3>1, FS_AddElement
    <3> QED BY <2>2, <3>1, <3>2
  <2>3. CASE p # y[2]
    <3>1. Claims(L \cup {y}, p) = Claims(L, p)
      BY <2>3 DEF Claims
    <3> QED BY <2>1, <2>3, <3>1
  <2> QED BY <2>2, <2>3
<1> QED BY <1>1, <1>2

LEMMA ClaimsRemoved ==
  ASSUME NEW L, Ledgers(L), NEW y \in L
  PROVE  /\ Ledgers(L \ {y})
         /\ \A p : Cardinality(Claims(L \ {y}, p)) =
                     Cardinality(Claims(L, p)) - (IF p = y[2] THEN 1 ELSE 0)
<1>1. Ledgers(L \ {y})
  BY FS_RemoveElement DEF Ledgers
<1>2. ASSUME NEW p
      PROVE  Cardinality(Claims(L \ {y}, p)) = Cardinality(Claims(L, p)) - (IF p = y[2] THEN 1 ELSE 0)
  <2>1. IsFiniteSet(Claims(L, p)) /\ Cardinality(Claims(L, p)) \in Nat
    BY ClaimsFinite
  <2>2. CASE p = y[2]
    <3>1. Claims(L \ {y}, p) = Claims(L, p) \ {y} /\ y \in Claims(L, p)
      BY <2>2 DEF Claims
    <3>2. Cardinality(Claims(L, p) \ {y}) = Cardinality(Claims(L, p)) - 1
      BY <2>1, <3>1, FS_RemoveElement
    <3> QED BY <2>2, <3>1, <3>2
  <2>3. CASE p # y[2]
    <3>1. Claims(L \ {y}, p) = Claims(L, p)
      BY <2>3 DEF Claims
    <3> QED BY <2>1, <2>3, <3>1
  <2> QED BY <2>2, <2>3
<1> QED BY <1>1, <1>2

\* Who has a holder is not free, and a reference can be handed over.
LEMMA HeldLives ==
  ASSUME NEW c, NEW L, Sound(c, L)
  PROVE  /\ \A x \in L : c[x[2]].ref # 0 /\ x[2] \in Progs
         /\ \A p \in Progs : c[p].ref \in Nat
         /\ \A q \in Progs : c[q].ref # 0 =>
              \A i \in DOMAIN c[q].inherits : c[q].inherits[i] \in Progs /\ c[c[q].inherits[i]].ref # 0
<1>1. \A p \in Progs : Cardinality(Claims(L, p)) \in Nat /\ Cardinality(Inheriting(c, Progs, p)) \in Nat
  BY ClaimsFinite, InheritingFinite DEF Sound
<1>2. ASSUME NEW x \in L PROVE c[x[2]].ref # 0 /\ x[2] \in Progs
  <2>1. x[2] \in Progs /\ x \in Claims(L, x[2])
    BY DEF Sound, Ledgers, Claims
  <2>2. Cardinality(Claims(L, x[2])) # 0
    BY <2>1, ClaimsFinite, FS_EmptySet DEF Sound
  <2> QED BY <1>1, <2>1, <2>2 DEF Sound
<1>3. ASSUME NEW q \in Progs, NEW i \in DOMAIN c[q].inherits
      PROVE  c[q].inherits[i] \in Progs /\ c[c[q].inherits[i]].ref # 0
  <2>1. c[q].inherits \in Seq(Progs)
    BY DEF Sound, Programs
  <2>2. c[q].inherits[i] \in Progs
    BY <2>1, LenProperties
  <2>3. <<q, i>> \in Inheriting(c, Progs, c[q].inherits[i])
    BY InheritingHas
  <2>4. Cardinality(Inheriting(c, Progs, c[q].inherits[i])) # 0
    BY <2>3, InheritingFinite, FS_EmptySet DEF Sound
  <2> QED BY <1>1, <2>2, <2>4 DEF Sound
<1> QED BY <1>1, <1>2, <1>3 DEF Sound

-----------------------------------------------------------------------------
(* free_prog, and what makes a reference                                   *)

\* Who goes when p is given up is exactly who has no references left then.
LEMMA GoingExact ==
  ASSUME NEW c \in [Progs -> Programs], NEW p \in Progs
  PROVE  /\ Going(c, p) \in SUBSET Progs
         /\ \A q \in Progs : q \in Going(c, p) <=>
              GivenUp(c, p, Going(c, p), q) > 0 /\ GivenUp(c, p, Going(c, p), q) >= c[q].ref
<1> DEFINE G == Going(c, p)
           F == {q \in Progs : GivenUp(c, p, G, q) > 0 /\ GivenUp(c, p, G, q) >= c[q].ref}
<1>1. G \in SUBSET Progs /\ F \in SUBSET Progs
  BY DEF Going
<1>2. \A going \in SUBSET Progs : AllGone(c, p, going) => G \subseteq going
  BY DEF Going
<1>3. ASSUME NEW ps \in SUBSET Progs, NEW qs \in SUBSET ps, NEW q \in Progs
      PROVE  /\ GivenUp(c, p, qs, q) \in Nat /\ GivenUp(c, p, ps, q) \in Nat
             /\ GivenUp(c, p, qs, q) <= GivenUp(c, p, ps, q)
  <2>1. /\ Cardinality(Inheriting(c, ps, q)) \in Nat /\ Cardinality(Inheriting(c, qs, q)) \in Nat
        /\ Cardinality(Inheriting(c, qs, q)) <= Cardinality(Inheriting(c, ps, q))
    BY InheritingFinite, InheritingGrows
  <2> QED BY <2>1 DEF GivenUp
<1>4. \A q \in Progs : c[q].ref \in Int
  BY DEF Programs
<1> HIDE DEF G
<1>5. F \subseteq G
  <2> SUFFICES ASSUME NEW going \in SUBSET Progs, AllGone(c, p, going), NEW q \in F
               PROVE  q \in going
    BY DEF Going, G
  <2>1. G \subseteq going
    BY <1>2
  <2>2. /\ GivenUp(c, p, G, q) <= GivenUp(c, p, going, q)
        /\ GivenUp(c, p, G, q) \in Nat /\ GivenUp(c, p, going, q) \in Nat
    BY <1>3, <2>1
  <2> QED BY <1>4, <2>2 DEF AllGone
<1>6. AllGone(c, p, F)
  <2> SUFFICES ASSUME NEW q \in Progs, GivenUp(c, p, F, q) > 0, GivenUp(c, p, F, q) >= c[q].ref
               PROVE  q \in F
    BY DEF AllGone
  <2>1. /\ GivenUp(c, p, F, q) <= GivenUp(c, p, G, q)
        /\ GivenUp(c, p, F, q) \in Nat /\ GivenUp(c, p, G, q) \in Nat
    BY <1>1, <1>3, <1>5
  <2> QED BY <1>4, <2>1
<1>7. G = F
  BY <1>1, <1>2, <1>5, <1>6
<1> QED BY <1>1, <1>7 DEF G

\* What inherits after some programs have gone, and the counts have changed
Rest(c, d, ps) == \A q \in Progs : d[q].inherits = IF q \in ps THEN <<>> ELSE c[q].inherits

LEMMA InheritingRest ==
  ASSUME NEW c \in [Progs -> Programs], NEW d \in [Progs -> Programs], NEW ps \in SUBSET Progs, NEW p,
         Rest(c, d, ps)
  PROVE  Inheriting(d, Progs, p) = Inheriting(c, Progs \ ps, p)
<1>1. \A q \in ps : \A i : i \notin DOMAIN d[q].inherits
  BY EmptySeq DEF Rest
<1>2. ASSUME NEW x PROVE x \in Inheriting(d, Progs, p) <=> x \in Inheriting(c, Progs \ ps, p)
  <2>1. x \in Inheriting(d, Progs, p) <=>
          \E q \in Progs : \E i \in DOMAIN d[q].inherits : d[q].inherits[i] = p /\ x = <<q, i>>
    BY InheritingHas
  <2>2. x \in Inheriting(c, Progs \ ps, p) <=>
          \E q \in Progs \ ps : \E i \in DOMAIN c[q].inherits : c[q].inherits[i] = p /\ x = <<q, i>>
    BY InheritingHas
  <2> QED BY <1>1, <2>1, <2>2 DEF Rest
<1> QED BY <1>2

\* A holder gives his reference up.
LEMMA FreedSound ==
  ASSUME NEW c, NEW L, Sound(c, L), NEW y \in L
  PROVE  Sound(Freed(c, y[2]), L \ {y}) /\ Within(Freed(c, y[2]), c)
<1> DEFINE p == y[2]
           G == Going(c, p)
           d == Freed(c, p)
           M == L \ {y}
<1>1. c \in [Progs -> Programs] /\ p \in Progs /\ \A q \in Progs : c[q].ref \in Nat
  BY HeldLives DEF Sound
<1>2. /\ G \in SUBSET Progs
      /\ \A q \in Progs : q \in G <=> GivenUp(c, p, G, q) > 0 /\ GivenUp(c, p, G, q) >= c[q].ref
  BY <1>1, GoingExact
<1>3. \A q \in Progs : d[q] = IF q \in G THEN Free ELSE [c[q] EXCEPT !.ref = @ - GivenUp(c, p, G, q)]
  BY DEF Freed
<1>4. d = [q \in Progs |-> d[q]]
  BY DEF Freed
<1>5. \A q : Cardinality(Claims(M, q)) = Cardinality(Claims(L, q)) - (IF q = p THEN 1 ELSE 0)
  BY ClaimsRemoved DEF Sound
<1>6. Ledgers(M)
  BY ClaimsRemoved DEF Sound
<1> HIDE DEF G, d, M
<1>7. ASSUME NEW q \in Progs
      PROVE  /\ d[q] \in Programs
             /\ q \in G => d[q] = Free
             /\ q \notin G => /\ d[q].ref = c[q].ref - GivenUp(c, p, G, q) /\ d[q].name = c[q].name
                            /\ d[q].inherits = c[q].inherits /\ d[q].approves = c[q].approves
                            /\ d[q] = [name |-> c[q].name, ref |-> c[q].ref - GivenUp(c, p, G, q),
                                       inherits |-> c[q].inherits, approves |-> c[q].approves]
             /\ GivenUp(c, p, G, q) \in Nat
  <2>1. GivenUp(c, p, G, q) \in Nat
    <3>1. Cardinality(Inheriting(c, G, q)) \in Nat
      BY <1>1, <1>2, InheritingFinite
    <3> QED BY <3>1 DEF GivenUp
  <2>2. CASE q \in G
    <3>1. Free \in Programs
      BY EmptySeq DEF Programs, Free
    <3>2. d[q] = Free
      BY <1>3, <2>2
    <3> QED BY <2>1, <2>2, <3>1, <3>2
  <2>3. CASE q \notin G
    <3>1. c[q] \in Programs /\ d[q] = [c[q] EXCEPT !.ref = @ - GivenUp(c, p, G, q)]
      BY <1>1, <1>3, <2>3
    <3>2. c[q].ref - GivenUp(c, p, G, q) \in Int
      BY <1>1, <2>1
    <3> QED BY <2>1, <2>3, <3>1, <3>2 DEF Programs
  <2> QED BY <2>2, <2>3
<1>8. d \in [Progs -> Programs]
  BY <1>4, <1>7
<1>9. ASSUME NEW q \in Progs
      PROVE  /\ d[q].ref = Cardinality(Claims(M, q)) + Cardinality(Inheriting(d, Progs, q))
             /\ d[q].ref = 0 => d[q] = Free
             /\ d[q].ref # 0 => q \notin G /\ c[q].ref # 0 /\ d[q].name = c[q].name /\ d[q].name \in Names
  <2> DEFINE N  == Cardinality(Claims(L, q))
             N1 == Cardinality(Claims(M, q))
             I  == Cardinality(Inheriting(c, Progs, q))
             IG == Cardinality(Inheriting(c, G, q))
             I1 == Cardinality(Inheriting(d, Progs, q))
             g  == GivenUp(c, p, G, q)
  <2>1. I = IG + Cardinality(Inheriting(c, Progs \ G, q)) /\ IG \in Nat
    BY <1>1, <1>2, InheritingSplit, InheritingFinite
  <2>2. Inheriting(d, Progs, q) = Inheriting(c, Progs \ G, q)
    <3>1. ASSUME NEW r \in Progs PROVE d[r].inherits = IF r \in G THEN <<>> ELSE c[r].inherits
      <4>1. CASE r \in G
        <5>1. d[r] = Free
          BY <1>7, <4>1
        <5> QED BY <4>1, <5>1 DEF Free
      <4>2. CASE r \notin G
        BY <1>7, <4>2
      <4> QED BY <4>1, <4>2
    <3>2. c \in [Progs -> Programs] /\ G \in SUBSET Progs /\ Rest(c, d, G)
      BY <1>1, <1>2, <3>1 DEF Rest
    <3> QED BY <1>8, <3>2, InheritingRest
  <2>3. I1 \in Nat /\ I \in Nat
    BY <1>1, <1>8, InheritingFinite
  <2>4. N \in Nat /\ N1 \in Nat
    BY <1>6, ClaimsFinite DEF Sound
  <2>5. N1 = N - (IF q = p THEN 1 ELSE 0)
    BY <1>5
  <2>6. c[q].ref = N + I /\ (c[q].ref = 0 => c[q] = Free) /\ (c[q].ref # 0 => c[q].name \in Names)
    BY DEF Sound
  <2>7. g = IG + (IF q = p THEN 1 ELSE 0)
    BY DEF GivenUp
  <2>8. I = IG + I1
    BY <2>1, <2>2
  <2>9. q \in G <=> g > 0 /\ g >= c[q].ref
    BY <1>2
  <2> HIDE DEF N, N1, I, IG, I1, g
  <2>10. CASE q \in G
    <3>1. N1 = 0 /\ I1 = 0
      BY <2>1, <2>3, <2>4, <2>5, <2>6, <2>7, <2>8, <2>9, <2>10
    <3>2. d[q] = Free
      BY <1>7, <2>10
    <3>3. d[q].ref = 0
      BY <3>2 DEF Free
    <3> QED BY <3>1, <3>2, <3>3 DEF N1, I1
  <2>11. CASE q \notin G
    <3>1. /\ d[q].ref = c[q].ref - g /\ d[q].name = c[q].name
          /\ d[q] = [name |-> c[q].name, ref |-> c[q].ref - g, inherits |-> c[q].inherits, approves |-> c[q].approves]
      BY <1>7, <2>11 DEF g
    <3>2. c[q].ref - g = N1 + I1
      BY <2>1, <2>3, <2>4, <2>5, <2>6, <2>7, <2>8
    <3>3. c[q].ref # 0 => d[q].ref # 0
      BY <1>1, <2>1, <2>7, <2>9, <2>11, <3>1
    <3>4. CASE c[q].ref = 0
      <4>1. g = 0
        BY <2>1, <2>3, <2>4, <2>5, <2>6, <2>7, <2>8, <3>4
      <4>2. d[q] = Free /\ d[q].ref = 0
        BY <2>6, <3>1, <3>4, <4>1 DEF Free
      <4> QED BY <3>1, <3>2, <4>2 DEF N1, I1
    <3>5. CASE c[q].ref # 0
      BY <2>6, <2>11, <3>1, <3>2, <3>3, <3>5 DEF N1, I1
    <3> QED BY <3>4, <3>5
  <2> QED BY <2>10, <2>11
<1>10. Within(d, c)
  BY <1>7, <1>9 DEF Within
<1> QED BY <1>6, <1>8, <1>9, <1>10 DEF Sound, d, M

\* One count goes up.
LEMMA HeldSound ==
  ASSUME NEW c, NEW L, Sound(c, L), NEW p \in Progs, c[p].ref # 0, NEW y, y \notin L, y[2] = p
  PROVE  Sound(Referenced(c, <<p>>), L \cup {y}) /\ Within(Referenced(c, <<p>>), c)
<1> DEFINE d == Referenced(c, <<p>>)
           M == L \cup {y}
<1>1. c \in [Progs -> Programs] /\ \A q \in Progs : c[q].ref \in Nat
  BY HeldLives DEF Sound
<1>2. ASSUME NEW q \in Progs
      PROVE  Cardinality({i \in DOMAIN <<p>> : <<p>>[i] = q}) = IF q = p THEN 1 ELSE 0
  <2>1. CASE q = p
    <3>1. {i \in DOMAIN <<p>> : <<p>>[i] = q} = {1}
      BY <2>1
    <3> QED BY <2>1, <3>1, FS_Singleton
  <2>2. CASE q # p
    <3>1. {i \in DOMAIN <<p>> : <<p>>[i] = q} = {}
      BY <2>2
    <3> QED BY <2>2, <3>1, FS_EmptySet
  <2> QED BY <2>1, <2>2
<1>3. \A q \in Progs : d[q] = [c[q] EXCEPT !.ref = @ + (IF q = p THEN 1 ELSE 0)]
  BY <1>2 DEF Referenced
<1>4. d = [q \in Progs |-> d[q]]
  BY DEF Referenced
<1>5. /\ Ledgers(M)
      /\ \A q : Cardinality(Claims(M, q)) = Cardinality(Claims(L, q)) + (IF q = p THEN 1 ELSE 0)
  BY ClaimsAdded DEF Sound
<1> HIDE DEF d, M
<1>6. ASSUME NEW q \in Progs
      PROVE  /\ d[q] \in Programs /\ d[q].ref = c[q].ref + (IF q = p THEN 1 ELSE 0)
             /\ d[q].name = c[q].name /\ d[q].inherits = c[q].inherits
             /\ q # p => d[q] = c[q]
  <2>1. c[q] \in Programs /\ c[q].ref \in Nat
    BY <1>1
  <2>2. c[q] = [name |-> c[q].name, ref |-> c[q].ref, inherits |-> c[q].inherits, approves |-> c[q].approves]
    BY <2>1 DEF Programs
  <2>3. d[q] = [name |-> c[q].name, ref |-> c[q].ref + (IF q = p THEN 1 ELSE 0),
                inherits |-> c[q].inherits, approves |-> c[q].approves]
    BY <1>3, <2>2
  <2>4. q # p => d[q] = c[q]
    BY <2>1, <2>2, <2>3
  <2>5. c[q].ref + (IF q = p THEN 1 ELSE 0) \in Int
    BY <2>1
  <2> QED BY <2>1, <2>3, <2>4, <2>5 DEF Programs
<1>7. d \in [Progs -> Programs]
  BY <1>4, <1>6
<1>8. ASSUME NEW q \in Progs
      PROVE  /\ d[q].ref = Cardinality(Claims(M, q)) + Cardinality(Inheriting(d, Progs, q))
             /\ d[q].ref = 0 => d[q] = Free
             /\ d[q].ref # 0 => d[q].name \in Names
  <2>1. Inheriting(d, Progs, q) = Inheriting(c, Progs, q)
    <3>1. \A x : x \in Inheriting(d, Progs, q) <=> x \in Inheriting(c, Progs, q)
      BY <1>6, InheritingHas
    <3> QED BY <3>1
  <2>2. /\ c[q].ref = Cardinality(Claims(L, q)) + Cardinality(Inheriting(c, Progs, q))
        /\ (c[q].ref = 0 => c[q] = Free) /\ (c[q].ref # 0 => c[q].name \in Names)
    BY DEF Sound
  <2>3. Cardinality(Claims(L, q)) \in Nat /\ Cardinality(Inheriting(c, Progs, q)) \in Nat
    BY <1>1, ClaimsFinite, InheritingFinite DEF Sound
  <2>4. d[q].ref = Cardinality(Claims(M, q)) + Cardinality(Inheriting(d, Progs, q))
    BY <1>5, <1>6, <2>1, <2>2, <2>3
  <2>5. CASE q = p
    BY <1>1, <1>6, <2>2, <2>4, <2>5
  <2>6. CASE q # p
    BY <1>6, <2>2, <2>4, <2>6
  <2> QED BY <2>5, <2>6
<1>9. Within(d, c)
  BY <1>1, <1>6 DEF Within
<1> QED BY <1>5, <1>7, <1>8, <1>9 DEF Sound, d, M

\* What a program may inherit
Loaded(h) == \A i \in DOMAIN h : code[h[i]].ref # 0

\* The other programs have the names they had.
NamesKept(c, p) == \A q \in Progs \ {p} : c[q].name = code[q].name

\* A program is made at an address that is free, of programs that are alive.
LEMMA MadeSound ==
  ASSUME NEW L, Sound(code, L), NEW p \in Progs, code[p].ref = 0, NEW n \in Names,
         NEW h \in Seq(Progs), Loaded(h),
         NEW y, y \notin L, y[2] = p
  PROVE  /\ Sound(Made(p, n, h), L \cup {y})
         /\ Made(p, n, h)[p].name = n
         /\ NamesKept(Made(p, n, h), p)
<1> DEFINE b == [name |-> n, ref |-> 1, inherits |-> h, approves |-> FALSE]
           c == [code EXCEPT ![p] = b]
           d == Made(p, n, h)
           M == L \cup {y}
           times == [q \in Progs |-> Cardinality({i \in DOMAIN h : h[i] = q})]
<1>1. code \in [Progs -> Programs] /\ \A q \in Progs : code[q].ref \in Nat
  BY HeldLives DEF Sound
<1>2. DOMAIN h = 1 .. Len(h) /\ Len(h) \in Nat /\ \A i \in DOMAIN h : h[i] \in Progs
  BY LenProperties
<1>3. /\ b.name = n /\ b.ref = 1 /\ b.inherits = h /\ b.approves = FALSE
      /\ b = [name |-> b.name, ref |-> b.ref, inherits |-> b.inherits, approves |-> b.approves]
      /\ b \in Programs
  BY DEF Programs
<1>4. ASSUME NEW q \in Progs PROVE IsFiniteSet({i \in DOMAIN h : h[i] = q}) /\ times[q] \in Nat
  <2>1. IsFiniteSet(1 .. Len(h))
    BY <1>2, FS_Interval
  <2>2. {i \in DOMAIN h : h[i] = q} \in SUBSET (1 .. Len(h))
    BY <1>2
  <2> QED BY <2>1, <2>2, FS_Subset, FS_CardinalityType
<1>5. \A q \in Progs : code[q].ref = 0 => times[q] = 0
  <2> SUFFICES ASSUME NEW q \in Progs, code[q].ref = 0 PROVE times[q] = 0
    OBVIOUS
  <2>1. {i \in DOMAIN h : h[i] = q} = {}
    BY DEF Loaded
  <2> QED BY <2>1, FS_EmptySet
<1>6. \A q \in Progs : d[q] = [c[q] EXCEPT !.ref = @ + times[q]]
  BY DEF Made, Referenced
<1>7. d = [q \in Progs |-> d[q]]
  BY DEF Made, Referenced
<1>8. \A q \in Progs : c[q] = IF q = p THEN b ELSE code[q]
  BY <1>1
<1>9. /\ Ledgers(M)
      /\ \A q : Cardinality(Claims(M, q)) = Cardinality(Claims(L, q)) + (IF q = p THEN 1 ELSE 0)
  BY ClaimsAdded DEF Sound
<1> HIDE DEF b, c, d, M, times
<1>10. d[p].name = n /\ d[p].ref = 1 /\ d[p].inherits = h /\ d[p] \in Programs
  <2>1. c[p] = b /\ times[p] = 0
    BY <1>5, <1>8
  <2>2. d[p] = [c[p] EXCEPT !.ref = @ + times[p]]
    BY <1>6
  <2>3. d[p] = [name |-> b.name, ref |-> b.ref + 0, inherits |-> b.inherits, approves |-> b.approves]
    BY <1>3, <2>1, <2>2
  <2> QED BY <1>3, <2>3 DEF Programs
<1>11. ASSUME NEW q \in Progs, q # p
       PROVE  /\ d[q] \in Programs /\ times[q] \in Nat /\ code[q].ref \in Nat
              /\ d[q].name = code[q].name /\ d[q].inherits = code[q].inherits
              /\ d[q].ref = code[q].ref + times[q] /\ (times[q] = 0 => d[q] = code[q])
  <2>1. code[q] \in Programs /\ times[q] \in Nat /\ code[q].ref \in Nat
    BY <1>1, <1>4, <1>11
  <2>2. code[q] = [name |-> code[q].name, ref |-> code[q].ref,
                   inherits |-> code[q].inherits, approves |-> code[q].approves]
    BY <2>1 DEF Programs
  <2>3. d[q] = [code[q] EXCEPT !.ref = @ + times[q]]
    BY <1>6, <1>8, <1>11
  <2>4. d[q] = [name |-> code[q].name, ref |-> code[q].ref + times[q],
                inherits |-> code[q].inherits, approves |-> code[q].approves]
    BY <2>2, <2>3
  <2>5. times[q] = 0 => d[q] = code[q]
    BY <2>1, <2>2, <2>4
  <2>6. code[q].ref + times[q] \in Int
    BY <2>1
  <2> QED BY <2>1, <2>4, <2>5, <2>6 DEF Programs
<1>12. d \in [Progs -> Programs]
  <2>1. ASSUME NEW q \in Progs PROVE d[q] \in Programs
    <3>1. CASE q = p
      BY <1>10, <3>1
    <3>2. CASE q # p
      BY <1>11, <3>2
    <3> QED BY <3>1, <3>2
  <2> QED BY <1>7, <2>1
<1>13. code[p].inherits = <<>>
  <2>1. code[p] = Free
    BY DEF Sound
  <2> QED BY <2>1 DEF Free
<1>14. ASSUME NEW q \in Progs
       PROVE  Cardinality(Inheriting(d, Progs, q)) = Cardinality(Inheriting(code, Progs, q)) + times[q]
  <2> DEFINE A == Inheriting(code, Progs, q)
             D == {i \in DOMAIN h : h[i] = q}
             B == {<<p, i>> : i \in D}
  <2>1. IsFiniteSet(A) /\ Cardinality(A) \in Nat
    BY <1>1, InheritingFinite
  <2>2. IsFiniteSet(B) /\ Cardinality(B) = Cardinality(D)
    <3> DEFINE f == [i \in D |-> <<p, i>>]
    <3>1. f \in [D -> B] /\ (\A i, j \in D : f[i] = f[j] => i = j) /\ (\A x \in B : \E i \in D : f[i] = x)
      OBVIOUS
    <3>2. f \in Bijection(D, B)
      BY <3>1, Fun_IsBij
    <3>3. ExistsBijection(D, B)
      BY <3>2, Fun_ExistsBij
    <3> QED BY <1>4, <3>3, FS_Bijection
  <2>3. A \cap B = {}
    <3>1. \A x \in A : x[1] # p
      BY <1>13, InheritingHas
    <3> QED BY <3>1
  <2>4. Inheriting(d, Progs, q) = A \cup B
    <3>1. ASSUME NEW x PROVE x \in Inheriting(d, Progs, q) <=> x \in A \/ x \in B
      <4>1. x \in Inheriting(d, Progs, q) <=>
              \E r \in Progs : \E i \in DOMAIN d[r].inherits : d[r].inherits[i] = q /\ x = <<r, i>>
        BY InheritingHas
      <4>2. x \in A <=>
              \E r \in Progs : \E i \in DOMAIN code[r].inherits : code[r].inherits[i] = q /\ x = <<r, i>>
        BY InheritingHas
      <4>3. d[p].inherits = h /\ \A r \in Progs : r # p => d[r].inherits = code[r].inherits
        BY <1>10, <1>11
      <4> HIDE DEF A
      <4> QED BY <1>13, <4>1, <4>2, <4>3
    <3> QED BY <3>1
  <2> HIDE DEF A, B
  <2>5. Cardinality(A \cup B) = Cardinality(A) + Cardinality(B)
    <3>1. Cardinality(A \cup B) = Cardinality(A) + Cardinality(B) - Cardinality(A \cap B)
      BY <2>1, <2>2, FS_Union
    <3>2. Cardinality(A \cap B) = 0
      BY <2>3, FS_EmptySet
    <3>3. Cardinality(D) \in Nat
      BY <1>4 DEF times
    <3> QED BY <2>1, <2>2, <3>1, <3>2, <3>3
  <2> QED BY <2>2, <2>4, <2>5 DEF times, A
<1>15. ASSUME NEW q \in Progs
       PROVE  /\ d[q].ref = Cardinality(Claims(M, q)) + Cardinality(Inheriting(d, Progs, q))
              /\ d[q].ref = 0 => d[q] = Free
              /\ d[q].ref # 0 => d[q].name \in Names
  <2>1. /\ code[q].ref = Cardinality(Claims(L, q)) + Cardinality(Inheriting(code, Progs, q))
        /\ (code[q].ref = 0 => code[q] = Free) /\ (code[q].ref # 0 => code[q].name \in Names)
    BY DEF Sound
  <2>2. Cardinality(Claims(L, q)) \in Nat /\ Cardinality(Inheriting(code, Progs, q)) \in Nat
    BY <1>1, ClaimsFinite, InheritingFinite DEF Sound
  <2>3. Cardinality(Claims(M, q)) = Cardinality(Claims(L, q)) + (IF q = p THEN 1 ELSE 0)
    BY <1>9
  <2>4. Cardinality(Inheriting(d, Progs, q)) = Cardinality(Inheriting(code, Progs, q)) + times[q]
    BY <1>14
  <2>5. CASE q = p
    <3>1. times[q] = 0
      BY <1>5, <2>5
    <3> QED BY <1>10, <2>1, <2>2, <2>3, <2>4, <2>5, <3>1
  <2>6. CASE q # p
    <3>1. d[q].ref = code[q].ref + times[q] /\ d[q].name = code[q].name /\ times[q] \in Nat /\ code[q].ref \in Nat
      BY <1>11, <2>6
    <3>2. d[q].ref = Cardinality(Claims(M, q)) + Cardinality(Inheriting(d, Progs, q))
      BY <2>1, <2>2, <2>3, <2>4, <2>6, <3>1
    <3>3. code[q].ref = 0 => times[q] = 0
      BY <1>5
    <3>4. CASE code[q].ref = 0
      <4>1. d[q] = code[q]
        BY <1>11, <2>6, <3>3, <3>4
      <4> QED BY <2>1, <3>2, <3>4, <4>1
    <3>5. CASE code[q].ref # 0
      BY <2>1, <3>1, <3>2, <3>5
    <3> QED BY <3>4, <3>5
  <2> QED BY <2>5, <2>6
<1>16. NamesKept(d, p)
  BY <1>11 DEF NamesKept
<1> QED BY <1>9, <1>10, <1>12, <1>15, <1>16 DEF Sound, d, M

-----------------------------------------------------------------------------
(* What the compiler inherits                                              *)

\* A set of numbers that is not empty has a least one.
LEMMA LeastNat ==
  ASSUME NEW S \in SUBSET Nat, S # {}
  PROVE  \E x \in S : \A y \in S : x <= y
<1> DEFINE R == StrictSubsetOrdering(Nat)
           T == {0 .. x : x \in S}
<1>1. IsWellFoundedOn(R, FiniteSubsetsOf(Nat))
  BY FS_StrictSubsetOrderingWellFounded
<1>2. T \subseteq FiniteSubsetsOf(Nat)
  <2>1. \A x \in S : IsFiniteSet(0 .. x) /\ 0 .. x \in SUBSET Nat
    BY FS_Interval
  <2>2. \A x \in S : 0 .. x \in FiniteSubsetsOf(Nat)
    BY <2>1, Zenon DEF FiniteSubsetsOf
  <2> QED BY <2>2
<1>3. T # {}
  OBVIOUS
<1>4. \E u \in T : \A v \in T : ~ (<<v, u>> \in R)
  <2> HIDE DEF R, T
  <2> QED BY <1>1, <1>2, <1>3, WFMin
<1>5. PICK x \in S : \A y \in S : ~ (<<0 .. y, 0 .. x>> \in R)
  BY <1>4
<1>6. ASSUME NEW y \in S, y < x PROVE FALSE
  <2>1. 0 .. y \in SUBSET Nat /\ 0 .. x \in SUBSET Nat
    OBVIOUS
  <2>2. 0 .. y \subseteq 0 .. x /\ x \in 0 .. x /\ x \notin 0 .. y
    BY <1>6
  <2> QED BY <1>5, <2>1, <2>2 DEF StrictSubsetOrdering
<1> QED BY <1>6

\* The steps of the compiler through the files that are inherited
Inherited1(g, f, n) == g[0] = <<>> /\ \A m \in 1 .. n : g[m] = Inherit(g[m - 1], table[f.inherits[m]])

LEMMA InheritSteps ==
  ASSUME NEW f, NEW n \in Nat
  PROVE  LET programs[i \in 0 .. n] ==
               IF i = 0 THEN <<>> ELSE Inherit(programs[i - 1], table[f.inherits[i]])
         IN Inherited1(programs, f, n)
<1> DEFINE Q(i) == table[f.inherits[i]]
           Good(k) == \E g : g = [i \in 0 .. k |-> IF i = 0 THEN <<>> ELSE Inherit(g[i - 1], Q(i))]
           Bad == {k \in Nat : ~ Good(k)}
<1>1. ASSUME Bad # {} PROVE FALSE
  <2>1. PICK k \in Bad : \A x \in Bad : k <= x
    <3> HIDE DEF Good
    <3> QED BY <1>1, LeastNat
  <2>2. k \in Nat /\ ~ Good(k)
    BY <2>1
  <2>3. CASE k = 0
    <3> DEFINE g == [i \in 0 .. 0 |-> <<>>]
    <3>1. g = [i \in 0 .. 0 |-> IF i = 0 THEN <<>> ELSE Inherit(g[i - 1], Q(i))]
      OBVIOUS
    <3> QED BY <2>2, <2>3, <3>1
  <2>4. CASE k # 0
    <3>1. k - 1 \in Nat /\ Good(k - 1)
      <4>1. k - 1 \in Nat /\ ~ (k <= k - 1)
        BY <2>2, <2>4
      <4> HIDE DEF Good
      <4>2. k - 1 \notin Bad
        <5> HIDE DEF Bad
        <5> QED BY <2>1, <4>1
      <4> QED BY <4>1, <4>2
    <3>2. PICK g : g = [i \in 0 .. k - 1 |-> IF i = 0 THEN <<>> ELSE Inherit(g[i - 1], Q(i))]
      BY <3>1
    <3> DEFINE h == [i \in 0 .. k |-> IF i = k THEN Inherit(g[k - 1], Q(k)) ELSE g[i]]
    <3>3. \A i \in 0 .. k : h[i] = IF i = 0 THEN <<>> ELSE Inherit(h[i - 1], Q(i))
      <4>1. ASSUME NEW i \in 0 .. k, i # k
            PROVE  h[i] = IF i = 0 THEN <<>> ELSE Inherit(h[i - 1], Q(i))
        <5>1. i \in 0 .. k - 1 /\ (i # 0 => i - 1 \in 0 .. k /\ i - 1 # k)
          BY <2>2, <4>1
        <5>2. g[i] = IF i = 0 THEN <<>> ELSE Inherit(g[i - 1], Q(i))
          BY <3>2, <5>1
        <5>3. h[i] = g[i] /\ (i # 0 => h[i - 1] = g[i - 1])
          BY <4>1, <5>1
        <5> HIDE DEF h
        <5> QED BY <5>2, <5>3
      <4>2. h[k] = Inherit(h[k - 1], Q(k))
        <5>1. k - 1 \in 0 .. k /\ k - 1 # k /\ k \in 0 .. k
          BY <2>2, <2>4
        <5> QED BY <5>1
      <4> QED BY <2>4, <4>1, <4>2
    <3>4. h = [i \in 0 .. k |-> h[i]]
      OBVIOUS
    <3> HIDE DEF h
    <3>5. h = [i \in 0 .. k |-> IF i = 0 THEN <<>> ELSE Inherit(h[i - 1], Q(i))]
      BY <3>3, <3>4
    <3> QED BY <2>2, <3>5
  <2> QED BY <2>3, <2>4
<1>2. Good(n)
  <2> HIDE DEF Good
  <2> QED BY <1>1
<1> DEFINE programs[i \in 0 .. n] == IF i = 0 THEN <<>> ELSE Inherit(programs[i - 1], Q(i))
<1>3. programs = [i \in 0 .. n |-> IF i = 0 THEN <<>> ELSE Inherit(programs[i - 1], Q(i))]
  BY <1>2
<1> HIDE DEF programs
<1>5. \A i \in 0 .. n : programs[i] = IF i = 0 THEN <<>> ELSE Inherit(programs[i - 1], Q(i))
  BY <1>3
<1>6. 0 \in 0 .. n /\ \A i \in 1 .. n : i \in 0 .. n /\ i # 0
  OBVIOUS
<1>7. Inherited1(programs, f, n)
  BY <1>5, <1>6 DEF Inherited1
<1> QED BY <1>7 DEF programs

\* Programs with a name are alive, and so is what is inherited.
Living ==
  /\ \A n \in Names : table[n] # None => code[table[n]].ref # 0
  /\ \A q \in Progs : code[q].ref # 0 => Loaded(code[q].inherits)

LEMMA InheritedOnce ==
  ASSUME code \in [Progs -> Programs], NEW s \in Seq(Progs), NEW q \in Progs
  PROVE  /\ Inherit(s, q) \in Seq(Progs)
         /\ Loaded(s) /\ code[q].ref # 0 /\ Loaded(code[q].inherits) => Loaded(Inherit(s, q))
<1> DEFINE h == code[q].inherits
           s1 == s \o <<q>>
           s2 == s1 \o h
<1>1. h \in Seq(Progs) /\ <<q>> \in Seq(Progs) /\ Len(<<q>>) = 1 /\ <<q>>[1] = q
  BY DEF Programs
<1>2. /\ s1 \in Seq(Progs) /\ Len(s1) = Len(s) + 1
      /\ \A i \in 1 .. Len(s) + 1 : s1[i] = IF i <= Len(s) THEN s[i] ELSE <<q>>[i - Len(s)]
  BY <1>1, ConcatProperties
<1>3. Len(s) \in Nat /\ Len(h) \in Nat /\ DOMAIN s = 1 .. Len(s) /\ DOMAIN h = 1 .. Len(h)
  BY <1>1, LenProperties
<1>4. \A i \in 1 .. Len(s) + 1 : s1[i] = IF i <= Len(s) THEN s[i] ELSE q
  <2> SUFFICES ASSUME NEW i \in 1 .. Len(s) + 1 PROVE s1[i] = IF i <= Len(s) THEN s[i] ELSE q
    OBVIOUS
  <2>1. ~ (i <= Len(s)) => i - Len(s) = 1
    BY <1>3
  <2> QED BY <1>1, <1>2, <2>1
<1>5. /\ s2 \in Seq(Progs) /\ Len(s2) = Len(s1) + Len(h)
      /\ \A i \in 1 .. Len(s1) + Len(h) : s2[i] = IF i <= Len(s1) THEN s1[i] ELSE h[i - Len(s1)]
  <2>1. s1 \in Seq(Progs) /\ h \in Seq(Progs)
    BY <1>1, <1>2
  <2> HIDE DEF s1, h
  <2> QED BY <2>1, ConcatProperties
<1> HIDE DEF s1, h
<1>6. DOMAIN s2 = 1 .. Len(s2)
  BY <1>5, LenProperties
<1> HIDE DEF s2
<1>7. ASSUME Loaded(s), code[q].ref # 0, Loaded(h) PROVE Loaded(s2)
  <2> SUFFICES ASSUME NEW i \in DOMAIN s2 PROVE code[s2[i]].ref # 0
    BY DEF Loaded
  <2>1. CASE i <= Len(s)
    <3>1. s2[i] = s[i] /\ i \in DOMAIN s
      BY <1>2, <1>3, <1>4, <1>5, <1>6, <2>1
    <3> QED BY <1>7, <3>1 DEF Loaded
  <2>2. CASE i = Len(s) + 1
    <3>1. s2[i] = q
      BY <1>2, <1>3, <1>4, <1>5, <1>6, <2>2
    <3> QED BY <1>7, <3>1
  <2>3. CASE i > Len(s) + 1
    <3>1. s2[i] = h[i - Len(s1)] /\ i - Len(s1) \in DOMAIN h
      BY <1>2, <1>3, <1>5, <1>6, <2>3
    <3> QED BY <1>7, <3>1 DEF Loaded
  <2>4. i \in Int
    BY <1>2, <1>3, <1>5, <1>6
  <2> QED BY <1>3, <2>1, <2>2, <2>3, <2>4
<1>8. s2 = Inherit(s, q)
  BY DEF Inherit, s1, s2, h
<1> QED BY <1>5, <1>7, <1>8 DEF h

\* What the compiler stops at is a file that is inherited and not loaded;
\* what it inherits until then is alive.
LEMMA CompiledSound ==
  ASSUME code \in [Progs -> Programs], table \in [Names -> Progs \cup {None}],
         NEW f, f.inherits \in Seq(Names)
  PROVE  /\ Compiled(f).inherits \in Seq(Progs)
         /\ Living => Loaded(Compiled(f).inherits)
         /\ Compiled(f).inherit_file = None => \A n \in Range(f.inherits) : table[n] # None
         /\ Compiled(f).inherit_file # None =>
              /\ Compiled(f).inherit_file \in Range(f.inherits) \cap Names
              /\ table[Compiled(f).inherit_file] = None
<1> DEFINE miss == Misses(f)
           upto == IF miss = {} THEN Len(f.inherits) ELSE Min(miss) - 1
           programs[i \in 0 .. upto] ==
             IF i = 0 THEN <<>> ELSE Inherit(programs[i - 1], table[f.inherits[i]])
<1>1. /\ Compiled(f).inherits = programs[upto]
      /\ Compiled(f).inherit_file = IF miss = {} THEN None ELSE f.inherits[upto + 1]
  BY DEF Compiled
<1>2. /\ Len(f.inherits) \in Nat /\ DOMAIN f.inherits = 1 .. Len(f.inherits)
      /\ \A i \in DOMAIN f.inherits : f.inherits[i] \in Names
  BY LenProperties
<1>3. ASSUME miss # {}
      PROVE  Min(miss) \in miss /\ \A i \in miss : Min(miss) <= i
  <2>1. miss \in SUBSET Nat
    BY <1>2 DEF Misses
  <2>2. \E x \in miss : \A i \in miss : x <= i
    BY <1>3, <2>1, LeastNat
  <2> HIDE DEF miss
  <2> QED BY <2>2 DEF Min
<1>4. upto \in 0 .. Len(f.inherits) /\ \A i \in 1 .. upto : i \in DOMAIN f.inherits /\ table[f.inherits[i]] # None
  <2>1. CASE miss = {}
    <3>1. upto = Len(f.inherits)
      BY <2>1
    <3> QED BY <1>2, <2>1, <3>1 DEF Misses
  <2>2. CASE miss # {}
    <3>1. /\ upto = Min(miss) - 1 /\ Min(miss) \in 1 .. Len(f.inherits)
          /\ \A i \in miss : Min(miss) <= i
      BY <1>2, <1>3, <2>2 DEF Misses
    <3> HIDE DEF upto
    <3>2. upto \in 0 .. Len(f.inherits)
      BY <1>2, <3>1
    <3>3. ASSUME NEW i \in 1 .. upto PROVE i \in DOMAIN f.inherits /\ table[f.inherits[i]] # None
      <4>1. i \in DOMAIN f.inherits /\ ~ (Min(miss) <= i)
        BY <1>2, <3>1
      <4> QED BY <3>1, <4>1 DEF Misses
    <3> QED BY <3>2, <3>3
  <2> QED BY <2>1, <2>2
<1>5. ASSUME miss # {} PROVE f.inherits[upto + 1] \in Range(f.inherits) /\ f.inherits[upto + 1] \in Names
                            /\ table[f.inherits[upto + 1]] = None
  <2>1. upto + 1 = Min(miss) /\ Min(miss) \in DOMAIN f.inherits /\ table[f.inherits[Min(miss)]] = None
    BY <1>2, <1>3, <1>5 DEF Misses
  <2> QED BY <1>2, <2>1 DEF Range
<1>6. miss = {} => \A n \in Range(f.inherits) : table[n] # None
  BY DEF Misses, Range
<1>7. ASSUME miss # {} PROVE f.inherits[upto + 1] # None
  BY <1>5, <1>7, NoneAssumption
<1> HIDE DEF miss, upto
<1>8. Inherited1(programs, f, upto)
  BY <1>4, InheritSteps
<1> HIDE DEF programs
<1>9. programs[0] = <<>> /\ \A m \in 1 .. upto : programs[m] = Inherit(programs[m - 1], table[f.inherits[m]])
  BY <1>8 DEF Inherited1
<1> DEFINE Good(m) == programs[m] \in Seq(Progs) /\ (Living => Loaded(programs[m]))
           Bad == {m \in 0 .. upto : ~ Good(m)}
<1>10. Good(0)
  <2>1. programs[0] = <<>>
    BY <1>9
  <2> QED BY <2>1, EmptySeq DEF Loaded
<1>11. ASSUME NEW m \in 1 .. upto, Good(m - 1) PROVE Good(m)
  <2> DEFINE q == table[f.inherits[m]]
  <2>1. q \in Progs /\ f.inherits[m] \in Names
    BY <1>2, <1>4
  <2>2. Living => code[q].ref # 0 /\ Loaded(code[q].inherits)
    BY <2>1, NoneAssumption DEF Living
  <2>3. programs[m] = Inherit(programs[m - 1], q)
    BY <1>9
  <2> HIDE DEF q
  <2> QED BY <1>11, <2>1, <2>2, <2>3, InheritedOnce
<1>12. ASSUME Bad # {} PROVE FALSE
  <2>1. Bad \in SUBSET Nat
    BY DEF Bad
  <2>2. PICK k \in Bad : \A x \in Bad : k <= x
    <3> HIDE DEF Bad
    <3> QED BY <1>12, <2>1, LeastNat
  <2> HIDE DEF Good
  <2>3. k \in 0 .. upto /\ ~ Good(k)
    BY <2>2
  <2>4. k # 0
    BY <1>10, <2>3
  <2>5. k \in 1 .. upto /\ k - 1 \in 0 .. upto /\ ~ (k <= k - 1)
    BY <1>4, <2>3, <2>4
  <2>6. Good(k - 1)
    BY <2>2, <2>5
  <2> QED BY <1>11, <2>3, <2>5, <2>6
<1>13. Good(upto)
  <2>1. upto \in 0 .. upto
    BY <1>4
  <2> HIDE DEF Good
  <2> QED BY <1>12, <2>1
<1> QED BY <1>1, <1>5, <1>6, <1>7, <1>13

-----------------------------------------------------------------------------
(* Frames and stacks                                                       *)

Answers       == Progs \cup {"?", "nothing"}
Calls         == {"turn", "log_error", "query_approve", "creator_file", "create", "compile_object"}
LpcFrames     == [kind: {"lpc"}, why: Calls]
LoadFrames    == [kind: {"load"}, name: Names, chain: Seq(Names)]
ParseFrames   == [kind: {"parse"}, name: Names, chain: Seq(Names), errors: Nat, lost: BOOLEAN]
InheritFrames == [kind: {"inherit"}, name: Names, got: Answers, wants: Names]
ApproveFrames == [kind: {"approve"}, own: Progs, asked: BOOLEAN]
CloneFrames   == [kind: {"clone"}, name: Names, index: Names \cup {None}, got: Answers]
UidFrames     == [kind: {"uid"}, ob: Objs]
VirtualFrames == [kind: {"virtual"}, index: Names \cup {None}]
FrameSet == LpcFrames \cup LoadFrames \cup ParseFrames \cup InheritFrames
              \cup ApproveFrames \cup CloneFrames \cup UidFrames \cup VirtualFrames

\* Who asks for a program, and what stands above him to get it
Asks(f)   == f.kind \in {"clone", "inherit"}
Serves(f) == f.kind \in {"load", "parse", "inherit", "approve"}
Wanted(f) == IF f.kind = "clone" THEN f.name ELSE f.wants

\* What is loaded is loaded for someone.
Shaped(s) == \A i \in DOMAIN s : Serves(s[i]) => i > 1 /\ Asks(s[i - 1])

\* The kind of a frame says what it holds.
LEMMA FrameKinds ==
  ASSUME NEW f \in FrameSet
  PROVE  /\ f.kind \in Kinds
         /\ f.kind = "load"    => f \in LoadFrames /\ f.name \in Names /\ f.chain \in Seq(Names)
         /\ f.kind = "parse"   => f.name \in Names /\ f.chain \in Seq(Names) /\ f.errors \in Nat /\ f.lost \in BOOLEAN
         /\ f.kind = "inherit" => f \in InheritFrames /\ f.name \in Names /\ f.got \in Answers /\ f.wants \in Names
         /\ f.kind = "approve" => f \in ApproveFrames /\ f.own \in Progs /\ f.asked \in BOOLEAN
         /\ f.kind = "clone"   => f \in CloneFrames /\ f.name \in Names /\ f.got \in Answers
                                    /\ f.index \in Names \cup {None}
         /\ f.kind = "uid"     => f.ob \in Objs
         /\ f.kind = "virtual" => f.index \in Names \cup {None}
<1>1. CASE f \in LpcFrames
  BY <1>1 DEF LpcFrames, Kinds
<1>2. CASE f \in LoadFrames
  BY <1>2 DEF LoadFrames, Kinds
<1>3. CASE f \in ParseFrames
  BY <1>3 DEF ParseFrames, Kinds
<1>4. CASE f \in InheritFrames
  BY <1>4 DEF InheritFrames, Kinds
<1>5. CASE f \in ApproveFrames
  BY <1>5 DEF ApproveFrames, Kinds
<1>6. CASE f \in CloneFrames
  BY <1>6 DEF CloneFrames, Kinds
<1>7. CASE f \in UidFrames
  BY <1>7 DEF UidFrames, Kinds
<1>8. CASE f \in VirtualFrames
  BY <1>8 DEF VirtualFrames, Kinds
<1> QED BY <1>1, <1>2, <1>3, <1>4, <1>5, <1>6, <1>7, <1>8 DEF FrameSet

\* The frames that are made
LEMMA FramesMade ==
  /\ \A why \in Calls : Lpc(why) \in FrameSet /\ Lpc(why).kind = "lpc"
  /\ \A n \in Names, ch \in Seq(Names) :
       LoadFrame(n, ch) \in FrameSet /\ LoadFrame(n, ch).kind = "load" /\ LoadFrame(n, ch).name = n
  /\ \A p \in Progs, asked \in BOOLEAN :
       /\ ApproveFrame(p, asked) \in FrameSet /\ ApproveFrame(p, asked).kind = "approve"
       /\ ApproveFrame(p, asked).own = p
  /\ \A n \in Names, x \in Names \cup {None} :
       /\ CloneFrame(n, x) \in FrameSet /\ CloneFrame(n, x).kind = "clone" /\ CloneFrame(n, x).got = "?"
       /\ CloneFrame(n, x).name = n /\ CloneFrame(n, x).index = x
<1>1. ASSUME NEW why \in Calls PROVE Lpc(why) \in FrameSet /\ Lpc(why).kind = "lpc"
  BY DEF Lpc, FrameSet, LpcFrames
<1>2. ASSUME NEW n \in Names, NEW ch \in Seq(Names)
      PROVE  LoadFrame(n, ch) \in FrameSet /\ LoadFrame(n, ch).kind = "load" /\ LoadFrame(n, ch).name = n
  BY DEF LoadFrame, FrameSet, LoadFrames
<1>3. ASSUME NEW n \in Names, NEW x \in Names \cup {None}
      PROVE  /\ CloneFrame(n, x) \in FrameSet /\ CloneFrame(n, x).kind = "clone" /\ CloneFrame(n, x).got = "?"
             /\ CloneFrame(n, x).name = n /\ CloneFrame(n, x).index = x
  BY DEF CloneFrame, FrameSet, CloneFrames, Answers
<1>4. ASSUME NEW p \in Progs, NEW asked \in BOOLEAN
      PROVE  /\ ApproveFrame(p, asked) \in FrameSet /\ ApproveFrame(p, asked).kind = "approve"
             /\ ApproveFrame(p, asked).own = p
  BY DEF ApproveFrame, FrameSet, ApproveFrames
<1> QED BY <1>1, <1>2, <1>3, <1>4

LEMMA ParseFrameMade ==
  ASSUME NEW n \in Names, NEW ch \in Seq(Names), NEW errors \in Nat, NEW lost \in BOOLEAN
  PROVE  /\ ParseFrame(n, ch, errors, lost) \in FrameSet /\ ParseFrame(n, ch, errors, lost).kind = "parse"
         /\ ParseFrame(n, ch, errors, lost).name = n /\ ParseFrame(n, ch, errors, lost).lost = lost
BY DEF ParseFrame, FrameSet, ParseFrames

\* Who asked is given an answer.
LEMMA FrameAnswered ==
  ASSUME NEW f \in FrameSet, Asks(f), NEW x \in Answers
  PROVE  LET g == [f EXCEPT !.got = x]
         IN /\ g \in FrameSet /\ g.kind = f.kind /\ g.name = f.name /\ g.got = x
            /\ Wanted(g) = Wanted(f)
            /\ f.kind = "clone" => g.index = f.index
            /\ f.kind = "inherit" => g.wants = f.wants
<1>1. CASE f.kind = "clone"
  <2>1. f \in CloneFrames
    BY <1>1, FrameKinds
  <2>2. f = [kind |-> "clone", name |-> f.name, index |-> f.index, got |-> f.got]
    BY <2>1 DEF CloneFrames
  <2>3. [f EXCEPT !.got = x] = [kind |-> "clone", name |-> f.name, index |-> f.index, got |-> x]
    BY <2>2
  <2>4. [f EXCEPT !.got = x] \in CloneFrames
    BY <2>1, <2>3 DEF CloneFrames
  <2> QED BY <1>1, <2>3, <2>4 DEF FrameSet, Wanted
<1>2. CASE f.kind = "inherit"
  <2>1. f \in InheritFrames
    BY <1>2, FrameKinds
  <2>2. f = [kind |-> "inherit", name |-> f.name, got |-> f.got, wants |-> f.wants]
    BY <2>1 DEF InheritFrames
  <2>3. [f EXCEPT !.got = x] = [kind |-> "inherit", name |-> f.name, got |-> x, wants |-> f.wants]
    BY <2>2
  <2>4. [f EXCEPT !.got = x] \in InheritFrames
    BY <2>1, <2>3 DEF InheritFrames
  <2> QED BY <1>2, <2>3, <2>4 DEF FrameSet, Wanted
<1> QED BY <1>1, <1>2 DEF Asks

\* The top of a stack, and what is below
LEMMA StackEnd ==
  ASSUME NEW s \in Seq(FrameSet), s # <<>>
  PROVE  /\ Len(s) \in Nat /\ Len(s) > 0 /\ DOMAIN s = 1 .. Len(s) /\ Len(s) \in DOMAIN s
         /\ Len(s) - 1 \in 0 .. Len(s) /\ Front(s) = SubSeq(s, 1, Len(s) - 1)
         /\ Last(s) = s[Len(s)] /\ Last(s) \in FrameSet
<1>1. Len(s) \in Nat /\ DOMAIN s = 1 .. Len(s)
  BY LenProperties
<1>2. Len(s) # 0
  BY EmptySeq
<1>3. Len(s) \in DOMAIN s
  BY <1>1, <1>2
<1>4. s[Len(s)] \in FrameSet
  BY <1>3, LenProperties
<1> QED BY <1>1, <1>2, <1>3, <1>4 DEF Front, Last

LEMMA StackPrefix ==
  ASSUME NEW s \in Seq(FrameSet), NEW k \in 0 .. Len(s)
  PROVE  /\ SubSeq(s, 1, k) \in Seq(FrameSet) /\ Len(SubSeq(s, 1, k)) = k
         /\ DOMAIN SubSeq(s, 1, k) = 1 .. k /\ 1 .. k \subseteq DOMAIN s
         /\ \A i \in 1 .. k : SubSeq(s, 1, k)[i] = s[i]
         /\ Shaped(s) => Shaped(SubSeq(s, 1, k))
<1> DEFINE t == SubSeq(s, 1, k)
<1>1. Len(s) \in Nat /\ DOMAIN s = 1 .. Len(s)
  BY LenProperties
<1>2. t \in Seq(FrameSet) /\ Len(t) = k /\ \A i \in 1 .. k : t[i] = s[i]
  <2>1. /\ \A i \in 1 .. k : s[i] \in FrameSet
        /\ 1 \in Int /\ k \in Int
    BY <1>1, ElementOfSeq
  <2>2. Len(t) = k
    BY <1>1, <2>1, SubSeqProperties
  <2> QED BY <1>1, <2>1, <2>2, SubSeqProperties
<1>3. DOMAIN t = 1 .. k
  BY <1>2, LenProperties
<1> HIDE DEF t
<1>4. ASSUME Shaped(s) PROVE Shaped(t)
  <2> SUFFICES ASSUME NEW i \in 1 .. k, Serves(t[i]) PROVE i > 1 /\ Asks(t[i - 1])
    BY <1>3 DEF Shaped
  <2>1. i \in DOMAIN s /\ Serves(s[i])
    BY <1>1, <1>2
  <2>2. i > 1 /\ Asks(s[i - 1])
    BY <1>4, <2>1 DEF Shaped
  <2>3. t[i - 1] = s[i - 1]
    <3>1. i - 1 \in 1 .. k
      BY <2>2
    <3> QED BY <1>2, <3>1
  <2> QED BY <2>2, <2>3
<1> QED BY <1>1, <1>2, <1>3, <1>4 DEF t

LEMMA StackPushed ==
  ASSUME NEW s \in Seq(FrameSet), NEW f \in FrameSet
  PROVE  /\ Append(s, f) \in Seq(FrameSet) /\ Len(Append(s, f)) = Len(s) + 1
         /\ Len(s) \in Nat /\ DOMAIN s = 1 .. Len(s)
         /\ DOMAIN Append(s, f) = 1 .. (Len(s) + 1)
         /\ \A i \in 1 .. Len(s) : Append(s, f)[i] = s[i]
         /\ Append(s, f)[Len(s) + 1] = f
         /\ Append(s, f) # <<>> /\ Last(Append(s, f)) = f
         /\ Shaped(s) /\ (Serves(f) => s # <<>> /\ Asks(Last(s))) => Shaped(Append(s, f))
<1> DEFINE t == Append(s, f)
<1>1. Len(s) \in Nat /\ DOMAIN s = 1 .. Len(s)
  BY LenProperties
<1>2. /\ t \in Seq(FrameSet) /\ Len(t) = Len(s) + 1
      /\ \A i \in 1 .. Len(s) : t[i] = s[i]
      /\ t[Len(s) + 1] = f
  BY AppendProperties
<1>3. DOMAIN t = 1 .. Len(s) + 1
  BY <1>2, LenProperties
<1> HIDE DEF t
<1>4. t # <<>> /\ Last(t) = f
  <2>1. t # <<>>
    BY <1>1, <1>2, EmptySeq
  <2> QED BY <1>2, <2>1, StackEnd
<1>5. ASSUME Shaped(s), Serves(f) => s # <<>> /\ Asks(Last(s)) PROVE Shaped(t)
  <2> SUFFICES ASSUME NEW i \in 1 .. Len(s) + 1, Serves(t[i]) PROVE i > 1 /\ Asks(t[i - 1])
    BY <1>3 DEF Shaped
  <2>1. CASE i <= Len(s)
    <3>1. i \in DOMAIN s /\ Serves(s[i])
      BY <1>1, <1>2, <2>1
    <3>2. i > 1 /\ Asks(s[i - 1])
      BY <1>5, <3>1 DEF Shaped
    <3>3. i - 1 \in 1 .. Len(s)
      BY <1>1, <2>1, <3>2
    <3> QED BY <1>2, <3>2, <3>3
  <2>2. CASE i = Len(s) + 1
    <3>1. s # <<>> /\ Asks(Last(s))
      BY <1>2, <1>5, <2>2
    <3>2. Len(s) > 0 /\ Last(s) = s[Len(s)]
      BY <3>1, StackEnd
    <3>3. Len(s) \in 1 .. Len(s) /\ i - 1 = Len(s) /\ i > 1
      BY <1>1, <2>2, <3>2
    <3> QED BY <1>2, <3>1, <3>2, <3>3
  <2>3. i <= Len(s) \/ i = Len(s) + 1
    BY <1>1
  <2> QED BY <2>1, <2>2, <2>3
<1> QED BY <1>1, <1>2, <1>3, <1>4, <1>5 DEF t

\* Two frames at once, and an answer
LEMMA StackTwo ==
  ASSUME NEW s \in Seq(FrameSet), NEW f \in FrameSet, NEW g \in FrameSet
  PROVE  s \o <<f, g>> = Append(Append(s, f), g)
BY DEF FrameSet

LEMMA StackAnswered ==
  ASSUME NEW s \in Seq(FrameSet), s # <<>>, NEW x
  PROVE  Answer(s, x) = Append(Front(s), [Last(s) EXCEPT !.got = x])
<1>1. /\ Len(s) \in Nat /\ Len(s) > 0 /\ DOMAIN s = 1 .. Len(s) /\ Front(s) = SubSeq(s, 1, Len(s) - 1)
      /\ Last(s) = s[Len(s)]
  BY StackEnd
<1> QED BY <1>1 DEF Answer

-----------------------------------------------------------------------------
(* What holds between two operations                                       *)

World == [file |-> file, code |-> code, table |-> table, object |-> object, named |-> named,
          prog |-> prog, leaked |-> leaked]

Served(w, f) == IF f.kind = "approve" THEN w.code[f.own].name ELSE f.name
Works(f)     == f.kind \in {"parse", "approve"}

\* What is asked for is not there yet, and the answer is what is in the table.
Right(w, f) ==
  /\ Serves(f) => w.table[Served(w, f)] = None
  /\ f.kind = "parse" => ~ f.lost
  /\ f.kind = "approve" => f.own = w.prog /\ f.own \notin w.leaked
  /\ f.kind = "inherit" => f.wants \in Range(w.file[f.name].inherits)
  /\ Asks(f) /\ f.got \in Progs => w.table[Wanted(f)] = f.got
  /\ f.kind = "clone" /\ f.index # None => f.index = f.name /\ w.named[f.index] = None

\* g stands on f.
Over(w, f, g) ==
  /\ f.kind # "load"
  /\ Asks(f) => f.got = "?" /\ Serves(g) /\ Served(w, g) = Wanted(f)

\* g stands anywhere above f: one program is made at a time, and a file that
\* waits for another is not itself the one that is approved.
Apart(w, f, g) ==
  /\ ~ (Works(f) /\ Works(g))
  /\ f.kind = "inherit" /\ g.kind = "approve" => f.name # Served(w, g)

Chained(w, s) ==
  /\ \A i \in DOMAIN s : Right(w, s[i])
  /\ \A i \in DOMAIN s : i + 1 \in DOMAIN s => Over(w, s[i], s[i + 1])
  /\ \A i, j \in DOMAIN s : i < j => Apart(w, s[i], s[j])

NamesAgree(w) ==
  /\ \A n \in Names : /\ w.table[n] # None => w.code[w.table[n]].name = n
                      /\ w.named[n] # None => /\ w.object[w.named[n]].state = "live"
                                              /\ w.object[w.named[n]].index = n
  /\ \A o \in Objs : /\ w.object[o].state = "live" /\ w.object[o].index # None =>
                          w.named[w.object[o].index] = o
                     /\ w.object[o].state = "free" <=> w.object[o].prog = None

\* Who holds a reference
Holders(w, s) ==
  {<<<<"name", n>>, w.table[n]>> : n \in {n \in Names : w.table[n] # None}} \cup
  {<<<<"object", o>>, w.object[o].prog>> : o \in {o \in Objs : w.object[o].prog # None}} \cup
  {<<<<"frame", i>>, s[i].own>> : i \in {i \in DOMAIN s : s[i].kind = "approve"}} \cup
  {<<<<"leak", p>>, p>> : p \in w.leaked}

Good(w, s) == NamesAgree(w) /\ Chained(w, s) /\ Sound(w.code, Holders(w, s))

Entries == [state: {"free", "live", "destructed"}, prog: Progs \cup {None}, index: Names \cup {None}]

Typed ==
  /\ file \in [Names -> [inherits: Seq(Names), broken: BOOLEAN, exists: BOOLEAN]]
  /\ code \in [Progs -> Programs]
  /\ table \in [Names -> Progs \cup {None}] /\ named \in [Names -> Objs \cup {None}]
  /\ object \in [Objs -> Entries]
  /\ prog \in Progs \cup {None} /\ approved_object \in BOOLEAN
  /\ stack \in Seq(FrameSet) /\ Shaped(stack)
  /\ calls \in Nat /\ taken \subseteq Liberties /\ leaked \subseteq Progs

Inv == Typed /\ (taken = {} => fatal = None /\ Good(World, stack))

\* An operation keeps what is right of a frame.
Same(w, v, f) ==
  /\ Right(w, f) => Right(v, f)
  /\ f.kind = "approve" => Served(v, f) = Served(w, f)

LEMMA ChainedSame ==
  ASSUME NEW w, NEW v, NEW s, Chained(w, s), \A i \in DOMAIN s : Same(w, v, s[i])
  PROVE  Chained(v, s)
<1>1. \A i \in DOMAIN s : Right(v, s[i])
  BY DEF Chained, Same
<1>2. \A i \in DOMAIN s : Served(v, s[i]) = Served(w, s[i])
  BY DEF Same, Served
<1>3. ASSUME NEW i \in DOMAIN s, i + 1 \in DOMAIN s PROVE Over(v, s[i], s[i + 1])
  <2>1. Over(w, s[i], s[i + 1]) /\ Served(v, s[i + 1]) = Served(w, s[i + 1])
    BY <1>2, <1>3 DEF Chained
  <2> QED BY <2>1 DEF Over
<1>4. ASSUME NEW i \in DOMAIN s, NEW j \in DOMAIN s, i < j PROVE Apart(v, s[i], s[j])
  <2>1. Apart(w, s[i], s[j]) /\ Served(v, s[j]) = Served(w, s[j])
    BY <1>2, <1>4 DEF Chained
  <2> QED BY <2>1 DEF Apart
<1> QED BY <1>1, <1>3, <1>4 DEF Chained

LEMMA ChainedPrefix ==
  ASSUME NEW w, NEW s \in Seq(FrameSet), Chained(w, s), NEW k \in 0 .. Len(s)
  PROVE  Chained(w, SubSeq(s, 1, k))
<1> DEFINE t == SubSeq(s, 1, k)
<1>1. DOMAIN t = 1 .. k /\ DOMAIN t \subseteq DOMAIN s /\ \A i \in DOMAIN t : t[i] = s[i]
  BY StackPrefix
<1> HIDE DEF t
<1>2. ASSUME NEW i \in DOMAIN t, i + 1 \in DOMAIN t PROVE Over(w, t[i], t[i + 1])
  <2>1. t[i] = s[i] /\ t[i + 1] = s[i + 1] /\ i \in DOMAIN s /\ i + 1 \in DOMAIN s
    BY <1>1, <1>2
  <2> QED BY <2>1 DEF Chained
<1> QED BY <1>1, <1>2 DEF Chained, t

LEMMA ChainedPushed ==
  ASSUME NEW w, NEW s \in Seq(FrameSet), Chained(w, s), NEW f \in FrameSet, Right(w, f),
         s # <<>> => Over(w, Last(s), f),
         \A i \in DOMAIN s : Apart(w, s[i], f)
  PROVE  Chained(w, Append(s, f))
<1> DEFINE t == Append(s, f)
<1>1. /\ DOMAIN t = 1 .. Len(s) + 1 /\ DOMAIN s = 1 .. Len(s) /\ Len(s) \in Nat
      /\ \A i \in 1 .. Len(s) : t[i] = s[i]
      /\ t[Len(s) + 1] = f
  BY StackPushed
<1> HIDE DEF t
<1>2. ASSUME NEW i \in DOMAIN t PROVE Right(w, t[i])
  <2>1. CASE i \in DOMAIN s
    <3>1. t[i] = s[i]
      BY <1>1, <2>1
    <3> QED BY <2>1, <3>1 DEF Chained
  <2>2. CASE i = Len(s) + 1
    BY <1>1, <2>2
  <2> QED BY <1>1, <2>1, <2>2
<1>3. ASSUME NEW i \in DOMAIN t, i + 1 \in DOMAIN t PROVE Over(w, t[i], t[i + 1])
  <2>1. CASE i + 1 \in DOMAIN s
    <3>1. i \in DOMAIN s /\ t[i] = s[i] /\ t[i + 1] = s[i + 1]
      BY <1>1, <2>1
    <3> QED BY <2>1, <3>1 DEF Chained
  <2>2. CASE i + 1 = Len(s) + 1
    <3>1. i = Len(s) /\ Len(s) \in 1 .. Len(s)
      BY <1>1, <2>2
    <3>2. s # <<>>
      BY <1>1, <3>1, EmptySeq
    <3>3. Last(s) = s[Len(s)]
      BY <3>2, StackEnd
    <3>4. t[i] = Last(s) /\ t[i + 1] = f
      BY <1>1, <2>2, <3>1, <3>3
    <3> QED BY <3>2, <3>4
  <2> QED BY <1>1, <1>3, <2>1, <2>2
<1>4. ASSUME NEW i \in DOMAIN t, NEW j \in DOMAIN t, i < j PROVE Apart(w, t[i], t[j])
  <2>1. i \in DOMAIN s /\ t[i] = s[i]
    BY <1>1, <1>4
  <2>2. CASE j \in DOMAIN s
    <3>1. t[j] = s[j]
      BY <1>1, <2>2
    <3> QED BY <1>4, <2>1, <2>2, <3>1 DEF Chained
  <2>3. CASE j = Len(s) + 1
    <3>1. t[j] = f
      BY <1>1, <2>3
    <3> QED BY <2>1, <3>1
  <2> QED BY <1>1, <2>2, <2>3
<1> QED BY <1>2, <1>3, <1>4 DEF Chained, t

\* The holders, one kind at a time
LEMMA HoldersHas ==
  ASSUME NEW w, NEW s
  PROVE  \A x : x \in Holders(w, s) <=>
           \/ \E n \in Names : w.table[n] # None /\ x = <<<<"name", n>>, w.table[n]>>
           \/ \E o \in Objs : w.object[o].prog # None /\ x = <<<<"object", o>>, w.object[o].prog>>
           \/ \E i \in DOMAIN s : s[i].kind = "approve" /\ x = <<<<"frame", i>>, s[i].own>>
           \/ \E p \in w.leaked : x = <<<<"leak", p>>, p>>
BY DEF Holders

\* Holders other than frames, and frames
SameHolders(w, v) ==
  w.table = v.table /\ w.leaked = v.leaked /\ \A o \in Objs : w.object[o].prog = v.object[o].prog

LEMMA HoldersPushed ==
  ASSUME NEW w, NEW s \in Seq(FrameSet), NEW f \in FrameSet
  PROVE  /\ f.kind # "approve" => Holders(w, Append(s, f)) = Holders(w, s)
         /\ f.kind = "approve" => /\ Holders(w, Append(s, f)) = Holders(w, s) \cup {<<<<"frame", Len(s) + 1>>, f.own>>}
                                  /\ <<<<"frame", Len(s) + 1>>, f.own>> \notin Holders(w, s)
<1> DEFINE t == Append(s, f)
           y == <<<<"frame", Len(s) + 1>>, f.own>>
<1>1. /\ DOMAIN t = 1 .. Len(s) + 1 /\ DOMAIN s = 1 .. Len(s) /\ Len(s) \in Nat
      /\ \A i \in 1 .. Len(s) : t[i] = s[i]
      /\ t[Len(s) + 1] = f
  BY StackPushed
<1> HIDE DEF t
<1>2. \A x : (\E i \in DOMAIN t : t[i].kind = "approve" /\ x = <<<<"frame", i>>, t[i].own>>)
               <=> \/ \E i \in DOMAIN s : s[i].kind = "approve" /\ x = <<<<"frame", i>>, s[i].own>>
                   \/ f.kind = "approve" /\ x = y
  <2> SUFFICES ASSUME NEW x
               PROVE (\E i \in DOMAIN t : t[i].kind = "approve" /\ x = <<<<"frame", i>>, t[i].own>>)
               <=> \/ \E i \in DOMAIN s : s[i].kind = "approve" /\ x = <<<<"frame", i>>, s[i].own>>
                   \/ f.kind = "approve" /\ x = y
    OBVIOUS
  <2>1. ASSUME NEW i \in DOMAIN t, t[i].kind = "approve", x = <<<<"frame", i>>, t[i].own>>
        PROVE  \/ \E k \in DOMAIN s : s[k].kind = "approve" /\ x = <<<<"frame", k>>, s[k].own>>
               \/ f.kind = "approve" /\ x = y
    <3>1. CASE i = Len(s) + 1
      BY <1>1, <2>1, <3>1
    <3>2. CASE i \in DOMAIN s
      BY <1>1, <2>1, <3>2
    <3> QED BY <1>1, <3>1, <3>2
  <2>2. ASSUME NEW i \in DOMAIN s, s[i].kind = "approve", x = <<<<"frame", i>>, s[i].own>>
        PROVE  \E k \in DOMAIN t : t[k].kind = "approve" /\ x = <<<<"frame", k>>, t[k].own>>
    <3>1. i \in DOMAIN t /\ t[i] = s[i]
      BY <1>1
    <3> QED BY <2>2, <3>1
  <2>3. ASSUME f.kind = "approve", x = y
        PROVE  \E k \in DOMAIN t : t[k].kind = "approve" /\ x = <<<<"frame", k>>, t[k].own>>
    <3>1. Len(s) + 1 \in DOMAIN t /\ t[Len(s) + 1] = f
      BY <1>1
    <3> QED BY <2>3, <3>1
  <2> QED BY <2>1, <2>2, <2>3
<1>3. \A x : x \in Holders(w, t) <=> x \in Holders(w, s) \/ (f.kind = "approve" /\ x = y)
  <2> HIDE DEF y
  <2> QED BY <1>2, HoldersHas
<1>4. y \notin Holders(w, s)
  <2>1. Len(s) + 1 \notin DOMAIN s
    BY <1>1
  <2> QED BY <2>1, HoldersHas
<1> HIDE DEF y
<1>5. f.kind # "approve" => Holders(w, t) = Holders(w, s)
  BY <1>3
<1>6. f.kind = "approve" => Holders(w, t) = Holders(w, s) \cup {y}
  BY <1>3
<1> QED BY <1>4, <1>5, <1>6 DEF t, y

\* A world that has the same holders
LEMMA HoldersSame ==
  ASSUME NEW w, NEW v, SameHolders(w, v), NEW s
  PROVE  Holders(v, s) = Holders(w, s)
<1>1. \A x : x \in Holders(v, s) <=> x \in Holders(w, s)
  <2>1. \A x : (\E o \in Objs : w.object[o].prog # None /\ x = <<<<"object", o>>, w.object[o].prog>>) <=>
               (\E o \in Objs : v.object[o].prog # None /\ x = <<<<"object", o>>, v.object[o].prog>>)
    BY DEF SameHolders
  <2> QED BY <2>1, HoldersHas DEF SameHolders
<1> QED BY <1>1

\* The top is taken off.
LEMMA StackTop ==
  ASSUME NEW s \in Seq(FrameSet), s # <<>>
  PROVE  /\ Front(s) \in Seq(FrameSet) /\ Last(s) \in FrameSet /\ s = Append(Front(s), Last(s))
         /\ Len(s) \in Nat /\ Len(Front(s)) = Len(s) - 1 /\ DOMAIN s = 1 .. Len(s)
         /\ DOMAIN Front(s) = 1 .. Len(s) - 1 /\ Last(s) = s[Len(s)]
         /\ \A i \in DOMAIN Front(s) : Front(s)[i] = s[i] /\ i \in DOMAIN s /\ i + 1 \in DOMAIN s /\ i < Len(s)
         /\ Shaped(s) => Shaped(Front(s)) /\ (Serves(Last(s)) => Front(s) # <<>> /\ Asks(Last(Front(s))))
<1> DEFINE b == Front(s)
           f == Last(s)
<1>1. /\ Len(s) \in Nat /\ Len(s) > 0 /\ DOMAIN s = 1 .. Len(s) /\ Len(s) - 1 \in 0 .. Len(s)
      /\ b = SubSeq(s, 1, Len(s) - 1) /\ f = s[Len(s)] /\ f \in FrameSet /\ Len(s) \in DOMAIN s
  BY StackEnd
<1>2. /\ b \in Seq(FrameSet) /\ Len(b) = Len(s) - 1 /\ DOMAIN b = 1 .. Len(s) - 1
      /\ \A i \in 1 .. Len(s) - 1 : b[i] = s[i]
      /\ Shaped(s) => Shaped(b)
  BY <1>1, StackPrefix
<1> HIDE DEF b, f
<1>3. s = Append(b, f)
  <2> DEFINE t == Append(b, f)
  <2>1. t \in Seq(FrameSet) /\ Len(t) = Len(b) + 1 /\ (\A i \in 1 .. Len(b) : t[i] = b[i]) /\ t[Len(b) + 1] = f
    BY <1>1, <1>2, StackPushed
  <2> HIDE DEF t
  <2>2. Len(b) + 1 = Len(s) /\ Len(t) = Len(s)
    BY <1>1, <1>2, <2>1
  <2>3. ASSUME NEW i \in 1 .. Len(s) PROVE s[i] = t[i]
    <3>1. CASE i = Len(s)
      BY <1>1, <2>1, <2>2, <3>1
    <3>2. CASE i \in 1 .. Len(s) - 1
      BY <1>2, <2>1, <3>2
    <3>3. Len(s) \in Nat
      BY <1>1
    <3> QED BY <3>1, <3>2, <3>3
  <2>4. s = t
    BY <1>1, <2>1, <2>2, <2>3, SeqEqual
  <2> QED BY <2>4 DEF t
<1>4. ASSUME Shaped(s), Serves(f) PROVE b # <<>> /\ Asks(Last(b))
  <2>1. Len(s) > 1 /\ Asks(s[Len(s) - 1])
    BY <1>1, <1>4 DEF Shaped
  <2>2. b # <<>>
    <3>1. Len(b) # 0
      BY <1>1, <1>2, <2>1
    <3> QED BY <3>1, EmptySeq
  <2>3. Last(b) = b[Len(s) - 1] /\ Len(s) - 1 \in 1 .. Len(s) - 1
    BY <1>1, <1>2, <2>1, <2>2, StackEnd
  <2> QED BY <1>2, <2>1, <2>2, <2>3
<1>5. \A i \in 1 .. Len(s) - 1 : i \in DOMAIN s /\ i + 1 \in DOMAIN s /\ i < Len(s)
  BY <1>1
<1> QED BY <1>1, <1>2, <1>3, <1>4, <1>5 DEF b, f

\* What is known of the top and of who waits below it
LEMMA ChainedTop ==
  ASSUME NEW w, NEW s \in Seq(FrameSet), s # <<>>, Chained(w, s)
  PROVE  /\ Chained(w, Front(s)) /\ Right(w, Last(s))
         /\ Front(s) # <<>> => Over(w, Last(Front(s)), Last(s))
         /\ \A i \in DOMAIN Front(s) :
              /\ Front(s)[i].kind # "load" /\ Apart(w, Front(s)[i], Last(s)) /\ Right(w, Front(s)[i])
              /\ Asks(Front(s)[i]) => Front(s)[i].got = "?" /\ w.table[Wanted(Front(s)[i])] = None
<1> DEFINE b == Front(s)
           f == Last(s)
<1>1. /\ b \in Seq(FrameSet) /\ f = s[Len(s)] /\ Len(s) \in Nat /\ Len(b) = Len(s) - 1 /\ DOMAIN s = 1 .. Len(s)
      /\ DOMAIN b = 1 .. Len(s) - 1
      /\ \A i \in DOMAIN b : b[i] = s[i] /\ i \in DOMAIN s /\ i + 1 \in DOMAIN s /\ i < Len(s)
  BY StackTop
<1>2. Len(s) - 1 \in 0 .. Len(s) /\ b = SubSeq(s, 1, Len(s) - 1) /\ Len(s) \in DOMAIN s
  BY StackEnd
<1>3. Chained(w, b)
  BY <1>2, ChainedPrefix
<1> HIDE DEF b, f
<1>4. Right(w, f)
  BY <1>1, <1>2 DEF Chained
<1>5. ASSUME b # <<>> PROVE Over(w, Last(b), f)
  <2>1. Last(b) = b[Len(b)] /\ Len(b) \in DOMAIN b
    BY <1>1, <1>5, StackEnd
  <2>2. Last(b) = s[Len(s) - 1] /\ Len(s) - 1 \in DOMAIN s /\ Len(s) - 1 + 1 = Len(s)
    BY <1>1, <2>1
  <2>3. Over(w, s[Len(s) - 1], s[Len(s) - 1 + 1])
    BY <1>2, <2>2 DEF Chained
  <2> QED BY <1>1, <2>2, <2>3
<1>6. ASSUME NEW i \in DOMAIN b
      PROVE  /\ b[i].kind # "load" /\ Apart(w, b[i], f) /\ Right(w, b[i])
             /\ Asks(b[i]) => b[i].got = "?" /\ w.table[Wanted(b[i])] = None
  <2>1. b[i] = s[i] /\ i \in DOMAIN s /\ i + 1 \in DOMAIN s /\ i < Len(s)
    BY <1>1
  <2>2. /\ Over(w, s[i], s[i + 1]) /\ Right(w, s[i + 1]) /\ Right(w, s[i])
        /\ Apart(w, s[i], f)
    BY <1>1, <1>2, <2>1 DEF Chained
  <2>3. b[i].kind # "load" /\ (Asks(b[i]) => b[i].got = "?" /\ Serves(s[i + 1]) /\ Served(w, s[i + 1]) = Wanted(b[i]))
    BY <2>1, <2>2 DEF Over
  <2>4. Serves(s[i + 1]) => w.table[Served(w, s[i + 1])] = None
    BY <2>2 DEF Right
  <2> QED BY <2>1, <2>2, <2>3, <2>4
<1> QED BY <1>3, <1>4, <1>5, <1>6 DEF b, f

\* What waits for no program may be taken off, and put on what waits for none.
LEMMA GoodPop ==
  ASSUME NEW w, NEW s \in Seq(FrameSet), s # <<>>, Good(w, s), Last(s).kind # "approve"
  PROVE  Good(w, Front(s))
<1>1. Front(s) \in Seq(FrameSet) /\ Last(s) \in FrameSet /\ s = Append(Front(s), Last(s))
  BY StackTop
<1>2. Holders(w, Append(Front(s), Last(s))) = Holders(w, Front(s))
  BY <1>1, HoldersPushed
<1>3. Holders(w, s) = Holders(w, Front(s))
  BY <1>1, <1>2
<1> QED BY <1>3, ChainedTop DEF Good

LEMMA GoodPush ==
  ASSUME NEW w, NEW s \in Seq(FrameSet), Good(w, s), NEW f \in FrameSet, f.kind # "approve",
         Right(w, f), s # <<>> => Over(w, Last(s), f), \A i \in DOMAIN s : Apart(w, s[i], f)
  PROVE  Good(w, Append(s, f))
BY HoldersPushed, ChainedPushed DEF Good

\* Frames that neither wait nor are waited for
Plain(f) == f.kind \in {"lpc", "uid", "virtual"}

LEMMA GoodPushPlain ==
  ASSUME NEW w, NEW s \in Seq(FrameSet), Good(w, s), NEW f \in FrameSet, Plain(f),
         s # <<>> => ~ Asks(Last(s)) /\ Last(s).kind # "load"
  PROVE  Good(w, Append(s, f))
<1>1. Right(w, f) /\ f.kind # "approve"
  BY DEF Right, Plain, Serves, Asks
<1>2. s # <<>> => Over(w, Last(s), f)
  BY DEF Over
<1>3. \A i \in DOMAIN s : Apart(w, s[i], f)
  BY DEF Apart, Plain, Works
<1> QED BY <1>1, <1>2, <1>3, GoodPush

\* A reference changes hands.
LEMMA MovedSound ==
  ASSUME NEW c, NEW L, Sound(c, L), NEW x \in L, NEW y, y \notin L, y[2] = x[2]
  PROVE  Sound(c, (L \ {x}) \cup {y})
<1> DEFINE M == L \ {x}
<1>1. Ledgers(L) /\ x[2] \in Progs /\ \A p \in Progs : Cardinality(Claims(L, p)) \in Nat
  BY ClaimsFinite DEF Sound, Ledgers
<1>2. /\ Ledgers(M)
      /\ \A p : Cardinality(Claims(M, p)) = Cardinality(Claims(L, p)) - (IF p = x[2] THEN 1 ELSE 0)
  BY <1>1, ClaimsRemoved
<1> HIDE DEF M
<1>3. y \notin M /\ y[2] \in Progs
  BY <1>1 DEF M
<1>4. /\ Ledgers(M \cup {y})
      /\ \A p : Cardinality(Claims(M \cup {y}, p)) = Cardinality(Claims(M, p)) + (IF p = y[2] THEN 1 ELSE 0)
  BY <1>2, <1>3, ClaimsAdded
<1>5. ASSUME NEW p \in Progs PROVE Cardinality(Claims(M \cup {y}, p)) = Cardinality(Claims(L, p))
  <2>1. /\ Cardinality(Claims(M, p)) = Cardinality(Claims(L, p)) - (IF p = x[2] THEN 1 ELSE 0)
        /\ Cardinality(Claims(M \cup {y}, p)) = Cardinality(Claims(M, p)) + (IF p = x[2] THEN 1 ELSE 0)
        /\ Cardinality(Claims(L, p)) \in Nat
    BY <1>1, <1>2, <1>4
  <2> QED BY <2>1
<1> QED BY <1>4, <1>5 DEF Sound, M

\* Programs that an error loses: they waited for approval above place k.
Lost(s, k) == {s[i].own : i \in {i \in DOMAIN s : i > k /\ s[i].kind = "approve"}}
Leaking(w, v, ps) ==
  /\ v.file = w.file /\ v.code = w.code /\ v.table = w.table /\ v.object = w.object
  /\ v.named = w.named /\ v.prog = w.prog /\ v.leaked = w.leaked \cup ps

LEMMA GoodError ==
  ASSUME NEW w, NEW v, NEW s \in Seq(FrameSet), Good(w, s), NEW k \in 0 .. Len(s),
         Leaking(w, v, Lost(s, k))
  PROVE  Good(v, SubSeq(s, 1, k))
<1> DEFINE t == SubSeq(s, 1, k)
<1>1. /\ t \in Seq(FrameSet) /\ DOMAIN t = 1 .. k /\ 1 .. k \subseteq DOMAIN s
      /\ \A i \in 1 .. k : t[i] = s[i]
  BY StackPrefix
<1>2. Len(s) \in Nat /\ DOMAIN s = 1 .. Len(s)
  BY LenProperties
<1>3. Chained(w, t)
  BY ChainedPrefix DEF Good
<1>4. NamesAgree(v)
  BY DEF Good, NamesAgree, Leaking
<1> HIDE DEF t
<1>5. CASE \A i \in DOMAIN s : i > k => s[i].kind # "approve"
  <2>1. Lost(s, k) = {}
    BY <1>5 DEF Lost
  <2>2. v.leaked = w.leaked
    BY <2>1 DEF Leaking
  <2>3. \A i \in DOMAIN t : Same(w, v, t[i])
    BY <2>2 DEF Same, Right, Served, Leaking
  <2>4. \A x : x \in Holders(v, t) <=> x \in Holders(w, s)
    <3>1. \A i \in DOMAIN s : s[i].kind = "approve" => i \in DOMAIN t
      BY <1>1, <1>2, <1>5
    <3>2. \A x : (\E i \in DOMAIN t : t[i].kind = "approve" /\ x = <<<<"frame", i>>, t[i].own>>) <=>
                 (\E i \in DOMAIN s : s[i].kind = "approve" /\ x = <<<<"frame", i>>, s[i].own>>)
      BY <1>1, <3>1
    <3> QED BY <2>2, <3>2, HoldersHas DEF Leaking
  <2>5. Holders(v, t) = Holders(w, s)
    BY <2>4
  <2> QED BY <1>3, <1>4, <2>3, <2>5, ChainedSame DEF Good, t, Leaking
<1>6. ASSUME NEW j \in DOMAIN s, j > k, s[j].kind = "approve" PROVE Good(v, t)
  <2> DEFINE p == s[j].own
             x == <<<<"frame", j>>, p>>
             y == <<<<"leak", p>>, p>>
  <2>1. \A i \in DOMAIN s : s[i].kind = "approve" <=> i = j
    <3> SUFFICES ASSUME NEW i \in DOMAIN s, s[i].kind = "approve", i # j PROVE FALSE
      BY <1>6
    <3>1. i < j \/ j < i
      BY <1>2
    <3>2. ~ (Works(s[i]) /\ Works(s[j]))
      BY <3>1 DEF Good, Chained, Apart
    <3> QED BY <1>6, <3>2 DEF Works
  <2>2. Lost(s, k) = {p}
    BY <1>6, <2>1 DEF Lost
  <2>3. \A i \in DOMAIN t : t[i].kind # "approve"
    BY <1>1, <1>6, <2>1
  <2>4. \A i \in DOMAIN t : Same(w, v, t[i])
    BY <2>3 DEF Same, Right, Served, Leaking
  <2>5. p \notin w.leaked
    BY <1>6 DEF Good, Chained, Right
  <2>6. x \in Holders(w, s)
    BY <1>6, HoldersHas
  <2>7. y \notin Holders(w, s)
    BY <2>5, HoldersHas
  <2>8. \A z : z \in Holders(v, t) <=> (z \in Holders(w, s) /\ z # x) \/ z = y
    <3> SUFFICES ASSUME NEW z PROVE z \in Holders(v, t) <=> (z \in Holders(w, s) /\ z # x) \/ z = y
      OBVIOUS
    <3>1. z \in Holders(v, t) <=>
           \/ \E n \in Names : w.table[n] # None /\ z = <<<<"name", n>>, w.table[n]>>
           \/ \E o \in Objs : w.object[o].prog # None /\ z = <<<<"object", o>>, w.object[o].prog>>
           \/ \E q \in w.leaked \cup {p} : z = <<<<"leak", q>>, q>>
      BY <2>2, <2>3, HoldersHas DEF Leaking
    <3>2. z \in Holders(w, s) <=>
           \/ \E n \in Names : w.table[n] # None /\ z = <<<<"name", n>>, w.table[n]>>
           \/ \E o \in Objs : w.object[o].prog # None /\ z = <<<<"object", o>>, w.object[o].prog>>
           \/ \E i \in DOMAIN s : s[i].kind = "approve" /\ z = <<<<"frame", i>>, s[i].own>>
           \/ \E q \in w.leaked : z = <<<<"leak", q>>, q>>
      BY HoldersHas
    <3>3. (\E i \in DOMAIN s : s[i].kind = "approve" /\ z = <<<<"frame", i>>, s[i].own>>) <=> z = x
      BY <2>1
    <3>4. (\E q \in w.leaked \cup {p} : z = <<<<"leak", q>>, q>>) <=> z = y \/ \E q \in w.leaked : z = <<<<"leak", q>>, q>>
      OBVIOUS
    <3>5. z = x => /\ \A n \in Names : z # <<<<"name", n>>, w.table[n]>>
                   /\ \A o \in Objs : z # <<<<"object", o>>, w.object[o].prog>>
                   /\ \A q \in w.leaked : z # <<<<"leak", q>>, q>>
                   /\ z # y
      OBVIOUS
    <3> HIDE DEF x, y
    <3> QED BY <3>1, <3>2, <3>3, <3>4, <3>5
  <2>9. x[2] = p /\ y[2] = p
    OBVIOUS
  <2> HIDE DEF x, y
  <2>10. Holders(v, t) = (Holders(w, s) \ {x}) \cup {y}
    BY <2>8
  <2>11. Sound(w.code, Holders(v, t))
    BY <2>6, <2>7, <2>9, <2>10, MovedSound DEF Good
  <2> QED BY <1>3, <1>4, <2>4, <2>11, ChainedSame DEF Good, Leaking
<1> QED BY <1>5, <1>6 DEF t

-----------------------------------------------------------------------------
(* What every operation needs                                              *)

LEMMA FreedTyped ==
  ASSUME NEW c \in [Progs -> Programs], NEW p
  PROVE  Freed(c, p) \in [Progs -> Programs]
<1> DEFINE G == Going(c, p)
           d == Freed(c, p)
<1>1. G \in SUBSET Progs
  BY DEF Going
<1>2. \A q \in Progs : d[q] = IF q \in G THEN Free ELSE [c[q] EXCEPT !.ref = @ - GivenUp(c, p, G, q)]
  BY DEF Freed
<1>3. d = [q \in Progs |-> d[q]]
  BY DEF Freed
<1> HIDE DEF G, d
<1>4. ASSUME NEW q \in Progs PROVE d[q] \in Programs
  <2>1. GivenUp(c, p, G, q) \in Nat
    <3>1. Cardinality(Inheriting(c, G, q)) \in Nat
      BY <1>1, InheritingFinite
    <3> QED BY <3>1 DEF GivenUp
  <2>2. CASE q \in G
    <3>1. Free \in Programs
      BY EmptySeq DEF Programs, Free
    <3> QED BY <1>2, <2>2, <3>1
  <2>3. CASE q \notin G
    <3>1. c[q] \in Programs /\ d[q] = [c[q] EXCEPT !.ref = @ - GivenUp(c, p, G, q)]
      BY <1>2, <2>3
    <3>2. c[q].ref - GivenUp(c, p, G, q) \in Int
      BY <2>1 DEF Programs
    <3> QED BY <3>1, <3>2 DEF Programs
  <2> QED BY <2>2, <2>3
<1> QED BY <1>3, <1>4 DEF d

LEMMA ReferencedTyped ==
  ASSUME NEW c \in [Progs -> Programs], NEW ps \in Seq(Progs)
  PROVE  Referenced(c, ps) \in [Progs -> Programs]
<1>1. ASSUME NEW p \in Progs
      PROVE  [c[p] EXCEPT !.ref = @ + Cardinality({i \in DOMAIN ps : ps[i] = p})] \in Programs
  <2>1. DOMAIN ps = 1 .. Len(ps) /\ Len(ps) \in Nat
    BY LenProperties
  <2>2. IsFiniteSet(1 .. Len(ps))
    BY <2>1, FS_Interval
  <2>3. {i \in DOMAIN ps : ps[i] = p} \in SUBSET (1 .. Len(ps))
    BY <2>1
  <2>4. Cardinality({i \in DOMAIN ps : ps[i] = p}) \in Nat
    BY <2>2, <2>3, FS_Subset, FS_CardinalityType
  <2>5. c[p].ref + Cardinality({i \in DOMAIN ps : ps[i] = p}) \in Int
    BY <2>4 DEF Programs
  <2> QED BY <2>5 DEF Programs
<1> QED BY <1>1 DEF Referenced

LEMMA MadeTyped ==
  ASSUME code \in [Progs -> Programs], NEW p \in Progs, NEW n \in Names, NEW h \in Seq(Progs)
  PROVE  Made(p, n, h) \in [Progs -> Programs]
<1> DEFINE b == [name |-> n, ref |-> 1, inherits |-> h, approves |-> FALSE]
<1>1. b \in Programs
  BY DEF Programs
<1>2. [code EXCEPT ![p] = b] \in [Progs -> Programs]
  BY <1>1
<1> QED BY <1>2, ReferencedTyped DEF Made

LEMMA TopTyped ==
  ASSUME Typed, stack # <<>>
  PROVE  /\ Below \in Seq(FrameSet) /\ Shaped(Below) /\ Top \in FrameSet
         /\ Serves(Top) => Below # <<>> /\ Asks(Last(Below))
         /\ Frames("parse") = {} => \A i \in DOMAIN stack : stack[i].kind # "parse"
         /\ Frames("approve") = {} => \A i \in DOMAIN stack : stack[i].kind # "approve"
BY StackTop DEF Typed, Top, Below, Frames

\* The programs that stay without a name are free; the world in full
LEMMA WorldIs ==
  /\ World.file = file /\ World.code = code /\ World.table = table /\ World.object = object
  /\ World.named = named /\ World.prog = prog /\ World.leaked = leaked
BY DEF World

\* An operation that only changes the stack
LEMMA StackOnly ==
  ASSUME Inv, UNCHANGED <<file, memory, prog, fatal, leaked>>,
         calls' \in Nat, approved_object' \in BOOLEAN, taken' \subseteq Liberties, taken' = {} => taken = {},
         stack' \in Seq(FrameSet), Shaped(stack'), taken' = {} => Good(World, stack')
  PROVE  Inv'
<1>1. Typed'
  BY DEF Inv, Typed, memory
<1>2. World' = World
  BY DEF World, memory
<1>3. taken' = {} => fatal' = None /\ Good(World', stack')
  BY <1>2 DEF Inv
<1> QED BY <1>1, <1>3 DEF Inv

LEMMA ErrorTyped ==
  ASSUME Typed, Error, stack # <<>>
  PROVE  stack' \in Seq(FrameSet) /\ Shaped(stack') /\ leaked' \subseteq Progs /\ fatal' = fatal
<1>1. PICK k \in {0} \cup {i \in DOMAIN stack : stack[i].kind = "lpc"} :
        /\ stack' = SubSeq(stack, 1, k)
        /\ leaked' = leaked \cup {stack[i].own : i \in {i \in k + 1 .. Len(stack) - 1 :
                                                       stack[i].kind = "approve"}}
  BY DEF Error
<1>2. DOMAIN stack = 1 .. Len(stack) /\ Len(stack) \in Nat /\ stack \in Seq(FrameSet) /\ Shaped(stack)
  BY LenProperties DEF Typed
<1>3. k \in 0 .. Len(stack)
  BY <1>2
<1>4. \A i \in k + 1 .. Len(stack) - 1 : i \in DOMAIN stack
  BY <1>2, <1>3
<1>5. \A i \in DOMAIN stack : stack[i].kind = "approve" => stack[i].own \in Progs
  BY <1>2, FrameKinds, ElementOfSeq
<1>6. leaked' \subseteq Progs
  BY <1>1, <1>4, <1>5 DEF Typed
<1> QED BY <1>1, <1>2, <1>3, <1>6, StackPrefix DEF Error

\* An error after the rest of the operation has been done, in world w
Reached(w) ==
  /\ file' = w.file /\ code' = w.code /\ table' = w.table /\ object' = w.object
  /\ named' = w.named /\ prog' = w.prog /\ leaked = w.leaked

LEMMA ErrorFrom ==
  ASSUME Typed, Error, stack # <<>>, Top.kind # "approve",
         NEW w, Good(w, stack), Reached(w)
  PROVE  Good(World', stack')
<1>1. PICK k \in {0} \cup {i \in DOMAIN stack : stack[i].kind = "lpc"} :
        /\ stack' = SubSeq(stack, 1, k)
        /\ leaked' = leaked \cup {stack[i].own : i \in {i \in k + 1 .. Len(stack) - 1 :
                                                       stack[i].kind = "approve"}}
  BY DEF Error
<1>2. /\ stack \in Seq(FrameSet) /\ DOMAIN stack = 1 .. Len(stack) /\ Len(stack) \in Nat
      /\ Top = stack[Len(stack)]
  BY StackEnd DEF Typed, Top
<1>3. k \in 0 .. Len(stack)
  BY <1>2
<1>4. \A i : i \in k + 1 .. Len(stack) - 1 /\ stack[i].kind = "approve" <=>
             i \in DOMAIN stack /\ i > k /\ stack[i].kind = "approve"
  <2> SUFFICES ASSUME NEW i
               PROVE i \in k + 1 .. Len(stack) - 1 /\ stack[i].kind = "approve" <=>
                     i \in DOMAIN stack /\ i > k /\ stack[i].kind = "approve"
    OBVIOUS
  <2>1. i \in DOMAIN stack /\ stack[i].kind = "approve" => i # Len(stack)
    BY <1>2
  <2> QED BY <1>2, <1>3, <2>1
<1>5. {stack[i].own : i \in {i \in k + 1 .. Len(stack) - 1 : stack[i].kind = "approve"}} = Lost(stack, k)
  BY <1>4 DEF Lost
<1>6. Leaking(w, World', Lost(stack, k))
  BY <1>1, <1>5 DEF Leaking, World, Reached
<1>7. Good(World', SubSeq(stack, 1, k))
  BY <1>2, <1>3, <1>6, GoodError
<1> QED BY <1>1, <1>7

\* An error that is all that happens
LEMMA ErrorOnly ==
  ASSUME Inv, Error, stack # <<>>, Top.kind # "approve", UNCHANGED <<file, memory, prog>>,
         calls' \in Nat, approved_object' \in BOOLEAN, taken' \subseteq Liberties, taken' = {} => taken = {}
  PROVE  Inv'
<1>1. stack' \in Seq(FrameSet) /\ Shaped(stack') /\ leaked' \subseteq Progs /\ fatal' = fatal
  BY ErrorTyped DEF Inv
<1>2. Typed'
  BY <1>1 DEF Inv, Typed, memory
<1>3. ASSUME taken' = {} PROVE fatal' = None /\ Good(World', stack')
  <2>1. Good(World, stack) /\ fatal = None
    BY <1>3 DEF Inv
  <2>2. Reached(World)
    BY WorldIs DEF Reached, memory
  <2> QED BY <1>1, <2>1, <2>2, ErrorFrom DEF Inv
<1> QED BY <1>2, <1>3 DEF Inv

-----------------------------------------------------------------------------
(* The operations that leave memory alone                                  *)

LEMMA ReturnKeeps ==
  ASSUME Inv, Return
  PROVE  Inv'
<1>1. /\ stack # <<>> /\ Top.kind = "lpc" /\ stack' = Below
      /\ UNCHANGED <<file, memory, prog, approved_object, calls, taken, fatal, leaked>>
  BY DEF Return, Waits, Go
<1>2. Typed /\ Below \in Seq(FrameSet) /\ Shaped(Below)
  BY <1>1, TopTyped DEF Inv
<1>3. taken = {} => Good(World, Below)
  BY <1>1, GoodPop DEF Inv, Typed, Top, Below
<1> QED BY <1>1, <1>2, <1>3, StackOnly DEF Typed

LEMMA ThrowKeeps ==
  ASSUME Inv, Throw
  PROVE  Inv'
<1>1. /\ stack # <<>> /\ Top.kind = "lpc" /\ Error
      /\ UNCHANGED <<file, memory, prog, approved_object, calls, taken>>
  BY DEF Throw, Waits
<1> QED BY <1>1, ErrorOnly DEF Inv, Typed

LEMMA IdleKeeps ==
  ASSUME Inv, UNCHANGED vars
  PROVE  Inv'
<1>1. Typed' /\ World' = World
  BY DEF Inv, Typed, vars, memory, ghosts, World
<1> QED BY <1>1 DEF Inv, vars, ghosts

LEMMA TurnKeeps ==
  ASSUME Inv, Turn
  PROVE  Inv'
<1>1. /\ stack = <<>> /\ stack' = <<Lpc("turn")>>
      /\ UNCHANGED <<file, memory, prog, approved_object, calls, taken, fatal, leaked>>
  BY DEF Turn, Go
<1>2. Lpc("turn") \in FrameSet /\ Plain(Lpc("turn")) /\ ~ Serves(Lpc("turn"))
  <2>1. "turn" \in Calls
    BY DEF Calls
  <2>2. Lpc("turn") \in FrameSet /\ Lpc("turn").kind = "lpc"
    BY <2>1, FramesMade
  <2> QED BY <2>2 DEF Plain, Serves
<1>3. stack' = Append(stack, Lpc("turn"))
  BY <1>1
<1>4. stack' \in Seq(FrameSet) /\ Shaped(stack')
  <2>1. stack \in Seq(FrameSet) /\ Shaped(stack)
    BY DEF Inv, Typed
  <2> QED BY <1>2, <1>3, <2>1, StackPushed
<1>5. ASSUME taken = {} PROVE Good(World, stack')
  <2>1. Good(World, stack) /\ stack \in Seq(FrameSet)
    BY <1>5 DEF Inv, Typed
  <2>2. Good(World, Append(stack, Lpc("turn")))
    BY <1>1, <1>2, <2>1, GoodPushPlain
  <2> QED BY <1>3, <2>2
<1> QED BY <1>1, <1>4, <1>5, StackOnly DEF Inv, Typed

\* A clone is asked for.
LEMMA CloneAskedKeeps ==
  ASSUME Inv, NEW n \in Names, NEW x \in Names \cup {None}, x # None => x = n /\ named[n] = None,
         Operation, Go(Append(stack, CloneFrame(n, x))),
         UNCHANGED <<file, memory, prog, approved_object, taken>>
  PROVE  Inv'
<1> DEFINE f == CloneFrame(n, x)
<1>1. /\ stack # <<>> /\ Top.kind = "lpc" /\ stack' = Append(stack, f)
      /\ calls' = calls - 1 /\ calls > 0 /\ UNCHANGED <<fatal, leaked>>
  BY DEF Operation, Waits, Go
<1>2. /\ f \in FrameSet /\ f.kind = "clone" /\ f.got = "?" /\ f.name = n /\ f.index = x
  BY FramesMade
<1> HIDE DEF f
<1>3. stack \in Seq(FrameSet) /\ Shaped(stack) /\ calls' \in Nat
  BY <1>1 DEF Inv, Typed
<1>4. stack' \in Seq(FrameSet) /\ Shaped(stack')
  BY <1>1, <1>2, <1>3, StackPushed DEF Serves
<1>5. ASSUME taken = {} PROVE Good(World, stack')
  <2>1. Right(World, f)
    BY <1>2, MemoryAssumption DEF Right, World, Asks, Serves
  <2>2. Over(World, Last(stack), f)
    BY <1>1 DEF Over, Asks, Top
  <2>3. \A i \in DOMAIN stack : Apart(World, stack[i], f)
    BY <1>2 DEF Apart, Works
  <2> QED BY <1>1, <1>2, <1>3, <1>5, <2>1, <2>2, <2>3, GoodPush DEF Inv
<1> QED BY <1>1, <1>3, <1>4, <1>5, StackOnly DEF Inv, Typed

LEMMA CloneKeeps ==
  ASSUME Inv, NEW n \in Names, Clone(n)
  PROVE  Inv'
BY CloneAskedKeeps DEF Clone

LEMMA FindHashedKeeps ==
  ASSUME Inv, NEW n \in Names, FindHashed(n)
  PROVE  Inv'
BY CloneAskedKeeps DEF FindHashed

\* A file waits in place of the top, or on it.
LEMMA LoadPushed ==
  ASSUME NEW w, NEW s \in Seq(FrameSet), Shaped(s), s # <<>>, Asks(Last(s)), NEW n \in Names, NEW ch \in Seq(Names)
  PROVE  /\ Append(s, LoadFrame(n, ch)) \in Seq(FrameSet) /\ Shaped(Append(s, LoadFrame(n, ch)))
         /\ Good(w, s) /\ Last(s).got = "?" /\ Wanted(Last(s)) = n /\ w.table[n] = None =>
              Good(w, Append(s, LoadFrame(n, ch)))
<1> DEFINE f == LoadFrame(n, ch)
<1>1. f \in FrameSet /\ f.kind = "load" /\ f.name = n
  BY FramesMade
<1> HIDE DEF f
<1>2. Append(s, f) \in Seq(FrameSet) /\ Shaped(Append(s, f))
  BY <1>1, StackPushed
<1>3. ASSUME Good(w, s), Last(s).got = "?", Wanted(Last(s)) = n, w.table[n] = None
      PROVE  Good(w, Append(s, f))
  <2>1. Right(w, f)
    BY <1>1, <1>3 DEF Right, Served, Asks
  <2>2. Over(w, Last(s), f)
    BY <1>1, <1>3 DEF Over, Asks, Serves, Served
  <2>3. \A i \in DOMAIN s : Apart(w, s[i], f)
    BY <1>1 DEF Apart, Works
  <2> QED BY <1>1, <1>3, <2>1, <2>2, <2>3, GoodPush
<1> QED BY <1>2, <1>3 DEF f

LEMMA InheritedKeeps ==
  ASSUME Inv, Inherited
  PROVE  Inv'
<1>1. /\ stack # <<>> /\ Top.kind = "inherit"
      /\ IF Top.got = "nothing" THEN Error ELSE Go(Append(Below, LoadFrame(Top.name, <<>>)))
      /\ UNCHANGED <<file, memory, prog, approved_object, calls, taken>>
  BY DEF Inherited, Waits
<1>2. CASE Top.got = "nothing"
  BY <1>1, <1>2, ErrorOnly DEF Inv, Typed
<1>3. CASE Top.got # "nothing"
  <2>1. stack' = Append(Below, LoadFrame(Top.name, <<>>)) /\ UNCHANGED <<fatal, leaked>>
    BY <1>1, <1>3 DEF Go
  <2>2. Below \in Seq(FrameSet) /\ Shaped(Below) /\ Top \in FrameSet /\ Below # <<>> /\ Asks(Last(Below))
    BY <1>1, TopTyped DEF Inv, Serves
  <2>3. Top.name \in Names /\ <<>> \in Seq(Names)
    BY <1>1, <2>2, FrameKinds, EmptySeq
  <2>4. ASSUME taken = {}
        PROVE  /\ Good(World, Below) /\ Last(Below).got = "?" /\ Wanted(Last(Below)) = Top.name
               /\ World.table[Top.name] = None
    <3>1. Good(World, stack) /\ stack \in Seq(FrameSet)
      BY <2>4 DEF Inv, Typed
    <3>2. Over(World, Last(Below), Top) /\ Right(World, Top)
      BY <1>1, <2>2, <3>1, ChainedTop DEF Good, Top, Below
    <3> QED BY <1>1, <2>2, <3>1, <3>2, GoodPop DEF Over, Right, Serves, Served, Top, Below
  <2>5. stack' \in Seq(FrameSet) /\ Shaped(stack') /\ (taken = {} => Good(World, stack'))
    BY <2>1, <2>2, <2>3, <2>4, LoadPushed
  <2> QED BY <1>1, <2>1, <2>5, StackOnly DEF Inv, Typed
<1> QED BY <1>2, <1>3

\* The top is replaced by a frame of its kind, for the same file or program.
LEMMA TopReplaced ==
  ASSUME NEW w, NEW s \in Seq(FrameSet), s # <<>>, Shaped(s),
         NEW g \in FrameSet, g.kind = Last(s).kind
  PROVE  /\ Append(Front(s), g) \in Seq(FrameSet) /\ Shaped(Append(Front(s), g))
         /\ Append(Front(s), g) # <<>> /\ Last(Append(Front(s), g)) = g
         /\ /\ Good(w, s) /\ Right(w, g)
            /\ g.kind = "approve" => g.own = Last(s).own
            /\ Serves(g) /\ g.kind # "approve" => g.name = Last(s).name
            => Good(w, Append(Front(s), g))
<1> DEFINE b == Front(s)
           f == Last(s)
<1>1. /\ b \in Seq(FrameSet) /\ f \in FrameSet /\ s = Append(b, f) /\ Shaped(b)
      /\ Serves(f) => b # <<>> /\ Asks(Last(b))
  BY StackTop
<1>2. Serves(g) = Serves(f) /\ Works(g) = Works(f)
  BY DEF Serves, Works
<1> HIDE DEF b, f
<1>3. /\ Append(b, g) \in Seq(FrameSet) /\ Shaped(Append(b, g)) /\ Append(b, g) # <<>>
      /\ Last(Append(b, g)) = g
  BY <1>1, <1>2, StackPushed
<1>4. ASSUME Good(w, s), Right(w, g), g.kind = "approve" => g.own = f.own,
             Serves(g) /\ g.kind # "approve" => g.name = f.name
      PROVE  Good(w, Append(b, g))
  <2>1. g.kind = f.kind
    BY DEF f
  <2>2. Serves(g) => Served(w, g) = Served(w, f)
    BY <1>4, <2>1 DEF Served, Serves
  <2>3. /\ Chained(w, b) /\ (b # <<>> => Over(w, Last(b), f))
        /\ \A i \in DOMAIN b : Apart(w, b[i], f)
    <3>1. Chained(w, s)
      BY <1>4 DEF Good
    <3>2. Chained(w, Front(s)) /\ (Front(s) # <<>> => Over(w, Last(Front(s)), Last(s)))
      BY <3>1, ChainedTop
    <3>3. ASSUME NEW i \in DOMAIN Front(s) PROVE Apart(w, Front(s)[i], Last(s))
      BY <3>1, ChainedTop
    <3> QED BY <3>2, <3>3 DEF b, f
  <2>4. b # <<>> => Over(w, Last(b), g)
    BY <1>2, <2>2, <2>3 DEF Over
  <2>5. \A i \in DOMAIN b : Apart(w, b[i], g)
    BY <1>2, <2>1, <2>2, <2>3 DEF Apart, Serves
  <2>6. Chained(w, Append(b, g))
    BY <1>1, <1>4, <2>3, <2>4, <2>5, ChainedPushed
  <2>7. Holders(w, Append(b, g)) = Holders(w, Append(b, f))
    <3>1. CASE g.kind = "approve"
      <4>1. b \in Seq(FrameSet) /\ f \in FrameSet /\ g \in FrameSet /\ f.kind = "approve"
        BY <1>1, <2>1, <3>1
      <4>2. Holders(w, Append(b, f)) = Holders(w, b) \cup {<<<<"frame", Len(b) + 1>>, f.own>>}
        BY <4>1, HoldersPushed
      <4>3. Holders(w, Append(b, g)) = Holders(w, b) \cup {<<<<"frame", Len(b) + 1>>, g.own>>}
        BY <3>1, <4>1, HoldersPushed
      <4> QED BY <1>4, <3>1, <4>2, <4>3
    <3>2. CASE g.kind # "approve"
      <4>1. b \in Seq(FrameSet) /\ f \in FrameSet /\ g \in FrameSet /\ f.kind # "approve"
        BY <1>1, <2>1, <3>2
      <4>2. Holders(w, Append(b, f)) = Holders(w, b)
        BY <4>1, HoldersPushed
      <4>3. Holders(w, Append(b, g)) = Holders(w, b)
        BY <3>2, <4>1, HoldersPushed
      <4> QED BY <4>2, <4>3
    <3> QED BY <3>1, <3>2
  <2> QED BY <1>1, <1>4, <2>6, <2>7 DEF Good
<1> QED BY <1>3, <1>4 DEF b, f

\* LPC code is called.
LEMMA CallPushed ==
  ASSUME NEW w, NEW s \in Seq(FrameSet), Shaped(s), NEW why \in Calls
  PROVE  /\ Append(s, Lpc(why)) \in Seq(FrameSet) /\ Shaped(Append(s, Lpc(why)))
         /\ Lpc(why) \in FrameSet
         /\ Good(w, s) /\ (s # <<>> => ~ Asks(Last(s)) /\ Last(s).kind # "load")
              => Good(w, Append(s, Lpc(why)))
<1>1. Lpc(why) \in FrameSet /\ Plain(Lpc(why)) /\ ~ Serves(Lpc(why))
  <2>1. Lpc(why) \in FrameSet /\ Lpc(why).kind = "lpc"
    BY FramesMade
  <2> QED BY <2>1 DEF Plain, Serves
<1>2. Append(s, Lpc(why)) \in Seq(FrameSet) /\ Shaped(Append(s, Lpc(why)))
  BY <1>1, StackPushed
<1>3. ASSUME Good(w, s), s # <<>> => ~ Asks(Last(s)) /\ Last(s).kind # "load"
      PROVE  Good(w, Append(s, Lpc(why)))
  BY <1>1, <1>3, GoodPushPlain
<1> QED BY <1>1, <1>2, <1>3

LEMMA ParseErrorKeeps ==
  ASSUME Inv, ParseError
  PROVE  Inv'
<1> DEFINE g == ParseFrame(Top.name, Top.chain, 1, Top.lost)
           t == Append(Below, g)
<1>1. /\ stack # <<>> /\ Top.kind = "parse" /\ stack' = Below \o <<g, Lpc("log_error")>>
      /\ UNCHANGED <<file, memory, prog, approved_object, calls, taken, fatal, leaked>>
  BY DEF ParseError, Waits, Go
<1>2. Below \in Seq(FrameSet) /\ Top \in FrameSet /\ stack \in Seq(FrameSet) /\ Shaped(stack)
  BY <1>1, TopTyped DEF Inv, Typed
<1>3. g \in FrameSet /\ g.kind = "parse" /\ g.name = Top.name /\ g.lost = Top.lost
  <2>1. Top.name \in Names /\ Top.chain \in Seq(Names) /\ Top.lost \in BOOLEAN
    BY <1>1, <1>2, FrameKinds
  <2>2. 1 \in Nat
    OBVIOUS
  <2> QED BY <2>1, <2>2, ParseFrameMade
<1> HIDE DEF g, t
<1>4. t \in Seq(FrameSet) /\ Shaped(t) /\ t # <<>> /\ Last(t) = g
  BY <1>1, <1>2, <1>3, TopReplaced DEF t, Top, Below
<1>5. ASSUME taken = {} PROVE Good(World, t)
  <2>1. Good(World, stack)
    BY <1>5 DEF Inv
  <2>2. Right(World, Top)
    BY <1>1, <1>2, <2>1, ChainedTop DEF Good, Top
  <2>3. Right(World, g)
    BY <1>1, <1>3, <2>2 DEF Right, Served, Serves, Asks
  <2> QED BY <1>1, <1>2, <1>3, <2>1, <2>3, TopReplaced DEF t, Top, Below
<1>6. "log_error" \in Calls /\ ~ Asks(Last(t)) /\ Last(t).kind # "load"
  BY <1>3, <1>4 DEF Calls, Asks
<1>7. stack' = Append(t, Lpc("log_error"))
  <2>1. Lpc("log_error") \in FrameSet
    BY <1>4, <1>6, CallPushed
  <2> QED BY <1>1, <1>2, <1>3, <2>1, StackTwo DEF t
<1>8. stack' \in Seq(FrameSet) /\ Shaped(stack') /\ (taken = {} => Good(World, stack'))
  BY <1>4, <1>5, <1>6, <1>7, CallPushed
<1> QED BY <1>1, <1>8, StackOnly DEF Inv, Typed

LEMMA ApproveKeeps ==
  ASSUME Inv, Approve
  PROVE  Inv'
<1> DEFINE g == ApproveFrame(Top.own, TRUE)
           t == Append(Below, g)
<1>1. /\ stack # <<>> /\ Top.kind = "approve"
      /\ stack' = IF approved_object THEN Append(Below, g) ELSE Below \o <<g, Lpc("query_approve")>>
      /\ UNCHANGED <<file, memory, prog, approved_object, calls, taken, fatal, leaked>>
  BY DEF Approve, Waits, Go
<1>2. Below \in Seq(FrameSet) /\ Top \in FrameSet /\ stack \in Seq(FrameSet) /\ Shaped(stack)
  BY <1>1, TopTyped DEF Inv, Typed
<1>3. g \in FrameSet /\ g.kind = "approve" /\ g.own = Top.own
  BY <1>1, <1>2, FrameKinds, FramesMade
<1> HIDE DEF g, t
<1>4. t \in Seq(FrameSet) /\ Shaped(t) /\ t # <<>> /\ Last(t) = g
  BY <1>1, <1>2, <1>3, TopReplaced DEF t, Top, Below
<1>5. ASSUME taken = {} PROVE Good(World, t)
  <2>1. Good(World, stack)
    BY <1>5 DEF Inv
  <2>2. Right(World, Top)
    BY <1>1, <1>2, <2>1, ChainedTop DEF Good, Top
  <2>3. Right(World, g)
    BY <1>1, <1>3, <2>2 DEF Right, Served, Serves, Asks
  <2> QED BY <1>1, <1>2, <1>3, <2>1, <2>3, TopReplaced DEF t, Top, Below
<1>6. "query_approve" \in Calls /\ ~ Asks(Last(t)) /\ Last(t).kind # "load"
  BY <1>3, <1>4 DEF Calls, Asks
<1>7. CASE approved_object
  <2>1. stack' = t
    BY <1>1, <1>7 DEF t
  <2> QED BY <1>1, <1>4, <1>5, <2>1, StackOnly DEF Inv, Typed
<1>8. CASE ~ approved_object
  <2>1. stack' = Append(t, Lpc("query_approve"))
    <3>1. Lpc("query_approve") \in FrameSet
      BY <1>4, <1>6, CallPushed
    <3> QED BY <1>1, <1>2, <1>3, <1>8, <3>1, StackTwo DEF t
  <2>2. stack' \in Seq(FrameSet) /\ Shaped(stack') /\ (taken = {} => Good(World, stack'))
    BY <1>4, <1>5, <1>6, <2>1, CallPushed
  <2> QED BY <1>1, <2>2, StackOnly DEF Inv, Typed
<1> QED BY <1>7, <1>8

\* The frame that asked gets an answer.
LEMMA AnswerKeeps ==
  ASSUME NEW w, NEW s \in Seq(FrameSet), Shaped(s), s # <<>>, Asks(Last(s)), NEW x \in Answers
  PROVE  /\ Answer(s, x) \in Seq(FrameSet) /\ Shaped(Answer(s, x))
         /\ Good(w, s) /\ (x \in Progs => w.table[Wanted(Last(s))] = x) => Good(w, Answer(s, x))
<1> DEFINE f == Last(s)
           g == [f EXCEPT !.got = x]
<1>1. f \in FrameSet /\ Answer(s, x) = Append(Front(s), g)
  BY StackTop, StackAnswered
<1>2. /\ g \in FrameSet /\ g.kind = f.kind /\ g.name = f.name /\ g.got = x /\ Wanted(g) = Wanted(f)
      /\ f.kind = "clone" => g.index = f.index
      /\ f.kind = "inherit" => g.wants = f.wants
  BY <1>1, FrameAnswered
<1> HIDE DEF f, g
<1>3. g.kind = Last(s).kind /\ g.kind # "approve" /\ Asks(f)
  BY <1>2 DEF f, Asks
<1>4. Append(Front(s), g) \in Seq(FrameSet) /\ Shaped(Append(Front(s), g))
  BY <1>2, <1>3, TopReplaced
<1>5. ASSUME Good(w, s), x \in Progs => w.table[Wanted(f)] = x PROVE Good(w, Append(Front(s), g))
  <2>1. Right(w, f)
    <3>1. Chained(w, s)
      BY <1>5 DEF Good
    <3> QED BY <3>1, ChainedTop DEF f
  <2>2. Right(w, g)
    BY <1>2, <1>3, <1>5, <2>1 DEF Right, Served, Serves, Asks
  <2>3. g.name = Last(s).name
    BY <1>2 DEF f
  <2> QED BY <1>2, <1>3, <1>5, <2>2, <2>3, TopReplaced
<1> QED BY <1>1, <1>4, <1>5 DEF f

LEMMA FindKeeps ==
  ASSUME Inv, Find
  PROVE  Inv'
<1>1. /\ stack # <<>> /\ Top.kind = "clone" /\ Top.got = "?"
      /\ stack' = IF table[Top.name] # None THEN Append(Below, [Top EXCEPT !.got = table[Top.name]])
                  ELSE Append(stack, LoadFrame(Top.name, <<>>))
      /\ UNCHANGED <<file, memory, prog, approved_object, calls, taken, fatal, leaked>>
  BY DEF Find, Waits, Go
<1>2. stack \in Seq(FrameSet) /\ Shaped(stack) /\ Top \in FrameSet /\ Asks(Top) /\ Top.name \in Names
  BY <1>1, TopTyped, FrameKinds DEF Inv, Typed, Asks
<1>3. Wanted(Top) = Top.name /\ <<>> \in Seq(Names)
  BY <1>1, EmptySeq DEF Wanted
<1>4. CASE table[Top.name] # None
  <2>1. table[Top.name] \in Progs /\ table[Top.name] \in Answers
    BY <1>2, <1>4 DEF Inv, Typed, Answers
  <2>2. stack' = Answer(stack, table[Top.name])
    BY <1>1, <1>2, <1>4, StackAnswered DEF Top, Below
  <2>3. World.table[Wanted(Top)] = table[Top.name]
    BY <1>3 DEF World
  <2>4. stack' \in Seq(FrameSet) /\ Shaped(stack') /\ (taken = {} => Good(World, stack'))
    BY <1>1, <1>2, <2>1, <2>2, <2>3, AnswerKeeps DEF Top, Inv
  <2> QED BY <1>1, <2>4, StackOnly DEF Inv, Typed
<1>5. CASE table[Top.name] = None
  <2>1. stack' = Append(stack, LoadFrame(Top.name, <<>>)) /\ World.table[Top.name] = None
    BY <1>1, <1>5 DEF World
  <2>2. stack' \in Seq(FrameSet) /\ Shaped(stack') /\ (taken = {} => Good(World, stack'))
    BY <1>1, <1>2, <1>3, <2>1, LoadPushed DEF Top, Inv
  <2> QED BY <1>1, <2>2, StackOnly DEF Inv, Typed
<1> QED BY <1>4, <1>5

LEMMA AskVirtualKeeps ==
  ASSUME Inv, AskVirtual
  PROVE  Inv'
<1> DEFINE f == [kind |-> "virtual", index |-> Top.index]
           t == Append(Below, f)
<1>1. /\ stack # <<>> /\ Top.kind = "clone" /\ stack' = Below \o <<f, Lpc("compile_object")>>
      /\ UNCHANGED <<file, memory, prog, approved_object, calls, taken, fatal, leaked>>
  BY DEF AskVirtual, Waits, Go
<1>2. /\ stack \in Seq(FrameSet) /\ Top \in FrameSet /\ Below \in Seq(FrameSet) /\ Shaped(Below)
      /\ Top.index \in Names \cup {None}
  BY <1>1, TopTyped, FrameKinds DEF Inv, Typed
<1>3. f \in FrameSet /\ f.kind = "virtual"
  BY <1>2 DEF FrameSet, VirtualFrames
<1> HIDE DEF f, t
<1>4. t \in Seq(FrameSet) /\ Shaped(t) /\ t # <<>> /\ Last(t) = f
  BY <1>2, <1>3, StackPushed DEF t, Serves
<1>5. ASSUME taken = {} PROVE Good(World, t)
  <2>1. Good(World, stack)
    BY <1>5 DEF Inv
  <2>2. Good(World, Below)
    BY <1>1, <1>2, <2>1, GoodPop DEF Top, Below
  <2>3. Below # <<>> => Over(World, Last(Below), Top)
    BY <1>1, <1>2, <2>1, ChainedTop DEF Good, Top, Below
  <2>4. Below # <<>> => ~ Asks(Last(Below)) /\ Last(Below).kind # "load"
    BY <1>1, <2>3 DEF Over, Serves
  <2> QED BY <1>2, <1>3, <2>2, <2>4, GoodPushPlain DEF Plain, t
<1>6. "compile_object" \in Calls /\ ~ Asks(Last(t)) /\ Last(t).kind # "load"
  BY <1>3, <1>4 DEF Calls, Asks
<1>7. stack' = Append(t, Lpc("compile_object"))
  <2>1. Lpc("compile_object") \in FrameSet
    BY <1>4, <1>6, CallPushed
  <2> QED BY <1>1, <1>2, <1>3, <2>1, StackTwo DEF t
<1>8. stack' \in Seq(FrameSet) /\ Shaped(stack') /\ (taken = {} => Good(World, stack'))
  BY <1>4, <1>5, <1>6, <1>7, CallPushed
<1> QED BY <1>1, <1>8, StackOnly DEF Inv, Typed

LEMMA LoadObjectKeeps ==
  ASSUME Inv, LoadObject
  PROVE  Inv'
<1> DEFINE misuse == (IF Frames("parse") = {} THEN {} ELSE {"log_loads"}) \cup
                     (IF Frames("approve") = {} THEN {} ELSE {"approve_loads"})
           t == [i \in DOMAIN Below |->
                   IF Below[i].kind # "parse" THEN Below[i]
                   ELSE ParseFrame(Below[i].name, Below[i].chain, Below[i].errors, TRUE)]
           f == ParseFrame(Top.name, Top.chain, 0, FALSE)
<1>1. stack # <<>> /\ Top.kind = "load" /\ UNCHANGED <<file, memory, prog, approved_object, calls>>
  BY DEF LoadObject, Waits
<1>2. \/ Go(Answer(Below, "nothing")) /\ UNCHANGED taken
      \/ Error /\ UNCHANGED taken
      \/ misuse \subseteq Liberties /\ taken' = taken \cup misuse /\ Go(Append(t, f))
  BY DEF LoadObject
<1>3. /\ stack \in Seq(FrameSet) /\ Top \in FrameSet /\ Below \in Seq(FrameSet) /\ Shaped(Below)
      /\ Below # <<>> /\ Asks(Last(Below)) /\ Top.name \in Names /\ Top.chain \in Seq(Names)
  BY <1>1, TopTyped, FrameKinds DEF Inv, Typed, Serves
<1>4. CASE Go(Answer(Below, "nothing")) /\ UNCHANGED taken
  <2>1. stack' = Answer(Below, "nothing") /\ UNCHANGED <<fatal, leaked>>
    BY <1>4 DEF Go
  <2>2. "nothing" \in Answers /\ "nothing" \notin Progs
    BY MemoryAssumption DEF Answers
  <2>3. ASSUME taken = {} PROVE Good(World, Below)
    BY <1>1, <1>3, <2>3, GoodPop DEF Inv, Top, Below
  <2>4. stack' \in Seq(FrameSet) /\ Shaped(stack') /\ (taken = {} => Good(World, stack'))
    BY <1>3, <2>1, <2>2, <2>3, AnswerKeeps
  <2> QED BY <1>1, <1>4, <2>1, <2>4, StackOnly DEF Inv, Typed
<1>5. CASE Error /\ UNCHANGED taken
  BY <1>1, <1>5, ErrorOnly DEF Inv, Typed
<1>6. CASE misuse \subseteq Liberties /\ taken' = taken \cup misuse /\ Go(Append(t, f))
  <2>1. stack' = Append(t, f) /\ UNCHANGED <<fatal, leaked>>
    BY <1>6 DEF Go
  <2>2. /\ taken' \subseteq Liberties
        /\ taken' = {} => taken = {} /\ Frames("parse") = {} /\ Frames("approve") = {}
    <3>1. taken \subseteq Liberties
      BY DEF Inv, Typed
    <3>2. misuse = {} => Frames("parse") = {} /\ Frames("approve") = {}
      OBVIOUS
    <3> HIDE DEF misuse
    <3> QED BY <1>6, <3>1, <3>2
  <2>3. f \in FrameSet /\ f.kind = "parse" /\ f.name = Top.name /\ f.lost = FALSE
    <3>1. 0 \in Nat /\ FALSE \in BOOLEAN
      OBVIOUS
    <3> QED BY <1>3, <3>1, ParseFrameMade
  <2>4. DOMAIN Below = 1 .. Len(Below) /\ Len(Below) \in Nat /\ \A i \in DOMAIN Below : Below[i] \in FrameSet
    BY <1>3, LenProperties, ElementOfSeq
  <2>5. \A i \in DOMAIN Below : t[i] \in FrameSet /\ t[i].kind = Below[i].kind
    <3> SUFFICES ASSUME NEW i \in DOMAIN Below PROVE t[i] \in FrameSet /\ t[i].kind = Below[i].kind
      OBVIOUS
    <3>1. CASE Below[i].kind # "parse"
      BY <2>4, <3>1
    <3>2. CASE Below[i].kind = "parse"
      <4>1. /\ Below[i].name \in Names /\ Below[i].chain \in Seq(Names) /\ Below[i].errors \in Nat
            /\ t[i] = ParseFrame(Below[i].name, Below[i].chain, Below[i].errors, TRUE)
        BY <2>4, <3>2, FrameKinds
      <4>2. TRUE \in BOOLEAN
        OBVIOUS
      <4> DEFINE g == ParseFrame(Below[i].name, Below[i].chain, Below[i].errors, TRUE)
      <4>3. g \in FrameSet /\ g.kind = "parse"
        BY <4>1, <4>2, ParseFrameMade
      <4>4. t[i] = g
        BY <4>1
      <4> HIDE DEF t, g
      <4> QED BY <3>2, <4>3, <4>4
    <3> QED BY <3>1, <3>2
  <2>6. ASSUME Frames("parse") = {} PROVE t = Below
    <3>1. \A i \in DOMAIN Below : Below[i].kind # "parse"
      BY <1>1, <1>3, <2>6, TopTyped, StackTop DEF Inv, Below
    <3>2. t = [i \in 1 .. Len(Below) |-> Below[i]]
      BY <2>4, <3>1
    <3>3. Below = [i \in 1 .. Len(Below) |-> Below[i]]
      BY <1>3, <2>4
    <3> QED BY <3>2, <3>3
  <2>7. t = [i \in 1 .. Len(Below) |-> t[i]]
    BY <2>4
  <2> HIDE DEF t, f, misuse
  <2>8. t \in Seq(FrameSet) /\ DOMAIN t = DOMAIN Below /\ Len(t) = Len(Below)
    BY <2>4, <2>5, <2>7
  <2>9. Shaped(t) /\ t # <<>> /\ Asks(Last(t))
    <3>1. Shaped(t)
      <4> SUFFICES ASSUME NEW i \in DOMAIN t, Serves(t[i]) PROVE i > 1 /\ Asks(t[i - 1])
        BY DEF Shaped
      <4>1. i > 1 /\ Asks(Below[i - 1])
        BY <1>3, <2>5, <2>8 DEF Shaped, Serves
      <4>2. i - 1 \in DOMAIN Below
        BY <2>4, <2>8, <4>1
      <4> QED BY <2>5, <4>1, <4>2 DEF Asks
    <3>2. Len(Below) \in DOMAIN Below /\ Last(Below) = Below[Len(Below)]
      BY <1>3, StackEnd
    <3>3. t # <<>>
      BY <2>8, <3>2, EmptySeq
    <3>4. Last(t) = t[Len(Below)]
      BY <2>8, <3>3, StackEnd
    <3> QED BY <1>3, <2>5, <3>1, <3>2, <3>3, <3>4 DEF Asks
  <2>10. stack' \in Seq(FrameSet) /\ Shaped(stack')
    BY <2>1, <2>3, <2>8, <2>9, StackPushed
  <2>11. ASSUME taken' = {} PROVE Good(World, stack')
    <3>1. Good(World, stack) /\ Frames("parse") = {} /\ Frames("approve") = {} /\ t = Below
      BY <2>2, <2>6, <2>11 DEF Inv
    <3>2. /\ Good(World, Below) /\ Right(World, Top) /\ Over(World, Last(Below), Top)
      BY <1>1, <1>3, <3>1, ChainedTop, GoodPop DEF Good, Top, Below
    <3>3. Right(World, f)
      BY <1>1, <2>3, <3>2 DEF Right, Serves, Served, Asks
    <3>4. Over(World, Last(Below), f)
      BY <1>1, <2>3, <3>2 DEF Over, Serves, Served
    <3>5. \A i \in DOMAIN Below : Below[i].kind # "parse" /\ Below[i].kind # "approve"
      BY <1>1, <1>3, <3>1, TopTyped, StackTop DEF Inv, Below
    <3>6. \A i \in DOMAIN Below : Apart(World, Below[i], f)
      BY <2>3, <3>5 DEF Apart, Works
    <3> QED BY <1>3, <2>1, <2>3, <3>1, <3>2, <3>3, <3>4, <3>6, GoodPush
  <2> QED BY <1>1, <2>1, <2>2, <2>10, <2>11, StackOnly DEF Inv, Typed
<1> QED BY <1>2, <1>4, <1>5, <1>6

-----------------------------------------------------------------------------
(* The operations that change names and objects                            *)

\* The holders stay, and the frames stay right.
LEMMA GoodSame ==
  ASSUME NEW w, NEW v, NEW s, Good(w, s), v.code = w.code, SameHolders(w, v),
         NamesAgree(v), \A i \in DOMAIN s : Same(w, v, s[i])
  PROVE  Good(v, s)
BY ChainedSame, HoldersSame DEF Good

LEMMA EditKeeps ==
  ASSUME Inv, NEW n \in Names, Edit(n)
  PROVE  Inv'
<1>1. /\ stack # <<>> /\ stack' = stack /\ calls' = calls - 1 /\ calls > 0
      /\ UNCHANGED <<memory, prog, approved_object, taken, fatal, leaked>>
      /\ file' = [file EXCEPT ![n] = IF @.broken THEN [@ EXCEPT !.broken = FALSE]
                                     ELSE [@ EXCEPT !.exists = FALSE]]
  BY DEF Edit, Operation, Waits, Go
<1>2. ASSUME NEW m \in Names
      PROVE  /\ file'[m].inherits = file[m].inherits
             /\ file'[m] \in [inherits: Seq(Names), broken: BOOLEAN, exists: BOOLEAN]
  <2>1. file[m] \in [inherits: Seq(Names), broken: BOOLEAN, exists: BOOLEAN]
    BY DEF Inv, Typed
  <2>2. file'[m] = IF m # n THEN file[m] ELSE IF file[n].broken THEN [file[n] EXCEPT !.broken = FALSE]
                                              ELSE [file[n] EXCEPT !.exists = FALSE]
    BY <1>1 DEF Inv, Typed
  <2> QED BY <2>1, <2>2
<1>3. file' \in [Names -> [inherits: Seq(Names), broken: BOOLEAN, exists: BOOLEAN]]
  BY <1>1, <1>2 DEF Inv, Typed
<1>4. Typed'
  BY <1>1, <1>3 DEF Inv, Typed, memory
<1>5. ASSUME taken' = {} PROVE Good(World', stack)
  <2>1. Good(World, stack)
    BY <1>1, <1>5 DEF Inv
  <2>2. /\ World'.code = World.code /\ SameHolders(World, World') /\ NamesAgree(World')
    BY <1>1, <2>1 DEF World, memory, SameHolders, Good, NamesAgree
  <2>3. ASSUME NEW i \in DOMAIN stack PROVE Same(World, World', stack[i])
    <3>1. stack[i].kind = "inherit" => stack[i].name \in Names
      BY FrameKinds, ElementOfSeq, LenProperties DEF Inv, Typed
    <3>2. stack[i].kind = "inherit" => World'.file[stack[i].name].inherits = World.file[stack[i].name].inherits
      BY <1>2, <3>1 DEF World
    <3>3. /\ World'.code = World.code /\ World'.table = World.table /\ World'.named = World.named
          /\ World'.prog = World.prog /\ World'.leaked = World.leaked
      BY <1>1 DEF World, memory
    <3> QED BY <3>2, <3>3 DEF Same, Right, Served
  <2> QED BY <2>1, <2>2, <2>3, GoodSame
<1> QED BY <1>1, <1>4, <1>5 DEF Inv

\* Under a frame that serves nobody, nobody waits.
LEMMA NobodyWaits ==
  ASSUME NEW w, NEW s \in Seq(FrameSet), s # <<>>, Good(w, s), ~ Serves(Last(s))
  PROVE  Front(s) # <<>> => ~ Asks(Last(Front(s))) /\ Last(Front(s)).kind # "load"
<1>1. Chained(w, s)
  BY DEF Good
<1>2. Front(s) # <<>> => Over(w, Last(Front(s)), Last(s))
  BY <1>1, ChainedTop
<1> QED BY <1>2 DEF Over

\* A destructed object gives its name back.
LEMMA RemovedGood ==
  ASSUME Typed, NEW s \in Seq(FrameSet), Good(World, s), NEW o \in Objs, object[o].state = "live", Removed(o),
         NEW v, v.file = file, v.code = code, v.table = table, v.object = object', v.named = named',
         v.prog = prog, v.leaked = leaked
  PROVE  Good(v, s)
<1>1. NamesAgree(World) /\ Chained(World, s)
  BY DEF Good
<1>2. /\ object[o].index # None => named[object[o].index] = o
      /\ object[o].index \in Names \cup {None}
  BY <1>1 DEF NamesAgree, World, Typed, Entries
<1>3. ASSUME NEW q \in Objs
      PROVE  /\ object'[q].prog = object[q].prog /\ object'[q].index = object[q].index
             /\ object'[q].state = IF q = o THEN "destructed" ELSE object[q].state
  <2>1. object[q] \in Entries /\ object'[q] = IF q = o THEN [object[q] EXCEPT !.state = "destructed"] ELSE object[q]
    BY DEF Removed, Typed
  <2> QED BY <2>1 DEF Entries
<1>4. ASSUME NEW m \in Names PROVE named'[m] = IF m = object[o].index THEN None ELSE named[m]
  BY <1>2, <1>4, NoneAssumption DEF Removed, Typed
<1>5. NamesAgree(v)
  <2>1. ASSUME NEW m \in Names, v.table[m] # None PROVE v.code[v.table[m]].name = m
    BY <1>1, <2>1 DEF NamesAgree, World
  <2>2. ASSUME NEW m \in Names, v.named[m] # None
        PROVE  v.object[v.named[m]].state = "live" /\ v.object[v.named[m]].index = m
    <3>1. named'[m] = named[m] /\ named[m] \in Objs /\ m # object[o].index
      BY <1>4, <2>2 DEF Typed
    <3>2. object[named[m]].state = "live" /\ object[named[m]].index = m
      BY <1>1, <2>2, <3>1 DEF NamesAgree, World
    <3> QED BY <1>3, <3>1, <3>2
  <2>3. ASSUME NEW q \in Objs, v.object[q].state = "live", v.object[q].index # None
        PROVE  v.named[v.object[q].index] = q
    <3>1. q # o /\ object[q].state = "live" /\ v.object[q].index = object[q].index
      BY <1>3, <2>3
    <3>2. named[object[q].index] = q /\ object[q].index \in Names
      BY <1>1, <2>3, <3>1 DEF NamesAgree, World, Typed, Entries
    <3>3. object[q].index # object[o].index
      BY <1>2, <2>3, <3>1, <3>2
    <3> QED BY <1>4, <3>1, <3>2, <3>3
  <2>4. ASSUME NEW q \in Objs PROVE v.object[q].state = "free" <=> v.object[q].prog = None
    <3>1. object[q].state = "free" <=> object[q].prog = None
      BY <1>1 DEF NamesAgree, World
    <3>2. /\ v.object[q].prog = object[q].prog
          /\ v.object[q].state = IF q = o THEN "destructed" ELSE object[q].state
      BY <1>3
    <3> QED BY <3>1, <3>2
  <2> QED BY <2>1, <2>2, <2>3, <2>4 DEF NamesAgree
<1>6. SameHolders(World, v)
  BY <1>3 DEF SameHolders, World
<1>7. ASSUME NEW i \in DOMAIN s PROVE Same(World, v, s[i])
  <2>1. s[i].kind = "clone" => s[i].index \in Names \cup {None}
    BY FrameKinds, ElementOfSeq, LenProperties
  <2>2. \A m \in Names : World.named[m] = None => v.named[m] = None
    BY <1>4 DEF World
  <2>3. /\ v.code = World.code /\ v.table = World.table /\ v.prog = World.prog
        /\ v.leaked = World.leaked /\ v.file = World.file
    BY DEF World
  <2> QED BY <2>1, <2>2, <2>3 DEF Same, Right, Served
<1>8. v.code = World.code
  BY DEF World
<1> QED BY <1>5, <1>6, <1>7, <1>8, GoodSame

LEMMA RemovedTyped ==
  ASSUME Typed, NEW o \in Objs, Removed(o)
  PROVE  object' \in [Objs -> Entries] /\ named' \in [Names -> Objs \cup {None}]
<1>1. \A q \in Objs : object[q] \in Entries /\ [object[q] EXCEPT !.state = "destructed"] \in Entries
  BY DEF Typed, Entries
<1>2. object' \in [Objs -> Entries]
  BY <1>1 DEF Removed, Typed
<1>3. named' \in [Names -> Objs \cup {None}]
  BY DEF Removed, Typed
<1> QED BY <1>2, <1>3

LEMMA DestructKeeps ==
  ASSUME Inv, NEW o \in Objs, Destruct(o)
  PROVE  Inv'
<1>1. /\ object[o].state = "live" /\ stack # <<>> /\ calls' = calls - 1 /\ calls > 0
      /\ UNCHANGED <<file, code, table, prog, approved_object, taken>>
      /\ \/ MayRemove(o) /\ Removed(o) /\ Go(stack)
         \/ ~ MayRemove(o) /\ Fatal("Remove object: found a different object") /\ UNCHANGED <<object, named>>
  BY DEF Destruct, Operation, Waits
<1>2. CASE MayRemove(o) /\ Removed(o) /\ Go(stack)
  <2>1. stack' = stack /\ UNCHANGED <<fatal, leaked>>
    BY <1>2 DEF Go
  <2>2. Typed'
    BY <1>1, <1>2, <2>1, RemovedTyped DEF Inv, Typed
  <2>3. ASSUME taken' = {} PROVE Good(World', stack)
    <3>1. /\ World'.file = file /\ World'.code = code /\ World'.table = table /\ World'.object = object'
          /\ World'.named = named' /\ World'.prog = prog /\ World'.leaked = leaked
      BY <1>1, <2>1 DEF World
    <3>2. Good(World, stack) /\ Typed /\ stack \in Seq(FrameSet)
      BY <1>1, <2>3 DEF Inv, Typed
    <3> QED BY <1>1, <1>2, <3>1, <3>2, RemovedGood
  <2> QED BY <1>1, <2>1, <2>2, <2>3 DEF Inv
<1>3. CASE ~ MayRemove(o) /\ UNCHANGED <<object, named, stack, leaked>>
  <2>1. Typed'
    <3>1. calls' \in Nat
      <4>1. calls' = calls - 1 /\ calls > 0
        BY <1>1
      <4> QED BY <4>1 DEF Inv, Typed
    <3>2. UNCHANGED <<file, code, table, object, named, prog, approved_object, stack, taken, leaked>>
      BY <1>1, <1>3
    <3> QED BY <3>1, <3>2 DEF Inv, Typed
  <2>2. taken # {}
    <3> SUFFICES ASSUME taken = {} PROVE MayRemove(o)
      BY <1>3
    <3>1. NamesAgree(World)
      BY DEF Inv, Good
    <3> QED BY <1>1, <3>1 DEF NamesAgree, World, MayRemove
  <2> QED BY <1>1, <2>1, <2>2 DEF Inv
<1> QED BY <1>1, <1>2, <1>3 DEF Fatal

LEMMA UidDoneKeeps ==
  ASSUME Inv, UidDone
  PROVE  Inv'
<1> DEFINE o == Top.ob
<1>1. /\ stack # <<>> /\ Top.kind = "uid" /\ UNCHANGED <<file, code, table, prog, approved_object, calls, taken>>
      /\ \/ Error /\ UNCHANGED <<object, named>>
         \/ object[o].state = "live" /\ Removed(o) /\ Error
         \/ Go(Append(Below, Lpc("create"))) /\ UNCHANGED <<object, named>>
  BY DEF UidDone, Waits
<1>2. /\ stack \in Seq(FrameSet) /\ Top \in FrameSet /\ Below \in Seq(FrameSet) /\ Shaped(Below) /\ o \in Objs
  BY <1>1, TopTyped, FrameKinds DEF Inv, Typed
<1>3. CASE Error /\ UNCHANGED <<object, named>>
  BY <1>1, <1>3, ErrorOnly DEF Inv, Typed, memory
<1>4. CASE object[o].state = "live" /\ Removed(o) /\ Error
  <2> DEFINE w == [file |-> file, code |-> code, table |-> table, object |-> object', named |-> named',
                   prog |-> prog, leaked |-> leaked]
  <2>1. stack' \in Seq(FrameSet) /\ Shaped(stack') /\ leaked' \subseteq Progs /\ fatal' = fatal
    BY <1>1, <1>4, ErrorTyped DEF Inv
  <2>2. Typed'
    BY <1>1, <1>2, <1>4, <2>1, RemovedTyped DEF Inv, Typed
  <2>3. ASSUME taken' = {} PROVE Good(World', stack')
    <3>1. /\ w.file = file /\ w.code = code /\ w.table = table /\ w.object = object'
          /\ w.named = named' /\ w.prog = prog /\ w.leaked = leaked
      OBVIOUS
    <3>2. Reached(w)
      BY <1>1 DEF Reached
    <3> HIDE DEF w
    <3>3. Good(w, stack)
      BY <1>1, <1>2, <1>4, <2>3, <3>1, RemovedGood DEF Inv
    <3> QED BY <1>1, <1>4, <3>2, <3>3, ErrorFrom DEF Inv
  <2> QED BY <1>1, <2>1, <2>2, <2>3 DEF Inv
<1>5. CASE Go(Append(Below, Lpc("create"))) /\ UNCHANGED <<object, named>>
  <2>1. stack' = Append(Below, Lpc("create")) /\ UNCHANGED <<fatal, leaked>> /\ "create" \in Calls
    BY <1>5 DEF Go, Calls
  <2>2. ASSUME taken = {} PROVE Good(World, stack')
    <3>1. Good(World, stack)
      BY <2>2 DEF Inv
    <3>2. Good(World, Below) /\ (Below # <<>> => ~ Asks(Last(Below)) /\ Last(Below).kind # "load")
      BY <1>1, <1>2, <3>1, GoodPop, NobodyWaits DEF Top, Below, Serves
    <3> QED BY <1>2, <2>1, <3>2, CallPushed
  <2>3. stack' \in Seq(FrameSet) /\ Shaped(stack')
    BY <1>2, <2>1, CallPushed
  <2> QED BY <1>1, <1>5, <2>1, <2>2, <2>3, StackOnly DEF Inv, Typed, memory
<1> QED BY <1>1, <1>3, <1>4, <1>5

LEMMA VirtualDoneKeeps ==
  ASSUME Inv, VirtualDone
  PROVE  Inv'
<1> DEFINE n == Top.index
<1>1. stack # <<>> /\ Top.kind = "virtual" /\ UNCHANGED <<file, code, table, prog, approved_object, calls>>
  BY DEF VirtualDone, Waits
<1>2. /\ stack \in Seq(FrameSet) /\ Top \in FrameSet /\ Below \in Seq(FrameSet) /\ Shaped(Below)
      /\ n \in Names \cup {None}
  BY <1>1, TopTyped, FrameKinds DEF Inv, Typed
<1>3. ASSUME taken = {} PROVE Good(World, Below) /\ NamesAgree(World)
  BY <1>1, <1>2, <1>3, GoodPop DEF Inv, Top, Below, Good
<1>4. CASE Error /\ UNCHANGED <<object, named, taken>>
  BY <1>1, <1>4, ErrorOnly DEF Inv, Typed, memory
<1>5. CASE Go(Below) /\ UNCHANGED <<object, named, taken>>
  <2>1. stack' = Below /\ UNCHANGED <<fatal, leaked>>
    BY <1>5 DEF Go
  <2> QED BY <1>1, <1>2, <1>3, <1>5, <2>1, StackOnly DEF Inv, Typed, memory
<1>6. ASSUME NEW o \in Objs, object[o].state = "live", n # None,
             LET misuse == IF \/ object[o].index # None \/ named[n] # None
                              \/ \E f \in Frames("clone") : f.index = n
                           THEN {"virtual_named"} ELSE {}
             IN misuse \subseteq Liberties /\ taken' = taken \cup misuse,
             object' = [object EXCEPT ![o].index = n],
             IF named[n] # None THEN Error /\ UNCHANGED named
             ELSE named' = [named EXCEPT ![n] = o] /\ Go(Below)
      PROVE  Inv'
  <2>1. n \in Names
    BY <1>2, <1>6
  <2>2. /\ taken \subseteq Liberties => taken' \subseteq Liberties
        /\ taken' = {} => taken = {} /\ object[o].index = None /\ named[n] = None
                            /\ \A f \in Frames("clone") : f.index # n
    <3> DEFINE misuse == IF \/ object[o].index # None \/ named[n] # None
                            \/ \E f \in Frames("clone") : f.index = n
                         THEN {"virtual_named"} ELSE {}
    <3>1. misuse \subseteq Liberties /\ taken' = taken \cup misuse
      BY <1>6
    <3>2. misuse = {} => object[o].index = None /\ named[n] = None /\ \A f \in Frames("clone") : f.index # n
      OBVIOUS
    <3> HIDE DEF misuse
    <3> QED BY <3>1, <3>2
  <2>3. ASSUME NEW q \in Objs
        PROVE  /\ object'[q] \in Entries
               /\ object'[q].prog = object[q].prog /\ object'[q].state = object[q].state
               /\ object'[q].index = IF q = o THEN n ELSE object[q].index
    <3>1. object[q] \in Entries /\ object'[q] = IF q = o THEN [object[q] EXCEPT !.index = n] ELSE object[q]
      BY <1>6 DEF Inv, Typed
    <3> QED BY <2>1, <3>1 DEF Entries
  <2>4. object' \in [Objs -> Entries]
    BY <1>6, <2>3 DEF Inv, Typed
  <2>5. CASE named[n] # None
    <3>1. taken' # {} /\ Error /\ UNCHANGED named
      BY <1>6, <2>2, <2>5
    <3>2. stack' \in Seq(FrameSet) /\ Shaped(stack') /\ leaked' \subseteq Progs
      BY <1>1, <3>1, ErrorTyped DEF Inv
    <3>3. Typed'
      BY <1>1, <2>2, <2>4, <3>1, <3>2 DEF Inv, Typed
    <3> QED BY <3>1, <3>3 DEF Inv
  <2>6. CASE named' = [named EXCEPT ![n] = o] /\ Go(Below)
    <3>1. stack' = Below /\ UNCHANGED <<fatal, leaked>>
      BY <2>6 DEF Go
    <3>2. \A m \in Names : named'[m] = IF m = n THEN o ELSE named[m]
      BY <2>6 DEF Inv, Typed
    <3>3. named' \in [Names -> Objs \cup {None}]
      BY <2>6 DEF Inv, Typed
    <3>4. Typed'
      BY <1>1, <1>2, <2>2, <2>4, <3>1, <3>3 DEF Inv, Typed
    <3>5. ASSUME taken' = {} PROVE Good(World', Below)
      <4>1. /\ World'.file = World.file /\ World'.code = World.code /\ World'.table = World.table
            /\ World'.object = object' /\ World'.named = named' /\ World'.prog = World.prog
            /\ World'.leaked = World.leaked
        BY <1>1, <3>1 DEF World
      <4>2. /\ taken = {} /\ object[o].index = None /\ named[n] = None
            /\ \A f \in Frames("clone") : f.index # n
        BY <2>2, <3>5
      <4>3. Good(World, Below) /\ NamesAgree(World)
        BY <1>3, <4>2
      <4>4. NamesAgree(World')
        <5>1. ASSUME NEW m \in Names, World'.table[m] # None PROVE World'.code[World'.table[m]].name = m
          BY <4>1, <4>3, <5>1 DEF NamesAgree
        <5>2. ASSUME NEW m \in Names, named'[m] # None
              PROVE  object'[named'[m]].state = "live" /\ object'[named'[m]].index = m
          <6>1. CASE m = n
            BY <1>6, <2>3, <3>2, <6>1
          <6>2. CASE m # n
            <7>1. named'[m] = named[m] /\ named[m] \in Objs
              BY <3>2, <5>2, <6>2 DEF Inv, Typed
            <7>2. object[named[m]].state = "live" /\ object[named[m]].index = m
              BY <4>3, <5>2, <7>1 DEF NamesAgree, World
            <7>3. named[m] # o
              BY <4>2, <7>2, NoneAssumption
            <7> QED BY <2>3, <7>1, <7>2, <7>3
          <6> QED BY <6>1, <6>2
        <5>3. ASSUME NEW q \in Objs, object'[q].state = "live", object'[q].index # None
              PROVE  named'[object'[q].index] = q
          <6>1. CASE q = o
            BY <2>1, <2>3, <3>2, <6>1
          <6>2. CASE q # o
            <7>1. object'[q].index = object[q].index /\ object[q].state = "live" /\ object[q].index \in Names
              BY <2>3, <5>3, <6>2 DEF Entries
            <7>2. named[object[q].index] = q
              BY <4>3, <5>3, <7>1 DEF NamesAgree, World
            <7>3. object[q].index # n
              BY <4>2, <7>2, NoneAssumption
            <7> QED BY <3>2, <7>1, <7>2, <7>3
          <6> QED BY <6>1, <6>2
        <5>4. ASSUME NEW q \in Objs PROVE object'[q].state = "free" <=> object'[q].prog = None
          BY <2>3, <4>3 DEF NamesAgree, World
        <5> QED BY <4>1, <5>1, <5>2, <5>3, <5>4 DEF NamesAgree
      <4>5. SameHolders(World, World')
        BY <2>3, <4>1 DEF SameHolders, World
      <4>6. ASSUME NEW i \in DOMAIN Below PROVE Same(World, World', Below[i])
        <5>1. Below[i] = stack[i] /\ i \in DOMAIN stack /\ Below[i] \in FrameSet
          BY <1>1, <1>2, StackTop, ElementOfSeq, LenProperties DEF Below
        <5>2. Below[i].kind = "clone" => Below[i].index # n /\ Below[i].index \in Names \cup {None}
          BY <4>2, <5>1, FrameKinds DEF Frames
        <5>3. \A m \in Names : m # n /\ World.named[m] = None => World'.named[m] = None
          BY <3>2, <4>1 DEF World
        <5> QED BY <4>1, <5>2, <5>3 DEF Same, Right, Served
      <4> QED BY <4>1, <4>3, <4>4, <4>5, <4>6, GoodSame
    <3> QED BY <2>2, <3>1, <3>4, <3>5 DEF Inv
  <2> QED BY <1>6, <2>5, <2>6
<1> QED BY <1>4, <1>5, <1>6 DEF VirtualDone

-----------------------------------------------------------------------------
(* The operations that change counts                                       *)

\* Who has a holder in the end has kept the name.
LEMMA HeldNames ==
  ASSUME NEW c, NEW d, NEW M, Sound(d, M), Within(d, c)
  PROVE  \A x \in M : d[x[2]].name = c[x[2]].name /\ x[2] \in Progs
BY HeldLives DEF Within

LEMMA MakeObjectKeeps ==
  ASSUME Inv, MakeObject
  PROVE  Inv'
<1> DEFINE n == Top.index
           p == Top.got
<1>1. /\ stack # <<>> /\ Top.kind = "clone" /\ p \in Progs
      /\ UNCHANGED <<file, table, prog, approved_object, calls, taken>>
      /\ code' = Referenced(code, <<p>>)
  BY DEF MakeObject, Waits
<1>2. PICK o \in Objs :
        /\ object[o].state = "free"
        /\ object' = [object EXCEPT ![o] = [state |-> "live", prog |-> p, index |-> n]]
        /\ IF ~ NotNamed(n) THEN Error /\ UNCHANGED named
           ELSE /\ named' = IF n = None THEN named ELSE [named EXCEPT ![n] = o]
                /\ Go(Below \o <<[kind |-> "uid", ob |-> o], Lpc("creator_file")>>)
  BY DEF MakeObject
<1>3. /\ stack \in Seq(FrameSet) /\ Top \in FrameSet /\ Below \in Seq(FrameSet) /\ Shaped(Below)
      /\ n \in Names \cup {None} /\ Top.name \in Names
  BY <1>1, TopTyped, FrameKinds DEF Inv, Typed
<1>4. code' \in [Progs -> Programs]
  <2>1. <<p>> \in Seq(Progs)
    BY <1>1
  <2> QED BY <1>1, <2>1, ReferencedTyped DEF Inv, Typed
<1>5. ASSUME NEW q \in Objs
      PROVE  object'[q] = IF q = o THEN [state |-> "live", prog |-> p, index |-> n] ELSE object[q]
  BY <1>2 DEF Inv, Typed
<1>6. object' \in [Objs -> Entries]
  <2>1. [state |-> "live", prog |-> p, index |-> n] \in Entries
    BY <1>1, <1>3 DEF Entries
  <2> HIDE DEF n, p
  <2> QED BY <1>2, <2>1 DEF Inv, Typed
<1> HIDE DEF p
<1>7. CASE ~ NotNamed(n) /\ Error /\ UNCHANGED named
  <2>1. stack' \in Seq(FrameSet) /\ Shaped(stack') /\ leaked' \subseteq Progs
    BY <1>1, <1>7, ErrorTyped DEF Inv
  <2>2. Typed'
    BY <1>1, <1>4, <1>6, <1>7, <2>1 DEF Inv, Typed
  <2>3. taken # {}
    <3> SUFFICES ASSUME taken = {} PROVE NotNamed(n)
      BY <1>7
    <3>1. Right(World, Top)
      BY <1>1, <1>3, ChainedTop DEF Inv, Good, Top
    <3> QED BY <1>1, <3>1 DEF Right, World, NotNamed
  <2> QED BY <1>1, <2>2, <2>3 DEF Inv
<1>8. CASE /\ NotNamed(n) /\ named' = IF n = None THEN named ELSE [named EXCEPT ![n] = o]
           /\ Go(Below \o <<[kind |-> "uid", ob |-> o], Lpc("creator_file")>>)
  <2> DEFINE f == [kind |-> "uid", ob |-> o]
             t == Append(Below, f)
  <2>1. stack' = Below \o <<f, Lpc("creator_file")>> /\ UNCHANGED <<fatal, leaked>>
    BY <1>8 DEF Go
  <2>2. f \in FrameSet /\ f.kind = "uid"
    BY DEF FrameSet, UidFrames
  <2> HIDE DEF f, t
  <2>3. t \in Seq(FrameSet) /\ Shaped(t) /\ t # <<>> /\ Last(t) = f
    BY <1>3, <2>2, StackPushed DEF t, Serves
  <2>4. "creator_file" \in Calls /\ ~ Asks(Last(t)) /\ Last(t).kind # "load"
    BY <2>2, <2>3 DEF Calls, Asks
  <2>5. stack' = Append(t, Lpc("creator_file"))
    <3>1. Lpc("creator_file") \in FrameSet
      BY <2>3, <2>4, CallPushed
    <3> QED BY <1>3, <2>1, <2>2, <3>1, StackTwo DEF t
  <2>6. stack' \in Seq(FrameSet) /\ Shaped(stack')
    BY <2>3, <2>4, <2>5, CallPushed
  <2>7. named' \in [Names -> Objs \cup {None}]
    BY <1>8 DEF Inv, Typed
  <2>8. \A m \in Names : named'[m] = IF m = n THEN o ELSE named[m]
    BY <1>8, NoneAssumption DEF Inv, Typed
  <2>9. Typed'
    BY <1>1, <1>4, <1>6, <2>1, <2>6, <2>7 DEF Inv, Typed
  <2>10. ASSUME taken' = {} PROVE Good(World', Below)
    <3> DEFINE w == World
               v == World'
               y == <<<<"object", o>>, p>>
               L == Holders(w, Below)
    <3>1. Good(w, stack) /\ Good(w, Below)
      BY <1>1, <1>3, <2>10, GoodPop DEF Inv, Top, Below
    <3>2. Right(w, Top) /\ Chained(w, stack) /\ NamesAgree(w) /\ Sound(w.code, L) /\ Chained(w, Below)
      BY <1>1, <1>3, <3>1, ChainedTop DEF Good, Top
    <3>3. table[Top.name] = p /\ (n # None => n = Top.name /\ named[n] = None)
      BY <1>1, <3>2 DEF Right, Asks, Wanted, World, p
    <3>4. /\ v.file = file /\ v.code = code' /\ v.table = table /\ v.object = object'
          /\ v.named = named' /\ v.prog = prog /\ v.leaked = leaked
      BY <1>1, <2>1 DEF World
    <3>5. /\ w.file = file /\ w.code = code /\ w.table = table /\ w.object = object
          /\ w.named = named /\ w.prog = prog /\ w.leaked = leaked
      BY WorldIs
    <3>6. object[o].prog = None /\ p # None
      BY <1>1, <1>2, <3>2, <3>5, NoneAssumption DEF NamesAgree
    <3> HIDE DEF w, v
    <3>7. y \notin L
      BY <3>5, <3>6, HoldersHas
    <3>8. <<<<"name", Top.name>>, p>> \in L
      BY <1>1, <1>3, <3>3, <3>5, <3>6, HoldersHas
    <3> HIDE DEF L
    <3>9. code[p].ref # 0 /\ Sound(code, L)
      <4>1. Sound(code, L)
        BY <3>2, <3>5
      <4> QED BY <3>8, <4>1, HeldLives
    <3>10. Sound(code', L \cup {y}) /\ Within(code', code)
      BY <1>1, <3>7, <3>9, HeldSound
    <3>11. \A x : x \in Holders(v, Below) <=> x \in L \/ x = y
      <4> SUFFICES ASSUME NEW x PROVE x \in Holders(v, Below) <=> x \in L \/ x = y
        OBVIOUS
      <4>1. (\E q \in Objs : object'[q].prog # None /\ x = <<<<"object", q>>, object'[q].prog>>) <=>
            \/ \E q \in Objs : object[q].prog # None /\ x = <<<<"object", q>>, object[q].prog>>
            \/ x = y
        <5>1. object'[o].prog = p /\ \A q \in Objs : q # o => object'[q] = object[q]
          BY <1>5
        <5> QED BY <3>6, <5>1
      <4> HIDE DEF y
      <4> QED BY <3>4, <3>5, <4>1, HoldersHas DEF L
    <3>12. Holders(v, Below) = L \cup {y}
      BY <3>11
    <3>13. ASSUME NEW x \in L PROVE code'[x[2]].name = code[x[2]].name
      BY <3>10, HeldNames
    <3>14. NamesAgree(v)
      <4>1. ASSUME NEW m \in Names, table[m] # None PROVE code'[table[m]].name = m
        <5>1. <<<<"name", m>>, table[m]>> \in L
          BY <3>5, <4>1, HoldersHas DEF L
        <5>2. code'[table[m]].name = code[table[m]].name
          BY <3>13, <5>1
        <5> QED BY <3>2, <3>5, <4>1, <5>2 DEF NamesAgree
      <4>2. ASSUME NEW m \in Names, named'[m] # None
            PROVE  object'[named'[m]].state = "live" /\ object'[named'[m]].index = m
        <5>1. CASE m = n
          BY <1>5, <2>8, <5>1
        <5>2. CASE m # n
          <6>1. named'[m] = named[m] /\ named[m] \in Objs
            BY <2>8, <4>2, <5>2 DEF Inv, Typed
          <6>2. object[named[m]].state = "live" /\ object[named[m]].index = m
            BY <3>2, <3>5, <4>2, <6>1 DEF NamesAgree
          <6>3. named[m] # o
            BY <1>2, <6>2
          <6> QED BY <1>5, <6>1, <6>2, <6>3
        <5> QED BY <5>1, <5>2
      <4>3. ASSUME NEW q \in Objs, object'[q].state = "live", object'[q].index # None
            PROVE  named'[object'[q].index] = q
        <5>1. CASE q = o
          BY <1>3, <1>5, <2>8, <4>3, <5>1
        <5>2. CASE q # o
          <6>1. object'[q] = object[q] /\ object[q].index \in Names
            BY <1>5, <4>3, <5>2 DEF Inv, Typed, Entries
          <6>2. named[object[q].index] = q
            BY <3>2, <3>5, <4>3, <6>1 DEF NamesAgree
          <6>3. object[q].index # n
            BY <3>3, <6>1, <6>2, NoneAssumption
          <6> QED BY <2>8, <6>1, <6>2, <6>3
        <5> QED BY <5>1, <5>2
      <4>4. ASSUME NEW q \in Objs PROVE object'[q].state = "free" <=> object'[q].prog = None
        BY <1>5, <3>2, <3>5, <3>6 DEF NamesAgree
      <4> QED BY <3>4, <4>1, <4>2, <4>3, <4>4 DEF NamesAgree
    <3>15. ASSUME NEW i \in DOMAIN Below PROVE Same(w, v, Below[i])
      <4>1. Below[i].kind = "approve" => v.code[Below[i].own].name = w.code[Below[i].own].name
        <5> SUFFICES ASSUME Below[i].kind = "approve"
                     PROVE  v.code[Below[i].own].name = w.code[Below[i].own].name
          OBVIOUS
        <5>1. <<<<"frame", i>>, Below[i].own>> \in L
          BY HoldersHas DEF L
        <5> QED BY <3>4, <3>5, <3>13, <5>1
      <4>2. Below[i].kind = "clone" => Below[i].index \in Names \cup {None}
        BY <1>3, FrameKinds, ElementOfSeq, LenProperties
      <4>3. Asks(Below[i]) => w.table[Wanted(Below[i])] = None
        BY <1>1, <1>3, <3>2, ChainedTop DEF Below
      <4>4. Below[i].kind = "clone" /\ Below[i].index # None /\ Right(w, Below[i]) => Below[i].index # n
        BY <3>3, <3>5, <3>6, <4>3 DEF Asks, Wanted, Right
      <4>5. \A m \in Names : m # n => v.named[m] = w.named[m]
        BY <2>8, <3>4, <3>5
      <4> QED BY <3>4, <3>5, <4>1, <4>2, <4>4, <4>5 DEF Same, Right, Served
    <3>16. Chained(v, Below)
      BY <3>2, <3>15, ChainedSame
    <3>17. Good(v, Below)
      BY <3>4, <3>10, <3>12, <3>14, <3>16 DEF Good
    <3> QED BY <3>17 DEF v
  <2>11. ASSUME taken' = {} PROVE Good(World', stack')
    <3>1. Below # <<>> => ~ Asks(Last(Below)) /\ Last(Below).kind # "load"
      BY <1>1, <1>3, <2>11, NobodyWaits DEF Inv, Top, Below, Serves
    <3>2. Good(World', t)
      BY <1>3, <2>2, <2>10, <2>11, <3>1, GoodPushPlain DEF Plain, t
    <3> QED BY <2>3, <2>4, <2>5, <3>2, CallPushed
  <2> QED BY <1>1, <2>1, <2>9, <2>11 DEF Inv
<1> QED BY <1>2, <1>7, <1>8

\* What is entered and what waits for approval is alive.
LEMMA GoodLives ==
  ASSUME NEW w, NEW s, Good(w, s)
  PROVE  /\ \A n \in Names : w.table[n] # None =>
              <<<<"name", n>>, w.table[n]>> \in Holders(w, s) /\ w.code[w.table[n]].ref # 0
         /\ \A i \in DOMAIN s : s[i].kind = "approve" =>
              /\ <<<<"frame", i>>, s[i].own>> \in Holders(w, s)
              /\ w.code[s[i].own].ref # 0 /\ w.code[s[i].own].name \in Names
<1>1. ASSUME NEW n \in Names, w.table[n] # None
      PROVE  <<<<"name", n>>, w.table[n]>> \in Holders(w, s) /\ w.code[w.table[n]].ref # 0
  <2> DEFINE x == <<<<"name", n>>, w.table[n]>>
  <2>1. x \in Holders(w, s) /\ x[2] = w.table[n]
    BY <1>1, HoldersHas
  <2> HIDE DEF x
  <2>2. w.code[x[2]].ref # 0
    BY <2>1, HeldLives DEF Good
  <2> QED BY <2>1, <2>2 DEF x
<1>2. ASSUME NEW i \in DOMAIN s, s[i].kind = "approve"
      PROVE  /\ <<<<"frame", i>>, s[i].own>> \in Holders(w, s)
             /\ w.code[s[i].own].ref # 0 /\ w.code[s[i].own].name \in Names
  <2> DEFINE x == <<<<"frame", i>>, s[i].own>>
  <2>1. x \in Holders(w, s) /\ x[2] = s[i].own
    BY <1>2, HoldersHas
  <2> HIDE DEF x
  <2>2. w.code[x[2]].ref # 0 /\ x[2] \in Progs
    BY <2>1, HeldLives DEF Good
  <2>3. w.code[x[2]].name \in Names
    BY <2>2 DEF Good, Sound
  <2> QED BY <2>1, <2>2, <2>3 DEF x
<1> QED BY <1>1, <1>2

\* Programs keep their names.
LEMMA CodeNames ==
  ASSUME NEW w, NEW v, NamesAgree(w), v.table = w.table, v.named = w.named, v.object = w.object,
         \A n \in Names : w.table[n] # None => v.code[w.table[n]].name = w.code[w.table[n]].name
  PROVE  NamesAgree(v)
BY DEF NamesAgree

LEMMA UpdateKeeps ==
  ASSUME Inv, NEW n \in Names, Update(n)
  PROVE  Inv'
<1>1. /\ stack # <<>> /\ Top.kind = "lpc" /\ table[n] # None /\ calls' = calls - 1 /\ calls > 0
      /\ stack' = stack /\ table' = [table EXCEPT ![n] = None] /\ code' = Freed(code, table[n])
      /\ UNCHANGED <<file, object, named, prog, approved_object, taken, fatal, leaked>>
  BY DEF Update, Operation, Waits, Go
<1>2. table' \in [Names -> Progs \cup {None}] /\ \A m \in Names : table'[m] = IF m = n THEN None ELSE table[m]
  BY <1>1 DEF Inv, Typed
<1>3. code' \in [Progs -> Programs]
  BY <1>1, FreedTyped DEF Inv, Typed
<1>4. calls' \in Nat
  BY <1>1 DEF Inv, Typed
<1>5. Typed'
  BY <1>1, <1>2, <1>3, <1>4 DEF Inv, Typed
<1>6. ASSUME taken' = {} PROVE Good(World', stack)
  <2> DEFINE w == World
             v == World'
             y == <<<<"name", n>>, table[n]>>
             L == Holders(w, stack)
  <2>1. Good(w, stack) /\ NamesAgree(w) /\ Chained(w, stack) /\ Sound(w.code, L)
    BY <1>1, <1>6 DEF Inv, Good
  <2>2. /\ v.file = file /\ v.code = code' /\ v.table = table' /\ v.object = object
        /\ v.named = named /\ v.prog = prog /\ v.leaked = leaked
    BY <1>1 DEF World
  <2>3. /\ w.file = file /\ w.code = code /\ w.table = table /\ w.object = object
        /\ w.named = named /\ w.prog = prog /\ w.leaked = leaked
    BY WorldIs
  <2> HIDE DEF w, v
  <2>4. y \in L /\ y[2] = table[n]
    BY <1>1, <2>3, HoldersHas
  <2>5. \A x : x \in Holders(v, stack) <=> x \in L /\ x # y
    <3> SUFFICES ASSUME NEW x PROVE x \in Holders(v, stack) <=> x \in L /\ x # y
      OBVIOUS
    <3>1. (\E m \in Names : table'[m] # None /\ x = <<<<"name", m>>, table'[m]>>) <=>
            x # y /\ \E m \in Names : table[m] # None /\ x = <<<<"name", m>>, table[m]>>
      BY <1>2
    <3>2. x = y => /\ \A q \in Objs : x # <<<<"object", q>>, object[q].prog>>
                   /\ \A i \in DOMAIN stack : x # <<<<"frame", i>>, stack[i].own>>
                   /\ \A q \in leaked : x # <<<<"leak", q>>, q>>
      OBVIOUS
    <3> HIDE DEF y
    <3> QED BY <2>2, <2>3, <3>1, <3>2, HoldersHas DEF L
  <2> HIDE DEF y, L
  <2>6. Holders(v, stack) = L \ {y}
    BY <2>5
  <2>7. Sound(code', L \ {y}) /\ Within(code', code)
    BY <1>1, <2>1, <2>3, <2>4, FreedSound
  <2>8. \A x \in Holders(v, stack) : code'[x[2]].name = code[x[2]].name
    BY <2>6, <2>7, HeldNames
  <2>9. NamesAgree(v)
    <3>1. ASSUME NEW m \in Names, table'[m] # None PROVE code'[table'[m]].name = m
      <4>1. table'[m] = table[m] /\ code[table[m]].name = m
        BY <1>2, <2>1, <2>3, <3>1 DEF NamesAgree
      <4>2. <<<<"name", m>>, table'[m]>> \in Holders(v, stack)
        BY <2>2, <3>1, HoldersHas
      <4> QED BY <2>8, <4>1, <4>2
    <3> QED BY <2>1, <2>2, <2>3, <3>1 DEF NamesAgree
  <2>10. ASSUME NEW i \in DOMAIN stack PROVE Same(w, v, stack[i])
    <3>1. stack[i] \in FrameSet /\ stack \in Seq(FrameSet)
      BY ElementOfSeq, LenProperties DEF Inv, Typed
    <3>2. stack[i].kind = "approve" => v.code[stack[i].own].name = w.code[stack[i].own].name
      <4> SUFFICES ASSUME stack[i].kind = "approve"
                   PROVE  v.code[stack[i].own].name = w.code[stack[i].own].name
        OBVIOUS
      <4>1. <<<<"frame", i>>, stack[i].own>> \in Holders(v, stack)
        BY HoldersHas
      <4> QED BY <2>2, <2>3, <2>8, <4>1
    <3>3. Served(v, stack[i]) = Served(w, stack[i])
      BY <3>2 DEF Served
    <3>4. Serves(stack[i]) => Served(w, stack[i]) \in Names
      <4>1. CASE stack[i].kind = "approve"
        BY <2>1, <4>1, GoodLives DEF Served
      <4>2. CASE stack[i].kind # "approve"
        BY <3>1, <4>2, FrameKinds DEF Served, Serves
      <4> QED BY <4>1, <4>2
    <3>5. \A m \in Names : w.table[m] = None => v.table[m] = None
      BY <1>2, <2>2, <2>3
    <3>6. ~ (Asks(stack[i]) /\ stack[i].got \in Progs)
      <4>1. CASE i = Len(stack)
        BY <1>1, <3>1, <4>1, StackEnd DEF Asks, Top
      <4>2. CASE i # Len(stack)
        <5>1. i \in DOMAIN Front(stack) /\ Front(stack)[i] = stack[i]
          BY <1>1, <3>1, <4>2, StackTop
        <5>2. Asks(stack[i]) => stack[i].got = "?"
          BY <1>1, <2>1, <3>1, <5>1, ChainedTop
        <5> QED BY <5>2, MemoryAssumption
      <4> QED BY <4>1, <4>2
    <3> QED BY <2>2, <2>3, <3>2, <3>3, <3>4, <3>5, <3>6 DEF Same, Right
  <2>11. Good(v, stack)
    BY <2>1, <2>2, <2>6, <2>7, <2>9, <2>10, ChainedSame DEF Good
  <2> QED BY <2>11 DEF v
<1> QED BY <1>1, <1>5, <1>6 DEF Inv

LEMMA ReapKeeps ==
  ASSUME Inv, NEW o \in Objs, Reap(o)
  PROVE  Inv'
<1>1. /\ stack = <<>> /\ object[o].state = "destructed"
      /\ object' = [object EXCEPT ![o] = NoObject] /\ code' = Freed(code, object[o].prog)
      /\ UNCHANGED <<file, table, named, prog, approved_object, stack, calls, fatal, taken, leaked>>
  BY DEF Reap, ghosts
<1>2. \A q \in Objs : object'[q] = IF q = o THEN NoObject ELSE object[q]
  BY <1>1 DEF Inv, Typed
<1>3. object' \in [Objs -> Entries]
  <2>1. NoObject \in Entries
    BY DEF NoObject, Entries
  <2> QED BY <1>1, <2>1 DEF Inv, Typed
<1>4. code' \in [Progs -> Programs]
  BY <1>1, FreedTyped DEF Inv, Typed
<1>5. Typed'
  BY <1>1, <1>3, <1>4 DEF Inv, Typed
<1>6. ASSUME taken' = {} PROVE Good(World', stack)
  <2> DEFINE w == World
             v == World'
             y == <<<<"object", o>>, object[o].prog>>
             L == Holders(w, stack)
  <2>1. Good(w, stack) /\ NamesAgree(w) /\ Sound(w.code, L)
    BY <1>1, <1>6 DEF Inv, Good
  <2>2. /\ v.file = file /\ v.code = code' /\ v.table = table /\ v.object = object'
        /\ v.named = named /\ v.prog = prog /\ v.leaked = leaked
    BY <1>1 DEF World
  <2>3. /\ w.file = file /\ w.code = code /\ w.table = table /\ w.object = object
        /\ w.named = named /\ w.prog = prog /\ w.leaked = leaked
    BY WorldIs
  <2>4. \A i : i \notin DOMAIN stack
    BY <1>1, EmptySeq
  <2> HIDE DEF w, v
  <2>5. object[o].prog # None
    BY <1>1, <2>1, <2>3 DEF NamesAgree
  <2>6. y \in L /\ y[2] = object[o].prog
    BY <2>3, <2>5, HoldersHas
  <2>7. \A x : x \in Holders(v, stack) <=> x \in L /\ x # y
    <3> SUFFICES ASSUME NEW x PROVE x \in Holders(v, stack) <=> x \in L /\ x # y
      OBVIOUS
    <3>1. (\E q \in Objs : object'[q].prog # None /\ x = <<<<"object", q>>, object'[q].prog>>) <=>
            x # y /\ \E q \in Objs : object[q].prog # None /\ x = <<<<"object", q>>, object[q].prog>>
      BY <1>2 DEF NoObject
    <3>2. x = y => /\ \A m \in Names : x # <<<<"name", m>>, table[m]>>
                   /\ \A q \in leaked : x # <<<<"leak", q>>, q>>
      OBVIOUS
    <3> HIDE DEF y
    <3> QED BY <2>2, <2>3, <2>4, <3>1, <3>2, HoldersHas DEF L
  <2> HIDE DEF y, L
  <2>8. Holders(v, stack) = L \ {y}
    BY <2>7
  <2>9. Sound(code', L \ {y}) /\ Within(code', code)
    BY <1>1, <2>1, <2>3, <2>6, FreedSound
  <2>10. \A x \in Holders(v, stack) : code'[x[2]].name = code[x[2]].name
    BY <2>8, <2>9, HeldNames
  <2>11. NamesAgree(v)
    <3>1. ASSUME NEW m \in Names, table[m] # None PROVE code'[table[m]].name = m
      <4>1. code[table[m]].name = m
        BY <2>1, <2>3, <3>1 DEF NamesAgree
      <4>2. <<<<"name", m>>, table[m]>> \in Holders(v, stack)
        BY <2>2, <3>1, HoldersHas
      <4> QED BY <2>10, <4>1, <4>2
    <3>2. ASSUME NEW m \in Names, named[m] # None
          PROVE  object'[named[m]].state = "live" /\ object'[named[m]].index = m
      <4>1. object[named[m]].state = "live" /\ object[named[m]].index = m /\ named[m] \in Objs
        BY <2>1, <2>3, <3>2 DEF NamesAgree, Inv, Typed
      <4> QED BY <1>1, <1>2, <4>1
    <3>3. ASSUME NEW q \in Objs
          PROVE  /\ object'[q].state = "live" /\ object'[q].index # None => named[object'[q].index] = q
                 /\ object'[q].state = "free" <=> object'[q].prog = None
      BY <1>2, <2>1, <2>3 DEF NamesAgree, NoObject
    <3> QED BY <2>2, <3>1, <3>2, <3>3 DEF NamesAgree
  <2>12. Good(v, stack)
    BY <2>2, <2>4, <2>8, <2>9, <2>11 DEF Good, Chained
  <2> QED BY <2>12 DEF v
<1> QED BY <1>1, <1>5, <1>6 DEF Inv

\* A program that is made and given up at once leaves the others as they were.
LEMMA MadeFreed ==
  ASSUME NEW L, Sound(code, L), NEW p \in Progs, code[p].ref = 0, NEW n \in Names,
         NEW h \in Seq(Progs), Loaded(h), NEW y, y \notin L, y[2] = p
  PROVE  /\ Sound(Freed(Made(p, n, h), p), L)
         /\ \A x \in L : Freed(Made(p, n, h), p)[x[2]].name = code[x[2]].name
<1> DEFINE b == Made(p, n, h)
           M == L \cup {y}
<1>1. Sound(b, M) /\ NamesKept(b, p)
  BY MadeSound
<1>2. y \in M /\ M \ {y} = L
  OBVIOUS
<1> HIDE DEF b, M
<1>3. Sound(Freed(b, p), L) /\ Within(Freed(b, p), b)
  BY <1>1, <1>2, FreedSound
<1>4. \A x \in L : Freed(b, p)[x[2]].name = b[x[2]].name /\ x[2] \in Progs
  BY <1>3, HeldNames
<1>5. \A x \in L : x[2] # p
  BY HeldLives
<1> QED BY <1>1, <1>3, <1>4, <1>5 DEF b, NamesKept

LEMMA LivingNow ==
  ASSUME Good(World, stack)
  PROVE  Living
<1>1. World.table = table /\ World.code = code
  BY WorldIs
<1>2. ASSUME NEW n \in Names, table[n] # None PROVE code[table[n]].ref # 0
  BY <1>1, <1>2, GoodLives
<1>3. Sound(code, Holders(World, stack))
  BY <1>1 DEF Good
<1>4. ASSUME NEW q \in Progs, code[q].ref # 0 PROVE Loaded(code[q].inherits)
  BY <1>3, <1>4, HeldLives DEF Loaded
<1> QED BY <1>2, <1>4 DEF Living

\* While a file is compiled, nothing waits for approval.
LEMMA NoneApproved ==
  ASSUME NEW w, NEW s \in Seq(FrameSet), s # <<>>, Chained(w, s), Last(s).kind = "parse"
  PROVE  \A i \in DOMAIN s : s[i].kind # "approve"
<1> SUFFICES ASSUME NEW i \in DOMAIN s, s[i].kind = "approve" PROVE FALSE
  OBVIOUS
<1>1. i \in DOMAIN Front(s) /\ Front(s)[i] = s[i]
  <2>1. i # Len(s)
    BY StackTop
  <2> QED BY <2>1, StackTop
<1>2. Apart(w, Front(s)[i], Last(s))
  BY <1>1, ChainedTop
<1> QED BY <1>1, <1>2 DEF Apart, Works

\* The compiler changes programs, but none that is held.
LEMMA ParsedGood ==
  ASSUME NEW w, NEW v, NEW s \in Seq(FrameSet), NamesAgree(w), Chained(w, s),
         \A i \in DOMAIN s : s[i].kind # "approve",
         v.file = w.file, v.table = w.table, v.object = w.object, v.named = w.named, v.leaked = w.leaked,
         Sound(v.code, Holders(w, s)), \A x \in Holders(w, s) : v.code[x[2]].name = w.code[x[2]].name
  PROVE  Good(v, s)
<1>2. ASSUME NEW n \in Names, w.table[n] # None
      PROVE  v.code[w.table[n]].name = w.code[w.table[n]].name
  <2> DEFINE x == <<<<"name", n>>, w.table[n]>>
  <2>1. x \in Holders(w, s) /\ x[2] = w.table[n]
    BY <1>2, HoldersHas
  <2> HIDE DEF x
  <2> QED BY <2>1
<1>3. NamesAgree(v)
  BY <1>2, CodeNames
<1>4. \A i \in DOMAIN s : Same(w, v, s[i])
  BY DEF Same, Right, Served
<1>5. Chained(v, s)
  BY <1>4, ChainedSame
<1>6. SameHolders(w, v)
  BY DEF SameHolders
<1>7. Holders(v, s) = Holders(w, s)
  BY <1>6, HoldersSame
<1> QED BY <1>3, <1>5, <1>7 DEF Good

\* A file that is inherited is loaded first.
LEMMA InheritFrameMade ==
  ASSUME NEW n \in Names, NEW m \in Names
  PROVE  /\ InheritFrame(n, m) \in FrameSet /\ InheritFrame(n, m).kind = "inherit"
         /\ InheritFrame(n, m).name = n /\ InheritFrame(n, m).got = "?" /\ InheritFrame(n, m).wants = m
BY DEF InheritFrame, FrameSet, InheritFrames, Answers

LEMMA InheritPushed ==
  ASSUME NEW w, NEW v, NEW s \in Seq(FrameSet), Shaped(s), s # <<>>, Last(s).kind = "parse",
         NEW m \in Names, NEW ch \in Seq(Names)
  PROVE  LET n == Last(s).name
             t == Front(s) \o <<InheritFrame(n, m), LoadFrame(m, ch)>>
         IN /\ t \in Seq(FrameSet) /\ Shaped(t)
            /\ /\ Good(w, s) /\ Good(v, Front(s)) /\ v.table = w.table
               /\ m \in Range(v.file[n].inherits) /\ v.table[m] = None
               => Good(v, t)
<1> DEFINE n == Last(s).name
           b == Front(s)
           g == InheritFrame(n, m)
           u == Append(b, g)
<1>1. b \in Seq(FrameSet) /\ Shaped(b) /\ b # <<>> /\ Asks(Last(b)) /\ Last(s) \in FrameSet /\ n \in Names
  BY StackTop, FrameKinds DEF Serves
<1>2. g \in FrameSet /\ g.kind = "inherit" /\ g.name = n /\ g.got = "?" /\ g.wants = m
  BY <1>1, InheritFrameMade
<1>3. LoadFrame(m, ch) \in FrameSet
  BY FramesMade
<1>4. b \o <<g, LoadFrame(m, ch)>> = Append(u, LoadFrame(m, ch))
  BY <1>1, <1>2, <1>3, StackTwo
<1> HIDE DEF b, g, u, n
<1>5. u \in Seq(FrameSet) /\ Shaped(u) /\ u # <<>> /\ Last(u) = g
  BY <1>1, <1>2, StackPushed DEF u
<1>6. Asks(Last(u)) /\ Wanted(Last(u)) = m /\ Last(u).got = "?"
  BY <1>2, <1>5 DEF Asks, Wanted
<1>7. ASSUME Good(w, s), Good(v, b), v.table = w.table, m \in Range(v.file[n].inherits), v.table[m] = None
      PROVE  Good(v, Append(u, LoadFrame(m, ch)))
  <2>1. Chained(w, s)
    BY <1>7 DEF Good
  <2>2. Right(w, Last(s)) /\ Over(w, Last(b), Last(s))
    BY <1>1, <2>1, ChainedTop DEF b
  <2>3. v.table[n] = None
    BY <1>7, <2>2 DEF Right, Serves, Served, n
  <2>4. Right(v, g)
    BY <1>2, <1>7, <2>3, MemoryAssumption DEF Right, Asks, Served
  <2>5. Over(v, Last(b), g)
    BY <1>1, <1>2, <2>2 DEF Over, Serves, Served, n
  <2>6. \A i \in DOMAIN b : Apart(v, b[i], g)
    BY <1>2 DEF Apart, Works
  <2>7. Good(v, u)
    BY <1>1, <1>2, <1>7, <2>4, <2>5, <2>6, GoodPush DEF u
  <2> QED BY <1>5, <1>6, <1>7, <2>7, LoadPushed
<1>8. Append(u, LoadFrame(m, ch)) \in Seq(FrameSet) /\ Shaped(Append(u, LoadFrame(m, ch)))
  BY <1>5, <1>6, LoadPushed
<1> QED BY <1>4, <1>7, <1>8 DEF b, g, n

\* A program that is made waits for approval.
Waiting(s, p) == <<<<"frame", Len(s)>>, p>>

LEMMA MadePushedTyped ==
  ASSUME NEW w, NEW s \in Seq(FrameSet), Shaped(s), s # <<>>, Last(s).kind = "parse", NEW p \in Progs
  PROVE  /\ Append(Front(s), ApproveFrame(p, FALSE)) \in Seq(FrameSet)
         /\ Shaped(Append(Front(s), ApproveFrame(p, FALSE)))
         /\ Waiting(s, p) \notin Holders(w, Front(s)) /\ Waiting(s, p)[2] = p
<1> DEFINE f == ApproveFrame(p, FALSE)
           b == Front(s)
<1>1. b \in Seq(FrameSet) /\ Shaped(b) /\ b # <<>> /\ Asks(Last(b)) /\ DOMAIN b = 1 .. Len(s) - 1 /\ Len(s) \in Nat
  BY StackTop DEF Serves
<1>2. f \in FrameSet /\ f.kind = "approve"
  <2>1. FALSE \in BOOLEAN
    OBVIOUS
  <2> QED BY <2>1, FramesMade
<1> HIDE DEF f, b
<1>3. Append(b, f) \in Seq(FrameSet) /\ Shaped(Append(b, f))
  BY <1>1, <1>2, StackPushed
<1>4. Len(s) \notin DOMAIN b
  BY <1>1
<1>5. Waiting(s, p) \notin Holders(w, b)
  BY <1>4, HoldersHas DEF Waiting
<1> QED BY <1>3, <1>5 DEF f, b, Waiting

LEMMA MadePushed ==
  ASSUME NEW w, NEW v, NEW s \in Seq(FrameSet), Shaped(s), s # <<>>, Last(s).kind = "parse",
         Good(w, s), NEW p \in Progs, p \notin w.leaked,
         v.file = w.file, v.table = w.table, v.object = w.object, v.named = w.named, v.leaked = w.leaked,
         v.prog = p, v.code[p].name = Last(s).name,
         Sound(v.code, Holders(w, Front(s)) \cup {Waiting(s, p)}),
         \A x \in Holders(w, Front(s)) : v.code[x[2]].name = w.code[x[2]].name,
         \A m \in Range(w.file[Last(s).name].inherits) : w.table[m] # None
  PROVE  Good(v, Append(Front(s), ApproveFrame(p, FALSE)))
<1> DEFINE f == ApproveFrame(p, FALSE)
           b == Front(s)
           n == Last(s).name
<1>1. /\ b \in Seq(FrameSet) /\ b # <<>> /\ Asks(Last(b)) /\ DOMAIN b = 1 .. Len(s) - 1 /\ Len(s) \in Nat
      /\ Len(b) = Len(s) - 1 /\ \A i \in DOMAIN b : b[i] = s[i] /\ i \in DOMAIN s
  BY StackTop DEF Serves
<1>2. f \in FrameSet /\ f.kind = "approve" /\ f.own = p
  <2>1. FALSE \in BOOLEAN
    OBVIOUS
  <2> QED BY <2>1, FramesMade
<1>3. /\ Chained(w, b) /\ Right(w, Last(s)) /\ Over(w, Last(b), Last(s)) /\ NamesAgree(w)
      /\ \A i \in DOMAIN b : /\ Apart(w, b[i], Last(s)) /\ Right(w, b[i])
                             /\ Asks(b[i]) => w.table[Wanted(b[i])] = None
  <2>1. Chained(w, s) /\ NamesAgree(w)
    BY DEF Good
  <2>2. Chained(w, b) /\ Right(w, Last(s)) /\ Over(w, Last(b), Last(s))
    BY <1>1, <2>1, ChainedTop
  <2>3. ASSUME NEW i \in DOMAIN b
        PROVE  Apart(w, b[i], Last(s)) /\ Right(w, b[i]) /\ (Asks(b[i]) => w.table[Wanted(b[i])] = None)
    <3>1. s # <<>>
      BY DEF Serves
    <3> QED BY <2>1, <3>1, ChainedTop, Zenon DEF b
  <2> QED BY <2>1, <2>2, <2>3
<1> HIDE DEF f, b
<1>4. ASSUME NEW i \in DOMAIN b PROVE ~ Works(b[i]) /\ b[i].kind # "approve"
  BY <1>3 DEF Apart, Works
<1>5. \A i \in DOMAIN b : Same(w, v, b[i])
  BY <1>4 DEF Same, Right, Served
<1>6. Chained(v, b)
  BY <1>3, <1>5, ChainedSame
<1>7. ASSUME NEW m \in Names, w.table[m] # None PROVE v.code[w.table[m]].name = w.code[w.table[m]].name
  <2> DEFINE x == <<<<"name", m>>, w.table[m]>>
  <2>1. x \in Holders(w, b) /\ x[2] = w.table[m]
    BY <1>7, HoldersHas
  <2> HIDE DEF x
  <2> QED BY <2>1 DEF b
<1>8. NamesAgree(v)
  BY <1>3, <1>7, CodeNames
<1>9. Served(v, f) = n /\ Serves(f) /\ Served(w, Last(s)) = n /\ ~ Asks(f)
  BY <1>2 DEF Served, Serves, Asks
<1>10. w.table[n] = None
  BY <1>3, <1>9 DEF Right, Serves
<1>11. Right(v, f)
  BY <1>2, <1>9, <1>10 DEF Right
<1>12. Over(v, Last(b), f)
  BY <1>1, <1>3, <1>9 DEF Over
<1>13. ASSUME NEW i \in DOMAIN b PROVE Apart(v, b[i], f)
  <2>1. b[i].kind = "inherit" => b[i].name # n
    <3> SUFFICES ASSUME b[i].kind = "inherit", b[i].name = n PROVE FALSE
      OBVIOUS
    <3>1. b[i].wants \in Range(w.file[n].inherits)
      BY <1>3 DEF Right
    <3>2. w.table[b[i].wants] = None
      BY <1>3 DEF Asks, Wanted
    <3> QED BY <3>1, <3>2
  <2> QED BY <1>4, <1>9, <2>1 DEF Apart
<1> HIDE DEF n
<1>14. Chained(v, Append(b, f))
  BY <1>1, <1>2, <1>6, <1>11, <1>12, <1>13, ChainedPushed
<1>15. SameHolders(w, v)
  BY DEF SameHolders
<1>16. Holders(v, b) = Holders(w, b)
  BY <1>15, HoldersSame
<1>17. Holders(v, Append(b, f)) = Holders(w, b) \cup {Waiting(s, p)}
  <2>1. Holders(v, Append(b, f)) = Holders(v, b) \cup {<<<<"frame", Len(b) + 1>>, f.own>>}
    <3>1. b \in Seq(FrameSet) /\ f \in FrameSet /\ f.kind = "approve"
      BY <1>1, <1>2
    <3> QED BY <3>1, HoldersPushed
  <2>2. Len(b) + 1 = Len(s)
    BY <1>1
  <2> QED BY <1>2, <1>16, <2>1, <2>2 DEF Waiting
<1>18. Sound(v.code, Holders(v, Append(b, f)))
  BY <1>17 DEF b
<1> QED BY <1>8, <1>14, <1>18 DEF Good, b, f

LEMMA ParseEndKeeps ==
  ASSUME Inv, ParseEnd
  PROVE  Inv'
<1> DEFINE n == Top.name
           c == Compiled(file[n])
           made == {p \in Progs : code[p] = Free}
           L == Holders(World, Below)
<1>1. /\ stack # <<>> /\ Top.kind = "parse" /\ UNCHANGED <<file, table, object, named, calls, taken>>
  BY DEF ParseEnd, Waits
<1>2. IF Top.lost THEN Fatal("compiler state lost") /\ UNCHANGED <<code, prog, approved_object>>
      ELSE /\ approved_object' = (\E q \in Range(c.inherits) : code[q].approves)
           /\ IF c.inherit_file # None
              THEN /\ IF Top.errors > 0 THEN UNCHANGED code
                      ELSE \E p \in made : code' = Freed(Made(p, n, c.inherits), p)
                   /\ prog' = None
                   /\ Go(Below \o <<InheritFrame(n, c.inherit_file),
                                    LoadFrame(c.inherit_file, Append(Top.chain, n))>>)
              ELSE IF Top.errors > 0 THEN prog' = None /\ Error /\ UNCHANGED code
              ELSE \E p \in made :
                     /\ code' = Made(p, n, c.inherits) /\ prog' = p
                     /\ Go(Append(Below, ApproveFrame(p, FALSE)))
  BY DEF ParseEnd
<1>3. /\ stack \in Seq(FrameSet) /\ Shaped(stack) /\ Top \in FrameSet /\ Below \in Seq(FrameSet)
      /\ n \in Names /\ Top.chain \in Seq(Names) /\ Append(Top.chain, n) \in Seq(Names)
      /\ Below = Front(stack) /\ Top = Last(stack)
  <2>1. /\ stack \in Seq(FrameSet) /\ Shaped(stack) /\ Top \in FrameSet /\ Below \in Seq(FrameSet)
        /\ n \in Names /\ Top.chain \in Seq(Names)
    BY <1>1, TopTyped, FrameKinds DEF Inv, Typed
  <2> HIDE DEF n
  <2>2. Append(Top.chain, n) \in Seq(Names)
    BY <2>1, AppendProperties
  <2> QED BY <2>1, <2>2 DEF Top, Below, n
<1>4. /\ c.inherits \in Seq(Progs)
      /\ Living => Loaded(c.inherits)
      /\ c.inherit_file = None => \A m \in Range(file[n].inherits) : table[m] # None
      /\ c.inherit_file # None => /\ c.inherit_file \in Range(file[n].inherits) /\ c.inherit_file \in Names
                                  /\ table[c.inherit_file] = None
  <2>1. /\ code \in [Progs -> Programs] /\ table \in [Names -> Progs \cup {None}]
        /\ file[n].inherits \in Seq(Names)
    BY <1>3 DEF Inv, Typed
  <2> QED BY <2>1, CompiledSound
<1>5. made \in SUBSET Progs /\ \A p \in made : code[p].ref = 0
  BY DEF Free
<1> HIDE DEF c, made
<1>6. ASSUME taken = {}
      PROVE  /\ Good(World, stack) /\ Good(World, Below) /\ Living /\ Sound(code, L) /\ ~ Top.lost
             /\ \A i \in DOMAIN stack : stack[i].kind # "approve"
             /\ \A i \in DOMAIN Below : Below[i].kind # "approve"
  <2>1. Good(World, stack) /\ Chained(World, stack)
    BY <1>6 DEF Inv, Good
  <2>2. Good(World, Below)
    BY <1>1, <1>3, <2>1, GoodPop
  <2>3. Sound(code, L)
    BY <2>2, WorldIs DEF Good
  <2>4. Right(World, Top)
    BY <1>1, <1>3, <2>1, ChainedTop
  <2>5. \A i \in DOMAIN stack : stack[i].kind # "approve"
    BY <1>1, <1>3, <2>1, NoneApproved
  <2>6. \A i \in DOMAIN Below : Below[i].kind # "approve"
    BY <1>1, <1>3, <2>5, StackTop
  <2> QED BY <1>1, <2>1, <2>2, <2>3, <2>4, <2>5, <2>6, LivingNow DEF Right
<1> HIDE DEF L, n
<1>7. CASE Top.lost
  <2>1. taken # {}
    BY <1>6, <1>7
  <2>2. UNCHANGED <<code, prog, approved_object, stack, leaked>>
    BY <1>2, <1>7 DEF Fatal
  <2>3. Typed'
    BY <1>1, <2>2 DEF Inv, Typed
  <2> QED BY <1>1, <2>1, <2>3 DEF Inv
<1>8. ASSUME ~ Top.lost PROVE approved_object' \in BOOLEAN
  <2>1. approved_object' = (\E q \in Range(c.inherits) : code[q].approves)
    BY <1>2, <1>8
  <2> QED BY <2>1
<1>9. CASE ~ Top.lost /\ c.inherit_file # None
  <2> DEFINE t == Below \o <<InheritFrame(n, c.inherit_file), LoadFrame(c.inherit_file, Append(Top.chain, n))>>
  <2>1. /\ prog' = None /\ Go(t)
        /\ UNCHANGED code \/ \E p \in made : code' = Freed(Made(p, n, c.inherits), p)
    BY <1>2, <1>9
  <2>2. stack' = t /\ UNCHANGED <<fatal, leaked>>
    BY <2>1 DEF Go
  <2>3. code' \in [Progs -> Programs]
    <3>1. CASE UNCHANGED code
      BY <3>1 DEF Inv, Typed
    <3>2. ASSUME NEW p \in made, code' = Freed(Made(p, n, c.inherits), p) PROVE code' \in [Progs -> Programs]
      <4>1. Made(p, n, c.inherits) \in [Progs -> Programs]
        BY <1>3, <1>4, <1>5, MadeTyped DEF Inv, Typed
      <4> QED BY <3>2, <4>1, FreedTyped
    <3> QED BY <2>1, <3>1, <3>2
  <2>4. t \in Seq(FrameSet) /\ Shaped(t)
    BY <1>1, <1>3, <1>4, <1>9, InheritPushed DEF n
  <2> HIDE DEF t
  <2>5. Typed'
    BY <1>1, <1>8, <1>9, <2>1, <2>2, <2>3, <2>4 DEF Inv, Typed
  <2>6. ASSUME taken' = {} PROVE Good(World', t)
    <3> DEFINE w == World
               v == World'
    <3>1. taken = {}
      BY <1>1, <2>6
    <3>2. Sound(code', L) /\ \A x \in L : code'[x[2]].name = code[x[2]].name
      <4>1. CASE UNCHANGED code
        BY <1>6, <3>1, <4>1
      <4>2. ASSUME NEW p \in made, code' = Freed(Made(p, n, c.inherits), p)
            PROVE  Sound(code', L) /\ \A x \in L : code'[x[2]].name = code[x[2]].name
        <5> DEFINE y == Waiting(stack, p)
        <5>1. y \notin L /\ y[2] = p
          BY <1>1, <1>3, <1>5, MadePushedTyped DEF L
        <5>2. Sound(code, L) /\ Loaded(c.inherits) /\ p \in Progs /\ code[p].ref = 0
          BY <1>4, <1>5, <1>6, <3>1
        <5> HIDE DEF y
        <5> QED BY <1>3, <1>4, <4>2, <5>1, <5>2, MadeFreed
      <4> QED BY <2>1, <4>1, <4>2
    <3>3. /\ v.file = w.file /\ v.code = code' /\ v.table = w.table /\ v.object = w.object
          /\ v.named = w.named /\ v.leaked = w.leaked /\ w.code = code /\ w.table = table /\ w.file = file
      BY <1>1, <2>2 DEF World
    <3> HIDE DEF w, v
    <3>4. Good(w, stack) /\ Good(w, Below) /\ \A i \in DOMAIN Below : Below[i].kind # "approve"
      BY <1>6, <3>1 DEF w
    <3>5. Good(v, Below)
      <4>1. NamesAgree(w) /\ Chained(w, Below)
        BY <3>4 DEF Good
      <4> QED BY <1>3, <3>2, <3>3, <3>4, <4>1, ParsedGood DEF L, w
    <3>6. c.inherit_file \in Range(v.file[n].inherits) /\ v.table[c.inherit_file] = None
      BY <1>4, <1>9, <3>3
    <3> QED BY <1>1, <1>3, <1>4, <1>9, <3>3, <3>4, <3>5, <3>6, InheritPushed DEF v, t, n
  <2> QED BY <1>1, <2>2, <2>5, <2>6 DEF Inv
<1>10. CASE ~ Top.lost /\ prog' = None /\ Error /\ UNCHANGED code
  <2>1. stack' \in Seq(FrameSet) /\ Shaped(stack') /\ leaked' \subseteq Progs /\ fatal' = fatal
    BY <1>1, <1>10, ErrorTyped DEF Inv
  <2>2. Typed'
    BY <1>1, <1>8, <1>10, <2>1 DEF Inv, Typed
  <2>3. ASSUME taken' = {} PROVE Good(World', stack')
    <3> DEFINE w == [file |-> file, code |-> code, table |-> table, object |-> object, named |-> named,
                     prog |-> None, leaked |-> leaked]
    <3>1. /\ w.file = file /\ w.code = code /\ w.table = table /\ w.object = object
          /\ w.named = named /\ w.prog = None /\ w.leaked = leaked
      OBVIOUS
    <3> HIDE DEF w
    <3>2. Good(World, stack) /\ \A i \in DOMAIN stack : stack[i].kind # "approve"
      BY <1>1, <1>6, <2>3
    <3>3. Sound(w.code, Holders(World, stack)) /\ \A x \in Holders(World, stack) : w.code[x[2]].name = World.code[x[2]].name
      BY <3>1, <3>2, WorldIs DEF Good
    <3>4. Good(w, stack)
      <4>1. NamesAgree(World) /\ Chained(World, stack)
        BY <3>2 DEF Good
      <4> QED BY <1>3, <3>1, <3>2, <3>3, <4>1, WorldIs, ParsedGood
    <3>5. Reached(w)
      BY <1>1, <1>10, <3>1 DEF Reached
    <3> QED BY <1>1, <1>10, <3>4, <3>5, ErrorFrom DEF Inv
  <2> QED BY <1>1, <2>1, <2>2, <2>3 DEF Inv
<1>11. ASSUME ~ Top.lost, c.inherit_file = None, NEW p \in made,
              code' = Made(p, n, c.inherits), prog' = p, Go(Append(Below, ApproveFrame(p, FALSE)))
       PROVE  Inv'
  <2> DEFINE t == Append(Below, ApproveFrame(p, FALSE))
             y == Waiting(stack, p)
  <2>1. stack' = t /\ UNCHANGED <<fatal, leaked>> /\ p \in Progs /\ code[p].ref = 0
    BY <1>5, <1>11 DEF Go
  <2>2. code' \in [Progs -> Programs]
    BY <1>3, <1>4, <1>11, <2>1, MadeTyped DEF Inv, Typed
  <2>3. t \in Seq(FrameSet) /\ Shaped(t) /\ y \notin L /\ y[2] = p
    BY <1>1, <1>3, <2>1, MadePushedTyped DEF L
  <2> HIDE DEF t, y
  <2>4. Typed'
    BY <1>1, <1>8, <1>11, <2>1, <2>2, <2>3 DEF Inv, Typed
  <2>5. ASSUME taken' = {} PROVE Good(World', t)
    <3> DEFINE w == World
               v == World'
    <3>1. taken = {}
      BY <1>1, <2>5
    <3>2. Sound(code, L) /\ Loaded(c.inherits) /\ Good(w, stack)
      BY <1>4, <1>6, <3>1
    <3>3. /\ Sound(code', L \cup {y}) /\ code'[p].name = n /\ NamesKept(code', p)
      <4>1. n \in Names /\ c.inherits \in Seq(Progs) /\ p \in Progs /\ code[p].ref = 0 /\ y \notin L /\ y[2] = p
        BY <1>3, <1>4, <2>1, <2>3
      <4>2. /\ Sound(Made(p, n, c.inherits), L \cup {y}) /\ Made(p, n, c.inherits)[p].name = n
            /\ NamesKept(Made(p, n, c.inherits), p)
        BY <3>2, <4>1, MadeSound
      <4>3. code' = Made(p, n, c.inherits)
        BY <1>11
      <4> QED BY <4>2, <4>3
    <3>4. \A x \in L : x[2] \in Progs /\ x[2] # p
      BY <2>1, <3>2, HeldLives
    <3>5. \A x \in L : code'[x[2]].name = code[x[2]].name
      BY <3>3, <3>4 DEF NamesKept
    <3>6. /\ v.file = w.file /\ v.code = code' /\ v.table = w.table /\ v.object = w.object
          /\ v.named = w.named /\ v.leaked = w.leaked /\ w.code = code /\ w.table = table /\ w.file = file
          /\ v.prog = p /\ w.leaked = leaked
      BY <1>1, <1>11, <2>1 DEF World
    <3>7. p \notin leaked
      <4> SUFFICES ASSUME p \in leaked PROVE FALSE
        OBVIOUS
      <4> DEFINE x == <<<<"leak", p>>, p>>
      <4>1. x \in L /\ x[2] = p
        BY <3>6, HoldersHas DEF L
      <4> HIDE DEF x
      <4> QED BY <3>4, <4>1
    <3> HIDE DEF w, v
    <3>8. Sound(v.code, Holders(w, Front(stack)) \cup {Waiting(stack, p)})
      BY <1>3, <3>3, <3>6 DEF L, w, y
    <3>9. \A x \in Holders(w, Front(stack)) : v.code[x[2]].name = w.code[x[2]].name
      BY <1>3, <3>5, <3>6 DEF L, w
    <3>10. \A m \in Range(w.file[Last(stack).name].inherits) : w.table[m] # None
      BY <1>3, <1>4, <1>11, <3>6 DEF n
    <3>11. v.code[p].name = Last(stack).name /\ p \notin w.leaked /\ Last(stack).kind = "parse"
      BY <1>1, <1>3, <3>3, <3>6, <3>7 DEF n
    <3>12. Good(v, Append(Front(stack), ApproveFrame(p, FALSE)))
      BY <1>1, <1>3, <2>1, <3>2, <3>6, <3>8, <3>9, <3>10, <3>11, MadePushed
    <3> QED BY <1>3, <3>12 DEF v, t
  <2> QED BY <1>1, <2>1, <2>4, <2>5 DEF Inv
<1> QED BY <1>2, <1>7, <1>9, <1>10, <1>11

\* The master's answer is written down in the program.
LEMMA ApprovedSound ==
  ASSUME NEW c, NEW L, Sound(c, L), NEW p \in Progs, c[p].ref # 0, NEW approves \in BOOLEAN
  PROVE  /\ Sound([c EXCEPT ![p].approves = approves], L)
         /\ \A q \in Progs : [c EXCEPT ![p].approves = approves][q].name = c[q].name
<1> DEFINE d == [c EXCEPT ![p].approves = approves]
<1>1. c \in [Progs -> Programs]
  BY DEF Sound
<1>2. \A q \in Progs : d[q] = IF q = p THEN [c[p] EXCEPT !.approves = approves] ELSE c[q]
  BY <1>1
<1>3. d = [q \in Progs |-> d[q]]
  BY <1>1
<1> HIDE DEF d
<1>4. ASSUME NEW q \in Progs
      PROVE  d[q] \in Programs /\ d[q].name = c[q].name /\ d[q].ref = c[q].ref /\ d[q].inherits = c[q].inherits
  <2>1. c[q] \in Programs
    BY <1>1
  <2>2. [c[q] EXCEPT !.approves = approves] \in Programs
    BY <2>1 DEF Programs
  <2>3. LET r == [c[q] EXCEPT !.approves = approves]
        IN r.name = c[q].name /\ r.ref = c[q].ref /\ r.inherits = c[q].inherits
    BY <2>1 DEF Programs
  <2> QED BY <1>2, <2>1, <2>2, <2>3
<1>5. d \in [Progs -> Programs]
  BY <1>3, <1>4
<1>6. ASSUME NEW q \in Progs
      PROVE  /\ d[q].ref = Cardinality(Claims(L, q)) + Cardinality(Inheriting(d, Progs, q))
             /\ d[q].ref = 0 => d[q] = Free
             /\ d[q].ref # 0 => d[q].name \in Names
  <2>1. Inheriting(d, Progs, q) = Inheriting(c, Progs, q)
    <3>1. \A x : x \in Inheriting(d, Progs, q) <=> x \in Inheriting(c, Progs, q)
      BY <1>4, InheritingHas
    <3> QED BY <3>1
  <2>2. /\ c[q].ref = Cardinality(Claims(L, q)) + Cardinality(Inheriting(c, Progs, q))
        /\ (c[q].ref = 0 => c[q] = Free) /\ (c[q].ref # 0 => c[q].name \in Names)
    BY DEF Sound
  <2>3. q # p => d[q] = c[q]
    BY <1>2
  <2> QED BY <1>4, <2>1, <2>2, <2>3
<1>7. Ledgers(L)
  BY DEF Sound
<1> QED BY <1>4, <1>5, <1>6, <1>7 DEF Sound, d

\* The program that is approved
LEMMA TopWaits ==
  ASSUME NEW w, NEW s \in Seq(FrameSet), Shaped(s), s # <<>>, Last(s).kind = "approve", Good(w, s)
  PROVE  LET p == Last(s).own
             n == w.code[p].name
         IN /\ p \in Progs /\ w.prog = p /\ w.code[p].ref # 0 /\ n \in Names /\ w.table[n] = None
            /\ Waiting(s, p) \in Holders(w, s)
            /\ Holders(w, Front(s)) = Holders(w, s) \ {Waiting(s, p)}
            /\ NamesAgree(w) /\ Chained(w, Front(s)) /\ Wanted(Last(Front(s))) = n
            /\ \A i \in DOMAIN Front(s) :
                 /\ ~ Works(Front(s)[i]) /\ Front(s)[i].kind \notin {"approve", "load"}
                 /\ Front(s)[i].kind = "inherit" => Front(s)[i].name # n
                 /\ Asks(Front(s)[i]) => Front(s)[i].got = "?"
<1> DEFINE p == Last(s).own
           n == w.code[p].name
           b == Front(s)
           f == Last(s)
<1>1. /\ b \in Seq(FrameSet) /\ f \in FrameSet /\ s = Append(b, f) /\ b # <<>> /\ Asks(Last(b))
      /\ Len(s) \in Nat /\ Len(b) = Len(s) - 1 /\ f = s[Len(s)] /\ Len(s) \in DOMAIN s
  BY StackTop, StackEnd DEF Serves
<1>2. p \in Progs
  BY <1>1, FrameKinds
<1>3. Chained(w, s) /\ NamesAgree(w)
  BY DEF Good
<1> HIDE DEF b, f
<1>4. Chained(w, b) /\ Right(w, f) /\ Over(w, Last(b), f)
  BY <1>1, <1>3, ChainedTop DEF b, f
<1>5. /\ Waiting(s, p) \in Holders(w, s) /\ w.code[p].ref # 0 /\ n \in Names
  BY <1>1, GoodLives DEF Waiting, f
<1>6. Served(w, f) = n /\ Serves(f)
  BY DEF Served, Serves, f
<1>7. w.prog = p /\ w.table[n] = None
  BY <1>4, <1>6 DEF Right, f
<1>8. Wanted(Last(b)) = n
  BY <1>1, <1>4, <1>6 DEF Over
<1>9. Holders(w, b) = Holders(w, s) \ {Waiting(s, p)}
  <2>1. f.kind = "approve" /\ f.own = p
    BY DEF f
  <2> HIDE DEF p
  <2>2. /\ Holders(w, Append(b, f)) = Holders(w, b) \cup {<<<<"frame", Len(b) + 1>>, f.own>>}
        /\ <<<<"frame", Len(b) + 1>>, f.own>> \notin Holders(w, b)
    BY <1>1, <2>1, HoldersPushed
  <2>3. Len(b) + 1 = Len(s)
    BY <1>1
  <2>4. <<<<"frame", Len(b) + 1>>, f.own>> = Waiting(s, p)
    BY <2>1, <2>3 DEF Waiting
  <2> QED BY <1>1, <2>2, <2>4
<1>10. ASSUME NEW i \in DOMAIN b
       PROVE  /\ ~ Works(b[i]) /\ b[i].kind \notin {"approve", "load"}
              /\ b[i].kind = "inherit" => b[i].name # n
              /\ Asks(b[i]) => b[i].got = "?"
  <2>1. Apart(w, b[i], f) /\ b[i].kind # "load" /\ (Asks(b[i]) => b[i].got = "?")
    BY <1>3, ChainedTop DEF b, f
  <2>2. Works(f) /\ f.kind = "approve"
    BY DEF Works, f
  <2> QED BY <1>6, <2>1, <2>2 DEF Apart, Works
<1> QED BY <1>2, <1>3, <1>4, <1>5, <1>7, <1>8, <1>9, <1>10 DEF b

\* The master refuses: the program goes, and then the error.
LEMMA RefusedGood ==
  ASSUME Typed, stack # <<>>, Top.kind = "approve", Good(World, stack), Error,
         code' = Freed(code, prog), UNCHANGED <<file, table, object, named, prog>>
  PROVE  Good(World', stack')
<1> DEFINE p == Top.own
           w == World
           v == [World EXCEPT !.code = code']
           L == Holders(w, stack)
<1>1. /\ stack \in Seq(FrameSet) /\ Shaped(stack) /\ Below \in Seq(FrameSet)
      /\ Below = Front(stack) /\ Top = Last(stack)
  BY TopTyped DEF Typed, Top, Below
<1>2. /\ p \in Progs /\ w.prog = p /\ Waiting(stack, p) \in L
      /\ Holders(w, Below) = L \ {Waiting(stack, p)} /\ NamesAgree(w) /\ Chained(w, Below)
      /\ \A i \in DOMAIN Below : Below[i].kind # "approve"
  BY <1>1, TopWaits
<1>3. /\ w.file = file /\ w.code = code /\ w.table = table /\ w.object = object
      /\ w.named = named /\ w.prog = prog /\ w.leaked = leaked
  BY WorldIs
<1>4. /\ v.file = file /\ v.code = code' /\ v.table = table /\ v.object = object
      /\ v.named = named /\ v.prog = prog /\ v.leaked = leaked
  BY DEF World
<1> HIDE DEF w, v, p
<1>5. Sound(code', Holders(w, Below)) /\ Within(code', code)
  <2> DEFINE x == Waiting(stack, p)
  <2>1. x \in L /\ x[2] = p /\ code' = Freed(code, p) /\ Holders(w, Below) = L \ {x}
    BY <1>2, <1>3 DEF Waiting
  <2>2. Sound(code, L)
    BY <1>3 DEF Good, w
  <2> HIDE DEF x, L
  <2> QED BY <2>1, <2>2, FreedSound
<1>6. \A x \in Holders(w, Below) : code'[x[2]].name = code[x[2]].name
  BY <1>5, HeldNames
<1>7. Good(v, Below)
  BY <1>1, <1>2, <1>3, <1>4, <1>5, <1>6, ParsedGood
<1>8. PICK k \in {0} \cup {i \in DOMAIN stack : stack[i].kind = "lpc"} :
        /\ stack' = SubSeq(stack, 1, k)
        /\ leaked' = leaked \cup {stack[i].own : i \in {i \in k + 1 .. Len(stack) - 1 :
                                                       stack[i].kind = "approve"}}
  BY DEF Error
<1>9. /\ Len(stack) \in Nat /\ DOMAIN stack = 1 .. Len(stack) /\ Top = stack[Len(stack)]
      /\ Len(Below) = Len(stack) - 1 /\ DOMAIN Below = 1 .. Len(stack) - 1
      /\ \A i \in DOMAIN Below : Below[i] = stack[i]
  BY <1>1, StackTop
<1>10. k \in 0 .. Len(Below) /\ k \in 0 .. Len(stack)
  <2>1. k = 0 \/ (k \in DOMAIN stack /\ stack[k].kind = "lpc")
    BY <1>8
  <2>2. k # 0 => k \in 1 .. Len(stack) /\ k # Len(stack)
    BY <1>9, <2>1
  <2>3. Len(stack) \in Nat /\ Len(stack) # 0 /\ Len(Below) = Len(stack) - 1
    BY <1>1, <1>9, EmptySeq
  <2> QED BY <2>2, <2>3
<1>11. {stack[i].own : i \in {i \in k + 1 .. Len(stack) - 1 : stack[i].kind = "approve"}} = {}
       /\ Lost(Below, k) = {}
  <2>1. \A i \in k + 1 .. Len(stack) - 1 : stack[i].kind # "approve"
    BY <1>2, <1>9, <1>10
  <2> QED BY <1>2, <2>1 DEF Lost
<1>12. Leaking(v, World', Lost(Below, k))
  BY <1>4, <1>8, <1>11 DEF Leaking, World
<1>13. Good(World', SubSeq(Below, 1, k))
  BY <1>1, <1>7, <1>10, <1>12, GoodError
<1>14. SubSeq(Below, 1, k) = SubSeq(stack, 1, k)
  <2>1. /\ SubSeq(Below, 1, k) \in Seq(FrameSet) /\ Len(SubSeq(Below, 1, k)) = k
        /\ \A i \in 1 .. k : SubSeq(Below, 1, k)[i] = Below[i]
    BY <1>1, <1>10, StackPrefix
  <2>2. /\ SubSeq(stack, 1, k) \in Seq(FrameSet) /\ Len(SubSeq(stack, 1, k)) = k
        /\ \A i \in 1 .. k : SubSeq(stack, 1, k)[i] = stack[i]
    BY <1>1, <1>10, StackPrefix
  <2>3. \A i \in 1 .. k : SubSeq(Below, 1, k)[i] = SubSeq(stack, 1, k)[i]
    BY <1>9, <1>10, <2>1, <2>2
  <2> QED BY <2>1, <2>2, <2>3, SeqEqual
<1> QED BY <1>8, <1>13, <1>14

\* The master approves: the program gets its name, and who asked gets it.
LEMMA EnteredGood ==
  ASSUME Typed, stack # <<>>, Top.kind = "approve", Good(World, stack),
         NEW approves \in BOOLEAN, code' = [code EXCEPT ![prog].approves = approves],
         table' = [table EXCEPT ![code[prog].name] = prog],
         UNCHANGED <<file, object, named, prog, leaked>>
  PROVE  /\ Good(World', Below) /\ World'.table[Wanted(Last(Below))] = prog
<1> DEFINE p == Top.own
           n == code[p].name
           w == World
           v == World'
           L == Holders(w, stack)
           x == Waiting(stack, p)
           y == <<<<"name", n>>, p>>
<1>1. /\ stack \in Seq(FrameSet) /\ Shaped(stack) /\ Below \in Seq(FrameSet)
      /\ Below = Front(stack) /\ Top = Last(stack)
  BY TopTyped DEF Typed, Top, Below
<1>2. /\ w.file = file /\ w.code = code /\ w.table = table /\ w.object = object
      /\ w.named = named /\ w.prog = prog /\ w.leaked = leaked
  BY WorldIs
<1>3. /\ v.file = file /\ v.code = code' /\ v.table = table' /\ v.object = object
      /\ v.named = named /\ v.prog = prog /\ v.leaked = leaked
  BY DEF World
<1>4. /\ p \in Progs /\ prog = p /\ code[p].ref # 0 /\ n \in Names /\ table[n] = None
      /\ x \in L /\ Holders(w, Below) = L \ {x} /\ NamesAgree(w) /\ Chained(w, Below)
      /\ Wanted(Last(Below)) = n
      /\ \A i \in DOMAIN Below :
           /\ ~ Works(Below[i]) /\ Below[i].kind \notin {"approve", "load"}
           /\ Below[i].kind = "inherit" => Below[i].name # n
           /\ Asks(Below[i]) => Below[i].got = "?"
  BY <1>1, <1>2, TopWaits
<1>5. \A m \in Names : table'[m] = IF m = n THEN p ELSE table[m]
  BY <1>4 DEF Typed
<1>6. x[2] = p /\ y[2] = p /\ p # None
  BY <1>4, NoneAssumption DEF Waiting
<1>7. y \notin L
  <2> SUFFICES ASSUME y \in L PROVE FALSE
    OBVIOUS
  <2>1. \E m \in Names : table[m] # None /\ y = <<<<"name", m>>, table[m]>>
    BY <1>2, HoldersHas
  <2> QED BY <1>4, <2>1
<1>8. Sound(code, L)
  BY <1>2 DEF Good
<1> HIDE DEF w, v, L, x, p
<1>9. Sound(code, (L \ {x}) \cup {y})
  <2> HIDE DEF y
  <2> QED BY <1>4, <1>6, <1>7, <1>8, MovedSound
<1>10. /\ Sound(code', (L \ {x}) \cup {y}) /\ \A q \in Progs : code'[q].name = code[q].name
  <2>1. code' = [code EXCEPT ![p].approves = approves]
    BY <1>4
  <2> DEFINE M == (L \ {x}) \cup {y}
  <2>2. Sound(code, M)
    BY <1>9
  <2> HIDE DEF M, y, n
  <2>3. p \in Progs /\ code[p].ref # 0
    BY <1>4 DEF n
  <2>4. Sound([code EXCEPT ![p].approves = approves], M)
    BY <2>2, <2>3, ApprovedSound
  <2>5. \A q \in Progs : [code EXCEPT ![p].approves = approves][q].name = code[q].name
    BY <2>2, <2>3, ApprovedSound
  <2> QED BY <2>1, <2>4, <2>5 DEF M
<1>11. ASSUME NEW z PROVE z \in Holders(v, Below) <=> z \in Holders(w, Below) \/ z = y
  <2>1. (\E m \in Names : table'[m] # None /\ z = <<<<"name", m>>, table'[m]>>) <=>
          z = y \/ \E m \in Names : table[m] # None /\ z = <<<<"name", m>>, table[m]>>
    BY <1>4, <1>5, <1>6
  <2>2. z \in Holders(v, Below) <=>
           \/ \E m \in Names : table'[m] # None /\ z = <<<<"name", m>>, table'[m]>>
           \/ \E o \in Objs : object[o].prog # None /\ z = <<<<"object", o>>, object[o].prog>>
           \/ \E i \in DOMAIN Below : Below[i].kind = "approve" /\ z = <<<<"frame", i>>, Below[i].own>>
           \/ \E q \in leaked : z = <<<<"leak", q>>, q>>
    <3>1. z \in Holders(v, Below) <=>
           \/ \E m \in Names : v.table[m] # None /\ z = <<<<"name", m>>, v.table[m]>>
           \/ \E o \in Objs : v.object[o].prog # None /\ z = <<<<"object", o>>, v.object[o].prog>>
           \/ \E i \in DOMAIN Below : Below[i].kind = "approve" /\ z = <<<<"frame", i>>, Below[i].own>>
           \/ \E q \in v.leaked : z = <<<<"leak", q>>, q>>
      BY HoldersHas
    <3> QED BY <1>3, <3>1
  <2>3. z \in Holders(w, Below) <=>
           \/ \E m \in Names : table[m] # None /\ z = <<<<"name", m>>, table[m]>>
           \/ \E o \in Objs : object[o].prog # None /\ z = <<<<"object", o>>, object[o].prog>>
           \/ \E i \in DOMAIN Below : Below[i].kind = "approve" /\ z = <<<<"frame", i>>, Below[i].own>>
           \/ \E q \in leaked : z = <<<<"leak", q>>, q>>
    BY <1>2, HoldersHas
  <2> HIDE DEF y
  <2> QED BY <2>1, <2>2, <2>3
<1>12. Holders(v, Below) = (L \ {x}) \cup {y}
  <2> HIDE DEF y
  <2> QED BY <1>4, <1>11
<1>13. NamesAgree(v)
  <2>1. ASSUME NEW m \in Names, table'[m] # None PROVE code'[table'[m]].name = m
    <3>1. CASE m = n
      BY <1>4, <1>5, <1>10, <3>1
    <3>2. CASE m # n
      <4>1. table'[m] = table[m] /\ table[m] \in Progs
        BY <1>5, <2>1, <3>2 DEF Typed
      <4>2. code[table[m]].name = m
        BY <1>2, <1>4, <2>1, <4>1 DEF NamesAgree
      <4> QED BY <1>10, <4>1, <4>2
    <3> QED BY <3>1, <3>2
  <2> QED BY <1>2, <1>3, <1>4, <2>1 DEF NamesAgree
<1>14. ASSUME NEW i \in DOMAIN Below PROVE Same(w, v, Below[i])
  <2>1. Below[i] \in FrameSet
    BY <1>1, ElementOfSeq, LenProperties
  <2>2. Serves(Below[i]) => Below[i].kind = "inherit" /\ Below[i].name # n /\ Below[i].name \in Names
    BY <1>4, <2>1, FrameKinds DEF Serves, Works
  <2>3. Serves(Below[i]) => v.table[Served(v, Below[i])] = w.table[Served(w, Below[i])]
    BY <1>2, <1>3, <1>5, <2>2 DEF Served
  <2>4. Asks(Below[i]) => Below[i].got \notin Progs
    BY <1>4, MemoryAssumption
  <2>5. Below[i].kind # "approve" /\ (Serves(Below[i]) => v.table[Served(v, Below[i])] = w.table[Served(w, Below[i])])
    BY <1>4, <2>3
  <2> QED BY <1>2, <1>3, <2>4, <2>5 DEF Same, Right
<1>15. Chained(v, Below)
  BY <1>4, <1>14, ChainedSame
<1>16. Good(v, Below)
  BY <1>3, <1>10, <1>12, <1>13, <1>15 DEF Good
<1>17. v.table[Wanted(Last(Below))] = prog
  BY <1>3, <1>4, <1>5
<1> QED BY <1>16, <1>17 DEF v

LEMMA ApprovedKeeps ==
  ASSUME Inv, Approved
  PROVE  Inv'
<1>1. /\ stack # <<>> /\ Top.kind = "approve" /\ UNCHANGED <<file, object, named, prog, approved_object, calls, taken>>
  BY DEF Approved, Waits
<1>2. \/ (prog = None \/ code[prog].name = None) /\ UNCHANGED <<stack, leaked, code, table>>
      \/ prog # None /\ Error /\ code' = Freed(code, prog) /\ UNCHANGED table
      \/ prog # None /\ table[code[prog].name] # None /\ UNCHANGED <<stack, leaked, code, table>>
      \/ /\ prog # None /\ code[prog].name # None /\ Go(Answer(Below, prog))
         /\ table' = [table EXCEPT ![code[prog].name] = prog]
         /\ \E approves \in BOOLEAN : code' = [code EXCEPT ![prog].approves = approves]
  BY DEF Approved, Fatal
<1>3. /\ stack \in Seq(FrameSet) /\ Shaped(stack) /\ Below \in Seq(FrameSet) /\ Shaped(Below)
      /\ Below # <<>> /\ Asks(Last(Below)) /\ Below = Front(stack) /\ Top = Last(stack)
  BY <1>1, TopTyped DEF Inv, Typed, Top, Below, Serves
<1>4. ASSUME taken = {}
      PROVE  prog \in Progs /\ code[prog].name \in Names /\ table[code[prog].name] = None /\ Good(World, stack)
  <2>1. Good(World, stack)
    BY <1>4 DEF Inv
  <2>2. /\ Top.own \in Progs /\ World.prog = Top.own /\ World.code[Top.own].name \in Names
        /\ World.table[World.code[Top.own].name] = None
    BY <1>1, <1>3, <2>1, TopWaits
  <2> QED BY <2>1, <2>2, WorldIs
<1>5. CASE (prog = None \/ code[prog].name = None) /\ UNCHANGED <<stack, leaked, code, table>>
  <2>1. taken # {}
    BY <1>4, <1>5, NoneAssumption
  <2>2. Typed'
    BY <1>1, <1>5 DEF Inv, Typed
  <2> QED BY <1>1, <2>1, <2>2 DEF Inv
<1>6. CASE prog # None /\ Error /\ code' = Freed(code, prog) /\ UNCHANGED table
  <2>1. stack' \in Seq(FrameSet) /\ Shaped(stack') /\ leaked' \subseteq Progs /\ fatal' = fatal
    BY <1>1, <1>6, ErrorTyped DEF Inv
  <2>2. code' \in [Progs -> Programs]
    BY <1>6, FreedTyped DEF Inv, Typed
  <2>3. Typed'
    BY <1>1, <1>6, <2>1, <2>2 DEF Inv, Typed
  <2>4. ASSUME taken' = {} PROVE Good(World', stack')
    BY <1>1, <1>4, <1>6, <2>4, RefusedGood DEF Inv
  <2> QED BY <1>1, <2>1, <2>3, <2>4 DEF Inv
<1>7. CASE table[code[prog].name] # None /\ UNCHANGED <<stack, leaked, code, table>>
  <2>1. taken # {}
    BY <1>4, <1>7
  <2>2. Typed'
    BY <1>1, <1>7 DEF Inv, Typed
  <2> QED BY <1>1, <2>1, <2>2 DEF Inv
<1>8. ASSUME prog # None, code[prog].name # None, Go(Answer(Below, prog)),
             table' = [table EXCEPT ![code[prog].name] = prog],
             NEW approves \in BOOLEAN, code' = [code EXCEPT ![prog].approves = approves]
      PROVE  Inv'
  <2>1. stack' = Answer(Below, prog) /\ UNCHANGED <<fatal, leaked>> /\ prog \in Progs /\ prog \in Answers
    BY <1>8 DEF Go, Inv, Typed, Answers
  <2>2. stack' \in Seq(FrameSet) /\ Shaped(stack')
    BY <1>3, <2>1, AnswerKeeps
  <2>3. table' \in [Names -> Progs \cup {None}]
    BY <1>8, <2>1 DEF Inv, Typed
  <2>4. code' \in [Progs -> Programs]
    <3>1. code \in [Progs -> Programs] /\ code[prog] \in Programs
      BY <2>1 DEF Inv, Typed
    <3>2. [code[prog] EXCEPT !.approves = approves] \in Programs
      BY <3>1 DEF Programs
    <3> QED BY <1>8, <3>1, <3>2
  <2>5. Typed'
    BY <1>1, <2>1, <2>2, <2>3, <2>4 DEF Inv, Typed
  <2>6. ASSUME taken' = {} PROVE Good(World', stack')
    <3>1. Good(World', Below) /\ World'.table[Wanted(Last(Below))] = prog
      BY <1>1, <1>4, <1>8, <2>1, <2>6, EnteredGood DEF Inv
    <3> QED BY <1>3, <2>1, <3>1, AnswerKeeps
  <2> QED BY <1>1, <2>1, <2>5, <2>6 DEF Inv
<1> QED BY <1>2, <1>5, <1>6, <1>7, <1>8

-----------------------------------------------------------------------------
(* The invariant                                                           *)

LEMMA InitHolds ==
  ASSUME Init
  PROVE  Inv
<1>1. /\ file \in Libraries /\ code = [p \in Progs |-> Free] /\ table = [n \in Names |-> None]
      /\ object = [o \in Objs |-> NoObject] /\ named = [n \in Names |-> None]
      /\ prog = None /\ approved_object = FALSE
      /\ stack = <<>> /\ calls = Budget /\ fatal = None /\ taken = {} /\ leaked = {}
  BY DEF Init
<1>2. Free \in Programs /\ Free.ref = 0 /\ Free.inherits = <<>>
  BY EmptySeq DEF Free, Programs
<1>3. code \in [Progs -> Programs] /\ \A p \in Progs : code[p] = Free
  BY <1>1, <1>2
<1>4. object \in [Objs -> Entries]
  <2>1. NoObject \in Entries
    BY DEF NoObject, Entries
  <2> QED BY <1>1, <2>1
<1>5. stack \in Seq(FrameSet) /\ Shaped(stack) /\ \A i : i \notin DOMAIN stack
  BY <1>1, EmptySeq DEF Shaped
<1>6. Typed
  <2>1. file \in [Names -> [inherits: Seq(Names), broken: BOOLEAN, exists: BOOLEAN]]
    BY <1>1, LibraryAssumption
  <2>2. calls \in Nat /\ taken \subseteq Liberties /\ leaked \subseteq Progs
    BY <1>1, BudgetAssumption
  <2> QED BY <1>1, <1>3, <1>4, <1>5, <2>1, <2>2 DEF Typed
<1>7. Holders(World, stack) = {}
  <2>1. ASSUME NEW x \in Holders(World, stack) PROVE FALSE
    BY <1>1, <1>5, WorldIs, HoldersHas DEF NoObject
  <2> QED BY <2>1
<1>8. Sound(code, {})
  <2>1. Ledgers({})
    BY FS_EmptySet DEF Ledgers
  <2>2. ASSUME NEW p \in Progs
        PROVE  Cardinality(Claims({}, p)) = 0 /\ Cardinality(Inheriting(code, Progs, p)) = 0
    <3>1. Claims({}, p) = {}
      BY DEF Claims
    <3>2. \A q \in Progs : \A i : i \notin DOMAIN code[q].inherits
      BY <1>2, <1>3, EmptySeq
    <3>3. Inheriting(code, Progs, p) = {}
      BY <3>2, InheritingHas
    <3> QED BY <3>1, <3>3, FS_EmptySet
  <2>3. ASSUME NEW p \in Progs
        PROVE  /\ code[p].ref = Cardinality(Claims({}, p)) + Cardinality(Inheriting(code, Progs, p))
               /\ code[p] = Free /\ code[p].ref = 0
    BY <1>2, <1>3, <2>2
  <2> QED BY <1>3, <2>1, <2>3 DEF Sound
<1>9. NamesAgree(World)
  BY <1>1, WorldIs DEF NamesAgree, NoObject
<1>10. Chained(World, stack)
  BY <1>5 DEF Chained
<1> QED BY <1>1, <1>6, <1>7, <1>8, <1>9, <1>10, WorldIs DEF Inv, Good

LEMMA NextKeeps ==
  ASSUME Inv, [Next]_vars
  PROVE  Inv'
<1>1. CASE Driver
  <2>1. CASE LoadObject
    BY <2>1, LoadObjectKeeps
  <2>2. CASE ParseError
    BY <2>2, ParseErrorKeeps
  <2>3. CASE ParseEnd
    BY <2>3, ParseEndKeeps
  <2>4. CASE Inherited
    BY <2>4, InheritedKeeps
  <2>5. CASE Approve
    BY <2>5, ApproveKeeps
  <2>6. CASE Approved
    BY <2>6, ApprovedKeeps
  <2>7. CASE Find
    BY <2>7, FindKeeps
  <2>8. CASE MakeObject
    BY <2>8, MakeObjectKeeps
  <2>9. CASE UidDone
    BY <2>9, UidDoneKeeps
  <2>10. CASE AskVirtual
    BY <2>10, AskVirtualKeeps
  <2>11. CASE VirtualDone
    BY <2>11, VirtualDoneKeeps
  <2> QED BY <1>1, <2>1, <2>2, <2>3, <2>4, <2>5, <2>6, <2>7, <2>8, <2>9, <2>10, <2>11 DEF Driver
<1>2. CASE Return
  BY <1>2, ReturnKeeps
<1>3. CASE Throw
  BY <1>3, ThrowKeeps
<1>4. CASE Turn
  BY <1>4, TurnKeeps
<1>5. CASE UNCHANGED vars
  BY <1>5, IdleKeeps
<1>6. ASSUME NEW n \in Names, Clone(n) \/ FindHashed(n) \/ Update(n) \/ Edit(n) PROVE Inv'
  BY <1>6, CloneKeeps, FindHashedKeeps, UpdateKeeps, EditKeeps
<1>7. ASSUME NEW o \in Objs, Destruct(o) \/ Reap(o) PROVE Inv'
  BY <1>7, DestructKeeps, ReapKeeps
<1>8. Idle => UNCHANGED vars
  BY DEF Idle
<1> QED BY <1>1, <1>2, <1>3, <1>4, <1>5, <1>6, <1>7, <1>8 DEF Next

LEMMA AlwaysInv == Spec => []Inv
<1>1. Init => Inv
  BY InitHolds
<1>2. Inv /\ [Next]_vars => Inv'
  BY NextKeeps
<1> QED BY <1>1, <1>2, PTL DEF Spec

-----------------------------------------------------------------------------
(* What the invariant says                                                 *)

\* Holders of one kind are as many as what they are named after.
Tagged(t, p, S) == {<<<<t, e>>, p>> : e \in S}

LEMMA TaggedCount ==
  ASSUME NEW t, NEW p, NEW S, IsFiniteSet(S)
  PROVE  /\ IsFiniteSet(Tagged(t, p, S)) /\ Cardinality(Tagged(t, p, S)) = Cardinality(S)
         /\ Cardinality(S) \in Nat /\ \A x \in Tagged(t, p, S) : x[1][1] = t
<1> DEFINE B == Tagged(t, p, S)
           f == [e \in S |-> <<<<t, e>>, p>>]
<1>1. f \in [S -> B] /\ \A y \in B : \E e \in S : f[e] = y
  BY DEF Tagged
<1>2. \A d, e \in S : f[d] = f[e] => d = e
  OBVIOUS
<1>3. \A x \in B : x[1][1] = t
  BY DEF Tagged
<1> HIDE DEF f, B
<1>4. f \in Bijection(S, B)
  BY <1>1, <1>2, Fun_IsBij
<1>5. ExistsBijection(S, B)
  BY <1>4, Fun_ExistsBij
<1>6. IsFiniteSet(B) /\ Cardinality(B) = Cardinality(S)
  BY <1>5, FS_Bijection
<1> QED BY <1>3, <1>6, FS_CardinalityType DEF B

LEMMA ApartCount ==
  ASSUME NEW A, NEW B, IsFiniteSet(A), IsFiniteSet(B), A \cap B = {}
  PROVE  IsFiniteSet(A \cup B) /\ Cardinality(A \cup B) = Cardinality(A) + Cardinality(B)
<1>1. /\ IsFiniteSet(A \cup B)
      /\ Cardinality(A \cup B) = Cardinality(A) + Cardinality(B) - Cardinality(A \cap B)
  BY FS_Union
<1>2. Cardinality(A \cap B) = 0
  BY FS_EmptySet
<1>3. Cardinality(A) \in Nat /\ Cardinality(B) \in Nat
  BY FS_CardinalityType
<1> QED BY <1>1, <1>2, <1>3

\* The ledger is as long as the uses are many.
LEMMA UsesCounted ==
  ASSUME Typed, Good(World, stack), NEW p \in Progs
  PROVE  /\ Uses(p) \in Nat
         /\ code[p].ref = Uses(p) + (IF p \in leaked THEN 1 ELSE 0)
<1> DEFINE L == Holders(World, stack)
           N == {n \in Names : table[n] = p}
           O == {o \in Objs : object[o].prog = p}
           F == {i \in DOMAIN stack : stack[i].kind = "approve" /\ stack[i].own = p}
           K == {q \in leaked : q = p}
           A == Tagged("name", p, N)
           B == Tagged("object", p, O)
           C == Tagged("frame", p, F)
           D == Tagged("leak", p, K)
<1>1. IsFiniteSet(N) /\ IsFiniteSet(O) /\ IsFiniteSet(F) /\ IsFiniteSet(K)
  <2>1. IsFiniteSet(N)
    BY FS_Subset, MemoryAssumption
  <2>2. IsFiniteSet(O)
    BY FS_Subset, MemoryAssumption
  <2>3. IsFiniteSet(F)
    <3>1. DOMAIN stack = 1 .. Len(stack) /\ Len(stack) \in Nat
      BY LenProperties DEF Typed
    <3>2. IsFiniteSet(1 .. Len(stack))
      BY <3>1, FS_Interval
    <3>3. F \in SUBSET (1 .. Len(stack))
      BY <3>1
    <3> QED BY <3>2, <3>3, FS_Subset
  <2>4. IsFiniteSet(K)
    <3>1. K \in SUBSET Progs
      BY DEF Typed
    <3> QED BY <3>1, FS_Subset, MemoryAssumption
  <2> QED BY <2>1, <2>2, <2>3, <2>4
<1>2. Cardinality(K) = IF p \in leaked THEN 1 ELSE 0
  <2>1. CASE p \in leaked
    <3>1. K = {p}
      BY <2>1
    <3> QED BY <2>1, <3>1, FS_Singleton
  <2>2. CASE p \notin leaked
    <3>1. K = {}
      BY <2>2
    <3> QED BY <2>2, <3>1, FS_EmptySet
  <2> QED BY <2>1, <2>2
<1>3. Claims(L, p) = ((A \cup B) \cup C) \cup D
  <2>1. ASSUME NEW x PROVE x \in Claims(L, p) <=> x \in A \/ x \in B \/ x \in C \/ x \in D
    <3>1. x \in L <=>
           \/ \E n \in Names : table[n] # None /\ x = <<<<"name", n>>, table[n]>>
           \/ \E o \in Objs : object[o].prog # None /\ x = <<<<"object", o>>, object[o].prog>>
           \/ \E i \in DOMAIN stack : stack[i].kind = "approve" /\ x = <<<<"frame", i>>, stack[i].own>>
           \/ \E q \in leaked : x = <<<<"leak", q>>, q>>
      BY WorldIs, HoldersHas
    <3>2. p # None
      BY NoneAssumption
    <3>3. x \in A <=> \E n \in Names : table[n] = p /\ x = <<<<"name", n>>, p>>
      BY DEF Tagged
    <3>4. x \in B <=> \E o \in Objs : object[o].prog = p /\ x = <<<<"object", o>>, p>>
      BY DEF Tagged
    <3>5. x \in C <=> \E i \in DOMAIN stack : stack[i].kind = "approve" /\ stack[i].own = p /\ x = <<<<"frame", i>>, p>>
      BY DEF Tagged
    <3>6. x \in D <=> \E q \in leaked : q = p /\ x = <<<<"leak", q>>, p>>
      BY DEF Tagged
    <3>7. x \in Claims(L, p) <=> x \in L /\ x[2] = p
      BY DEF Claims
    <3> HIDE DEF A, B, C, D, L
    <3> QED BY <3>1, <3>2, <3>3, <3>4, <3>5, <3>6, <3>7
  <2> HIDE DEF A, B, C, D
  <2> QED BY <2>1
<1> HIDE DEF N, O, F, K
<1>4. /\ IsFiniteSet(A) /\ Cardinality(A) = Cardinality(N) /\ Cardinality(N) \in Nat
      /\ \A x \in A : x[1][1] = "name"
  BY <1>1, TaggedCount
<1>5. /\ IsFiniteSet(B) /\ Cardinality(B) = Cardinality(O) /\ Cardinality(O) \in Nat
      /\ \A x \in B : x[1][1] = "object"
  BY <1>1, TaggedCount
<1>6. /\ IsFiniteSet(C) /\ Cardinality(C) = Cardinality(F) /\ Cardinality(F) \in Nat
      /\ \A x \in C : x[1][1] = "frame"
  BY <1>1, TaggedCount
<1>7. /\ IsFiniteSet(D) /\ Cardinality(D) = Cardinality(K) /\ Cardinality(K) \in Nat
      /\ \A x \in D : x[1][1] = "leak"
  BY <1>1, TaggedCount
<1> HIDE DEF A, B, C, D, L
<1>8. A \cap B = {} /\ (A \cup B) \cap C = {} /\ ((A \cup B) \cup C) \cap D = {}
  BY <1>4, <1>5, <1>6, <1>7
<1>9. IsFiniteSet(A \cup B) /\ Cardinality(A \cup B) = Cardinality(A) + Cardinality(B)
  BY <1>4, <1>5, <1>8, ApartCount
<1>10. /\ IsFiniteSet((A \cup B) \cup C)
       /\ Cardinality((A \cup B) \cup C) = Cardinality(A \cup B) + Cardinality(C)
  BY <1>6, <1>8, <1>9, ApartCount
<1>11. Cardinality(Claims(L, p)) = Cardinality((A \cup B) \cup C) + Cardinality(D)
  BY <1>3, <1>7, <1>8, <1>10, ApartCount
<1>12. Cardinality(Claims(L, p)) = Cardinality(N) + Cardinality(O) + Cardinality(F) + Cardinality(K)
  BY <1>4, <1>5, <1>6, <1>7, <1>9, <1>10, <1>11
<1>13. Uses(p) = Cardinality(N) + Cardinality(O) + Cardinality(F) + Cardinality(Inheriting(code, Progs, p))
  BY DEF Uses, N, O, F
<1>14. Cardinality(Inheriting(code, Progs, p)) \in Nat
  BY InheritingFinite DEF Typed
<1>15. code[p].ref = Cardinality(Claims(L, p)) + Cardinality(Inheriting(code, Progs, p))
  <2>1. World.code = code
    BY WorldIs
  <2> QED BY <2>1 DEF Good, Sound, L
<1> QED BY <1>2, <1>4, <1>5, <1>6, <1>7, <1>12, <1>13, <1>14, <1>15

LEMMA InvTyped ==
  ASSUME Inv
  PROVE  TypeOK
<1>1. ASSUME NEW p \in Progs
      PROVE  /\ code[p].name \in Names \cup {None} /\ code[p].inherits \in Seq(Progs)
             /\ taken = {} => (code[p].name = None) = (code[p].ref = 0)
  <2>1. code[p].name \in Names \cup {None} /\ code[p].inherits \in Seq(Progs)
    BY DEF Inv, Typed, Programs
  <2>2. ASSUME taken = {} PROVE (code[p].name = None) = (code[p].ref = 0)
    <3>1. Sound(code, Holders(World, stack))
      BY <2>2, WorldIs DEF Inv, Good
    <3>2. (code[p].ref = 0 => code[p] = Free) /\ (code[p].ref # 0 => code[p].name \in Names)
      BY <3>1 DEF Sound
    <3> QED BY <3>2, NoneAssumption DEF Free
  <2> QED BY <2>1, <2>2
<1>2. ASSUME NEW o \in Objs
      PROVE  /\ object[o].state \in {"free", "live", "destructed"}
             /\ object[o].prog \in Progs \cup {None} /\ object[o].index \in Names \cup {None}
  BY DEF Inv, Typed, Entries
<1>3. ASSUME NEW i \in DOMAIN stack PROVE stack[i].kind \in Kinds
  <2>1. stack[i] \in FrameSet
    BY ElementOfSeq, LenProperties DEF Inv, Typed
  <2> QED BY <2>1, FrameKinds
<1> QED BY <1>1, <1>2, <1>3 DEF Inv, Typed, TypeOK

LEMMA InvReferences ==
  ASSUME Inv
  PROVE  RefsExact /\ NothingFreedInUse
<1> SUFFICES ASSUME taken = {}, NEW p \in Progs
             PROVE  /\ code[p].ref = Uses(p) + (IF p \in leaked THEN 1 ELSE 0)
                    /\ Uses(p) > 0 => code[p] # Free
  BY DEF RefsExact, NothingFreedInUse
<1>1. Uses(p) \in Nat /\ code[p].ref = Uses(p) + (IF p \in leaked THEN 1 ELSE 0)
  BY UsesCounted DEF Inv
<1>2. code[p] = Free => code[p].ref = 0
  BY DEF Free
<1> QED BY <1>1, <1>2

LEMMA InvNames ==
  ASSUME Inv
  PROVE  TablesByName /\ NamesRemovable /\ NoFatal
<1>1. taken = {} => NamesAgree(World)
  BY DEF Inv, Good
<1> QED BY <1>1, WorldIs DEF NamesAgree, TablesByName, NamesRemovable, NoFatal, MayRemove, Inv

LEMMA InvRightProgram ==
  ASSUME Inv
  PROVE  GotRightProgram
<1> SUFFICES ASSUME taken = {}, NEW i \in DOMAIN stack, Asks(stack[i]), stack[i].got \in Progs
             PROVE  code[stack[i].got].name = Wanted(stack[i])
  BY DEF GotRightProgram, Asks, Wanted
<1>1. NamesAgree(World) /\ Right(World, stack[i])
  BY DEF Inv, Good, Chained
<1>2. table[Wanted(stack[i])] = stack[i].got
  BY <1>1, WorldIs DEF Right
<1>3. Wanted(stack[i]) \in Names
  <2>1. stack[i] \in FrameSet
    BY ElementOfSeq, LenProperties DEF Inv, Typed
  <2> QED BY <2>1, FrameKinds DEF Asks, Wanted
<1>4. stack[i].got # None
  BY NoneAssumption
<1> QED BY <1>1, <1>2, <1>3, <1>4, WorldIs DEF NamesAgree

-----------------------------------------------------------------------------
\* A program is counted as often as its name, its objects, the load that made it
\* and the programs that inherit it use it, through errors, updates, reloads and
\* nested loads, and nothing that is in use is freed, while the master's
\* functions take none of the liberties (free_prog, reference_prog, epilog).
THEOREM ReferencesStaySound == Spec => []ReferencesSound
<1>1. Inv => ReferencesSound
  BY InvTyped, InvReferences DEF ReferencesSound
<1> QED BY <1>1, AlwaysInv, PTL

\* Both hash tables find under a name what has that name, an object can always be
\* taken out of them, and no fatal() about a name or a program is reached, unless
\* a liberty was taken (otable.c, more_hashes.c, load_object, destruct_object).
THEOREM NamesStaySound == Spec => []NamesSound
<1>1. Inv => NamesSound
  BY InvNames DEF NamesSound
<1> QED BY <1>1, AlwaysInv, PTL

\* Who waits for a program gets the one of the name it asked for, whatever was
\* loaded, updated and approved while it waited (load_object, find_prog).
THEOREM AlwaysGotRightProgram == Spec => []GotRightProgram
<1>1. Inv => GotRightProgram
  BY InvRightProgram
<1> QED BY <1>1, AlwaysInv, PTL
=============================================================================

--------------------------- MODULE StringsProofs ---------------------------
(***************************************************************************)
(* Shared strings stay shared: one block for a text, in its chain, counted *)
(* exactly, and never mistaken by the cache of sums, for every set of      *)
(* variables, texts and addresses and every size of the cache.             *)
(*                                                                         *)
(* The proof keeps a ledger: the set of pairs of a holder (a variable, or  *)
(* a field of a cache entry) and the address it holds.  A table is sound   *)
(* for a ledger when its counts are those of the ledger, so an operation   *)
(* that takes or gives back one reference adds or removes one pair, and    *)
(* the handlers, which do several, pass through ledgers no variable shows. *)
(***************************************************************************)
EXTENDS Strings, TLAPS, FiniteSetTheorems, FunctionTheorems, SequenceTheorems, WellFoundedInduction

Texts == Sums \cup {<<>>}
Blocks == [text : Texts, refs : Nat]
SharedTables == [block : [Addresses -> Blocks], chain : [Buckets -> Seq(Addresses)]]

Members(c) == {c[i] : i \in DOMAIN c}
Distinct(c) == \A i, j \in DOMAIN c : c[i] = c[j] => i = j

\* How many pairs of a ledger say a.
Claims(L, a) == {x \in L : x[2] = a}
Ledgers(L) == IsFiniteSet(L) /\ \A x \in L : x[2] \in Addresses

ChainOf(s, h) == {a \in InUse(s) : StrHash[s.block[a].text] = h}
Chained(s) == \A h \in Buckets : Distinct(s.chain[h]) /\ Members(s.chain[h]) = ChainOf(s, h)
Single(s) == \A a, b \in InUse(s) : s.block[a].text = s.block[b].text => a = b
Counted(s, L) == \A a \in Addresses : s.block[a].refs = Cardinality(Claims(L, a))
Hashed(s) == \A a \in InUse(s) : s.block[a].text \in Sums

\* The table has what the ledger says, and nothing else.
Sound(s, L) == s \in SharedTables /\ Ledgers(L) /\ Chained(s) /\ Single(s) /\ Counted(s, L) /\ Hashed(s)

\* What is in use in s is in use in t, with the same text.
Within(s, t) == \A a \in InUse(s) : a \in InUse(t) /\ t.block[a].text = s.block[a].text

-----------------------------------------------------------------------------
(* Numbers have a least one: strict inclusion of finite sets is            *)
(* well-founded, so one of the sets 0 .. x is inside all the others.       *)

LEMMA LeastNat ==
  ASSUME NEW S \in SUBSET Nat, S # {}
  PROVE  \E x \in S : \A y \in S : x <= y
<1> DEFINE R == StrictSubsetOrdering(Nat)
           T == {0 .. x : x \in S}
<1>1. IsWellFoundedOn(R, FiniteSubsetsOf(Nat))
  BY FS_StrictSubsetOrderingWellFounded
<1>2. T \subseteq FiniteSubsetsOf(Nat)
  <2>1. \A x \in S : IsFiniteSet(0 .. x) /\ 0 .. x \in SUBSET Nat
    BY FS_Interval
  <2>2. \A x \in S : 0 .. x \in FiniteSubsetsOf(Nat)
    BY <2>1, Zenon DEF FiniteSubsetsOf
  <2> QED BY <2>2
<1>3. T # {}
  OBVIOUS
<1>4. \E u \in T : \A v \in T : ~ (<<v, u>> \in R)
  <2> HIDE DEF R, T
  <2> QED BY <1>1, <1>2, <1>3, WFMin
<1>5. PICK x \in S : \A y \in S : ~ (<<0 .. y, 0 .. x>> \in R)
  BY <1>4
<1>6. ASSUME NEW y \in S, y < x PROVE FALSE
  <2>1. 0 .. y \in SUBSET Nat /\ 0 .. x \in SUBSET Nat
    OBVIOUS
  <2>2. 0 .. y \subseteq 0 .. x /\ x \in 0 .. x /\ x \notin 0 .. y
    BY <1>6
  <2> QED BY <1>5, <2>1, <2>2 DEF StrictSubsetOrdering
<1> QED BY <1>6

-----------------------------------------------------------------------------
(* Chains                                                                  *)

\* A new block comes to the front of a chain.
LEMMA PushedChain ==
  ASSUME NEW c \in Seq(Addresses), NEW a \in Addresses, a \notin Members(c), Distinct(c)
  PROVE  <<a>> \o c \in Seq(Addresses) /\ Members(<<a>> \o c) = Members(c) \cup {a} /\ Distinct(<<a>> \o c)
<1> DEFINE t == <<a>> \o c
<1>1. /\ t \in Seq(Addresses) /\ Len(c) \in Nat
      /\ DOMAIN c = 1 .. Len(c) /\ DOMAIN t = 1 .. Len(c) + 1
      /\ \A i \in 1 .. Len(c) + 1 : t[i] = IF i = 1 THEN a ELSE c[i - 1]
  OBVIOUS
<1> HIDE DEF t
<1>2. Members(t) = Members(c) \cup {a}
  <2>1. \A i \in DOMAIN c : i + 1 \in DOMAIN t /\ t[i + 1] = c[i]
    BY <1>1
  <2>2. 1 \in DOMAIN t /\ t[1] = a
    BY <1>1
  <2>3. \A i \in DOMAIN t : t[i] = a \/ (i - 1 \in DOMAIN c /\ t[i] = c[i - 1])
    BY <1>1
  <2> QED BY <2>1, <2>2, <2>3 DEF Members
<1>3. Distinct(t)
  <2> SUFFICES ASSUME NEW i \in 1 .. Len(c) + 1, NEW j \in 1 .. Len(c) + 1, t[i] = t[j]
               PROVE  i = j
    BY <1>1 DEF Distinct
  <2>1. \A k \in 1 .. Len(c) : c[k] # a
    BY <1>1 DEF Members
  <2>2. \A k, m \in 1 .. Len(c) : c[k] = c[m] => k = m
    BY <1>1 DEF Distinct
  <2>3. CASE i = 1 \/ j = 1
    BY <1>1, <2>1, <2>3
  <2>4. CASE i # 1 /\ j # 1
    <3>1. i - 1 \in 1 .. Len(c) /\ j - 1 \in 1 .. Len(c) /\ c[i - 1] = c[j - 1]
      BY <1>1, <2>4
    <3>2. i - 1 = j - 1
      BY <2>2, <3>1
    <3> QED BY <3>2
  <2> QED BY <2>3, <2>4
<1> QED BY <1>1, <1>2, <1>3 DEF t

\* Unlinking a block takes it, and nothing else, out of its chain.
LEMMA UnlinkedChain ==
  ASSUME NEW c \in Seq(Addresses), NEW a \in Members(c), Distinct(c)
  PROVE  /\ Unlinked(c, a) \in Seq(Addresses) /\ Distinct(Unlinked(c, a))
         /\ Members(Unlinked(c, a)) = Members(c) \ {a}
<1> DEFINE t == Unlinked(c, a)
           p == Found(c, a)
           From(j) == IF j < p THEN j ELSE j + 1
<1>1. p \in 1 .. Len(c) /\ c[p] = a /\ Len(c) \in Nat /\ DOMAIN c = 1 .. Len(c)
  BY DEF Found, Members
<1>2. /\ DOMAIN t = 1 .. Len(c) - 1
      /\ \A j \in 1 .. Len(c) - 1 : t[j] = c[From(j)] /\ From(j) \in 1 .. Len(c) /\ From(j) # p
  <2> HIDE DEF p
  <2> QED BY <1>1 DEF Unlinked, p
<1>3. t \in Seq(Addresses)
  <2>1. \A j \in 1 .. Len(c) : c[j] \in Addresses
    BY ElementOfSeq
  <2>2. t = [j \in 1 .. Len(c) - 1 |-> t[j]]
    BY DEF Unlinked
  <2> HIDE DEF t
  <2>3. \A j \in 1 .. Len(c) - 1 : t[j] \in Addresses
    BY <1>2, <2>1
  <2>4. Len(c) - 1 \in Nat
    BY <1>1
  <2>5. t \in [1 .. Len(c) - 1 -> Addresses]
    BY <2>2, <2>3, Zenon
  <2> QED BY <2>4, <2>5, SeqDef
<1> HIDE DEF t, p
<1>4. Distinct(t)
  <2> SUFFICES ASSUME NEW i \in 1 .. Len(c) - 1, NEW j \in 1 .. Len(c) - 1, t[i] = t[j]
               PROVE  i = j
    BY <1>2 DEF Distinct
  <2>1. From(i) = From(j)
    BY <1>1, <1>2 DEF Distinct
  <2> QED BY <1>1, <2>1
<1>5. Members(t) = Members(c) \ {a}
  <2>1. ASSUME NEW j \in DOMAIN c, j # p PROVE \E k \in DOMAIN t : t[k] = c[j]
    <3>1. CASE j < p
      BY <1>1, <1>2, <3>1
    <3>2. CASE j > p
      <4>1. j - 1 \in DOMAIN t /\ t[j - 1] = c[j]
        BY <1>1, <1>2, <3>2
      <4> QED BY <4>1
    <3> QED BY <1>1, <2>1, <3>1, <3>2
  <2>2. \A k \in DOMAIN t : t[k] \in Members(c) /\ t[k] # a
    <3>1. \A j \in DOMAIN c : j # p => c[j] # a
      BY <1>1 DEF Distinct
    <3> HIDE DEF From
    <3> QED BY <1>1, <1>2, <3>1 DEF Members
  <2>3. \A b : b \in Members(t) <=> b \in Members(c) /\ b # a
    BY <1>1, <2>1, <2>2 DEF Members
  <2> QED BY <2>3
<1> QED BY <1>3, <1>4, <1>5 DEF t

-----------------------------------------------------------------------------
(* Ledgers                                                                 *)

\* A holder more, or one less.
LEMMA ClaimsAdded ==
  ASSUME NEW L, Ledgers(L), NEW y, y \notin L, y[2] \in Addresses
  PROVE  /\ Ledgers(L \cup {y})
         /\ \A a : Cardinality(Claims(L \cup {y}, a)) = IF a = y[2] THEN Cardinality(Claims(L, a)) + 1
                                                                ELSE Cardinality(Claims(L, a))
         /\ \A a : Cardinality(Claims(L, a)) \in Nat
<1>1. Ledgers(L \cup {y})
  BY FS_AddElement DEF Ledgers
<1>2. ASSUME NEW a
      PROVE  IsFiniteSet(Claims(L, a)) /\ Cardinality(Claims(L, a)) \in Nat
  BY FS_Subset, FS_CardinalityType DEF Ledgers, Claims
<1>3. ASSUME NEW a
      PROVE  Cardinality(Claims(L \cup {y}, a)) = IF a = y[2] THEN Cardinality(Claims(L, a)) + 1
                                                          ELSE Cardinality(Claims(L, a))
  <2>1. CASE a = y[2]
    <3>1. Claims(L \cup {y}, a) = Claims(L, a) \cup {y} /\ y \notin Claims(L, a)
      BY <2>1 DEF Claims
    <3>2. Cardinality(Claims(L, a) \cup {y}) = Cardinality(Claims(L, a)) + 1
      BY <1>2, <3>1, FS_AddElement
    <3> QED BY <2>1, <3>1, <3>2
  <2>2. CASE a # y[2]
    <3>1. Claims(L \cup {y}, a) = Claims(L, a)
      BY <2>2 DEF Claims
    <3> QED BY <2>2, <3>1
  <2> QED BY <2>1, <2>2
<1> QED BY <1>1, <1>2, <1>3

LEMMA ClaimsRemoved ==
  ASSUME NEW L, Ledgers(L), NEW y \in L
  PROVE  /\ Ledgers(L \ {y})
         /\ \A a : Cardinality(Claims(L \ {y}, a)) = IF a = y[2] THEN Cardinality(Claims(L, a)) - 1
                                                             ELSE Cardinality(Claims(L, a))
         /\ Cardinality(Claims(L, y[2])) \in Nat \ {0}
<1>1. Ledgers(L \ {y})
  BY FS_RemoveElement DEF Ledgers
<1>2. ASSUME NEW a
      PROVE  IsFiniteSet(Claims(L, a)) /\ Cardinality(Claims(L, a)) \in Nat
  BY FS_Subset, FS_CardinalityType DEF Ledgers, Claims
<1>3. ASSUME NEW a
      PROVE  Cardinality(Claims(L \ {y}, a)) = IF a = y[2] THEN Cardinality(Claims(L, a)) - 1
                                                       ELSE Cardinality(Claims(L, a))
  <2>1. CASE a = y[2]
    <3>1. Claims(L \ {y}, a) = Claims(L, a) \ {y} /\ y \in Claims(L, a)
      BY <2>1 DEF Claims
    <3>2. Cardinality(Claims(L, a) \ {y}) = Cardinality(Claims(L, a)) - 1
      BY <1>2, <3>1, FS_RemoveElement
    <3> QED BY <2>1, <3>1, <3>2
  <2>2. CASE a # y[2]
    <3>1. Claims(L \ {y}, a) = Claims(L, a)
      BY <2>2 DEF Claims
    <3> QED BY <2>2, <3>1
  <2> QED BY <2>1, <2>2
<1>4. Claims(L, y[2]) # {}
  BY DEF Claims
<1> QED BY <1>1, <1>2, <1>3, <1>4, FS_EmptySet

\* What is in a ledger is in use, and the rest is not.
LEMMA LedgerInUse ==
  ASSUME NEW s, NEW L, Sound(s, L)
  PROVE  /\ \A a \in Addresses : a \in InUse(s) <=> \E x \in L : x[2] = a
         /\ \A x \in L : x[2] \in InUse(s)
<1>1. ASSUME NEW a \in Addresses
      PROVE  a \in InUse(s) <=> \E x \in L : x[2] = a
  <2>1. IsFiniteSet(Claims(L, a)) /\ Cardinality(Claims(L, a)) \in Nat
    BY FS_Subset, FS_CardinalityType DEF Ledgers, Claims, Sound
  <2>2. Claims(L, a) = {} <=> ~ \E x \in L : x[2] = a
    BY DEF Claims
  <2>3. s.block[a].refs = Cardinality(Claims(L, a))
    BY DEF Sound, Counted
  <2> QED BY <2>1, <2>2, <2>3, FS_EmptySet DEF InUse
<1> QED BY <1>1 DEF Sound, Ledgers

-----------------------------------------------------------------------------
(* The table: one reference more, one less, a text that is looked for      *)

LEMMA BlockFacts ==
  ASSUME NEW s \in SharedTables
  PROVE  /\ \A a \in Addresses : s.block[a] \in Blocks
         /\ \A h \in Buckets : s.chain[h] \in Seq(Addresses)
         /\ s.block = [a \in Addresses |-> s.block[a]]
         /\ InUse(s) \subseteq Addresses
         /\ \A a \in InUse(s) : s.block[a].text \in Sums => StrHash[s.block[a].text] \in Buckets
BY DEF SharedTables, InUse, Buckets

\* A count goes up or down by one.
LEMMA Recounted ==
  ASSUME NEW f \in [Addresses -> Blocks], NEW a \in Addresses
  PROVE  /\ [f EXCEPT ![a].refs = @ + 1] = [f EXCEPT ![a] = [text |-> f[a].text, refs |-> f[a].refs + 1]]
         /\ [f EXCEPT ![a].refs = @ - 1] = [f EXCEPT ![a] = [text |-> f[a].text, refs |-> f[a].refs - 1]]
<1>1. f[a] = [text |-> f[a].text, refs |-> f[a].refs]
  BY DEF Blocks
<1>2. [f[a] EXCEPT !.refs = f[a].refs + 1] = [text |-> f[a].text, refs |-> f[a].refs + 1]
  BY <1>1
<1>3. [f[a] EXCEPT !.refs = f[a].refs - 1] = [text |-> f[a].text, refs |-> f[a].refs - 1]
  BY <1>1
<1> QED BY <1>2, <1>3

LEMMA HeldSound ==
  ASSUME NEW s, NEW L, Sound(s, L), NEW a \in InUse(s)
  PROVE  /\ \A x : <<x, a>> \notin L => Sound(Held(s, a), L \cup {<<x, a>>})
         /\ Within(s, Held(s, a)) /\ Within(Held(s, a), s)
         /\ Held(s, a).block[a].text = s.block[a].text
<1> DEFINE t == Held(s, a)
           b == s.block[a]
<1>1. s \in SharedTables /\ a \in Addresses /\ b \in Blocks /\ b.refs > 0
  BY DEF Sound, InUse, SharedTables
<1>2. t = [block |-> [s.block EXCEPT ![a] = [text |-> b.text, refs |-> b.refs + 1]], chain |-> s.chain]
  <2>1. /\ s = [block |-> s.block, chain |-> s.chain] /\ s.block = [c \in Addresses |-> s.block[c]]
        /\ b = [text |-> b.text, refs |-> b.refs]
    BY <1>1 DEF SharedTables, Blocks
  <2>2. [s.block EXCEPT ![a].refs = @ + 1] = [s.block EXCEPT ![a] = [text |-> b.text, refs |-> b.refs + 1]]
    BY <1>1, Recounted DEF SharedTables
  <2>3. t = [block |-> [s.block EXCEPT ![a].refs = @ + 1], chain |-> s.chain]
    BY <2>1 DEF Held
  <2> QED BY <2>2, <2>3
<1>3. /\ t \in SharedTables /\ t.chain = s.chain
      /\ \A c \in Addresses : /\ t.block[c].text = s.block[c].text
                             /\ t.block[c].refs = IF c = a THEN s.block[c].refs + 1 ELSE s.block[c].refs
  BY <1>1, <1>2 DEF SharedTables, Blocks
<1> HIDE DEF t, b
<1>4. InUse(t) = InUse(s)
  <2>1. \A c \in Addresses : s.block[c].refs \in Nat
    BY <1>1 DEF SharedTables, Blocks
  <2>2. \A c \in Addresses : t.block[c].refs > 0 <=> s.block[c].refs > 0
    BY <1>1, <1>3, <2>1 DEF b
  <2> QED BY <2>2 DEF InUse
<1>5. Chained(t) /\ Single(t) /\ Hashed(t)
  <2>1. \A c \in InUse(s) : t.block[c].text = s.block[c].text
    BY <1>3 DEF InUse
  <2>2. Single(t) /\ Hashed(t)
    BY <1>4, <2>1 DEF Single, Hashed, Sound
  <2>3. \A h \in Buckets : ChainOf(t, h) = ChainOf(s, h)
    BY <1>4, <2>1 DEF ChainOf
  <2> QED BY <1>3, <2>2, <2>3 DEF Chained, Sound
<1>6. ASSUME NEW x, <<x, a>> \notin L
      PROVE  Ledgers(L \cup {<<x, a>>}) /\ Counted(t, L \cup {<<x, a>>})
  <2> DEFINE y == <<x, a>>
  <2>1. y[2] = a
    OBVIOUS
  <2> HIDE DEF y
  <2>2. /\ Ledgers(L \cup {y})
        /\ \A c : Cardinality(Claims(L \cup {y}, c)) = IF c = a THEN Cardinality(Claims(L, c)) + 1
                                                                ELSE Cardinality(Claims(L, c))
    BY <1>1, <1>6, <2>1, ClaimsAdded DEF Sound, y
  <2>3. Counted(t, L \cup {y})
    BY <1>3, <2>2 DEF Counted, Sound
  <2> QED BY <2>2, <2>3 DEF y
<1> QED BY <1>1, <1>3, <1>4, <1>5, <1>6 DEF Sound, Within, InUse, t

LEMMA FreeSound ==
  ASSUME NEW s, NEW L, Sound(s, L), NEW y \in L
  PROVE  Sound(FreeString(s, y[2]), L \ {y}) /\ Within(FreeString(s, y[2]), s)
<1> DEFINE a == y[2]
           t == FreeString(s, a)
           b == s.block[a]
           M == L \ {y}
<1>1. s \in SharedTables /\ a \in Addresses /\ b \in Blocks /\ b.refs \in Nat \ {0}
  <2>1. a \in Addresses /\ s \in SharedTables /\ a \in InUse(s)
    BY LedgerInUse DEF Sound, Ledgers
  <2> QED BY <2>1 DEF SharedTables, Blocks, InUse
<1>2. /\ Ledgers(M)
      /\ \A c : Cardinality(Claims(M, c)) = IF c = a THEN Cardinality(Claims(L, c)) - 1
                                                     ELSE Cardinality(Claims(L, c))
  BY ClaimsRemoved DEF Sound
<1>3. a \in InUse(s) /\ b.text \in Sums /\ StrHash[b.text] \in Buckets
  BY <1>1 DEF InUse, Hashed, Sound, Buckets
<1>4. CASE b.refs > 1
  <2>1. t = [block |-> [s.block EXCEPT ![a] = [text |-> b.text, refs |-> b.refs - 1]], chain |-> s.chain]
    <3>1. /\ s = [block |-> s.block, chain |-> s.chain] /\ s.block = [c \in Addresses |-> s.block[c]]
          /\ b = [text |-> b.text, refs |-> b.refs]
      BY <1>1 DEF SharedTables, Blocks
    <3>2. [s.block EXCEPT ![a].refs = @ - 1] = [s.block EXCEPT ![a] = [text |-> b.text, refs |-> b.refs - 1]]
      BY <1>1, Recounted DEF SharedTables
    <3>3. t = [block |-> [s.block EXCEPT ![a].refs = @ - 1], chain |-> s.chain]
      BY <1>4, <3>1 DEF FreeString
    <3> QED BY <3>2, <3>3
  <2>2. /\ t \in SharedTables /\ t.chain = s.chain
        /\ \A c \in Addresses : /\ t.block[c].text = s.block[c].text
                               /\ t.block[c].refs = IF c = a THEN s.block[c].refs - 1 ELSE s.block[c].refs
    <3>1. b.refs - 1 \in Nat
      BY <1>1, <1>4
    <3> HIDE DEF t
    <3>2. t.chain = s.chain /\ t.block = [s.block EXCEPT ![a] = [text |-> b.text, refs |-> b.refs - 1]]
      BY <2>1
    <3>3. t.block \in [Addresses -> Blocks]
      BY <1>1, <3>1, <3>2 DEF SharedTables, Blocks
    <3>4. t = [block |-> t.block, chain |-> t.chain]
      BY <2>1
    <3>5. t \in SharedTables
      BY <1>1, <3>2, <3>3, <3>4 DEF SharedTables
    <3> HIDE DEF a
    <3>6. s.block \in [Addresses -> Blocks]
      BY <1>1 DEF SharedTables
    <3>7. t.block[a].text = b.text /\ t.block[a].refs = b.refs - 1
      BY <1>1, <3>2, <3>6
    <3>8. \A c \in Addresses : c # a => t.block[c] = s.block[c]
      BY <1>1, <3>2, <3>6
    <3> QED BY <3>2, <3>5, <3>7, <3>8
  <2> HIDE DEF t, M, a
  <2>3. InUse(t) = InUse(s)
    <3>1. \A c \in Addresses : s.block[c].refs \in Nat
      BY <1>1 DEF SharedTables, Blocks
    <3>2. \A c \in Addresses : t.block[c].refs > 0 <=> s.block[c].refs > 0
      BY <1>1, <1>4, <2>2, <3>1
    <3> QED BY <3>2 DEF InUse
  <2>4. Chained(t) /\ Single(t) /\ Hashed(t)
    <3>1. \A c \in InUse(s) : t.block[c].text = s.block[c].text
      BY <2>2 DEF InUse
    <3>2. Single(t) /\ Hashed(t)
      BY <2>3, <3>1 DEF Single, Hashed, Sound
    <3>3. \A h \in Buckets : ChainOf(t, h) = ChainOf(s, h)
      BY <2>3, <3>1 DEF ChainOf
    <3> QED BY <2>2, <3>2, <3>3 DEF Chained, Sound
  <2>5. Counted(t, M)
    BY <1>2, <2>2 DEF Counted, Sound
  <2> QED BY <1>2, <2>2, <2>3, <2>4, <2>5 DEF Sound, Within, InUse, t, M, a
<1>5. CASE b.refs = 1
  <2> DEFINE h == StrHash[b.text]
  <2>1. t = [block |-> [s.block EXCEPT ![a] = FreeBlock],
             chain |-> [s.chain EXCEPT ![h] = Unlinked(s.chain[h], a)]]
    <3>1. /\ s = [block |-> s.block, chain |-> s.chain] /\ s.chain = [g \in Buckets |-> s.chain[g]]
          /\ h \in Buckets /\ ~ (b.refs > 1)
      BY <1>1, <1>3, <1>5 DEF SharedTables
    <3>2. t = [s EXCEPT !.block[a] = FreeBlock, !.chain[h] = Unlinked(@, a)]
      BY <3>1 DEF FreeString
    <3> HIDE DEF h, t, a
    <3> QED BY <3>1, <3>2
  <2>2. a \in Members(s.chain[h]) /\ Distinct(s.chain[h]) /\ s.chain[h] \in Seq(Addresses)
    <3>1. a \in ChainOf(s, h) /\ h \in Buckets
      BY <1>3 DEF ChainOf
    <3>2. Distinct(s.chain[h]) /\ Members(s.chain[h]) = ChainOf(s, h)
      BY <3>1 DEF Sound, Chained
    <3>3. s.chain[h] \in Seq(Addresses)
      BY <1>1, <3>1, BlockFacts, Zenon
    <3> QED BY <3>1, <3>2, <3>3
  <2>3. /\ Unlinked(s.chain[h], a) \in Seq(Addresses) /\ Distinct(Unlinked(s.chain[h], a))
        /\ Members(Unlinked(s.chain[h], a)) = Members(s.chain[h]) \ {a}
    BY <2>2, UnlinkedChain, Zenon
  <2>4. /\ t \in SharedTables /\ t.block[a].refs = 0
        /\ \A c \in Addresses : c # a => t.block[c] = s.block[c]
        /\ \A g \in Buckets : t.chain[g] = IF g = h THEN Unlinked(s.chain[h], a) ELSE s.chain[g]
    <3>1. FreeBlock \in Blocks /\ FreeBlock.refs = 0
      BY DEF FreeBlock, Blocks, Texts
    <3>2. h \in Buckets
      BY <1>3
    <3> HIDE DEF h, t, FreeBlock
    <3>3. /\ t.block = [s.block EXCEPT ![a] = FreeBlock]
          /\ t.chain = [s.chain EXCEPT ![h] = Unlinked(s.chain[h], a)]
          /\ t = [block |-> t.block, chain |-> t.chain]
      BY <2>1
    <3>4. s.block \in [Addresses -> Blocks] /\ s.chain \in [Buckets -> Seq(Addresses)]
      BY <1>1 DEF SharedTables
    <3> HIDE DEF a
    <3>5. t.block \in [Addresses -> Blocks] /\ t.chain \in [Buckets -> Seq(Addresses)]
      BY <1>1, <2>3, <3>1, <3>2, <3>3, <3>4
    <3>6. t \in SharedTables
      BY <3>3, <3>5 DEF SharedTables
    <3> QED BY <1>1, <3>1, <3>2, <3>3, <3>4, <3>6
  <2> HIDE DEF t, M, a, h
  <2>5. InUse(t) = InUse(s) \ {a}
    BY <2>4, <1>1 DEF InUse
  <2>6. \A c \in InUse(t) : t.block[c] = s.block[c]
    BY <2>4, <2>5 DEF InUse
  <2>7. Single(t) /\ Hashed(t)
    BY <2>5, <2>6 DEF Single, Hashed, Sound
  <2>8. Chained(t)
    <3> SUFFICES ASSUME NEW g \in Buckets PROVE Distinct(t.chain[g]) /\ Members(t.chain[g]) = ChainOf(t, g)
      BY DEF Chained
    <3>1. ChainOf(t, g) = ChainOf(s, g) \ {a}
      BY <2>5, <2>6 DEF ChainOf
    <3>2. Distinct(s.chain[g]) /\ Members(s.chain[g]) = ChainOf(s, g)
      BY DEF Sound, Chained
    <3>3. CASE g = h
      BY <2>3, <2>4, <3>1, <3>2, <3>3
    <3>4. CASE g # h
      <4>1. a \notin ChainOf(s, g)
        BY <3>4 DEF ChainOf, h
      <4> QED BY <2>4, <3>1, <3>2, <3>4, <4>1
    <3> QED BY <3>3, <3>4
  <2>9. Counted(t, M)
    <3> SUFFICES ASSUME NEW c \in Addresses PROVE t.block[c].refs = Cardinality(Claims(M, c))
      BY DEF Counted
    <3>1. s.block[c].refs = Cardinality(Claims(L, c))
      BY DEF Sound, Counted
    <3>2. CASE c = a
      BY <1>2, <1>5, <2>4, <3>1, <3>2
    <3>3. CASE c # a
      BY <1>2, <2>4, <3>1, <3>3
    <3> QED BY <3>2, <3>3
  <2> QED BY <1>2, <2>4, <2>5, <2>6, <2>7, <2>8, <2>9 DEF Sound, Within, t, M, a
<1> QED BY <1>1, <1>4, <1>5

\* internal_findstring finds a text if and only if some block has it.
LEMMA LookupFinds ==
  ASSUME NEW s, NEW L, Sound(s, L), NEW text \in Sums
  PROVE  /\ Lookup(s, text) = Null => \A a \in InUse(s) : s.block[a].text # text
         /\ Lookup(s, text) # Null => /\ Lookup(s, text) \in InUse(s)
                                     /\ s.block[Lookup(s, text)].text = text
<1> DEFINE h == StrHash[text]
           c == s.chain[h]
           at == Matching(s, text)
<1>1. h \in Buckets /\ c \in Seq(Addresses) /\ Members(c) = ChainOf(s, h)
  BY DEF Buckets, Sound, Chained, SharedTables
<1>2. at \subseteq DOMAIN c /\ DOMAIN c = 1 .. Len(c) /\ Len(c) \in Nat
      /\ \A i \in DOMAIN c : i \in at <=> s.block[c[i]].text = text
  BY <1>1 DEF Matching
<1>3. Null \notin Addresses
  BY AddressesAssumption DEF Null
<1>4. CASE at = {}
  <2>1. Lookup(s, text) = Null
    BY <1>4 DEF Lookup
  <2>2. ASSUME NEW a \in InUse(s), s.block[a].text = text PROVE FALSE
    <3>1. a \in Members(c)
      BY <1>1, <2>2 DEF ChainOf
    <3> QED BY <1>2, <1>4, <2>2, <3>1 DEF Members
  <2> QED BY <2>1, <2>2
<1>5. CASE at # {}
  <2> DEFINE i == CHOOSE k \in at : \A j \in at : k <= j
  <2>1. at \in SUBSET Nat
    BY <1>2
  <2> HIDE DEF at
  <2>2. i \in at
    BY <1>5, <2>1, LeastNat
  <2>3. Lookup(s, text) = c[i]
    BY <1>5 DEF Lookup, at
  <2> HIDE DEF i, c
  <2>4. c[i] \in ChainOf(s, h) /\ s.block[c[i]].text = text
    BY <1>1, <1>2, <2>2 DEF Members
  <2>5. c[i] \in InUse(s) /\ c[i] \in Addresses
    BY <2>4 DEF ChainOf, InUse
  <2> QED BY <1>3, <2>3, <2>4, <2>5
<1> QED BY <1>4, <1>5

\* A block that was found moves to the front of its chain.
LEMMA MovedSound ==
  ASSUME NEW s, NEW L, Sound(s, L), NEW a \in InUse(s)
  PROVE  LET t == MovedToFront(s, StrHash[s.block[a].text], a)
         IN Sound(t, L) /\ t.block = s.block
<1> DEFINE h == StrHash[s.block[a].text]
           t == MovedToFront(s, h, a)
           c == s.chain[h]
           d == <<a>> \o Unlinked(c, a)
<1>1. s \in SharedTables /\ a \in Addresses /\ h \in Buckets /\ a \in ChainOf(s, h)
  BY DEF Sound, InUse, Hashed, Buckets, ChainOf
<1>2. c \in Seq(Addresses) /\ Distinct(c) /\ Members(c) = ChainOf(s, h)
  BY <1>1 DEF Sound, Chained, SharedTables
<1>3. d \in Seq(Addresses) /\ Distinct(d) /\ Members(d) = Members(c)
  <2> DEFINE u == Unlinked(c, a)
  <2>1. u \in Seq(Addresses) /\ Distinct(u) /\ Members(u) = Members(c) \ {a}
    BY <1>1, <1>2, UnlinkedChain
  <2> HIDE DEF u
  <2>2. <<a>> \o u \in Seq(Addresses) /\ Distinct(<<a>> \o u) /\ Members(<<a>> \o u) = Members(u) \cup {a}
    BY <1>1, <2>1, PushedChain
  <2>3. (Members(c) \ {a}) \cup {a} = Members(c)
    BY <1>1, <1>2
  <2>4. d = <<a>> \o u
    BY DEF u
  <2> HIDE DEF c, d
  <2> QED BY <2>1, <2>2, <2>3, <2>4
<1>4. t = [s EXCEPT !.chain[h] = d]
  <2>1. s = [block |-> s.block, chain |-> s.chain] /\ s.chain = [g \in Buckets |-> s.chain[g]]
    BY <1>1 DEF SharedTables
  <2> QED BY <1>1, <2>1 DEF MovedToFront
<1> HIDE DEF t, d
<1>5. /\ t.block = s.block /\ t \in SharedTables
      /\ \A g \in Buckets : t.chain[g] = IF g = h THEN d ELSE s.chain[g]
  <2>1. t.block = s.block /\ t.chain = [s.chain EXCEPT ![h] = d] /\ t = [block |-> t.block, chain |-> t.chain]
    BY <1>1, <1>4 DEF SharedTables
  <2> HIDE DEF h
  <2>2. s.chain \in [Buckets -> Seq(Addresses)] /\ s.block \in [Addresses -> Blocks]
    BY <1>1 DEF SharedTables
  <2>3. t.chain \in [Buckets -> Seq(Addresses)]
    BY <1>1, <1>3, <2>1, <2>2
  <2>4. t \in SharedTables
    BY <2>1, <2>2, <2>3 DEF SharedTables
  <2> QED BY <1>1, <2>1, <2>2, <2>4
<1> HIDE DEF h, c
<1>6. InUse(t) = InUse(s) /\ \A g \in Buckets : ChainOf(t, g) = ChainOf(s, g)
  BY <1>5 DEF InUse, ChainOf
<1>7. Single(t) /\ Hashed(t) /\ Counted(t, L)
  BY <1>5, <1>6 DEF Single, Hashed, Counted, Sound
<1>8. Chained(t)
  BY <1>2, <1>3, <1>5, <1>6 DEF Chained, Sound
<1> QED BY <1>5, <1>7, <1>8 DEF Sound, t, h

\* A text that is new gets a block of its own.
LEMMA NewSound ==
  ASSUME NEW s, NEW L, Sound(s, L), NEW text \in Sums, NEW room \in Addresses, room \notin InUse(s),
         \A a \in InUse(s) : s.block[a].text # text
  PROVE  LET t == AllocNew(s, text, room)
         IN (\A x : Sound(t, L \cup {<<x, room>>})) /\ Within(s, t) /\ t.block[room].text = text
<1> DEFINE h == StrHash[text]
           t == AllocNew(s, text, room)
           c == s.chain[h]
           d == <<room>> \o c
           b == [text |-> text, refs |-> 1]
<1>1. s \in SharedTables /\ h \in Buckets /\ c \in Seq(Addresses) /\ Distinct(c) /\ Members(c) = ChainOf(s, h)
  BY DEF Sound, SharedTables, Buckets, Chained
<1>2. room \notin Members(c)
  BY <1>1 DEF ChainOf
<1>3. d \in Seq(Addresses) /\ Distinct(d) /\ Members(d) = Members(c) \cup {room}
  BY <1>1, <1>2, PushedChain
<1>4. /\ t.block = [s.block EXCEPT ![room] = b] /\ t.chain = [s.chain EXCEPT ![h] = d]
      /\ t = [block |-> t.block, chain |-> t.chain]
  <2> HIDE DEF b, d
  <2>1. t = [s EXCEPT !.block[room] = b, !.chain[h] = d]
    <3>1. s = [block |-> s.block, chain |-> s.chain] /\ s.chain = [g \in Buckets |-> s.chain[g]]
      BY <1>1 DEF SharedTables
    <3> QED BY <1>1, <3>1 DEF AllocNew, b, d
  <2> HIDE DEF t, h, c
  <2> QED BY <1>1, <2>1 DEF SharedTables
<1>5. b \in Blocks /\ b.text = text /\ b.refs = 1
  BY DEF Blocks, Texts
<1> HIDE DEF t, d, b
<1>7. /\ t \in SharedTables
      /\ \A a \in Addresses : t.block[a] = IF a = room THEN b ELSE s.block[a]
      /\ \A g \in Buckets : t.chain[g] = IF g = h THEN d ELSE s.chain[g]
  <2> HIDE DEF h
  <2>1. s.chain \in [Buckets -> Seq(Addresses)] /\ s.block \in [Addresses -> Blocks]
    BY <1>1 DEF SharedTables
  <2>2. t.block \in [Addresses -> Blocks] /\ t.chain \in [Buckets -> Seq(Addresses)]
    BY <1>1, <1>3, <1>4, <1>5, <2>1
  <2>3. t \in SharedTables
    BY <1>4, <2>2 DEF SharedTables
  <2> QED BY <1>1, <1>4, <2>1, <2>3
<1>8. InUse(t) = InUse(s) \cup {room}
  BY <1>5, <1>7 DEF InUse
<1>9. \A a \in InUse(s) : a \in Addresses /\ t.block[a] = s.block[a]
  BY <1>7 DEF InUse
<1>10. t.block[room].text = text
  BY <1>5, <1>7
<1>11. Single(t) /\ Hashed(t)
  BY <1>8, <1>9, <1>10 DEF Single, Hashed, Sound
<1>12. Chained(t)
  <2> SUFFICES ASSUME NEW g \in Buckets PROVE Distinct(t.chain[g]) /\ Members(t.chain[g]) = ChainOf(t, g)
    BY DEF Chained
  <2>1. Distinct(s.chain[g]) /\ Members(s.chain[g]) = ChainOf(s, g)
    BY DEF Sound, Chained
  <2>2. CASE g = h
    <3>1. ChainOf(t, g) = ChainOf(s, g) \cup {room}
      BY <1>8, <1>9, <1>10, <2>2 DEF ChainOf
    <3> QED BY <1>3, <1>7, <2>1, <2>2, <3>1
  <2>3. CASE g # h
    <3>1. ChainOf(t, g) = ChainOf(s, g)
      BY <1>8, <1>9, <1>10, <2>3 DEF ChainOf
    <3> QED BY <1>7, <2>1, <2>3, <3>1
  <2> QED BY <2>2, <2>3
<1>13. ASSUME NEW x
       PROVE  Ledgers(L \cup {<<x, room>>}) /\ Counted(t, L \cup {<<x, room>>})
  <2> DEFINE y == <<x, room>>
  <2>6. y[2] = room
    OBVIOUS
  <2> HIDE DEF y
  <2>1. y \notin L
    BY <2>6, LedgerInUse
  <2>2. /\ Ledgers(L \cup {y})
        /\ \A a : Cardinality(Claims(L \cup {y}, a)) = IF a = room THEN Cardinality(Claims(L, a)) + 1
                                                                 ELSE Cardinality(Claims(L, a))
    BY <2>1, <2>6, ClaimsAdded DEF Sound
  <2>3. s.block[room].refs = 0
    BY <1>1 DEF InUse, SharedTables, Blocks
  <2>4. \A a \in Addresses : s.block[a].refs = Cardinality(Claims(L, a))
    BY DEF Sound, Counted
  <2>5. ASSUME NEW a \in Addresses PROVE t.block[a].refs = Cardinality(Claims(L \cup {y}, a))
    <3>1. CASE a = room
      <4>1. t.block[a].refs = 1
        BY <1>5, <1>7, <3>1
      <4>2. Cardinality(Claims(L, a)) = 0
        BY <2>3, <2>4, <3>1
      <4>3. Cardinality(Claims(L \cup {y}, a)) = Cardinality(Claims(L, a)) + 1
        BY <2>2, <3>1
      <4> QED BY <4>1, <4>2, <4>3
    <3>2. CASE a # room
      BY <1>7, <2>2, <2>4, <3>2
    <3> QED BY <3>1, <3>2
  <2> QED BY <2>2, <2>5 DEF Counted, y
<1>14. Within(s, t)
  BY <1>8, <1>9 DEF Within
<1> QED BY <1>7, <1>10, <1>11, <1>12, <1>13, <1>14 DEF Sound, t

\* make_shared_string gives a reference to the block of the text.
LEMMA MakeSharedSound ==
  ASSUME NEW s, NEW L, Sound(s, L), NEW text \in Sums, NEW room \in Addresses, room \notin InUse(s)
  PROVE  LET r == MakeShared(s, text, room)
         IN /\ \A x : <<x, r.at>> \notin L => Sound(r.s, L \cup {<<x, r.at>>})
            /\ Within(s, r.s) /\ r.s.block[r.at].text = text /\ r.at \in Addresses
<1> DEFINE a == Lookup(s, text)
           m == MovedToFront(s, StrHash[text], a)
<1>1. CASE a = Null
  <2>1. MakeShared(s, text, room) = [at |-> room, s |-> AllocNew(s, text, room)]
    BY <1>1 DEF MakeShared
  <2>2. \A c \in InUse(s) : s.block[c].text # text
    BY <1>1, LookupFinds
  <2> DEFINE t == AllocNew(s, text, room)
  <2>3. (\A x : Sound(t, L \cup {<<x, room>>})) /\ Within(s, t) /\ t.block[room].text = text
    BY <2>2, NewSound
  <2> DEFINE r == MakeShared(s, text, room)
  <2>4. r.at = room /\ r.s = t
    BY <2>1
  <2> HIDE DEF t, r
  <2>5. /\ \A x : <<x, r.at>> \notin L => Sound(r.s, L \cup {<<x, r.at>>})
        /\ Within(s, r.s) /\ r.s.block[r.at].text = text /\ r.at \in Addresses
    BY <2>3, <2>4
  <2> QED BY <2>5 DEF r
<1>2. CASE a # Null
  <2>1. a \in InUse(s) /\ s.block[a].text = text /\ a \in Addresses
    BY <1>2, LookupFinds DEF InUse
  <2>2. MakeShared(s, text, room) = [at |-> a, s |-> Held(m, a)]
    BY <1>2 DEF MakeShared, InternalFindstring
  <2>3. Sound(m, L) /\ m.block = s.block
    BY <2>1, MovedSound
  <2> HIDE DEF m, a
  <2>4. InUse(m) = InUse(s) /\ Within(s, m)
    BY <2>3 DEF InUse, Within
  <2>5. /\ \A x : <<x, a>> \notin L => Sound(Held(m, a), L \cup {<<x, a>>})
        /\ Within(m, Held(m, a)) /\ Held(m, a).block[a].text = m.block[a].text
    BY <2>1, <2>3, <2>4, HeldSound
  <2> QED BY <2>1, <2>2, <2>3, <2>4, <2>5 DEF Within
<1> QED BY <1>1, <1>2

-----------------------------------------------------------------------------
(* Several references                                                      *)

\* The claims of K are about the same texts in both tables.
Keeps(s, t, K) == \A y \in K : t.block[y[2]].text = s.block[y[2]].text

\* What is claimed before and after a step has kept its text.
LEMMA ClaimedKeeps ==
  ASSUME NEW s, NEW t, NEW L, NEW M, NEW K, Sound(s, L), Sound(t, M), K \subseteq L, K \subseteq M,
         Within(s, t) \/ Within(t, s)
  PROVE  Keeps(s, t, K)
<1> SUFFICES ASSUME NEW y \in K PROVE t.block[y[2]].text = s.block[y[2]].text
  BY DEF Keeps
<1>1. y[2] \in InUse(s) /\ y[2] \in InUse(t)
  BY LedgerInUse
<1> QED BY <1>1 DEF Within

LEMMA KeepsFurther ==
  ASSUME NEW s, NEW t, NEW u, NEW K, Keeps(s, t, K), Keeps(t, u, K)
  PROVE  Keeps(s, u, K)
BY DEF Keeps

\* A reference changes hands.
LEMMA Renamed ==
  ASSUME NEW s, NEW L, Sound(s, L), NEW x, NEW y \in L, y[2] = x[2], x \notin L
  PROVE  Sound(s, (L \ {y}) \cup {x})
<1> DEFINE M == L \ {y}
<1>1. /\ Ledgers(M)
      /\ \A a : Cardinality(Claims(M, a)) = IF a = y[2] THEN Cardinality(Claims(L, a)) - 1
                                                     ELSE Cardinality(Claims(L, a))
      /\ Cardinality(Claims(L, y[2])) \in Nat \ {0}
  BY ClaimsRemoved DEF Sound
<1>2. x \notin M /\ x[2] \in Addresses
  BY DEF Sound, Ledgers
<1> HIDE DEF M
<1>3. /\ Ledgers(M \cup {x})
      /\ \A a : Cardinality(Claims(M \cup {x}, a)) = IF a = x[2] THEN Cardinality(Claims(M, a)) + 1
                                                               ELSE Cardinality(Claims(M, a))
  BY <1>1, <1>2, ClaimsAdded
<1>4. ASSUME NEW a PROVE Cardinality(Claims(M \cup {x}, a)) = Cardinality(Claims(L, a))
  <2>1. CASE a = x[2]
    <3>1. Cardinality(Claims(M, a)) = Cardinality(Claims(L, a)) - 1
      BY <1>1, <2>1
    <3>2. Cardinality(Claims(M \cup {x}, a)) = Cardinality(Claims(M, a)) + 1
      BY <1>3, <2>1
    <3>3. Cardinality(Claims(L, a)) \in Nat
      BY <1>1, <2>1
    <3> QED BY <3>1, <3>2, <3>3
  <2>2. CASE a # x[2]
    BY <1>1, <1>3, <2>2
  <2> QED BY <2>1, <2>2
<1> QED BY <1>3, <1>4 DEF Sound, Counted, M

\* FreeAll goes from table to table.  A function that is defined by itself
\* exists, for the least n for which it would not is no least one.
Freeing(f, s, as, n) == f[0] = s /\ \A m \in 1 .. n : f[m] = FreeString(f[m - 1], as[m])

LEMMA FreeAllSteps ==
  ASSUME NEW s, NEW as, NEW n \in Nat, Len(as) = n
  PROVE  \E f : Freeing(f, s, as, n) /\ FreeAll(s, as) = f[n]
<1> DEFINE Good(k) == \E f : f = [m \in 0 .. k |-> IF m = 0 THEN s ELSE FreeString(f[m - 1], as[m])]
           Bad == {k \in Nat : ~ Good(k)}
<1>1. ASSUME Bad # {} PROVE FALSE
  <2>1. PICK k \in Bad : \A x \in Bad : k <= x
    <3> HIDE DEF Good
    <3> QED BY <1>1, LeastNat
  <2>2. k \in Nat /\ ~ Good(k)
    BY <2>1
  <2>3. CASE k = 0
    <3> DEFINE f == [m \in 0 .. 0 |-> s]
    <3>1. f = [m \in 0 .. 0 |-> IF m = 0 THEN s ELSE FreeString(f[m - 1], as[m])]
      OBVIOUS
    <3> QED BY <2>2, <2>3, <3>1
  <2>4. CASE k # 0
    <3>1. k - 1 \in Nat /\ Good(k - 1)
      <4>1. k - 1 \in Nat /\ ~ (k <= k - 1)
        BY <2>2, <2>4
      <4> HIDE DEF Good
      <4>2. k - 1 \notin Bad
        <5> HIDE DEF Bad
        <5> QED BY <2>1, <4>1
      <4> QED BY <4>1, <4>2
    <3>2. PICK f : f = [m \in 0 .. k - 1 |-> IF m = 0 THEN s ELSE FreeString(f[m - 1], as[m])]
      BY <3>1
    <3> DEFINE g == [m \in 0 .. k |-> IF m = k THEN FreeString(f[k - 1], as[k]) ELSE f[m]]
    <3>3. \A m \in 0 .. k : g[m] = IF m = 0 THEN s ELSE FreeString(g[m - 1], as[m])
      <4>1. ASSUME NEW m \in 0 .. k, m # k
            PROVE  g[m] = IF m = 0 THEN s ELSE FreeString(g[m - 1], as[m])
        <5>1. m \in 0 .. k - 1 /\ (m # 0 => m - 1 \in 0 .. k /\ m - 1 # k)
          BY <2>2, <4>1
        <5>2. f[m] = IF m = 0 THEN s ELSE FreeString(f[m - 1], as[m])
          BY <3>2, <5>1
        <5>3. g[m] = f[m] /\ (m # 0 => g[m - 1] = f[m - 1])
          BY <4>1, <5>1
        <5> HIDE DEF g
        <5> QED BY <5>2, <5>3
      <4>2. g[k] = FreeString(g[k - 1], as[k])
        <5>1. k - 1 \in 0 .. k /\ k - 1 # k /\ k \in 0 .. k
          BY <2>2, <2>4
        <5> QED BY <5>1
      <4> QED BY <2>4, <4>1, <4>2
    <3>4. g = [m \in 0 .. k |-> g[m]]
      OBVIOUS
    <3> HIDE DEF g
    <3>5. g = [m \in 0 .. k |-> IF m = 0 THEN s ELSE FreeString(g[m - 1], as[m])]
      BY <3>3, <3>4
    <3> QED BY <2>2, <3>5
  <2> QED BY <2>3, <2>4
<1>2. Good(n)
  <2> HIDE DEF Good
  <2> QED BY <1>1
<1> DEFINE left == CHOOSE f : f = [m \in 0 .. n |-> IF m = 0 THEN s ELSE FreeString(f[m - 1], as[m])]
<1>3. left = [m \in 0 .. n |-> IF m = 0 THEN s ELSE FreeString(left[m - 1], as[m])]
  BY <1>2
<1>4. FreeAll(s, as) = left[n]
  BY DEF FreeAll
<1> HIDE DEF left
<1>5. \A m \in 0 .. n : left[m] = IF m = 0 THEN s ELSE FreeString(left[m - 1], as[m])
  BY <1>3
<1>6. 0 \in 0 .. n /\ \A m \in 1 .. n : m \in 0 .. n /\ m # 0
  OBVIOUS
<1> QED BY <1>4, <1>5, <1>6 DEF Freeing

\* Claims of as many holders as addresses are given back.
Returned(ys, n) == {ys[i] : i \in 1 .. n}
Returns(ys, as, n, L) ==
  /\ \A i \in 1 .. n : ys[i] \in L /\ ys[i][2] = as[i]
  /\ \A i, j \in 1 .. n : ys[i] = ys[j] => i = j

LEMMA FreeAllSound ==
  ASSUME NEW s, NEW L, Sound(s, L), NEW as, NEW n \in Nat, Len(as) = n, NEW ys, Returns(ys, as, n, L)
  PROVE  Sound(FreeAll(s, as), L \ Returned(ys, n)) /\ Within(FreeAll(s, as), s)
<1>1. PICK left : Freeing(left, s, as, n) /\ FreeAll(s, as) = left[n]
  BY FreeAllSteps
<1>2. left[0] = s /\ \A m \in 1 .. n : left[m] = FreeString(left[m - 1], as[m])
  BY <1>1 DEF Freeing
<1> DEFINE Good(m) == Sound(left[m], L \ Returned(ys, m)) /\ Within(left[m], s)
           Bad == {m \in 0 .. n : ~ Good(m)}
<1>4. Good(0)
  <2>1. L \ Returned(ys, 0) = L
    BY DEF Returned
  <2> QED BY <1>2, <2>1 DEF Within
<1>5. ASSUME NEW m \in 1 .. n, Good(m - 1) PROVE Good(m)
  <2> DEFINE M == L \ Returned(ys, m - 1)
  <2>1. ys[m] \in M /\ ys[m][2] = as[m]
    <3>1. \A i \in 1 .. m - 1 : i \in 1 .. n /\ i # m
      OBVIOUS
    <3>2. ys[m] \notin Returned(ys, m - 1)
      BY <3>1 DEF Returns, Returned
    <3> QED BY <3>2 DEF Returns
  <2>2. L \ Returned(ys, m) = M \ {ys[m]}
    <3>1. \A i : i \in 1 .. m <=> i \in 1 .. m - 1 \/ i = m
      OBVIOUS
    <3>2. \A y : y \in Returned(ys, m) <=> y \in Returned(ys, m - 1) \/ y = ys[m]
      BY <3>1 DEF Returned
    <3> QED BY <3>2
  <2>3. Sound(left[m - 1], M) /\ Within(left[m - 1], s)
    BY <1>5
  <2> HIDE DEF M
  <2>4. Sound(FreeString(left[m - 1], as[m]), M \ {ys[m]}) /\ Within(FreeString(left[m - 1], as[m]), left[m - 1])
    BY <2>1, <2>3, FreeSound
  <2>5. left[m] = FreeString(left[m - 1], as[m])
    BY <1>2
  <2> QED BY <2>2, <2>3, <2>4, <2>5 DEF Within
<1>6. ASSUME Bad # {} PROVE FALSE
  <2>1. Bad \in SUBSET Nat
    BY DEF Bad
  <2>2. PICK k \in Bad : \A x \in Bad : k <= x
    <3> HIDE DEF Bad
    <3> QED BY <1>6, <2>1, LeastNat
  <2> HIDE DEF Good
  <2>3. k \in 0 .. n /\ ~ Good(k)
    BY <2>2
  <2>4. k # 0
    BY <1>4, <2>3
  <2>5. k \in 1 .. n /\ k - 1 \in 0 .. n /\ ~ (k <= k - 1)
    BY <2>3, <2>4
  <2>6. Good(k - 1)
    BY <2>2, <2>5
  <2> QED BY <1>5, <2>3, <2>5, <2>6
<1>7. Good(n)
  <2> HIDE DEF Good
  <2> QED BY <1>6
<1> QED BY <1>1, <1>7

-----------------------------------------------------------------------------
(* The ledger of the variables and the cache                               *)

Entries == {NoEntry} \cup [a : Addresses, b : Addresses, sum : Addresses, hits : Nat]
EntryClaims(e, k) ==
  IF e = NoEntry THEN {}
  ELSE {<<<<"cache", <<k, "a">>>>, e.a>>, <<<<"cache", <<k, "b">>>>, e.b>>, <<<<"cache", <<k, "sum">>>>, e.sum>>}
CacheClaims(c, K) == UNION {EntryClaims(c[k], k) : k \in K}
PlaceClaims(st, V) == {<<<<"place", v>>, st[v]>> : v \in {w \in V : st[w] # Null}}
Ledger(st, c) == PlaceClaims(st, Places) \cup CacheClaims(c, Slots)

\* An entry that is there remembers the sum of what it names.
SumRight(t, e) == e # NoEntry => t.block[e.sum].text = Added(<<t.block[e.a].text, t.block[e.b].text>>)

StringsTyped ==
  /\ stack \in [Places -> Addresses \cup {Null}]
  /\ add_cache \in [Slots -> Entries]
  /\ said = [v \in Places |-> said[v]]
StringsInv ==
  /\ StringsTyped
  /\ Sound(table, Ledger(stack, add_cache))
  /\ TextsRight
  /\ \A k \in Slots : SumRight(table, add_cache[k])

LEMMA NullApart == Null \notin Addresses /\ Addresses \subseteq Nat
BY AddressesAssumption DEF Null

\* An entry is the empty one, or all of it is there.
LEMMA EntryFacts ==
  ASSUME NEW e \in Entries
  PROVE  /\ e.a = Null <=> e = NoEntry
         /\ e # NoEntry => /\ e.a \in Addresses /\ e.b \in Addresses /\ e.sum \in Addresses
                           /\ e.hits \in Nat
<1>1. CASE e = NoEntry
  BY <1>1 DEF NoEntry
<1>2. CASE e \in [a : Addresses, b : Addresses, sum : Addresses, hits : Nat]
  <2>1. e.a \in Addresses /\ e.b \in Addresses /\ e.sum \in Addresses /\ e.hits \in Nat
    BY <1>2
  <2>2. e.a # Null /\ NoEntry.a = Null
    BY <2>1, NullApart DEF NoEntry
  <2> QED BY <2>1, <2>2
<1> QED BY <1>1, <1>2 DEF Entries

\* What an evicted entry held is given back.
LEMMA EvictedSound ==
  ASSUME NEW s, NEW L, Sound(s, L), NEW k, NEW e \in Entries, EntryClaims(e, k) \subseteq L
  PROVE  Sound(Evicted(s, e), L \ EntryClaims(e, k)) /\ Within(Evicted(s, e), s)
<1>1. CASE e = NoEntry
  <2>1. Evicted(s, e) = s /\ L \ EntryClaims(e, k) = L
    BY <1>1, EntryFacts DEF Evicted, EntryClaims
  <2> QED BY <2>1 DEF Within
<1>2. CASE e # NoEntry
  <2> DEFINE as == <<e.a, e.b, e.sum>>
             ys == <<<<<<"cache", <<k, "a">>>>, e.a>>, <<<<"cache", <<k, "b">>>>, e.b>>, <<<<"cache", <<k, "sum">>>>, e.sum>>>>
  <2>1. Evicted(s, e) = FreeAll(s, as)
    BY <1>2, EntryFacts DEF Evicted
  <2>2. Len(as) = 3
    OBVIOUS
  <2>3. Returns(ys, as, 3, L)
    <3>1. \A i : i \in 1 .. 3 <=> i = 1 \/ i = 2 \/ i = 3
      OBVIOUS
    <3>2. ys[1] \in L /\ ys[2] \in L /\ ys[3] \in L
      BY <1>2 DEF EntryClaims
    <3>3. ys[1][2] = as[1] /\ ys[2][2] = as[2] /\ ys[3][2] = as[3]
      OBVIOUS
    <3>4. ys[1] # ys[2] /\ ys[1] # ys[3] /\ ys[2] # ys[3]
      OBVIOUS
    <3> HIDE DEF as, ys
    <3>5. ASSUME NEW i \in 1 .. 3 PROVE ys[i] \in L /\ ys[i][2] = as[i]
      BY <3>1, <3>2, <3>3
    <3>6. ASSUME NEW i \in 1 .. 3, NEW j \in 1 .. 3, ys[i] = ys[j] PROVE i = j
      BY <3>1, <3>4, <3>6
    <3> QED BY <3>5, <3>6 DEF Returns
  <2>4. Returned(ys, 3) = EntryClaims(e, k)
    <3>1. Returned(ys, 3) = {ys[1], ys[2], ys[3]}
      <4>1. \A i : i \in 1 .. 3 <=> i = 1 \/ i = 2 \/ i = 3
        OBVIOUS
      <4> HIDE DEF ys
      <4> QED BY <4>1 DEF Returned
    <3> QED BY <1>2, <3>1 DEF EntryClaims
  <2> HIDE DEF as, ys
  <2>5. Sound(FreeAll(s, as), L \ Returned(ys, 3)) /\ Within(FreeAll(s, as), s)
    BY <2>2, <2>3, FreeAllSound
  <2> QED BY <2>1, <2>4, <2>5
<1> QED BY <1>1, <1>2

\* EvictedAll goes from slot to slot.
Evicting(f, s, c, slots, n) ==
  /\ f[0] = s
  /\ \A m \in 1 .. n : f[m] = IF m - 1 \in slots THEN Evicted(f[m - 1], c[m - 1]) ELSE f[m - 1]

LEMMA EvictedAllSteps ==
  ASSUME NEW s, NEW slots
  PROVE  \E f : Evicting(f, s, add_cache, slots, ADD_CACHE_SIZE) /\ EvictedAll(s, slots) = f[ADD_CACHE_SIZE]
<1> DEFINE Next(x, m) == IF m - 1 \in slots THEN Evicted(x, add_cache[m - 1]) ELSE x
           c == add_cache
           n == ADD_CACHE_SIZE
           Good(k) == \E f : f = [m \in 0 .. k |-> IF m = 0 THEN s
                                      ELSE IF m - 1 \in slots THEN Evicted(f[m - 1], c[m - 1]) ELSE f[m - 1]]
           Bad == {k \in Nat : ~ Good(k)}
<1>1. ASSUME Bad # {} PROVE FALSE
  <2>1. PICK k \in Bad : \A x \in Bad : k <= x
    <3> HIDE DEF Good
    <3> QED BY <1>1, LeastNat
  <2>2. k \in Nat /\ ~ Good(k)
    BY <2>1
  <2>3. CASE k = 0
    <3> DEFINE f == [m \in 0 .. 0 |-> s]
    <3>1. f = [m \in 0 .. 0 |-> IF m = 0 THEN s
                 ELSE IF m - 1 \in slots THEN Evicted(f[m - 1], c[m - 1]) ELSE f[m - 1]]
      OBVIOUS
    <3> QED BY <2>2, <2>3, <3>1
  <2>4. CASE k # 0
    <3>1. k - 1 \in Nat /\ Good(k - 1)
      <4>1. k - 1 \in Nat /\ ~ (k <= k - 1)
        BY <2>2, <2>4
      <4> HIDE DEF Good
      <4>2. k - 1 \notin Bad
        <5> HIDE DEF Bad
        <5> QED BY <2>1, <4>1
      <4> QED BY <4>1, <4>2
    <3>2. PICK f : f = [m \in 0 .. k - 1 |-> IF m = 0 THEN s
                         ELSE IF m - 1 \in slots THEN Evicted(f[m - 1], c[m - 1]) ELSE f[m - 1]]
      BY <3>1
    <3> DEFINE g == [m \in 0 .. k |-> IF m = k THEN Next(f[k - 1], k) ELSE f[m]]
    <3>3. \A m \in 0 .. k : g[m] = IF m = 0 THEN s ELSE Next(g[m - 1], m)
      <4>1. ASSUME NEW m \in 0 .. k, m # k
            PROVE  g[m] = IF m = 0 THEN s ELSE Next(g[m - 1], m)
        <5>1. m \in 0 .. k - 1 /\ (m # 0 => m - 1 \in 0 .. k /\ m - 1 # k)
          BY <2>2, <4>1
        <5>2. f[m] = IF m = 0 THEN s ELSE Next(f[m - 1], m)
          BY <3>2, <5>1
        <5>3. g[m] = f[m] /\ (m # 0 => g[m - 1] = f[m - 1])
          BY <4>1, <5>1
        <5> HIDE DEF g, Next
        <5> QED BY <5>2, <5>3
      <4>2. g[k] = Next(g[k - 1], k)
        <5>1. k - 1 \in 0 .. k /\ k - 1 # k /\ k \in 0 .. k
          BY <2>2, <2>4
        <5> HIDE DEF Next
        <5> QED BY <5>1
      <4> HIDE DEF g, Next
      <4> QED BY <2>4, <4>1, <4>2
    <3>4. g = [m \in 0 .. k |-> g[m]]
      OBVIOUS
    <3> HIDE DEF g
    <3>5. g = [m \in 0 .. k |-> IF m = 0 THEN s ELSE Next(g[m - 1], m)]
      <4> HIDE DEF Next
      <4> QED BY <3>3, <3>4
    <3>6. g = [m \in 0 .. k |-> IF m = 0 THEN s
                ELSE IF m - 1 \in slots THEN Evicted(g[m - 1], c[m - 1]) ELSE g[m - 1]]
      BY <3>5
    <3> QED BY <2>2, <3>6
  <2> QED BY <2>3, <2>4
<1>2. n \in Nat
  BY HoldersAssumption
<1>3. Good(n)
  <2> HIDE DEF Good, n
  <2> QED BY <1>1, <1>2
<1> DEFINE left == CHOOSE f : f = [m \in 0 .. n |-> IF m = 0 THEN s
                                  ELSE IF m - 1 \in slots THEN Evicted(f[m - 1], c[m - 1]) ELSE f[m - 1]]
<1>4. left = [m \in 0 .. n |-> IF m = 0 THEN s
                ELSE IF m - 1 \in slots THEN Evicted(left[m - 1], c[m - 1]) ELSE left[m - 1]]
  BY <1>3
<1>5. EvictedAll(s, slots) = left[n]
  BY DEF EvictedAll
<1> HIDE DEF left, n
<1>6. \A m \in 0 .. n : left[m] = IF m = 0 THEN s
                ELSE IF m - 1 \in slots THEN Evicted(left[m - 1], c[m - 1]) ELSE left[m - 1]
  BY <1>4
<1>7. 0 \in 0 .. n /\ \A m \in 1 .. n : m \in 0 .. n /\ m # 0
  BY <1>2
<1>8. Evicting(left, s, c, slots, n)
  BY <1>6, <1>7 DEF Evicting
<1> QED BY <1>5, <1>8 DEF n

\* What the entries of some slots held is given back.
LEMMA EvictedAllSound ==
  ASSUME NEW s, NEW L, Sound(s, L), add_cache \in [Slots -> Entries], NEW slots \in SUBSET Slots,
         CacheClaims(add_cache, slots) \subseteq L
  PROVE  Sound(EvictedAll(s, slots), L \ CacheClaims(add_cache, slots)) /\ Within(EvictedAll(s, slots), s)
<1> DEFINE n == ADD_CACHE_SIZE
           c == add_cache
           Before(m) == {k \in slots : k < m}
<1>1. PICK left : Evicting(left, s, c, slots, n) /\ EvictedAll(s, slots) = left[n]
  BY EvictedAllSteps
<1>2. left[0] = s /\ \A m \in 1 .. n : left[m] = IF m - 1 \in slots THEN Evicted(left[m - 1], c[m - 1]) ELSE left[m - 1]
  BY <1>1 DEF Evicting
<1>3. n \in Nat /\ \A k \in slots : k \in Nat /\ k < n
  BY HoldersAssumption DEF Slots
<1> HIDE DEF n, c
<1> DEFINE Good(m) == Sound(left[m], L \ CacheClaims(c, Before(m))) /\ Within(left[m], s)
           Bad == {m \in 0 .. n : ~ Good(m)}
<1>4. Good(0)
  <2>1. Before(0) = {}
    BY <1>3
  <2>2. L \ CacheClaims(c, {}) = L
    BY DEF CacheClaims
  <2> QED BY <1>2, <2>1, <2>2 DEF Within
<1>5. ASSUME NEW m \in 1 .. n, Good(m - 1) PROVE Good(m)
  <2> DEFINE M == L \ CacheClaims(c, Before(m - 1))
  <2>1. CASE m - 1 \notin slots
    <3>1. Before(m) = Before(m - 1)
      <4>1. \A k \in slots : k < m <=> k < m - 1
        BY <1>3, <2>1
      <4> QED BY <4>1
    <3>2. left[m] = left[m - 1]
      BY <1>2, <2>1
    <3> HIDE DEF Before
    <3> QED BY <1>5, <3>1, <3>2
  <2>2. CASE m - 1 \in slots
    <3>1. Before(m) = Before(m - 1) \cup {m - 1} /\ m - 1 \notin Before(m - 1)
      <4>1. \A k \in slots : k < m <=> k < m - 1 \/ k = m - 1
        BY <1>3
      <4>2. \A k : k \in Before(m) <=> k \in Before(m - 1) \/ k = m - 1
        BY <2>2, <4>1
      <4>3. ~ (m - 1 < m - 1)
        OBVIOUS
      <4> QED BY <4>2, <4>3
    <3>2. left[m] = Evicted(left[m - 1], c[m - 1])
      BY <1>2, <2>2
    <3> DEFINE B == Before(m - 1)
               E == EntryClaims(c[m - 1], m - 1)
    <3> HIDE DEF Before
    <3>3. CacheClaims(c, B \cup {m - 1}) = CacheClaims(c, B) \cup E
      BY DEF CacheClaims
    <3>4. E \cap CacheClaims(c, B) = {}
      <4>1. \A k, e, y : y \in EntryClaims(e, k) => y[1][2][1] = k
        BY DEF EntryClaims
      <4>2. \A k \in B : k # m - 1
        BY <3>1
      <4> QED BY <4>1, <4>2 DEF CacheClaims
    <3>5. E \subseteq M
      <4>1. E \subseteq CacheClaims(c, slots)
        BY <2>2 DEF CacheClaims
      <4> QED BY <3>4, <4>1 DEF c
    <3>6. c[m - 1] \in Entries
      BY <2>2 DEF c
    <3>7. Sound(left[m - 1], M) /\ Within(left[m - 1], s)
      BY <1>5
    <3> HIDE DEF M, B, E
    <3>8. Sound(left[m], M \ E) /\ Within(left[m], left[m - 1])
      BY <3>2, <3>5, <3>6, <3>7, EvictedSound DEF E
    <3>9. M \ E = L \ CacheClaims(c, Before(m))
      BY <3>1, <3>3 DEF M, B
    <3> QED BY <3>7, <3>8, <3>9 DEF Within
  <2> QED BY <2>1, <2>2
<1>6. ASSUME Bad # {} PROVE FALSE
  <2>1. Bad \in SUBSET Nat
    BY <1>3 DEF Bad
  <2>2. PICK k \in Bad : \A x \in Bad : k <= x
    <3> HIDE DEF Bad
    <3> QED BY <1>6, <2>1, LeastNat
  <2> HIDE DEF Good
  <2>3. k \in 0 .. n /\ ~ Good(k)
    BY <2>2
  <2>4. k # 0
    BY <1>4, <2>3
  <2>5. k \in 1 .. n /\ k - 1 \in 0 .. n /\ ~ (k <= k - 1)
    BY <1>3, <2>3, <2>4
  <2>6. Good(k - 1)
    BY <2>2, <2>5
  <2> QED BY <1>5, <2>3, <2>5, <2>6
<1>7. Good(n)
  <2>1. n \in 0 .. n
    BY <1>3
  <2> HIDE DEF Good
  <2> QED BY <1>6, <2>1
<1>8. Before(n) = slots
  <2>1. \A k : k \in Before(n) <=> k \in slots
    BY <1>3
  <2> HIDE DEF Before
  <2> QED BY <2>1
<1> HIDE DEF Before
<1> QED BY <1>1, <1>7, <1>8 DEF c

-----------------------------------------------------------------------------
(* How the ledger of the state changes                                     *)

PlaceClaim(v, a) == <<<<"place", v>>, a>>

LEMMA PlaceClaimsAre ==
  ASSUME NEW st, NEW V, NEW y
  PROVE  y \in PlaceClaims(st, V) <=> \E v \in V : st[v] # Null /\ y = PlaceClaim(v, st[v])
BY DEF PlaceClaims, PlaceClaim

LEMMA CacheClaimsAre ==
  ASSUME NEW c, NEW K, NEW y
  PROVE  y \in CacheClaims(c, K) <=> \E k \in K : y \in EntryClaims(c[k], k)
BY DEF CacheClaims

\* A claim says who makes it.
LEMMA Holders ==
  /\ \A v, a : PlaceClaim(v, a)[1] = <<"place", v>> /\ PlaceClaim(v, a)[2] = a
  /\ \A v, a : PlaceClaim(v, a)[1][1] = "place" /\ PlaceClaim(v, a)[1][2] = v
  /\ \A st, V : \A y \in PlaceClaims(st, V) : y[1][1] = "place"
  /\ \A e, k : \A y \in EntryClaims(e, k) : y[1][1] = "cache" /\ y[1][2][1] = k
  /\ \A c, K : \A y \in CacheClaims(c, K) : y[1][1] = "cache" /\ y[1][2][1] \in K
<1>1. /\ \A v, a : PlaceClaim(v, a)[1] = <<"place", v>> /\ PlaceClaim(v, a)[2] = a
      /\ \A v, a : PlaceClaim(v, a)[1][1] = "place" /\ PlaceClaim(v, a)[1][2] = v
  BY DEF PlaceClaim
<1>2. \A st, V : \A y \in PlaceClaims(st, V) : y[1][1] = "place"
  BY <1>1, PlaceClaimsAre
<1>3. \A e, k : \A y \in EntryClaims(e, k) : y[1][1] = "cache" /\ y[1][2][1] = k
  BY DEF EntryClaims
<1>4. \A c, K : \A y \in CacheClaims(c, K) : y[1][1] = "cache" /\ y[1][2][1] \in K
  BY <1>3, CacheClaimsAre
<1> QED BY <1>1, <1>2, <1>3, <1>4

\* One variable is set.
SetAt(su, st, v, a) == \A w \in Places : su[w] = IF w = v THEN a ELSE st[w]

\* A variable that held nothing gets a string.
LEMMA PlaceTaken ==
  ASSUME NEW st \in [Places -> Addresses \cup {Null}], NEW c, NEW v \in Places, st[v] = Null, NEW a \in Addresses,
         NEW su, SetAt(su, st, v, a)
  PROVE  /\ Ledger(su, c) = Ledger(st, c) \cup {PlaceClaim(v, a)}
         /\ PlaceClaim(v, a) \notin Ledger(st, c)
<1>1. \A w \in Places : su[w] = IF w = v THEN a ELSE st[w]
  BY DEF SetAt
<1>2. a # Null
  BY NullApart
<1>3. ASSUME NEW y PROVE y \in PlaceClaims(su, Places) <=> y \in PlaceClaims(st, Places) \/ y = PlaceClaim(v, a)
  <2>1. CASE y = PlaceClaim(v, a)
    BY <1>1, <1>2, <2>1, PlaceClaimsAre
  <2>2. CASE y # PlaceClaim(v, a)
    BY <1>1, <2>2, PlaceClaimsAre
  <2> QED BY <2>1, <2>2
<1>4. PlaceClaim(v, a) \notin PlaceClaims(st, Places)
  <2>1. ASSUME NEW w \in Places, st[w] # Null, PlaceClaim(v, a) = PlaceClaim(w, st[w]) PROVE FALSE
    <3>1. v = w
      BY <2>1, Holders
    <3> QED BY <2>1, <3>1
  <2> QED BY <2>1, PlaceClaimsAre
<1>5. PlaceClaim(v, a) \notin CacheClaims(c, Slots)
  BY Holders
<1> QED BY <1>3, <1>4, <1>5 DEF Ledger

\* A variable gives up its string.
LEMMA PlaceLeft ==
  ASSUME NEW st \in [Places -> Addresses \cup {Null}], NEW c, NEW v \in Places, st[v] # Null,
         NEW su, SetAt(su, st, v, Null)
  PROVE  /\ Ledger(su, c) = Ledger(st, c) \ {PlaceClaim(v, st[v])}
         /\ PlaceClaim(v, st[v]) \in Ledger(st, c)
<1>1. \A w \in Places : su[w] = IF w = v THEN Null ELSE st[w]
  BY DEF SetAt
<1>2. ASSUME NEW y PROVE y \in PlaceClaims(su, Places) <=> y \in PlaceClaims(st, Places) /\ y # PlaceClaim(v, st[v])
  <2>1. ASSUME NEW w \in Places, w # v PROVE PlaceClaim(w, st[w]) # PlaceClaim(v, st[v])
    BY <2>1, Holders
  <2> QED BY <1>1, <2>1, PlaceClaimsAre
<1>3. PlaceClaim(v, st[v]) \in PlaceClaims(st, Places)
  BY PlaceClaimsAre
<1>4. PlaceClaim(v, st[v]) \notin CacheClaims(c, Slots)
  BY Holders
<1> QED BY <1>2, <1>3, <1>4 DEF Ledger

\* What keeps its claims keeps its text, and what it says of texts.
LEMMA PlaceKept ==
  ASSUME NEW s, NEW t, NEW K, Keeps(s, t, K), NEW st, NEW v \in Places, st[v] # Null,
         PlaceClaims(st, Places) \subseteq K
  PROVE  t.block[st[v]].text = s.block[st[v]].text
<1>1. PlaceClaim(v, st[v]) \in K
  BY PlaceClaimsAre
<1> QED BY <1>1, Holders DEF Keeps

LEMMA EntryKept ==
  ASSUME NEW s, NEW t, NEW K, Keeps(s, t, K), NEW e, NEW k, EntryClaims(e, k) \subseteq K, SumRight(s, e)
  PROVE  SumRight(t, e)
<1> SUFFICES ASSUME e # NoEntry
             PROVE  t.block[e.sum].text = Added(<<t.block[e.a].text, t.block[e.b].text>>)
  BY DEF SumRight
<1>1. /\ <<<<"cache", <<k, "a">>>>, e.a>> \in K /\ <<<<"cache", <<k, "b">>>>, e.b>> \in K
      /\ <<<<"cache", <<k, "sum">>>>, e.sum>> \in K
  BY DEF EntryClaims
<1>2. /\ t.block[e.a].text = s.block[e.a].text /\ t.block[e.b].text = s.block[e.b].text
      /\ t.block[e.sum].text = s.block[e.sum].text
  BY <1>1 DEF Keeps
<1> QED BY <1>2 DEF SumRight

LEMMA CacheKept ==
  ASSUME NEW s, NEW t, NEW K, Keeps(s, t, K), NEW c, CacheClaims(c, Slots) \subseteq K,
         \A k \in Slots : SumRight(s, c[k])
  PROVE  \A k \in Slots : SumRight(t, c[k])
<1> SUFFICES ASSUME NEW k \in Slots PROVE SumRight(t, c[k])
  OBVIOUS
<1>1. EntryClaims(c[k], k) \subseteq K
  BY CacheClaimsAre
<1> QED BY <1>1, EntryKept

-----------------------------------------------------------------------------
(* The operations                                                          *)

LEMMA MakeStringKeeps ==
  ASSUME StringsInv, NEW v \in Places, NEW text \in Literals, NEW room \in Addresses, MakeString(v, text, room)
  PROVE  StringsInv'
<1> DEFINE L == Ledger(stack, add_cache)
           r == MakeShared(table, text, room)
<1>1. /\ stack[v] = Null /\ room \notin InUse(table) /\ table' = r.s /\ stack' = [stack EXCEPT ![v] = r.at]
      /\ said' = [said EXCEPT ![v] = text] /\ add_cache' = add_cache
  BY DEF MakeString
<1>2. text \in Sums
  BY AddressesAssumption
<1>3. /\ \A x : <<x, r.at>> \notin L => Sound(r.s, L \cup {<<x, r.at>>})
      /\ Within(table, r.s) /\ r.s.block[r.at].text = text /\ r.at \in Addresses
  BY <1>1, <1>2, MakeSharedSound DEF StringsInv
<1> HIDE DEF r
<1>4. stack \in [Places -> Addresses \cup {Null}] /\ said = [w \in Places |-> said[w]]
  BY DEF StringsInv, StringsTyped
<1>5. Ledger(stack', add_cache') = L \cup {PlaceClaim(v, r.at)} /\ PlaceClaim(v, r.at) \notin L
  <2>1. SetAt(stack', stack, v, r.at)
    BY <1>1, <1>4 DEF SetAt
  <2>2. stack[v] = Null /\ r.at \in Addresses
    BY <1>1, <1>3
  <2> QED BY <1>1, <1>4, <2>1, <2>2, PlaceTaken
<1>6. Sound(table', L \cup {PlaceClaim(v, r.at)})
  BY <1>1, <1>3, <1>5 DEF PlaceClaim
<1>7. Keeps(table, table', L)
  BY <1>1, <1>3, <1>6, ClaimedKeeps DEF StringsInv
<1>8. StringsTyped'
  <2>1. stack' \in [Places -> Addresses \cup {Null}] /\ said' = [w \in Places |-> said'[w]]
    BY <1>1, <1>3, <1>4
  <2> QED BY <1>1, <2>1 DEF StringsTyped, StringsInv, Slots
<1>9. TextsRight'
  <2> SUFFICES ASSUME NEW w \in Places, stack'[w] # Null PROVE table'.block[stack'[w]].text = said'[w]
    BY DEF TextsRight
  <2>1. CASE w = v
    BY <1>1, <1>3, <1>4, <2>1
  <2>2. CASE w # v
    <3>1. stack'[w] = stack[w] /\ said'[w] = said[w]
      BY <1>1, <1>4, <2>2
    <3>2. table'.block[stack[w]].text = table.block[stack[w]].text
      BY <1>7, <3>1, PlaceKept DEF Ledger
    <3> QED BY <3>1, <3>2 DEF TextsRight, StringsInv
  <2> QED BY <2>1, <2>2
<1>10. \A k \in Slots : SumRight(table', add_cache'[k])
  BY <1>1, <1>7, CacheKept DEF StringsInv, Ledger
<1> QED BY <1>5, <1>6, <1>8, <1>9, <1>10 DEF StringsInv, Slots

LEMMA CopyStringKeeps ==
  ASSUME StringsInv, NEW v \in Places, NEW u \in Places, CopyString(v, u)
  PROVE  StringsInv'
<1> DEFINE L == Ledger(stack, add_cache)
           a == stack[u]
<1>1. /\ stack[v] = Null /\ a # Null /\ table' = Held(table, a) /\ stack' = [stack EXCEPT ![v] = a]
      /\ said' = [said EXCEPT ![v] = said[u]] /\ add_cache' = add_cache
  BY DEF CopyString
<1>2. stack \in [Places -> Addresses \cup {Null}] /\ said = [w \in Places |-> said[w]]
  BY DEF StringsInv, StringsTyped
<1>3. a \in InUse(table) /\ a \in Addresses
  <2>1. PlaceClaim(u, a) \in L
    BY <1>1, PlaceClaimsAre DEF Ledger
  <2>2. a \in InUse(table)
    BY <2>1, LedgerInUse, Holders DEF StringsInv
  <2> QED BY <2>2 DEF InUse
<1> HIDE DEF a
<1>4. /\ \A x : <<x, a>> \notin L => Sound(Held(table, a), L \cup {<<x, a>>})
      /\ Within(table, Held(table, a)) /\ Held(table, a).block[a].text = table.block[a].text
  BY <1>3, HeldSound DEF StringsInv
<1>5. Ledger(stack', add_cache') = L \cup {PlaceClaim(v, a)} /\ PlaceClaim(v, a) \notin L
  <2>1. SetAt(stack', stack, v, a)
    BY <1>1, <1>2 DEF SetAt
  <2> QED BY <1>1, <1>2, <1>3, <2>1, PlaceTaken
<1>6. Sound(table', L \cup {PlaceClaim(v, a)})
  BY <1>1, <1>4, <1>5 DEF PlaceClaim
<1>7. Keeps(table, table', L)
  BY <1>1, <1>4, <1>6, ClaimedKeeps DEF StringsInv
<1>8. StringsTyped'
  <2>1. stack' \in [Places -> Addresses \cup {Null}] /\ said' = [w \in Places |-> said'[w]]
    BY <1>1, <1>2, <1>3
  <2> QED BY <1>1, <2>1 DEF StringsTyped, StringsInv, Slots
<1>9. TextsRight'
  <2> SUFFICES ASSUME NEW w \in Places, stack'[w] # Null PROVE table'.block[stack'[w]].text = said'[w]
    BY DEF TextsRight
  <2>1. CASE w = v
    <3>1. stack'[w] = a /\ said'[w] = said[u]
      BY <1>1, <1>2, <2>1
    <3>2. table.block[a].text = said[u]
      BY <1>1 DEF TextsRight, StringsInv, a
    <3> QED BY <1>1, <1>4, <3>1, <3>2
  <2>2. CASE w # v
    <3>1. stack'[w] = stack[w] /\ said'[w] = said[w]
      BY <1>1, <1>2, <2>2
    <3>2. table'.block[stack[w]].text = table.block[stack[w]].text
      BY <1>7, <3>1, PlaceKept DEF Ledger
    <3> QED BY <3>1, <3>2 DEF TextsRight, StringsInv
  <2> QED BY <2>1, <2>2
<1>10. \A k \in Slots : SumRight(table', add_cache'[k])
  BY <1>1, <1>7, CacheKept DEF StringsInv, Ledger
<1> QED BY <1>5, <1>6, <1>8, <1>9, <1>10 DEF StringsInv, Slots

LEMMA ReleaseKeeps ==
  ASSUME StringsInv, NEW v \in Places, Release(v)
  PROVE  StringsInv'
<1> DEFINE L == Ledger(stack, add_cache)
           y == PlaceClaim(v, stack[v])
<1>1. /\ stack[v] # Null /\ table' = FreeString(table, stack[v]) /\ stack' = [stack EXCEPT ![v] = Null]
      /\ said' = [said EXCEPT ![v] = <<>>] /\ add_cache' = add_cache
  BY DEF Release
<1>2. stack \in [Places -> Addresses \cup {Null}] /\ said = [w \in Places |-> said[w]]
  BY DEF StringsInv, StringsTyped
<1>3. Ledger(stack', add_cache') = L \ {y} /\ y \in L /\ y[2] = stack[v]
  <2>1. SetAt(stack', stack, v, Null)
    BY <1>1, <1>2 DEF SetAt
  <2> QED BY <1>1, <1>2, <2>1, PlaceLeft, Holders
<1> HIDE DEF y
<1>4. Sound(table', L \ {y}) /\ Within(table', table)
  BY <1>1, <1>3, FreeSound DEF StringsInv
<1>5. Keeps(table, table', L \ {y})
  BY <1>4, ClaimedKeeps DEF StringsInv
<1>6. StringsTyped'
  <2>1. stack' \in [Places -> Addresses \cup {Null}] /\ said' = [w \in Places |-> said'[w]]
    BY <1>1, <1>2
  <2> QED BY <1>1, <2>1 DEF StringsTyped, StringsInv, Slots
<1>7. PlaceClaims(stack', Places) \subseteq L \ {y} /\ CacheClaims(add_cache, Slots) \subseteq L \ {y}
  BY <1>1, <1>3 DEF Ledger
<1>8. TextsRight'
  <2> SUFFICES ASSUME NEW w \in Places, stack'[w] # Null PROVE table'.block[stack'[w]].text = said'[w]
    BY DEF TextsRight
  <2>1. w # v /\ stack'[w] = stack[w] /\ said'[w] = said[w]
    BY <1>1, <1>2
  <2>2. table'.block[stack'[w]].text = table.block[stack'[w]].text
    BY <1>5, <1>7, PlaceKept
  <2> QED BY <2>1, <2>2 DEF TextsRight, StringsInv
<1>9. \A k \in Slots : SumRight(table', add_cache'[k])
  BY <1>1, <1>5, <1>7, CacheKept DEF StringsInv
<1> QED BY <1>3, <1>4, <1>6, <1>8, <1>9 DEF StringsInv, Slots

\* clean_add_cache and free_add_cache
LEMMA DropKeeps ==
  ASSUME StringsInv, NEW slots \in SUBSET Slots, Drop(slots)
  PROVE  StringsInv'
<1> DEFINE L == Ledger(stack, add_cache)
           C == CacheClaims(add_cache, slots)
<1>1. /\ table' = EvictedAll(table, slots) /\ stack' = stack /\ said' = said
      /\ add_cache' = [e \in Slots |-> IF e \in slots THEN NoEntry ELSE add_cache[e]]
  BY DEF Drop
<1>2. add_cache \in [Slots -> Entries]
  BY DEF StringsInv, StringsTyped
<1>3. C \subseteq L
  BY CacheClaimsAre DEF Ledger
<1>4. Sound(table', L \ C) /\ Within(table', table)
  BY <1>1, <1>2, <1>3, EvictedAllSound DEF StringsInv
<1>5. ASSUME NEW y PROVE y \in CacheClaims(add_cache', Slots) <=> y \in CacheClaims(add_cache, Slots) /\ y \notin C
  <2>1. \A k \in Slots : EntryClaims(add_cache'[k], k) = IF k \in slots THEN {} ELSE EntryClaims(add_cache[k], k)
    BY <1>1 DEF EntryClaims
  <2>2. ASSUME NEW k \in Slots, NEW j \in slots, y \in EntryClaims(add_cache[k], k), y \in EntryClaims(add_cache[j], j)
        PROVE  k = j
    BY <2>2, Holders
  <2>3. y \in CacheClaims(add_cache', Slots) <=> \E k \in Slots : k \notin slots /\ y \in EntryClaims(add_cache[k], k)
    BY <2>1, CacheClaimsAre
  <2> QED BY <2>2, <2>3, CacheClaimsAre
<1>6. Ledger(stack', add_cache') = L \ C
  <2>1. \A y \in PlaceClaims(stack, Places) : y \notin C
    BY Holders
  <2> HIDE DEF C
  <2> QED BY <1>1, <1>5, <2>1 DEF Ledger
<1>7. Keeps(table, table', L \ C)
  BY <1>4, ClaimedKeeps DEF StringsInv
<1>8. StringsTyped'
  <2>1. add_cache' \in [Slots -> Entries]
    BY <1>1, <1>2 DEF Entries
  <2> QED BY <1>1, <2>1 DEF StringsTyped, StringsInv, Slots
<1>9. PlaceClaims(stack', Places) \subseteq L \ C /\ CacheClaims(add_cache', Slots) \subseteq L \ C
  BY <1>6 DEF Ledger
<1>10. TextsRight'
  <2> SUFFICES ASSUME NEW w \in Places, stack'[w] # Null PROVE table'.block[stack'[w]].text = said'[w]
    BY DEF TextsRight
  <2>2. table'.block[stack'[w]].text = table.block[stack'[w]].text
    BY <1>7, <1>9, PlaceKept
  <2> QED BY <1>1, <2>2 DEF TextsRight, StringsInv
<1>11. \A k \in Slots : SumRight(table', add_cache'[k])
  <2>1. \A k \in Slots : SumRight(table, add_cache'[k])
    BY <1>1 DEF StringsInv, SumRight
  <2> QED BY <1>7, <1>9, <2>1, CacheKept
<1> QED BY <1>4, <1>6, <1>8, <1>10, <1>11 DEF StringsInv, Slots

\* The sum, until the variable of the first argument holds it.
Hand(a) == <<<<"hand", 0>>, a>>

LEMMA ArgumentFacts ==
  ASSUME NEW args \in Arguments
  PROVE  /\ Len(args) \in 2 .. 3 /\ DOMAIN args = 1 .. Len(args) /\ args \in [1 .. Len(args) -> Places]
         /\ \A i \in 1 .. Len(args) : args[i] \in Places /\ stack[args[i]] # Null
         /\ \A i, j \in 1 .. Len(args) : args[i] = args[j] => i = j
<1>1. PICK n \in 2 .. 3 : args \in [1 .. n -> Places]
  BY DEF Arguments
<1>2. args \in Seq(Places)
  BY <1>1, SeqDef
<1>3. Len(args) = n /\ DOMAIN args = 1 .. n
  BY <1>1, <1>2
<1>4. /\ \A i, j \in DOMAIN args : i # j => args[i] # args[j]
      /\ \A i \in DOMAIN args : stack[args[i]] # Null
  BY DEF Arguments
<1> QED BY <1>1, <1>3, <1>4

\* The end of f_sum: the arguments are given up, and the first is the sum.
LEMMA ConsumedKeeps ==
  ASSUME StringsInv, NEW args \in Arguments, NEW c \in [Slots -> Entries], NEW s, NEW sum \in Addresses,
         Sound(s, Ledger(stack, c) \cup {Hand(sum)}), Keeps(table, s, PlaceClaims(stack, Places)),
         s.block[sum].text = Added([i \in DOMAIN args |-> TextOf(args[i])]),
         \A k \in Slots : SumRight(s, c[k]), Consumed(args, s, sum), add_cache' = c
  PROVE  StringsInv'
<1> DEFINE n == Len(args)
           as == [i \in DOMAIN args |-> stack[args[i]]]
           ys == [i \in 1 .. n |-> PlaceClaim(args[i], stack[args[i]])]
           L == Ledger(stack, c) \cup {Hand(sum)}
           M == L \ Returned(ys, n)
           x == PlaceClaim(args[1], sum)
<1>1. /\ n \in 2 .. 3 /\ DOMAIN args = 1 .. n /\ args \in [1 .. n -> Places]
      /\ \A i \in 1 .. n : args[i] \in Places /\ stack[args[i]] # Null
      /\ \A i, j \in 1 .. n : args[i] = args[j] => i = j
  BY ArgumentFacts
<1>2. stack \in [Places -> Addresses \cup {Null}] /\ said = [w \in Places |-> said[w]]
  BY DEF StringsInv, StringsTyped
<1>3. Len(as) = n /\ \A i \in 1 .. n : as[i] = stack[args[i]]
  <2>1. as \in [1 .. n -> Addresses \cup {Null}] /\ DOMAIN as = 1 .. n
    BY <1>1, <1>2
  <2>2. as \in Seq(Addresses \cup {Null})
    BY <1>1, <2>1, SeqDef
  <2> HIDE DEF as, n
  <2>3. Len(as) = n
    BY <1>1, <2>1, <2>2, LenProperties
  <2> QED BY <1>1, <2>3 DEF as
<1>4. \A i \in 1 .. n : ys[i] = PlaceClaim(args[i], stack[args[i]])
  OBVIOUS
<1>5. /\ table' = FreeAll(s, as)
      /\ stack' = [v \in Places |-> IF v = args[1] THEN sum
                               ELSE IF \E i \in DOMAIN args : args[i] = v THEN Null ELSE stack[v]]
      /\ said' = [v \in Places |-> IF v = args[1] THEN Added([i \in DOMAIN args |-> said[args[i]]])
                               ELSE IF \E i \in DOMAIN args : args[i] = v THEN <<>> ELSE said[v]]
  BY DEF Consumed
<1> HIDE DEF n, as, ys
<1>6. 1 \in 1 .. n /\ n \in Nat /\ args[1] \in Places
  BY <1>1
<1>7. Returns(ys, as, n, L)
  <2>1. ASSUME NEW i \in 1 .. n PROVE ys[i] \in L /\ ys[i][2] = as[i]
    <3>1. ys[i] \in PlaceClaims(stack, Places)
      BY <1>1, <1>4, PlaceClaimsAre
    <3>2. ys[i] \in L
      BY <3>1 DEF Ledger
    <3>3. ys[i][2] = stack[args[i]]
      BY <1>4, Holders
    <3> QED BY <1>3, <3>2, <3>3
  <2>2. ASSUME NEW i \in 1 .. n, NEW j \in 1 .. n, ys[i] = ys[j] PROVE i = j
    <3>1. args[i] = args[j]
      BY <1>4, <2>2, Holders
    <3> QED BY <1>1, <3>1
  <2> HIDE DEF L
  <2> QED BY <2>1, <2>2 DEF Returns
<1>8. Sound(table', M) /\ Within(table', s)
  BY <1>3, <1>5, <1>6, <1>7, FreeAllSound
<1>9. \A y \in Returned(ys, n) : y[1][1] = "place" /\ \E i \in 1 .. n : y = PlaceClaim(args[i], stack[args[i]])
  BY <1>4, Holders DEF Returned
<1>10. \A i \in 1 .. n : PlaceClaim(args[i], stack[args[i]]) \in Returned(ys, n)
  BY <1>4 DEF Returned
<1>11. /\ Hand(sum) \in M /\ Hand(sum)[2] = sum /\ Hand(sum) \notin Ledger(stack, c)
       /\ CacheClaims(c, Slots) \subseteq M
  <2>1. Hand(sum)[1][1] = "hand" /\ Hand(sum)[2] = sum
    BY DEF Hand
  <2>2. Hand(sum) \notin Ledger(stack, c)
    <3>1. \A y \in Ledger(stack, c) : y[1][1] \in {"place", "cache"}
      BY Holders DEF Ledger
    <3> QED BY <2>1, <3>1
  <2>3. \A y \in CacheClaims(c, Slots) : y \notin Returned(ys, n)
    BY <1>9, Holders
  <2> QED BY <1>9, <2>1, <2>2, <2>3 DEF Ledger
<1>12. \A w \in Places : stack'[w] = IF w = args[1] THEN sum
                                   ELSE IF \E i \in 1 .. n : args[i] = w THEN Null ELSE stack[w]
  BY <1>1, <1>5
<1>13. \A w \in Places : said'[w] = IF w = args[1] THEN Added([i \in DOMAIN args |-> said[args[i]]])
                                  ELSE IF \E i \in 1 .. n : args[i] = w THEN <<>> ELSE said[w]
  BY <1>1, <1>5
<1>14. ASSUME NEW y
       PROVE  y \in PlaceClaims(stack', Places) <=> y = x \/ (y \in PlaceClaims(stack, Places) /\ y \notin Returned(ys, n))
  <2>1. sum # Null
    BY NullApart
  <2>2. ASSUME NEW w \in Places, \A i \in 1 .. n : args[i] # w
        PROVE  PlaceClaim(w, stack[w]) \notin Returned(ys, n) /\ stack'[w] = stack[w]
    <3>1. PlaceClaim(w, stack[w]) \notin Returned(ys, n)
      BY <1>9, <2>2, Holders
    <3> QED BY <1>6, <1>12, <2>2, <3>1
  <2>3. ASSUME y \in PlaceClaims(stack', Places)
        PROVE  y = x \/ (y \in PlaceClaims(stack, Places) /\ y \notin Returned(ys, n))
    <3>1. PICK w \in Places : stack'[w] # Null /\ y = PlaceClaim(w, stack'[w])
      BY <2>3, PlaceClaimsAre
    <3>2. CASE w = args[1]
      BY <1>12, <3>1, <3>2
    <3>3. CASE w # args[1] /\ \E i \in 1 .. n : args[i] = w
      BY <1>12, <3>1, <3>3
    <3>4. CASE \A i \in 1 .. n : args[i] # w
      BY <2>2, <3>1, <3>4, PlaceClaimsAre
    <3> QED BY <3>2, <3>3, <3>4
  <2>4. ASSUME y = x PROVE y \in PlaceClaims(stack', Places)
    <3>1. stack'[args[1]] = sum
      BY <1>6, <1>12
    <3> QED BY <1>6, <2>1, <2>4, <3>1, PlaceClaimsAre
  <2>5. ASSUME y \in PlaceClaims(stack, Places), y \notin Returned(ys, n) PROVE y \in PlaceClaims(stack', Places)
    <3>1. PICK w \in Places : stack[w] # Null /\ y = PlaceClaim(w, stack[w])
      BY <2>5, PlaceClaimsAre
    <3>2. \A i \in 1 .. n : args[i] # w
      BY <1>10, <2>5, <3>1
    <3>3. stack'[w] = stack[w]
      BY <2>2, <3>2
    <3> QED BY <3>1, <3>3, PlaceClaimsAre
  <2> QED BY <2>3, <2>4, <2>5
<1>15. x \notin M /\ x[2] = sum
  <2>1. ASSUME x \in PlaceClaims(stack, Places) PROVE x \in Returned(ys, n)
    <3>1. PICK w \in Places : x = PlaceClaim(w, stack[w])
      BY <2>1, PlaceClaimsAre
    <3>2. w = args[1]
      BY <3>1, Holders
    <3>3. x = PlaceClaim(args[1], stack[args[1]])
      BY <3>1, <3>2
    <3> HIDE DEF x
    <3> QED BY <1>6, <1>10, <3>3
  <2>2. x \notin CacheClaims(c, Slots) /\ x[2] = sum
    BY Holders
  <2>3. x # Hand(sum)
    <3>1. x[1][1] = "place" /\ Hand(sum)[1][1] = "hand"
      BY Holders DEF Hand
    <3> QED BY <3>1
  <2> QED BY <2>1, <2>2, <2>3 DEF Ledger
<1> HIDE DEF x
<1>16. Ledger(stack', c) = (M \ {Hand(sum)}) \cup {x}
  <2>1. \A y : y \in Ledger(stack', c) <=> (y \in M /\ y # Hand(sum)) \/ y = x
    BY <1>11, <1>14 DEF Ledger
  <2> HIDE DEF M
  <2> QED BY <2>1
<1> HIDE DEF M
<1>17. Sound(table', Ledger(stack', c))
  BY <1>8, <1>11, <1>15, <1>16, Renamed
<1>18. Keeps(s, table', M)
  <2>1. M \subseteq L
    BY DEF M
  <2> QED BY <1>8, <2>1, ClaimedKeeps
<1>19. StringsTyped'
  <2>1. stack' \in [Places -> Addresses \cup {Null}]
    BY <1>2, <1>5
  <2>2. said' = [w \in Places |-> said'[w]]
    BY <1>5
  <2> QED BY <2>1, <2>2 DEF StringsTyped, Slots
<1>20. TextsRight'
  <2> SUFFICES ASSUME NEW w \in Places, stack'[w] # Null PROVE table'.block[stack'[w]].text = said'[w]
    BY DEF TextsRight
  <2>1. CASE w = args[1]
    <3>1. stack'[w] = sum /\ said'[w] = Added([i \in DOMAIN args |-> said[args[i]]])
      BY <1>12, <1>13, <2>1
    <3>2. table'.block[sum].text = s.block[sum].text
      BY <1>11, <1>18 DEF Keeps
    <3>3. \A i \in DOMAIN args : TextOf(args[i]) = said[args[i]]
      BY <1>1 DEF StringsInv, TextsRight, TextOf
    <3>4. [i \in DOMAIN args |-> TextOf(args[i])] = [i \in DOMAIN args |-> said[args[i]]]
      BY <3>3
    <3> QED BY <3>1, <3>2, <3>4
  <2>2. CASE w # args[1]
    <3>1. \A i \in 1 .. n : args[i] # w
      BY <1>12, <2>2
    <3>2. stack'[w] = stack[w] /\ said'[w] = said[w]
      BY <1>12, <1>13, <2>2, <3>1
    <3>3. PlaceClaim(w, stack[w]) \in M
      <4>1. PlaceClaim(w, stack[w]) \in L
        BY <3>2, PlaceClaimsAre DEF Ledger
      <4>2. PlaceClaim(w, stack[w]) \notin Returned(ys, n)
        BY <1>9, <3>1, Holders
      <4> QED BY <4>1, <4>2 DEF M
    <3>4. table'.block[stack[w]].text = s.block[stack[w]].text
      BY <1>18, <3>3, Holders DEF Keeps
    <3>5. s.block[stack[w]].text = table.block[stack[w]].text
      BY <3>2, PlaceKept
    <3> QED BY <3>2, <3>4, <3>5 DEF TextsRight, StringsInv
  <2> QED BY <2>1, <2>2
<1>21. \A k \in Slots : SumRight(table', c[k])
  BY <1>11, <1>18, CacheKept
<1> QED BY <1>17, <1>19, <1>20, <1>21 DEF StringsInv, Slots

\* A sum that is remembered is given out once more.
LEMMA RememberedKeeps ==
  ASSUME StringsInv, NEW args \in Arguments, Len(args) = 2,
         NEW k \in Slots, NEW e, e = add_cache[k], Hit(e, stack[args[1]], stack[args[2]]),
         add_cache' = [add_cache EXCEPT ![k].hits = @ + 1], Consumed(args, Held(table, e.sum), e.sum)
  PROVE  StringsInv'
<1> DEFINE L == Ledger(stack, add_cache)
           s == Held(table, e.sum)
           d == [a |-> e.a, b |-> e.b, sum |-> e.sum, hits |-> e.hits + 1]
<1>1. /\ DOMAIN args = 1 .. 2 /\ stack[args[1]] # Null /\ stack[args[2]] # Null
      /\ args[1] \in Places /\ args[2] \in Places
  <2>1. /\ DOMAIN args = 1 .. 2
        /\ \A i \in 1 .. 2 : args[i] \in Places /\ stack[args[i]] # Null
    BY ArgumentFacts
  <2>2. 1 \in 1 .. 2 /\ 2 \in 1 .. 2
    OBVIOUS
  <2> QED BY <2>1, <2>2
<1>2. add_cache \in [Slots -> Entries]
  BY DEF StringsInv, StringsTyped
<1>3. e \in Entries /\ e # NoEntry /\ e.a = stack[args[1]] /\ e.b = stack[args[2]]
  BY <1>1, <1>2, EntryFacts DEF Hit
<1>4. e.a \in Addresses /\ e.b \in Addresses /\ e.sum \in Addresses /\ e.hits \in Nat
  BY <1>3, EntryFacts
<1>5. e.sum \in InUse(table)
  <2>1. <<<<"cache", <<k, "sum">>>>, e.sum>> \in EntryClaims(e, k)
    BY <1>3 DEF EntryClaims
  <2>2. <<<<"cache", <<k, "sum">>>>, e.sum>> \in L
    BY <2>1, CacheClaimsAre DEF Ledger
  <2>3. <<<<"cache", <<k, "sum">>>>, e.sum>>[2] \in InUse(table)
    BY <2>2, LedgerInUse DEF StringsInv
  <2> QED BY <2>3
<1>6. /\ \A x : <<x, e.sum>> \notin L => Sound(s, L \cup {<<x, e.sum>>})
      /\ Within(table, s) /\ s.block[e.sum].text = table.block[e.sum].text
  BY <1>5, HeldSound DEF StringsInv
<1> HIDE DEF s
<1>7. \A a : Hand(a) \notin L
  <2>1. \A a : Hand(a)[1][1] = "hand"
    BY DEF Hand
  <2>2. \A y \in L : y[1][1] \in {"place", "cache"}
    BY Holders DEF Ledger
  <2> HIDE DEF L
  <2> QED BY <2>1, <2>2
<1>8. Sound(s, L \cup {Hand(e.sum)})
  BY <1>6, <1>7 DEF Hand
<1>9. Keeps(table, s, L)
  BY <1>6, <1>8, ClaimedKeeps DEF StringsInv
<1>10. d \in Entries /\ d # NoEntry /\ d.a = e.a /\ d.b = e.b /\ d.sum = e.sum
  <2>1. d \in Entries /\ d.a = e.a /\ d.b = e.b /\ d.sum = e.sum
    BY <1>4 DEF Entries
  <2>2. d.a # Null
    BY <1>4, NullApart
  <2> HIDE DEF d
  <2> QED BY <2>1, <2>2, EntryFacts
<1>11. \A j \in Slots : add_cache'[j] = IF j = k THEN d ELSE add_cache[j]
  <2>1. e = [a |-> e.a, b |-> e.b, sum |-> e.sum, hits |-> e.hits]
    BY <1>3 DEF Entries
  <2>2. [e EXCEPT !.hits = e.hits + 1] = d
    BY <2>1
  <2> HIDE DEF d
  <2> QED BY <1>2, <2>2
<1>12. add_cache' \in [Slots -> Entries]
  <2>1. add_cache' = [j \in Slots |-> add_cache'[j]]
    BY <1>2
  <2> HIDE DEF d
  <2>2. \A j \in Slots : add_cache'[j] \in Entries
    BY <1>2, <1>10, <1>11
  <2> QED BY <2>1, <2>2
<1> HIDE DEF d
<1>13. CacheClaims(add_cache', Slots) = CacheClaims(add_cache, Slots)
  <2>1. EntryClaims(d, k) = EntryClaims(e, k)
    BY <1>3, <1>10 DEF EntryClaims
  <2>2. \A j \in Slots : EntryClaims(add_cache'[j], j) = EntryClaims(add_cache[j], j)
    BY <1>11, <2>1
  <2>3. \A y : y \in CacheClaims(add_cache', Slots) <=> y \in CacheClaims(add_cache, Slots)
    BY <2>2, CacheClaimsAre
  <2> QED BY <2>3
<1>14. Sound(s, Ledger(stack, add_cache') \cup {Hand(e.sum)})
  BY <1>8, <1>13 DEF Ledger
<1>15. \A j \in Slots : SumRight(s, add_cache'[j])
  <2>1. \A j \in Slots : SumRight(s, add_cache[j])
    BY <1>9, CacheKept DEF StringsInv, Ledger
  <2> QED BY <1>3, <1>10, <1>11, <2>1 DEF SumRight
<1>16. s.block[e.sum].text = Added([i \in DOMAIN args |-> TextOf(args[i])])
  <2>1. table.block[e.sum].text = Added(<<table.block[e.a].text, table.block[e.b].text>>)
    BY <1>3 DEF StringsInv, SumRight
  <2>2. [i \in DOMAIN args |-> TextOf(args[i])] = <<TextOf(args[1]), TextOf(args[2])>>
    BY <1>1
  <2> QED BY <1>3, <1>6, <2>1, <2>2 DEF TextOf
<1>17. Keeps(table, s, PlaceClaims(stack, Places))
  BY <1>9 DEF Keeps, Ledger
<1> QED BY <1>4, <1>12, <1>14, <1>15, <1>16, <1>17, ConsumedKeeps DEF s

\* A sum that is too long to be remembered, or of more than two strings.
LEMMA PlainSumKeeps ==
  ASSUME StringsInv, NEW args \in Arguments, NEW room \in Addresses, room \notin InUse(table),
         NEW text \in Sums, text = Added([i \in DOMAIN args |-> TextOf(args[i])]),
         NEW r, r = MakeShared(table, text, room), Consumed(args, r.s, r.at), add_cache' = add_cache
  PROVE  StringsInv'
<1> DEFINE L == Ledger(stack, add_cache)
<1>1. /\ \A x : <<x, r.at>> \notin L => Sound(r.s, L \cup {<<x, r.at>>})
      /\ Within(table, r.s) /\ r.s.block[r.at].text = text /\ r.at \in Addresses
  BY MakeSharedSound DEF StringsInv
<1>2. \A a : Hand(a) \notin L
  <2>1. \A a : Hand(a)[1][1] = "hand"
    BY DEF Hand
  <2>2. \A y \in L : y[1][1] \in {"place", "cache"}
    BY Holders DEF Ledger
  <2> HIDE DEF L
  <2> QED BY <2>1, <2>2
<1>3. Sound(r.s, L \cup {Hand(r.at)})
  BY <1>1, <1>2 DEF Hand
<1>4. Keeps(table, r.s, L)
  BY <1>1, <1>3, ClaimedKeeps DEF StringsInv
<1>5. \A j \in Slots : SumRight(r.s, add_cache[j])
  BY <1>4, CacheKept DEF StringsInv, Ledger
<1>6. Keeps(table, r.s, PlaceClaims(stack, Places))
  BY <1>4 DEF Keeps, Ledger
<1>7. add_cache \in [Slots -> Entries]
  BY DEF StringsInv, StringsTyped
<1> QED BY <1>1, <1>3, <1>5, <1>6, <1>7, ConsumedKeeps

\* A sum is remembered, and what was remembered in its slot is forgotten.
LEMMA NewlySummedKeeps ==
  ASSUME StringsInv, NEW args \in Arguments, Len(args) = 2, NEW k \in Slots,
         NEW a, a = stack[args[1]], NEW b, b = stack[args[2]],
         NEW before, before = Evicted(table, add_cache[k]), NEW room \in Addresses, room \notin InUse(before),
         NEW text \in Sums, text = Added([i \in DOMAIN args |-> TextOf(args[i])]),
         NEW r, r = MakeShared(before, text, room),
         NEW d, d = [a |-> a, b |-> b, sum |-> r.at, hits |-> 0], add_cache' = [add_cache EXCEPT ![k] = d],
         Consumed(args, Held(Held(Held(r.s, a), b), r.at), r.at)
  PROVE  StringsInv'
<1> DEFINE P == PlaceClaims(stack, Places)
           R == CacheClaims(add_cache, Slots \ {k})
           N == P \cup R
           s0 == r.s
           s1 == Held(s0, a)
           s2 == Held(s1, b)
           s3 == Held(s2, r.at)
           ka == <<"cache", <<k, "a">>>>
           kb == <<"cache", <<k, "b">>>>
           ks == <<"cache", <<k, "sum">>>>
           h == <<"hand", 0>>
           c == add_cache'
           L0 == N \cup {<<h, r.at>>}
           L1 == L0 \cup {<<ka, a>>}
           L2 == L1 \cup {<<kb, b>>}
           L3 == L2 \cup {<<ks, r.at>>}
<1>1. /\ DOMAIN args = 1 .. 2 /\ a # Null /\ b # Null /\ args[1] \in Places /\ args[2] \in Places
  <2>1. /\ DOMAIN args = 1 .. 2
        /\ \A i \in 1 .. 2 : args[i] \in Places /\ stack[args[i]] # Null
    BY ArgumentFacts
  <2>2. 1 \in 1 .. 2 /\ 2 \in 1 .. 2
    OBVIOUS
  <2> QED BY <2>1, <2>2
<1>2. stack \in [Places -> Addresses \cup {Null}] /\ add_cache \in [Slots -> Entries]
  BY DEF StringsInv, StringsTyped
<1>3. a \in Addresses /\ b \in Addresses
  BY <1>1, <1>2
<1>4. Ledger(stack, add_cache) \ EntryClaims(add_cache[k], k) = N /\ EntryClaims(add_cache[k], k) \subseteq Ledger(stack, add_cache)
  <2> DEFINE E == EntryClaims(add_cache[k], k)
  <2>1. \A y \in P : y \notin E
    BY Holders
  <2>2. \A y \in R : y \notin E
    BY Holders
  <2>3. \A y : y \in CacheClaims(add_cache, Slots) <=> y \in R \/ y \in E
    BY CacheClaimsAre
  <2> HIDE DEF P, R, E
  <2> QED BY <2>1, <2>2, <2>3 DEF Ledger, P, E
<1> HIDE DEF P, R
<1>5. Sound(before, N) /\ Within(before, table)
  BY <1>2, <1>4, EvictedSound DEF StringsInv
<1>6. /\ \A x : <<x, r.at>> \notin N => Sound(s0, N \cup {<<x, r.at>>})
      /\ Within(before, s0) /\ s0.block[r.at].text = text /\ r.at \in Addresses
  BY <1>5, MakeSharedSound
<1>7. \A y \in N : y[1] \notin {h, ka, kb, ks}
  <2>1. \A y \in P : y[1][1] = "place"
    BY Holders DEF P
  <2>2. \A y \in R : y[1][1] = "cache" /\ y[1][2][1] # k
    BY Holders DEF R
  <2> QED BY <2>1, <2>2
<1>8. h # ka /\ h # kb /\ h # ks /\ ka # kb /\ ka # ks /\ kb # ks
  OBVIOUS
<1>9. PlaceClaim(args[1], a) \in N /\ PlaceClaim(args[2], b) \in N
  BY <1>1, PlaceClaimsAre DEF P
<1> HIDE DEF N, h, ka, kb, ks, s0
<1>10. Sound(s0, L0)
  <2>1. <<h, r.at>> \notin N
    BY <1>7
  <2> QED BY <1>6, <2>1
<1>11. a \in InUse(s0) /\ b \in InUse(s0) /\ r.at \in InUse(s0)
  <2>1. PlaceClaim(args[1], a) \in L0 /\ PlaceClaim(args[2], b) \in L0 /\ <<h, r.at>> \in L0
    BY <1>9
  <2> HIDE DEF L0
  <2> QED BY <1>3, <1>6, <1>10, <2>1, LedgerInUse, Holders
<1>12. <<ka, a>> \notin L0 /\ <<kb, b>> \notin L1 /\ <<ks, r.at>> \notin L2
  <2>1. \A y : /\ y \in L0 <=> y \in N \/ y = <<h, r.at>>
               /\ y \in L1 <=> y \in L0 \/ y = <<ka, a>>
               /\ y \in L2 <=> y \in L1 \/ y = <<kb, b>>
    OBVIOUS
  <2> HIDE DEF L0, L1, L2
  <2>2. <<ka, a>> \notin N /\ <<kb, b>> \notin N /\ <<ks, r.at>> \notin N
    BY <1>7
  <2> QED BY <1>8, <2>1, <2>2
<1> HIDE DEF L0, L1, L2, s1, s2
<1>13. Sound(s1, L1) /\ Within(s0, s1) /\ Within(s1, s0)
  BY <1>10, <1>11, <1>12, HeldSound DEF L1, s1
<1>14. b \in InUse(s1) /\ r.at \in InUse(s1)
  BY <1>11, <1>13 DEF Within
<1>15. Sound(s2, L2) /\ Within(s1, s2) /\ Within(s2, s1)
  BY <1>12, <1>13, <1>14, HeldSound DEF L2, s2
<1>16. r.at \in InUse(s2)
  BY <1>14, <1>15 DEF Within
<1> HIDE DEF L3, s3
<1>17. Sound(s3, L3) /\ Within(s2, s3) /\ Within(s3, s2)
  BY <1>12, <1>15, <1>16, HeldSound DEF L3, s3
<1>18. /\ Within(s0, s3) /\ s3.block[a].text = s0.block[a].text /\ s3.block[b].text = s0.block[b].text
       /\ s3.block[r.at].text = text
  <2>1. Within(s0, s3)
    BY <1>13, <1>15, <1>17 DEF Within
  <2> QED BY <1>6, <1>11, <2>1 DEF Within
<1>19. Keeps(table, s3, N)
  <2>1. N \subseteq Ledger(stack, add_cache) /\ N \subseteq L0 /\ N \subseteq L3
    BY <1>4 DEF L0, L1, L2, L3
  <2>2. Keeps(table, before, N)
    BY <1>5, <2>1, ClaimedKeeps DEF StringsInv
  <2>3. Keeps(before, s0, N)
    BY <1>5, <1>6, <1>10, <2>1, ClaimedKeeps
  <2>4. Keeps(s0, s3, N)
    BY <1>10, <1>17, <1>18, <2>1, ClaimedKeeps
  <2> QED BY <2>2, <2>3, <2>4, KeepsFurther
<1>20. d \in Entries /\ d # NoEntry /\ d.a = a /\ d.b = b /\ d.sum = r.at
  <2>1. d \in Entries /\ d.a = a /\ d.b = b /\ d.sum = r.at
    BY <1>3, <1>6 DEF Entries
  <2> QED BY <1>1, <2>1, EntryFacts
<1>21. c \in [Slots -> Entries] /\ \A j \in Slots : c[j] = IF j = k THEN d ELSE add_cache[j]
  BY <1>2, <1>20
<1> HIDE DEF c
<1>22. Ledger(stack, c) \cup {Hand(r.at)} = L3
  <2>1. EntryClaims(c[k], k) = {<<ka, a>>, <<kb, b>>, <<ks, r.at>>}
    BY <1>20, <1>21 DEF EntryClaims, ka, kb, ks
  <2>2. \A j \in Slots \ {k} : EntryClaims(c[j], j) = EntryClaims(add_cache[j], j)
    BY <1>21
  <2>3. \A y : y \in CacheClaims(c, Slots) <=> y \in R \/ y \in EntryClaims(c[k], k)
    BY <2>2, CacheClaimsAre DEF R
  <2>4. Hand(r.at) = <<h, r.at>>
    BY DEF Hand, h
  <2>5. \A y : y \in Ledger(stack, c) \cup {Hand(r.at)} <=> y \in L3
    BY <2>1, <2>3, <2>4 DEF Ledger, L0, L1, L2, L3, N, P
  <2> QED BY <2>5
<1>23. \A j \in Slots : SumRight(s3, c[j])
  <2> SUFFICES ASSUME NEW j \in Slots PROVE SumRight(s3, c[j])
    OBVIOUS
  <2>1. CASE j = k
    <3>1. [i \in DOMAIN args |-> TextOf(args[i])] = <<TextOf(args[1]), TextOf(args[2])>>
      BY <1>1
    <3>2. s3.block[a].text = TextOf(args[1]) /\ s3.block[b].text = TextOf(args[2])
      <4>1. Keeps(table, s3, P) /\ PlaceClaims(stack, Places) \subseteq P
        BY <1>19 DEF Keeps, N, P
      <4>2. \A v \in Places : stack[v] # Null => s3.block[stack[v]].text = table.block[stack[v]].text
        BY <4>1, PlaceKept
      <4>3. stack[args[1]] # Null /\ stack[args[2]] # Null
        BY <1>1
      <4>4. /\ s3.block[stack[args[1]]].text = table.block[stack[args[1]]].text
            /\ s3.block[stack[args[2]]].text = table.block[stack[args[2]]].text
        BY <1>1, <4>2, <4>3
      <4> QED BY <4>4, Zenon DEF TextOf
    <3>3. c[j] = d
      BY <1>21, <2>1
    <3>4. s3.block[r.at].text = Added([i \in DOMAIN args |-> TextOf(args[i])])
      BY <1>18
    <3>5. s3.block[r.at].text = Added(<<TextOf(args[1]), TextOf(args[2])>>)
      BY <3>1, <3>4, Zenon
    <3> QED BY <1>20, <3>2, <3>3, <3>5, Zenon DEF SumRight
  <2>2. CASE j # k
    <3>1. EntryClaims(add_cache[j], j) \subseteq N
      BY <2>2, CacheClaimsAre DEF N, R
    <3>2. SumRight(table, add_cache[j])
      BY DEF StringsInv
    <3>3. SumRight(s3, add_cache[j])
      BY <1>19, <3>1, <3>2, EntryKept
    <3> QED BY <1>21, <2>2, <3>3
  <2> QED BY <2>1, <2>2
<1>24. Keeps(table, s3, PlaceClaims(stack, Places))
  BY <1>19 DEF Keeps, N, P
<1>25. Consumed(args, s3, r.at)
  BY DEF s3, s2, s1, s0
<1>26. s3.block[r.at].text = Added([i \in DOMAIN args |-> TextOf(args[i])]) /\ Sound(s3, Ledger(stack, c) \cup {Hand(r.at)})
  BY <1>17, <1>18, <1>22
<1>27. add_cache' = c
  BY DEF c
<1> QED BY <1>6, <1>21, <1>23, <1>24, <1>25, <1>26, <1>27, ConsumedKeeps

LEMMA SumKeeps ==
  ASSUME StringsInv, NEW args \in Arguments, NEW room \in Addresses, Sum(args, room)
  PROVE  StringsInv'
<1> DEFINE text == Added([i \in DOMAIN args |-> TextOf(args[i])])
           a == stack[args[1]]
           b == stack[args[2]]
           k == CacheSlot(a, b)
           e == add_cache[k]
           before == Evicted(table, e)
           new == MakeShared(before, text, room)
           plain == MakeShared(table, text, room)
           Short == Len(args) = 2 /\ Len(text) <= ADD_CACHE_MAX_LENGTH
<1>1. text \in Sums
  BY DEF Sum
<1>2. k \in Slots
  <2>1. Len(args) \in 2 .. 3 /\ \A i \in 1 .. Len(args) : args[i] \in Places /\ stack[args[i]] # Null
    BY ArgumentFacts
  <2>2. 1 \in 1 .. Len(args) /\ 2 \in 1 .. Len(args)
    BY <2>1
  <2>3. stack \in [Places -> Addresses \cup {Null}]
    BY DEF StringsInv, StringsTyped
  <2>4. a \in Nat /\ b \in Nat
    BY <2>1, <2>2, <2>3, NullApart
  <2> HIDE DEF a, b
  <2>5. 4 * a + b \in Nat
    BY <2>4
  <2> QED BY <2>5, HoldersAssumption DEF CacheSlot, Slots
<1>3. CASE Short /\ Hit(e, a, b)
  <2>1. /\ add_cache' = [add_cache EXCEPT ![k].hits = @ + 1]
        /\ Consumed(args, Held(table, e.sum), e.sum)
    BY <1>3 DEF Sum
  <2> HIDE DEF k
  <2> QED BY <1>2, <1>3, <2>1, RememberedKeeps
<1>4. CASE Short /\ ~ Hit(e, a, b)
  <2>1. /\ room \notin InUse(before)
        /\ add_cache' = [add_cache EXCEPT ![k] = [a |-> a, b |-> b, sum |-> new.at, hits |-> 0]]
        /\ Consumed(args, Held(Held(Held(new.s, a), b), new.at), new.at)
    BY <1>4 DEF Sum
  <2> HIDE DEF k, text
  <2> QED BY <1>1, <1>2, <1>4, <2>1, NewlySummedKeeps DEF text
<1>5. CASE ~ Short
  <2>1. /\ room \notin InUse(table) /\ Consumed(args, plain.s, plain.at) /\ add_cache' = add_cache
    BY <1>5 DEF Sum
  <2> QED BY <1>1, <2>1, PlainSumKeeps
<1> QED BY <1>3, <1>4, <1>5

LEMMA InitStrings == StringsInit => StringsInv
<1> SUFFICES ASSUME StringsInit PROVE StringsInv
  OBVIOUS
<1>1. /\ table = [block |-> [a \in Addresses |-> FreeBlock], chain |-> [h \in Buckets |-> <<>>]]
      /\ stack = [v \in Places |-> Null] /\ said = [v \in Places |-> <<>>]
      /\ add_cache = [e \in Slots |-> NoEntry]
  BY DEF StringsInit
<1>2. FreeBlock \in Blocks /\ FreeBlock.refs = 0
  BY DEF FreeBlock, Blocks, Texts
<1>3. Ledger(stack, add_cache) = {}
  <2>1. \A y : y \notin PlaceClaims(stack, Places)
    BY <1>1, PlaceClaimsAre
  <2>2. \A y : y \notin CacheClaims(add_cache, Slots)
    BY <1>1, CacheClaimsAre DEF EntryClaims
  <2> QED BY <2>1, <2>2 DEF Ledger
<1> HIDE DEF FreeBlock
<1>4. /\ table \in SharedTables /\ InUse(table) = {}
      /\ \A h \in Buckets : Members(table.chain[h]) = {} /\ Distinct(table.chain[h])
  <2>1. table \in SharedTables
    BY <1>1, <1>2 DEF SharedTables
  <2>2. InUse(table) = {}
    BY <1>1, <1>2 DEF InUse
  <2>3. \A h \in Buckets : table.chain[h] = <<>>
    BY <1>1
  <2> QED BY <2>1, <2>2, <2>3 DEF Members, Distinct
<1>5. Sound(table, {})
  <2>1. Ledgers({}) /\ \A a : Cardinality(Claims({}, a)) = 0
    BY FS_EmptySet DEF Ledgers, Claims
  <2>2. \A a \in Addresses : table.block[a].refs = 0
    BY <1>1, <1>2
  <2>3. Chained(table) /\ Single(table) /\ Hashed(table)
    BY <1>4 DEF Chained, ChainOf, Single, Hashed
  <2> QED BY <1>4, <2>1, <2>2, <2>3 DEF Sound, Counted
<1>6. StringsTyped /\ TextsRight /\ \A k \in Slots : SumRight(table, add_cache[k])
  <2>1. stack \in [Places -> Addresses \cup {Null}] /\ said = [w \in Places |-> said[w]] /\ add_cache \in [Slots -> Entries]
    BY <1>1 DEF Entries
  <2> QED BY <1>1, <2>1 DEF StringsTyped, TextsRight, SumRight
<1> QED BY <1>3, <1>5, <1>6 DEF StringsInv

LEMMA NextStrings == StringsInv /\ [StringsNext]_stringVars => StringsInv'
<1> SUFFICES ASSUME StringsInv, [StringsNext]_stringVars PROVE StringsInv'
  OBVIOUS
<1>1. ASSUME NEW v \in Places, NEW text \in Literals, NEW room \in Addresses, MakeString(v, text, room)
      PROVE  StringsInv'
  BY <1>1, MakeStringKeeps
<1>2. ASSUME NEW v \in Places, NEW w \in Places, CopyString(v, w) PROVE StringsInv'
  BY <1>2, CopyStringKeeps
<1>3. ASSUME NEW v \in Places, Release(v) PROVE StringsInv'
  BY <1>3, ReleaseKeeps
<1>4. ASSUME NEW args \in Arguments, NEW room \in Addresses, Sum(args, room) PROVE StringsInv'
  BY <1>4, SumKeeps
<1>5. CASE CleanAddCache
  BY <1>5, DropKeeps DEF CleanAddCache
<1>6. CASE FreeAddCache
  BY <1>6, DropKeeps DEF FreeAddCache
<1>7. CASE UNCHANGED stringVars
  BY <1>7 DEF stringVars, StringsInv, StringsTyped, Ledger, PlaceClaims, CacheClaims, TextsRight, Slots
<1> QED BY <1>1, <1>2, <1>3, <1>4, <1>5, <1>6, <1>7 DEF StringsNext

-----------------------------------------------------------------------------
(* What the invariant says of the table                                    *)

\* A sequence without repetitions is as long as the set of what is in it.
LEMMA DistinctLength ==
  ASSUME NEW c \in Seq(Addresses), Distinct(c)
  PROVE  Len(c) = Cardinality(Members(c))
<1>1. Len(c) \in Nat /\ DOMAIN c = 1 .. Len(c)
  BY LenProperties
<1>2. IsFiniteSet(1 .. Len(c)) /\ Cardinality(1 .. Len(c)) = Len(c)
  BY <1>1, FS_Interval
<1>3. c \in [1 .. Len(c) -> Members(c)]
  BY <1>1, LenProperties DEF Members
<1>4. c \in Bijection(1 .. Len(c), Members(c))
  <2>1. \A i, j \in 1 .. Len(c) : c[i] = c[j] => i = j
    BY <1>1 DEF Distinct
  <2>2. \A a \in Members(c) : \E i \in 1 .. Len(c) : c[i] = a
    BY <1>1 DEF Members
  <2> QED BY <1>3, <2>1, <2>2, Fun_IsBij
<1>5. ExistsBijection(1 .. Len(c), Members(c))
  BY <1>4 DEF ExistsBijection
<1> QED BY <1>2, <1>5, FS_Bijection

\* The claims on a are those of variables and those of the cache.
LEMMA ClaimsSplit ==
  ASSUME StringsInv, NEW a \in Addresses
  PROVE  Cardinality(Claims(Ledger(stack, add_cache), a))
           = Cardinality({v \in Places : stack[v] = a})
             + Cardinality({x \in Slots \X {"a", "b", "sum"} : add_cache[x[1]][x[2]] = a})
<1> DEFINE L == Ledger(stack, add_cache)
           V == {v \in Places : stack[v] = a}
           X == {x \in Slots \X {"a", "b", "sum"} : add_cache[x[1]][x[2]] = a}
           A == {PlaceClaim(v, a) : v \in V}
           B == {<<<<"cache", x>>, a>> : x \in X}
<1>1. a # Null /\ add_cache \in [Slots -> Entries]
  BY NullApart DEF StringsInv, StringsTyped
<1>2. IsFiniteSet(V) /\ IsFiniteSet(X) 
  <2>1. IsFiniteSet(V)
    BY FS_Subset, HoldersAssumption
  <2>2. IsFiniteSet(Slots)
    BY HoldersAssumption, FS_Interval DEF Slots
  <2>3. IsFiniteSet({"a", "b", "sum"})
    <3>1. {"a", "b", "sum"} = ({"a"} \cup {"b"}) \cup {"sum"}
      OBVIOUS
    <3>2. IsFiniteSet({"a"})
      BY FS_Singleton
    <3>3. IsFiniteSet({"a"} \cup {"b"})
      BY <3>2, FS_AddElement
    <3>4. IsFiniteSet(({"a"} \cup {"b"}) \cup {"sum"})
      BY <3>3, FS_AddElement
    <3> QED BY <3>1, <3>4
  <2>4. IsFiniteSet(Slots \X {"a", "b", "sum"})
    BY <2>2, <2>3, FS_Product
  <2> QED BY <2>1, <2>4, FS_Subset
<1>3. IsFiniteSet(A) /\ Cardinality(A) = Cardinality(V)
  <2> DEFINE f == [v \in V |-> PlaceClaim(v, a)]
  <2>1. f \in Bijection(V, A)
    <3>1. f \in [V -> A] /\ \A y \in A : \E v \in V : f[v] = y
      OBVIOUS
    <3>2. \A v, w \in V : f[v] = f[w] => v = w
      BY Holders
    <3> HIDE DEF f, V, A
    <3> QED BY <3>1, <3>2, Fun_IsBij
  <2>2. ExistsBijection(V, A)
    BY <2>1 DEF ExistsBijection
  <2> QED BY <1>2, <2>2, FS_Bijection
<1>4. IsFiniteSet(B) /\ Cardinality(B) = Cardinality(X)
  <2> DEFINE f == [x \in X |-> <<<<"cache", x>>, a>>]
  <2>1. f \in Bijection(X, B)
    <3>1. f \in [X -> B] /\ \A y \in B : \E x \in X : f[x] = y
      OBVIOUS
    <3>2. \A x, z \in X : f[x] = f[z] => x = z
      OBVIOUS
    <3> HIDE DEF f, X, B
    <3> QED BY <3>1, <3>2, Fun_IsBij
  <2>2. ExistsBijection(X, B)
    BY <2>1 DEF ExistsBijection
  <2> QED BY <1>2, <2>2, FS_Bijection
<1>5. A \cap B = {}
  <2>1. \A y \in A : y[1][1] = "place"
    BY Holders
  <2>2. \A y \in B : y[1][1] = "cache"
    OBVIOUS
  <2> HIDE DEF A, B
  <2> QED BY <2>1, <2>2
<1>6. Claims(L, a) = A \cup B
  <2>1. ASSUME NEW y PROVE y \in PlaceClaims(stack, Places) /\ y[2] = a <=> y \in A
    BY <1>1, PlaceClaimsAre, Holders
  <2>2. ASSUME NEW y, y \in CacheClaims(add_cache, Slots), y[2] = a PROVE y \in B
    <3>1. PICK k \in Slots : y \in EntryClaims(add_cache[k], k)
      BY <2>2, CacheClaimsAre
    <3>2. PICK f \in {"a", "b", "sum"} : y = <<<<"cache", <<k, f>>>>, add_cache[k][f]>>
      BY <3>1 DEF EntryClaims
    <3>3. <<k, f>> \in X
      BY <2>2, <3>2
    <3> QED BY <2>2, <3>2, <3>3
  <2>3. ASSUME NEW y \in B PROVE y \in CacheClaims(add_cache, Slots) /\ y[2] = a
    <3>1. PICK x \in X : y = <<<<"cache", x>>, a>>
      OBVIOUS
    <3>2. PICK k \in Slots : x[1] = k
      BY <3>1
    <3>3. PICK f \in {"a", "b", "sum"} : x = <<k, f>>
      BY <3>1, <3>2
    <3>4. add_cache[k][f] = a
      BY <3>1, <3>3
    <3>5. add_cache[k] # NoEntry
      BY <1>1, <3>4 DEF NoEntry
    <3>6. y \in EntryClaims(add_cache[k], k)
      BY <3>1, <3>3, <3>4, <3>5 DEF EntryClaims
    <3> QED BY <3>1, <3>6, CacheClaimsAre
  <2> HIDE DEF A, B
  <2>4. \A y : y \in Claims(L, a) <=> y \in A \/ y \in B
    BY <2>1, <2>2, <2>3 DEF Claims, Ledger
  <2> QED BY <2>4
<1> HIDE DEF A, B, V, X, L
<1>7. Cardinality(A \cup B) = Cardinality(A) + Cardinality(B)
  <2>1. Cardinality(A \cup B) = Cardinality(A) + Cardinality(B) - Cardinality(A \cap B)
    BY <1>3, <1>4, FS_Union
  <2>2. Cardinality(A) \in Nat /\ Cardinality(B) \in Nat /\ Cardinality(A \cap B) = 0
    BY <1>3, <1>4, <1>5, FS_CardinalityType, FS_EmptySet
  <2> QED BY <2>1, <2>2
<1> QED BY <1>3, <1>4, <1>6, <1>7 DEF V, X, L

LEMMA StringsInvShared == StringsInv => StringsShared
<1> SUFFICES ASSUME StringsInv PROVE StringsShared
  OBVIOUS
<1>1. OneStringPerText /\ TextsRight
  BY DEF StringsInv, Sound, Single, OneStringPerText
<1>2. RefsExact
  BY ClaimsSplit DEF RefsExact, StringsInv, Sound, Counted
<1>3. ChainsWhole
  <2> SUFFICES ASSUME NEW h \in Buckets
               PROVE  /\ Len(table.chain[h]) = Cardinality(ChainOf(table, h))
                      /\ Members(table.chain[h]) = ChainOf(table, h)
    BY DEF ChainsWhole, ChainOf, Members
  <2>1. /\ table.chain[h] \in Seq(Addresses) /\ Distinct(table.chain[h])
        /\ Members(table.chain[h]) = ChainOf(table, h)
    BY DEF StringsInv, Sound, SharedTables, Chained
  <2>2. Len(table.chain[h]) = Cardinality(Members(table.chain[h]))
    BY <2>1, DistinctLength
  <2> QED BY <2>1, <2>2
<1> QED BY <1>1, <1>2, <1>3 DEF StringsShared

-----------------------------------------------------------------------------
\* Whatever strings are made, copied, added up and freed, in whatever order, and
\* whenever the cache of sums is cleaned: there is one block for a text, it is in
\* its chain once, its count is that of the variables and cache entries that hold
\* it, and every variable has the text it was given (stralloc.c, f_sum).
THEOREM StringsStayShared == StringsSpec => []StringsShared
<1>1. StringsInit => StringsInv
  BY InitStrings
<1>2. StringsInv /\ [StringsNext]_stringVars => StringsInv'
  BY NextStrings
<1>3. StringsInv => StringsShared
  BY StringsInvShared
<1> QED BY <1>1, <1>2, <1>3, PTL DEF StringsSpec

=============================================================================

------------------------------- MODULE Strings -------------------------------
(***************************************************************************)
(* Shared strings (stralloc.c): of each text there is one counted block,   *)
(* in a hash chain whose entries move to the front when they are found, so *)
(* that strings are equal when their addresses are.  The sum of two short  *)
(* strings is remembered by the addresses of both (add_cache, operators.c) *)
(* and the cache counts as a holder of all three.                          *)
(***************************************************************************)
EXTENDS Integers, Sequences, FiniteSets

CONSTANTS Places,               \* variables and stack slots that hold strings
          Literals, Sums,    \* what code makes, and what it can add up
          Addresses,          \* 1..n, in words: a block that was freed is used again
          StrHash,            \* [Sums -> buckets]
          ADD_CACHE_SIZE, ADD_CACHE_MAX_LENGTH,
          MaxHits             \* bound on the hits of a cache entry
ASSUME AddressesAssumption == Addresses \subseteq Nat \ {0} /\ Literals \subseteq Sums
ASSUME HoldersAssumption == IsFiniteSet(Places) /\ ADD_CACHE_SIZE \in Nat \ {0} /\ MaxHits \in Nat

VARIABLES
  table,     \* [block: [Addresses -> [text, refs]], chain: the hash table]
  stack,      \* [Places -> address or Null]
  add_cache,
  said       \* ghost: the text that each variable should have
stringVars == <<table, stack, add_cache, said>>

Null == 0
FreeBlock == [text |-> <<>>, refs |-> 0]
NoEntry == [a |-> Null, b |-> Null, sum |-> Null, hits |-> 0]
Slots == 0..(ADD_CACHE_SIZE - 1)
Buckets == {StrHash[t] : t \in Sums}
InUse(s) == {a \in Addresses : s.block[a].refs > 0}

Found(chain, a) == CHOOSE i \in DOMAIN chain : chain[i] = a
Unlinked(chain, a) ==
  [i \in 1 .. Len(chain) - 1 |-> IF i < Found(chain, a) THEN chain[i] ELSE chain[i + 1]]
PushedTwice(s, h, a) == [s EXCEPT !.chain[h] = <<a>> \o @]
MovedToFront(s, h, a) == [s EXCEPT !.chain[h] = <<a>> \o Unlinked(@, a)]

\* internal_findstring(): the address, or Null, and the table with it moved.
Matching(s, text) == {i \in DOMAIN s.chain[StrHash[text]] : s.block[s.chain[StrHash[text]][i]].text = text}
Lookup(s, text) ==
  LET at == Matching(s, text)
  IN IF at = {} THEN Null ELSE s.chain[StrHash[text]][CHOOSE i \in at : \A j \in at : i <= j]
InternalFindstring(s, text) ==
  IF Lookup(s, text) = Null THEN s ELSE MovedToFront(s, StrHash[text], Lookup(s, text))

Held(s, a) == [s EXCEPT !.block[a].refs = @ + 1]
\* free_string(): the last holder takes the block out of its chain.
FreeString(s, a) ==
  IF s.block[a].refs > 1 THEN [s EXCEPT !.block[a].refs = @ - 1]
  ELSE [s EXCEPT !.block[a] = FreeBlock, !.chain[StrHash[s.block[a].text]] = Unlinked(@, a)]
FreeAll(s, as) ==
  LET left[n \in 0 .. Len(as)] == IF n = 0 THEN s ELSE FreeString(left[n - 1], as[n])
  IN left[Len(as)]

\* make_shared_string() and end_shared_string(); room is where malloc() puts
\* a string that is new.
AllocNew(s, text, room) ==
  [s EXCEPT !.block[room] = [text |-> text, refs |-> 1], !.chain[StrHash[text]] = <<room>> \o @]
MakeSharedAnew(s, text, room) == [at |-> room, s |-> AllocNew(s, text, room)]
MakeShared(s, text, room) ==
  IF Lookup(s, text) = Null THEN [at |-> room, s |-> AllocNew(s, text, room)]
  ELSE [at |-> Lookup(s, text), s |-> Held(InternalFindstring(s, text), Lookup(s, text))]

-----------------------------------------------------------------------------
MakeString(v, text, room) ==
  LET r == MakeShared(table, text, room) IN
  /\ stack[v] = Null /\ room \in Addresses \ InUse(table)
  /\ table' = r.s /\ stack' = [stack EXCEPT ![v] = r.at]
  /\ said' = [said EXCEPT ![v] = text]
  /\ UNCHANGED add_cache
CopyString(v, w) ==
  /\ stack[v] = Null /\ stack[w] # Null
  /\ table' = Held(table, stack[w]) /\ stack' = [stack EXCEPT ![v] = stack[w]]
  /\ said' = [said EXCEPT ![v] = said[w]]
  /\ UNCHANGED add_cache
Release(v) ==
  /\ stack[v] # Null
  /\ table' = FreeString(table, stack[v]) /\ stack' = [stack EXCEPT ![v] = Null]
  /\ said' = [said EXCEPT ![v] = <<>>]
  /\ UNCHANGED add_cache

\* f_sum() of strings: args are taken, and the first becomes the sum.
Added(texts) ==
  LET sum[n \in 0 .. Len(texts)] == IF n = 0 THEN <<>> ELSE sum[n - 1] \o texts[n]
  IN sum[Len(texts)]
TextOf(v) == table.block[stack[v]].text
CacheSlot(a, b) == (4 * a + b) % ADD_CACHE_SIZE
HitByFirst(e, a, b) == e.a = a
Hit(e, a, b) == e.a = a /\ e.b = b
EvictedTwo(s, e) == IF e.a = Null THEN s ELSE FreeAll(s, <<e.a, e.b>>)
Evicted(s, e) == IF e.a = Null THEN s ELSE FreeAll(s, <<e.a, e.b, e.sum>>)
Consumed(args, s, sum) ==
  /\ table' = FreeAll(s, [i \in DOMAIN args |-> stack[args[i]]])
  /\ stack' = [v \in Places |-> IF v = args[1] THEN sum
                             ELSE IF \E i \in DOMAIN args : args[i] = v THEN Null ELSE stack[v]]
  /\ said' = [v \in Places |-> IF v = args[1] THEN Added([i \in DOMAIN args |-> said[args[i]]])
                             ELSE IF \E i \in DOMAIN args : args[i] = v THEN <<>> ELSE said[v]]

Sum(args, room) ==
  LET text == Added([i \in DOMAIN args |-> TextOf(args[i])])
      a == stack[args[1]] b == stack[args[2]]
      e == add_cache[CacheSlot(a, b)]
      before == Evicted(table, e)
      new == MakeShared(before, text, room)
      plain == MakeShared(table, text, room)
  IN /\ text \in Sums
     /\ CASE Len(args) = 2 /\ Len(text) <= ADD_CACHE_MAX_LENGTH /\ Hit(e, a, b) ->
               /\ e.hits < MaxHits /\ room = 1
               /\ add_cache' = [add_cache EXCEPT ![CacheSlot(a, b)].hits = @ + 1]
               /\ Consumed(args, Held(table, e.sum), e.sum)
          [] Len(args) = 2 /\ Len(text) <= ADD_CACHE_MAX_LENGTH /\ ~Hit(e, a, b) ->
               /\ room \notin InUse(before)
               /\ add_cache' = [add_cache EXCEPT ![CacheSlot(a, b)] = [a |-> a, b |-> b, sum |-> new.at, hits |-> 0]]
               /\ Consumed(args, Held(Held(Held(new.s, a), b), new.at), new.at)
          [] OTHER ->
               /\ room \notin InUse(table)
               /\ Consumed(args, plain.s, plain.at) /\ UNCHANGED add_cache

\* clean_add_cache() drops what was never asked for, free_add_cache() all.
EvictedAll(s, slots) ==
  LET left[n \in 0 .. ADD_CACHE_SIZE] ==
        IF n = 0 THEN s
        ELSE IF n - 1 \in slots THEN Evicted(left[n - 1], add_cache[n - 1]) ELSE left[n - 1]
  IN left[ADD_CACHE_SIZE]
Drop(slots) ==
  /\ slots # {}
  /\ table' = EvictedAll(table, slots)
  /\ add_cache' = [e \in Slots |-> IF e \in slots THEN NoEntry ELSE add_cache[e]]
  /\ UNCHANGED <<stack, said>>
CleanAddCache == Drop({e \in Slots : add_cache[e].hits = 0 /\ add_cache[e].a # Null})
FreeAddCache == Drop({e \in Slots : add_cache[e].a # Null})

StringsInit ==
  /\ table = [block |-> [a \in Addresses |-> FreeBlock], chain |-> [h \in Buckets |-> <<>>]]
  /\ stack = [v \in Places |-> Null] /\ said = [v \in Places |-> <<>>]
  /\ add_cache = [e \in Slots |-> NoEntry]
Arguments == {s \in UNION {[1..n -> Places] : n \in 2..3} :
                /\ \A i, j \in DOMAIN s : i # j => s[i] # s[j]
                /\ \A i \in DOMAIN s : stack[s[i]] # Null}
StringsNext ==
  \/ \E v \in Places, text \in Literals, room \in Addresses : MakeString(v, text, room)
  \/ \E v, w \in Places : CopyString(v, w)
  \/ \E v \in Places : Release(v)
  \/ \E args \in Arguments, room \in Addresses : Sum(args, room)
  \/ CleanAddCache \/ FreeAddCache
StringsSpec == StringsInit /\ [][StringsNext]_stringVars

-----------------------------------------------------------------------------
(* Properties                                                               *)

\* Two strings with one text are one block, so comparing addresses compares
\* texts (my_string_is_equal()).
OneStringPerText == \A a, b \in InUse(table) : table.block[a].text = table.block[b].text => a = b

\* Every block in use is found once, in the chain of its hash value, and the
\* chains hold nothing that was freed (internal_findstring(), free_string()).
ChainsWhole ==
  \A h \in Buckets :
    LET c == table.chain[h]
    IN /\ Len(c) = Cardinality({a \in InUse(table) : StrHash[table.block[a].text] = h})
       /\ {c[i] : i \in DOMAIN c} = {a \in InUse(table) : StrHash[table.block[a].text] = h}

\* A block's count is the number of variables and cache entries that hold it:
\* it is freed with the last of them, neither before nor never.
RefsExact ==
  \A a \in Addresses :
    table.block[a].refs = Cardinality({v \in Places : stack[v] = a})
      + Cardinality({x \in Slots \X {"a", "b", "sum"} : add_cache[x[1]][x[2]] = a})

\* A variable has the text that the code gave it, whatever the cache answered
\* and whatever blocks were freed and used again meanwhile.
TextsRight == \A v \in Places : stack[v] # Null => table.block[stack[v]].text = said[v]

\* Shared strings: one block for a text, found in its chain, counted exactly, and
\* never mistaken for another by the cache of sums.
StringsShared == OneStringPerText /\ ChainsWhole /\ RefsExact /\ TextsRight
=============================================================================

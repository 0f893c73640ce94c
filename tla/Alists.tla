------------------------------- MODULE Alists -------------------------------
(***************************************************************************)
(* Lists and mappings (array.c, list.c, mapping.c): a mapping is a column  *)
(* of keys in the order of alist_cmp, a column of their values and a       *)
(* default; a list has only the keys.  Equal keys may stand side by side:  *)
(* only an assignment looks whether the key is there.                      *)
(***************************************************************************)
EXTENDS Vectors

\* The order of the types, then of the numbers or addresses.
AlistCmp(a, b) ==
  IF a.t # b.t THEN a.t - b.t ELSE IF a.v > b.v THEN 1 ELSE IF a.v < b.v THEN -1 ELSE 0

RECURSIVE Halve(_, _, _, _)
Halve(key, keys, a, b) ==
  LET c == (a + b) \div 2
      d == AlistCmp(key, keys[c + 1])
  IN IF a >= b THEN [found |-> FALSE, at |-> a]
     ELSE IF d < 0 THEN Halve(key, keys, a, c)
     ELSE IF d > 0 THEN Halve(key, keys, c + 1, b) ELSE [found |-> TRUE, at |-> c]
SearchAlistEnd(key, keys) == Len(keys)
\* Where the key is or would stand, counted from 0.
SearchAlist(key, keys) ==
  LET end == Halve(key, keys, 0, Len(keys))
  IN IF ~end.found /\ end.at < Len(keys) /\ AlistCmp(key, keys[end.at + 1]) > 0
     THEN end.at + 1 ELSE end.at
Assoc(key, keys) ==
  LET end == Halve(key, keys, 0, Len(keys)) IN IF end.found THEN end.at ELSE -1

\* The order fsort() gives the keys, as the places they had.
KeyOrder(keys) ==
  LET places == [i \in 1..Len(keys) |-> i]
      cmp == [x, y \in 1..Len(keys) |-> AlistCmp(keys[x], keys[y])]
  IN QuickSort(places, 1, Len(keys), cmp)
Reordered(items, order) == [i \in DOMAIN order |-> items[order[i]]]

Mapping(keys, vals) == [keys |-> NewVector(keys), vals |-> NewVector(vals), def |-> Zero]
OrderAlist(keys, vals) ==
  LET order == KeyOrder(keys) IN Mapping(Reordered(keys, order), Reordered(vals, order))
\* m_aggregate() and mkmapping(); the shorter array decides.
MkMapping(keys, vals) ==
  LET n == Least(Len(keys), Len(vals)) IN OrderAlist(SubSeq(keys, 1, n), SubSeq(vals, 1, n))
MkList(keys) == Reordered(keys, KeyOrder(keys))

\* The bits of a type number: what insert_alist() adds to the mask of the
\* values when it overwrites one.
Bits(n) == {i \in 0..3 : (n \div 2 ^ i) % 2 = 1}

\* What becomes of the two columns, as InsertArray gives it.
InsertAlist(m, key, x) ==
  LET ix == SearchAlist(key, m.keys.item)
      insert == ix = Len(m.keys.item) \/ AlistCmp(key, m.keys.item[ix + 1]) # 0
      set == [m.vals EXCEPT !.item[ix + 1] = x, !.types = @ \cup Bits(x.t)]
  IN IF insert
     THEN [keys |-> InsertArray(m.keys, ix, key), vals |-> InsertArray(m.vals, ix, x)]
     ELSE [keys |-> [new |-> m.keys, old |-> m.keys, moved |-> FALSE],
           vals |-> [new |-> set, old |-> set, moved |-> FALSE]]

Without(items, i) == SubSeq(items, 1, i) \o SubSeq(items, i + 2, Len(items))
DonkKeyOnly(m, i) == [m EXCEPT !.keys.item = Without(@, i), !.vals.item = Without(@, Len(@) - 1)]
DonkAlistItem(m, i) == [m EXCEPT !.keys.item = Without(@, i), !.vals.item = Without(@, i)]

\* Entries whose key was destructed go; the mask tells whether to look.
RECURSIVE Donked(_, _, _)
Donked(m, e, dead) ==
  IF e >= Len(m.keys.item) THEN [m EXCEPT !.keys.types = TypesOf(m.keys.item)]
  ELSE IF m.keys.item[e + 1].t = Object /\ m.keys.item[e + 1].v \in dead
       THEN Donked(DonkAlistItem(m, e), e, dead)
       ELSE Donked(m, e + 1, dead)
CheckDefault(m, dead) ==
  [m EXCEPT !.def = Alive(m.def, dead)]
CheckAlist(m, dead) ==
  LET kept == IF m.keys.types \cap {Object, Function} = {} THEN m ELSE Donked(m, 0, dead)
  IN [CheckDefault(kept, dead) EXCEPT !.vals = CheckForDestruct(kept.vals, dead)]

RemoveMapping(m, key) ==
  LET i == Assoc(key, m.keys.item) IN IF i >= 0 THEN DonkAlistItem(m, i) ELSE m

\* A destructed object is read as 0.
Index(m, key, dead) ==
  LET i == Assoc(key, m.keys.item)
      x == IF i < 0 THEN m.def ELSE m.vals.item[i + 1]
  IN Alive(x, dead)

-----------------------------------------------------------------------------
(* do_array_surgery(): what to do with equal keys, with a key of a alone    *)
(* and with one of b alone; the rest of a or b is taken when such keys are. *)

XorKeeping == [eq |-> "either", a |-> "geta", b |-> "getb"]
Xor == [eq |-> "none", a |-> "geta", b |-> "getb"]
And == [eq |-> "either", a |-> "nota", b |-> "notb"]
Or == [eq |-> "either", a |-> "geta", b |-> "getb"]
Add == [eq |-> "both", a |-> "geta", b |-> "getb"]
Sub == [eq |-> "nota", a |-> "geta", b |-> "notb"]

\* The result as pairs <<1, i>> for item i of a and <<2, i>> for item i of b.
RECURSIVE Surgery(_, _, _, _, _)
Surgery(a, b, op, ap, bp) ==
  IF ap >= Len(a) \/ bp >= Len(b)
  THEN (IF op.a = "geta" THEN [i \in 1..(Len(a) - ap) |-> <<1, ap + i>>] ELSE <<>>)
       \o (IF op.b = "getb" THEN [i \in 1..(Len(b) - bp) |-> <<2, bp + i>>] ELSE <<>>)
  ELSE LET order == AlistCmp(a[ap + 1], b[bp + 1])
           d == IF order = 0 THEN op.eq ELSE IF order < 0 THEN op.a ELSE op.b
           A == IF d \in {"geta", "both"} THEN <<<<1, ap + 1>>>> ELSE <<>>
           B == IF d \in {"getb", "both", "either"} THEN <<<<2, bp + 1>>>> ELSE <<>>
       IN A \o B \o Surgery(a, b, op, ap + (IF d \in {"getb", "notb"} THEN 0 ELSE 1),
                                      bp + (IF d \in {"geta", "nota"} THEN 0 ELSE 1))
Picked(a, b, plan) == [i \in DOMAIN plan |-> IF plan[i][1] = 1 THEN a[plan[i][2]] ELSE b[plan[i][2]]]

MappingSurgery(m, n, op) ==
  LET plan == Surgery(m.keys.item, n.keys.item, op, 0, 0)
  IN Mapping(Picked(m.keys.item, n.keys.item, plan), Picked(m.vals.item, n.vals.item, plan))

\* Arrays are put in order first.  The masks may save the work: without a
\* type in common nothing is equal.
ArraySurgery(p, q, op) ==
  LET a == MkList(p.item) b == MkList(q.item) IN NewVector(Picked(a, b, Surgery(a, b, op, 0, 0)))
ArrayAnd(p, q, dead) ==
  LET a == CheckForDestruct(p, dead) b == CheckForDestruct(q, dead)
  IN IF a.types \cap b.types # {} THEN ArraySurgery(a, b, And) ELSE NewVector(<<>>)
ArrayOr(p, q, op, dead) ==
  LET a == CheckForDestruct(p, dead) b == CheckForDestruct(q, dead)
  IN IF a.types \cap b.types # {} THEN ArraySurgery(a, b, op)
     ELSE SumArrays(<<a, b>>, FALSE, dead)
ArraySubtract(p, q, dead) ==
  LET a == CheckForDestruct(p, dead)
      b == CheckForDestruct(q, dead)
      keys == MkList(b.item)
      Kept(x) == IF Assoc(x, keys) < 0 THEN Num(1) ELSE Zero
  IN IF a.types \cap b.types # {}
     THEN NewVector(Chosen(a.item, [i \in DOMAIN a.item |-> Kept(a.item[i])]))
     ELSE SliceArray(a, 0, Len(a.item) - 1, dead)

-----------------------------------------------------------------------------
(* Indexed lvalues (opcodes.c) of arrays, strings and lists: c is a record  *)
(* [t, v] with a vector, a sequence of characters or a column of keys.      *)

Bad == [error |-> TRUE]
Place(i, len) == LET j == IF i < 0 THEN i + len ELSE i IN IF j \in 0..(len - 1) THEN j ELSE -1

ReadIndex(c, i, dead) ==
  CASE c.t = Pointer ->
         LET at == Place(i.v, Len(c.v.item))
         IN IF i.t # Number \/ at < 0 THEN Bad ELSE Alive(c.v.item[at + 1], dead)
    [] c.t = String ->
         LET at == Place(i.v, Len(c.v))
         IN IF i.t # Number THEN Bad ELSE IF at < 0 THEN Zero ELSE Num(c.v[at + 1])
    [] c.t = List -> IF Assoc(i, c.v.item) < 0 THEN Zero ELSE Num(1)

\* 0 takes a key out of a list, anything else puts it in; a character keeps
\* eight bits.
AssignIndex(c, i, x) ==
  CASE c.t = Pointer ->
         LET at == Place(i.v, Len(c.v.item))
         IN IF i.t # Number \/ at < 0 THEN Bad
            ELSE [c EXCEPT !.v.item[at + 1] = x, !.v.types = @ \cup {x.t}]
    [] c.t = String ->
         LET at == Place(i.v, Len(c.v))
         IN IF x.t # Number \/ i.t # Number \/ at < 0 THEN Bad
            ELSE [c EXCEPT !.v[at + 1] = x.v % 256]
    [] c.t = List ->
         LET at == Assoc(i, c.v.item)
             ix == SearchAlist(i, c.v.item)
         IN IF IsZero(x) THEN IF at < 0 THEN c ELSE [c EXCEPT !.v.item = Without(@, at)]
            ELSE IF at >= 0 THEN c ELSE [c EXCEPT !.v = InsertArray(@, ix, i).new]

-----------------------------------------------------------------------------

\* m_cleanup(): the new mapping; the default of the old one is lost with it.
CleanupMap(m, dead) ==
  LET c == CheckAlist(m, dead)
      Differs(x) == IF AlistCmp(c.def, x) # 0 THEN Num(1) ELSE Zero
      flags == [i \in DOMAIN c.vals.item |-> Differs(c.vals.item[i])]
  IN [new |-> Mapping(Chosen(c.keys.item, flags), Chosen(c.vals.item, flags)),
      old |-> [c EXCEPT !.def = Zero]]

FilterMapping(m, f, dead) ==
  LET c == CheckAlist(m, dead)
      flags == MapArray(c.vals, "function", f, dead).item
  IN [new |-> Mapping(Chosen(c.keys.item, flags), Chosen(AllAlive(c.vals.item, dead), flags)), old |-> c]

\* Runs of equal keys become one key with the array of their values.
RECURSIVE Solid(_, _)
Solid(keys, vals) ==
  IF keys = <<>> THEN <<>>
  ELSE LET run == CHOOSE n \in 1..Len(keys) :
                    /\ \A i \in 2..n : AlistCmp(keys[i - 1], keys[i]) = 0
                    /\ n < Len(keys) => AlistCmp(keys[n], keys[n + 1]) # 0
       IN <<[key |-> keys[1], data |-> SubSeq(vals, 1, run)]>>
          \o Solid(SubSeq(keys, run + 1, Len(keys)), SubSeq(vals, run + 1, Len(vals)))
SolidifyMapping(m, dead) == LET c == CheckAlist(m, dead) IN Solid(c.keys.item, c.vals.item)

RECURSIVE FindCloneLeaping(_, _, _)
FindCloneLeaping(list, links, i) ==
  LET leaps == {l \in links[list[1]] : l < list[1]}
      rest == {k \in DOMAIN list : leaps # {} /\ list[k] = (CHOOSE l \in leaps : TRUE)}
  IN IF list = <<>> THEN 0
     ELSE IF list[1] <= i THEN IF list[1] = i THEN i ELSE 0
     ELSE IF rest = {} THEN FindCloneLeaping(Tail(list), links, i)
     ELSE FindCloneLeaping(SubSeq(list, CHOOSE k \in rest : TRUE, Len(list)), links, i)
\* (object)number: along the list of all objects, whose numbers fall, with
\* leaps over whatever other links an object has; 0 when none has the number.
RECURSIVE FindClone(_, _, _)
FindClone(list, links, i) ==
  LET leaps == {l \in links[list[1]] : l < list[1] /\ l >= i}
      rest == {k \in DOMAIN list : leaps # {} /\ list[k] = (CHOOSE l \in leaps : TRUE)}
  IN IF list = <<>> THEN 0
     ELSE IF list[1] <= i THEN IF list[1] = i THEN i ELSE 0
     ELSE IF leaps = {} THEN FindClone(Tail(list), links, i)
     ELSE FindClone(SubSeq(list, CHOOSE k \in rest : TRUE, Len(list)), links, i)

\* is_equal(): the same items all the way down; is_eq() asks for the same vector.
RECURSIVE IsEqual(_, _)
IsEqual(x, y) ==
  /\ x.t = y.t
  /\ \/ x = y
     \/ /\ x.t = Pointer
        /\ Len(x.v.item) = Len(y.v.item)
        /\ \A i \in DOMAIN x.v.item : IsEqual(x.v.item[i], y.v.item[i])
=============================================================================

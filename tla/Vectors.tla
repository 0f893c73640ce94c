------------------------------ MODULE Vectors ------------------------------
(***************************************************************************)
(* The vectors of array.c and the functions of LPC that work on them: a    *)
(* vector has its items, a mask of the types that may occur among them     *)
(* (kept too large rather than too small: the functions look at the mask   *)
(* to skip work) and the room it was allocated with.  A string is the      *)
(* sequence of its characters.                                             *)
(*                                                                         *)
(* Objects are numbers, ordered as their addresses are; those in dead were *)
(* destructed and still lie in vectors until check_vector_for_destruct     *)
(* meets them.                                                             *)
(***************************************************************************)
EXTENDS Integers, Sequences, FiniteSets, TLC

CONSTANT MaxArray        \* MAX_ARRAY_SIZE
ASSUME MaxArrayAssumption == MaxArray \in Nat \ {0}

Pointer == 0
Object == 1
List == 3
Function == 5
String == 7
Number == 10
AnyType == 0..10         \* the mask -1 of a new vector

Val(type, value) == [t |-> type, v |-> value]
Num(n) == Val(Number, n)
Zero == Num(0)
\* What an item holds that nothing was written to.
Junk == Val(Number, -99)
IsZero(x) == x.t = Number /\ x.v = 0
Zeros(n) == [i \in 1..n |-> Zero]

TypesOf(items) == {items[i].t : i \in DOMAIN items}

NewVector(items) == [item |-> items, types |-> AnyType, room |-> Len(items)]

Least(a, b) == IF a < b THEN a ELSE b

\* Copying a destructed object copies 0.
Alive(x, dead) == IF x.t \in {Object, Function} /\ x.v \in dead THEN Zero ELSE x
AllAlive(items, dead) == [i \in DOMAIN items |-> Alive(items[i], dead)]
ValuesIn(p, dead) == {Alive(p.item[i], dead) : i \in DOMAIN p.item}

\* Items from..to of p, counted from 0; the mask is that of p.
SliceArray(p, from, to, dead) ==
  LET first == IF from < 0 THEN 0 ELSE from
      last == Least(to, Len(p.item) - 1)
  IN IF first >= Len(p.item) \/ last < first THEN NewVector(<<>>)
     ELSE [NewVector(AllAlive(SubSeq(p.item, first + 1, last + 1), dead)) EXCEPT !.types = p.types]

\* Growing in place leaves the first new item as it was.
ResizeArray(p, n, dead) ==
  LET size == Len(p.item) IN
  CASE n = size -> p
    [] n > size /\ n <= p.room ->
         [p EXCEPT !.types = @ \cup {Number}, !.item = (@ \o <<Junk>>) \o Zeros(n - size - 1)]
    [] n > size /\ n > p.room ->
         [item |-> p.item \o Zeros(n - size), types |-> p.types \cup {Number},
          room |-> Least(n + (n \div 16) + 1, MaxArray)]
    [] n < size /\ n <= p.room \div 2048 -> SliceArray(p, 0, n - 1, dead)
    [] OTHER -> [p EXCEPT !.item = SubSeq(@, 1, n)]

InsertArrayUnmarked(p, n, x) ==
  LET items == [i \in 1..(Len(p.item) + 1) |-> IF i <= n THEN p.item[i] ELSE IF i = n + 1 THEN x ELSE p.item[i - 1]]
  IN [new |-> [p EXCEPT !.item = items, !.room = Len(items)], old |-> [p EXCEPT !.item = <<>>], moved |-> TRUE]
\* The new vector, and what is left of the old one for another holder of it.
InsertArray(p, n, x) ==
  LET size == Len(p.item)
      items == [i \in 1..(size + 1) |->
                  IF i <= n THEN p.item[i] ELSE IF i = n + 1 THEN x ELSE p.item[i - 1]]
      fits == [p EXCEPT !.item = items, !.types = @ \cup {x.t}]
  IN IF size < p.room THEN [new |-> fits, old |-> fits, moved |-> FALSE]
     ELSE [new |-> [item |-> items, types |-> AnyType,
                    room |-> Least(size + 1 + (size \div 16) + 1, MaxArray)],
           old |-> [p EXCEPT !.item = <<>>], moved |-> TRUE]

\* A destructed object becomes 0; the mask tells whether to look at all.
CheckForDestruct(p, dead) ==
  LET items == AllAlive(p.item, dead)
  IN IF p.types \cap {Object, Function} = {} THEN p
     ELSE [p EXCEPT !.item = items, !.types = TypesOf(items)]

ArrayReplace(p, what, to, dead) ==
  LET q == CheckForDestruct(p, dead)
  IN NewVector([i \in DOMAIN q.item |-> IF q.item[i] = what THEN to ELSE q.item[i]])

\* The value of the function in each item that can be called, 0 for the rest.
Callable(x, lambda, dead) ==
  CASE lambda = "function" -> TRUE
    [] lambda = "name" -> x.t = Object /\ x.v \notin dead
    [] lambda = "items" -> x.t = Function /\ x.v \notin dead
MapArray(p, lambda, f, dead) ==
  NewVector([i \in DOMAIN p.item |-> 
               IF Callable(p.item[i], lambda, dead) THEN f[Alive(p.item[i], dead)] ELSE Zero])

RECURSIVE Chosen(_, _)
Chosen(items, flags) ==
  IF items = <<>> THEN <<>>
  ELSE (IF IsZero(flags[1]) THEN <<>> ELSE <<items[1]>>) \o Chosen(Tail(items), Tail(flags))

FilterArray(p, lambda, f, dead) ==
  LET q == CheckForDestruct(p, dead)
  IN NewVector(Chosen(q.item, MapArray(q, lambda, f, dead).item))

SearchArray(p, lambda, f, dead) ==
  LET q == CheckForDestruct(p, dead)
      hits == {i \in DOMAIN q.item : Callable(q.item[i], lambda, dead) /\ ~IsZero(f[q.item[i]])}
  IN IF hits = {} THEN -1 ELSE (CHOOSE i \in hits : \A j \in hits : i <= j) - 1

MemberArrayStale(p, x, dead) ==
  LET hits == {i \in DOMAIN p.item : p.item[i] = x}
  IN IF hits = {} THEN -1 ELSE (CHOOSE i \in hits : \A j \in hits : i <= j) - 1
\* The mask is asked first.
MemberArray(p, x, dead) ==
  LET q == CheckForDestruct(p, dead)
      hits == {i \in DOMAIN q.item : q.item[i] = x}
  IN IF x.t \notin q.types \/ hits = {} THEN -1
     ELSE (CHOOSE i \in hits : \A j \in hits : i <= j) - 1

\* sum() and + of arrays: in place when nothing else holds the first one.
RECURSIVE Joined(_, _)
Joined(vectors, part) == IF vectors = <<>> THEN part
                         ELSE Joined(Tail(vectors), part \o vectors[1].item)
SumArrays(vectors, sole, dead) ==
  LET live == [i \in DOMAIN vectors |-> CheckForDestruct(vectors[i], dead)]
      all == Joined(live, <<>>)
      grown == ResizeArray(live[1], Len(all), dead)
      from == Len(live[1].item)
      mask == UNION {live[i].types : i \in DOMAIN live}
  IN IF sole
     THEN [grown EXCEPT !.types = @ \cup mask,
                        !.item = [i \in DOMAIN @ |-> IF i <= from THEN @[i] ELSE all[i]]]
     ELSE [NewVector(all) EXCEPT !.types = mask]

-----------------------------------------------------------------------------
(* Strings and arrays of strings *)

Occurs(d, s, e) == e + Len(d) <= Len(s) /\ SubSeq(s, e + 1, e + Len(d)) = d

RECURSIVE PiecesShort(_, _, _, _)
PiecesShort(s, d, begin, e) ==
  IF e >= Len(s) - Len(d) THEN <<SubSeq(s, begin + 1, Len(s))>>
  ELSE IF Occurs(d, s, e)
       THEN <<SubSeq(s, begin + 1, e)>> \o PiecesShort(s, d, e + Len(d), e + Len(d))
       ELSE PiecesShort(s, d, begin, e + 1)
RECURSIVE Pieces(_, _, _, _)
Pieces(s, d, begin, e) ==
  IF e > Len(s) - Len(d) THEN <<SubSeq(s, begin + 1, Len(s))>>
  ELSE IF Occurs(d, s, e)
       THEN <<SubSeq(s, begin + 1, e)>> \o Pieces(s, d, e + Len(d), e + Len(d))
       ELSE Pieces(s, d, begin, e + 1)
Explode(s, d) == IF d = <<>> THEN [i \in DOMAIN s |-> <<s[i]>>] ELSE Pieces(s, d, 0, 0)

\* Items that are no strings give nothing, but the delimiter stays.
RECURSIVE Implode(_, _)
Implode(items, d) ==
  IF items = <<>> THEN <<>>
  ELSE (IF items[1].t = String THEN items[1].v ELSE <<>>)
       \o (IF Len(items) = 1 THEN <<>> ELSE d \o Implode(Tail(items), d))

\* An empty d matches before every character and eats it, while the result
\* keeps the room of the characters: what lies there is whatever was there.
RECURSIVE Replaced(_, _, _, _)
Replaced(s, d, to, e) ==
  IF e >= Len(s) THEN <<>>
  ELSE IF Occurs(d, s, e)
       THEN to \o Replaced(s, d, to, e + (IF d = <<>> THEN 1 ELSE Len(d)))
       ELSE <<s[e + 1]>> \o Replaced(s, d, to, e + 1)
StringReplace(s, d, to) ==
  Replaced(s, d, to, 0) \o (IF d = <<>> THEN [i \in DOMAIN s |-> Junk] ELSE <<>>)

\* strcmp(): whether s comes before t or is t.
RECURSIVE NotAfter(_, _)
NotAfter(s, t) ==
  \/ s = <<>>
  \/ t # <<>> /\ (s[1] < t[1] \/ (s[1] = t[1] /\ NotAfter(Tail(s), Tail(t))))

-----------------------------------------------------------------------------
(* Sorting: msort2.c merges runs of twice the length in every pass, fsort.c *)
(* is a quicksort; cmp[x, y] is the answer of the comparison.               *)

RECURSIVE MergeUnstable(_, _, _)
MergeUnstable(x, y, cmp) ==
  IF x = <<>> THEN y ELSE IF y = <<>> THEN x
  ELSE IF cmp[x[1], y[1]] < 0 THEN <<x[1]>> \o MergeUnstable(Tail(x), y, cmp)
       ELSE <<y[1]>> \o MergeUnstable(x, Tail(y), cmp)
RECURSIVE Merge(_, _, _)
Merge(x, y, cmp) ==
  IF x = <<>> THEN y ELSE IF y = <<>> THEN x
  ELSE IF cmp[x[1], y[1]] <= 0 THEN <<x[1]>> \o Merge(Tail(x), y, cmp)
       ELSE <<y[1]>> \o Merge(x, Tail(y), cmp)

RECURSIVE MergeRuns(_, _, _, _)
MergeRuns(s, j, i, cmp) ==
  IF j >= Len(s) THEN <<>>
  ELSE LET i1 == Least(i \div 2, Len(s) - j)
           i2 == Least(i \div 2, Len(s) - i1 - j)
       IN Merge(SubSeq(s, j + 1, j + i1), SubSeq(s, j + i1 + 1, j + i1 + i2), cmp)
          \o MergeRuns(s, j + i, i, cmp)

RECURSIVE MergePass(_, _, _)
MergePass(s, i, cmp) ==
  IF i \div 2 >= Len(s) THEN s ELSE MergePass(MergeRuns(s, 0, i, cmp), i * 2, cmp)
MergeSort(s, cmp) == MergePass(s, 2, cmp)

Swapped(s, i, j) == [s EXCEPT ![i] = s[j], ![j] = s[i]]

RECURSIVE Up(_, _, _, _, _)
Up(s, a, b, bas, cmp) ==
  IF a <= b /\ cmp[s[a], s[bas]] < 0 THEN Up(s, a + 1, b, bas, cmp) ELSE a
RECURSIVE Down(_, _, _, _, _)
Down(s, a, b, bas, cmp) ==
  IF a < b /\ cmp[s[bas], s[b]] < 0 THEN Down(s, a, b - 1, bas, cmp) ELSE b

RECURSIVE Partition(_, _, _, _, _)
Partition(s, a, b, bas, cmp) ==
  IF a >= b THEN [s |-> s, a |-> a, b |-> b]
  ELSE LET up == Up(s, a, b, bas, cmp)
           down == Down(s, up, b, bas, cmp)
       IN IF up < down
          THEN Partition(Swapped(s, up, down), up + 1,
                         IF down - (up + 1) > 1 THEN down - 1 ELSE down, bas, cmp)
          ELSE Partition(s, up, down, bas, cmp)

RECURSIVE QuickSort(_, _, _, _)
QuickSort(s, bas, last, cmp) ==
  IF bas >= last THEN s
  ELSE IF bas + 1 = last THEN IF cmp[s[bas], s[last]] > 0 THEN Swapped(s, bas, last) ELSE s
  ELSE LET half == Swapped(s, bas, bas + ((last - bas) \div 2))
           p == Partition(half, bas + 1, last, bas, cmp)
           placed == Swapped(p.s, bas, p.a - 1)
       IN QuickSort(QuickSort(placed, bas, p.a - 2, cmp), p.b, last, cmp)

\* replace_many(): the last string not after the rest, by halving.
RECURSIVE LastNotAfter(_, _, _, _)
LastNotAfter(keys, rest, a, b) ==
  LET c == (a + b) \div 2 IN
  IF a >= b THEN a
  ELSE IF NotAfter(keys[c + 1], rest)
       THEN IF a = c THEN a ELSE LastNotAfter(keys, rest, c, b)
       ELSE LastNotAfter(keys, rest, a, c)

RECURSIVE ReplacedMany(_, _, _, _)
ReplacedMany(s, pairs, first, e) ==
  IF e >= Len(s) THEN <<>>
  ELSE LET rest == SubSeq(s, e + 1, Len(s))
           a == LastNotAfter([i \in DOMAIN pairs |-> pairs[i][1]], rest, 0, Len(pairs))
       IN IF s[e + 1] \in first /\ a < Len(pairs) /\ Occurs(pairs[a + 1][1], s, e)
          THEN pairs[a + 1][2]
               \o ReplacedMany(s, pairs, first, e + (IF pairs[a + 1][1] = <<>> THEN 1 ELSE Len(pairs[a + 1][1])))
          ELSE <<s[e + 1]>> \o ReplacedMany(s, pairs, first, e + 1)
ReplaceManyUnsorted(s, pairs) ==
  ReplacedMany(s, pairs, {pairs[i][1][1] : i \in {j \in DOMAIN pairs : pairs[j][1] # <<>>}}, 0)
ReplaceMany(s, pairs) ==
  LET all == {pairs[i] : i \in DOMAIN pairs}
      cmp == [x, y \in all |-> IF x[1] = y[1] THEN 0 ELSE IF NotAfter(x[1], y[1]) THEN -1 ELSE 1]
  IN ReplacedMany(s, MergeSort(pairs, cmp),
                  {pairs[i][1][1] : i \in {j \in DOMAIN pairs : pairs[j][1] # <<>>}}, 0)

\* sort_array() without a function.
SortCmp(x, y) == IF x.t > y.t THEN 1 ELSE IF x.t < y.t THEN -1 ELSE IF x.v > y.v THEN 1 ELSE 0
SortArray(p, dead) ==
  LET q == CheckForDestruct(p, dead)
      all == {q.item[i] : i \in DOMAIN q.item}
  IN NewVector(MergeSort(q.item, [x, y \in all |-> SortCmp(x, y)]))

-----------------------------------------------------------------------------
(* Graphs and inventories *)

\* One room after another, level by level; graph[x] lists the exits of x.
RECURSIVE SpreadDeep(_, _, _, _, _)
SpreadDeep(graph, to, level, seenfrom, found) ==
  IF level = <<>> THEN seenfrom
  ELSE LET from == level[1]
           new == SelectSeq(graph[from], LAMBDA e : e \notin DOMAIN seenfrom)
           seen == [x \in DOMAIN seenfrom \cup {new[i] : i \in DOMAIN new} |->
                      IF x \in DOMAIN seenfrom THEN seenfrom[x] ELSE from]
       IN IF to \in DOMAIN seen THEN seen ELSE SpreadDeep(graph, to, new \o Tail(level), seen, found)
RECURSIVE Spread(_, _, _, _, _)
Spread(graph, to, level, seenfrom, found) ==
  IF level = <<>> THEN IF found = <<>> THEN seenfrom ELSE Spread(graph, to, found, seenfrom, <<>>)
  ELSE LET from == level[1]
           RECURSIVE Exits(_, _, _)
           Exits(d, seen, next) ==
             IF d > Len(graph[from]) THEN [seen |-> seen, next |-> next]
             ELSE LET e == graph[from][d] IN
                  IF e \in DOMAIN seen THEN Exits(d + 1, seen, next)
                  ELSE Exits(d + 1, [x \in DOMAIN seen \cup {e} |-> IF x = e THEN from ELSE seen[x]],
                             <<e>> \o next)
           step == Exits(1, seenfrom, found)
       IN IF to \in DOMAIN step.seen THEN step.seen
          ELSE Spread(graph, to, Tail(level), step.seen, step.next)

RECURSIVE Backwards(_, _)
Backwards(seenfrom, d) ==
  IF seenfrom[d] = -2 THEN <<d>> ELSE Backwards(seenfrom, seenfrom[d]) \o <<d>>
NoWay == <<-1>>          \* the number 0 of the code
FindShortestPath(graph, from, to) ==
  LET seenfrom == Spread(graph, to, <<from>>, (from :> -2), <<>>)
  IN IF from = to THEN <<>> ELSE IF to \in DOMAIN seenfrom THEN Backwards(seenfrom, to) ELSE NoWay

RECURSIVE UnpackShort(_, _, _)
UnpackShort(contains, res, curr) ==
  IF curr >= Len(res) THEN res ELSE UnpackShort(contains, res \o contains[res[curr]], curr + 1)
\* The queue is the array that is returned.
RECURSIVE Unpack(_, _, _)
Unpack(contains, res, curr) ==
  IF curr > Len(res) THEN res ELSE Unpack(contains, res \o contains[res[curr]], curr + 1)
DeepInventory(contains, ob, takeTop) ==
  IF takeTop THEN Unpack(contains, <<ob>>, 1) ELSE Unpack(contains, contains[ob], 1)
RECURSIVE NumberDeepInv(_, _)
NumberDeepInv(contains, ob) ==
  LET RECURSIVE Count(_)
      Count(list) == IF list = <<>> THEN 0 ELSE NumberDeepInv(contains, list[1]) + Count(Tail(list))
  IN 1 + Count(contains[ob])
=============================================================================

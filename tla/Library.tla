------------------------------- MODULE Library -------------------------------
(***************************************************************************)
(* The functions of LPC on arrays, strings and graphs against what they    *)
(* are for: a job is one call with its arguments, and the properties       *)
(* compare what Vectors and Alists compute with a definition of the result *)
(* that knows no masks, columns or sorted copies.                          *)
(***************************************************************************)
EXTENDS Alists

VARIABLE job

NoJob == [kind |-> "none"]
JobInit == job = NoJob
Do(j) == job = NoJob /\ job' = j
Is(kind) == job.kind = kind

CountIn(items, x) == Cardinality({i \in DOMAIN items : items[i] = x})
SetOf(items) == {items[i] : i \in DOMAIN items}
SameBag(s, t) == \A x \in SetOf(s) \cup SetOf(t) : CountIn(s, x) = CountIn(t, x)
Ordered(s, Cmp(_, _)) == \A i \in 2..Len(s) : Cmp(s[i - 1], s[i]) <= 0
Difference(i, j) == i - j
First(hits) == IF hits = {} THEN -1 ELSE (CHOOSE i \in hits : \A j \in hits : i <= j) - 1

-----------------------------------------------------------------------------
(* Arrays: job = [kind, a, b, dead] *)

\* The vectors the array functions make of a and b.
Results(j) ==
  {SliceArray(j.a, 0, 0, j.dead), ArrayReplace(j.a, Zero, Num(1), j.dead),
   SumArrays(<<j.a, j.b>>, TRUE, j.dead), SumArrays(<<j.a, j.b>>, FALSE, j.dead),
   InsertArray(j.a, 0, Val(Object, 1)).new, ArraySubtract(j.a, j.b, j.dead),
   ArrayAnd(j.a, j.b, j.dead), ArrayOr(j.a, j.b, Or, j.dead), SortArray(j.a, j.dead),
   ResizeArray(ResizeArray(j.a, 1, j.dead), 0, j.dead)}

\* The mask of a vector names every type that a check leaves in it, and a
\* check leaves no destructed object: whoever asks the mask first
\* (member_array, -, &, |) may rely on it.  array.c:989
MasksTell ==
  Is("arrays") =>
    \A r \in Results(job) :
      LET c == CheckForDestruct(r, job.dead)
      IN TypesOf(c.item) \subseteq c.types /\ c.item = AllAlive(c.item, job.dead)

\* -, &, |, ^ and + of arrays count every value as often as an algebra of bags
\* does, whether the masks let them do the work or skip it, and + in place
\* gives what + of a shared array gives.  list.c:53, operators.c:369
ArrayAlgebra ==
  Is("arrays") =>
    LET x == AllAlive(job.a.item, job.dead)
        y == AllAlive(job.b.item, job.dead)
        Counts(r, N(_, _)) == \A v \in SetOf(x) \cup SetOf(y) \cup SetOf(r.item) :
                                CountIn(r.item, v) = N(CountIn(x, v), CountIn(y, v))
        Max2(i, j) == IF i > j THEN i ELSE j
        Plus(i, j) == i + j
        Apart(i, j) == Max2(i, j) - Least(i, j)
        Unless(i, j) == IF j = 0 THEN i ELSE 0
    IN /\ Counts(ArrayOr(job.a, job.b, Or, job.dead), Max2)
       /\ Counts(ArrayOr(job.a, job.b, Xor, job.dead), Apart)
       /\ Counts(ArrayAnd(job.a, job.b, job.dead), Least)
       /\ Counts(ArraySubtract(job.a, job.b, job.dead), Unless)
       /\ SumArrays(<<job.a, job.b>>, FALSE, job.dead).item = x \o y
       /\ SumArrays(<<job.a, job.b>>, TRUE, job.dead).item = x \o y

\* member_array() finds the first place of a value whatever the mask says, and
\* search_array() the first item filter_array() keeps; a destructed object is
\* a 0 for all of them.  array_efuns.c:274, array.c:602
SearchesAgree ==
  Is("arrays") =>
    LET x == AllAlive(job.a.item, job.dead)
        self == [v \in SetOf(x) |-> v]
        Kept(how) == FilterArray(job.a, how, self, job.dead).item
    IN /\ \A v \in SetOf(x) \cup {Zero, Num(1)} :
            MemberArray(job.a, v, job.dead) = First({i \in DOMAIN x : x[i] = v})
       /\ \A how \in {"function", "name"} :
            LET at == SearchArray(job.a, how, self, job.dead)
            IN IF at = -1 THEN Kept(how) = <<>> ELSE Kept(how)[1] = x[at + 1]

-----------------------------------------------------------------------------
(* Strings: job = [kind, s, d, to]; [kind, s, pairs] *)

AsStrings(parts) == [i \in DOMAIN parts |-> Val(String, parts[i])]
\* implode() undoes explode() for every delimiter, explode() leaves no
\* delimiter in a part, and replace() is explode() and implode() with another.
\* (Not for an empty one.)  array.c:229, array.c:290, array_efuns.c:60
SplitsAndJoins ==
  Is("texts") =>
    LET parts == Explode(job.s, job.d)
    IN /\ Implode(AsStrings(parts), job.d) = job.s
       /\ job.d # <<>> => /\ \A i \in DOMAIN parts : \A e \in 0..Len(parts[i]) : ~Occurs(job.d, parts[i], e)
                          /\ StringReplace(job.s, job.d, job.to) = Implode(AsStrings(parts), job.to)

\* From left to right, every place where one of the strings stands.
RECURSIVE Leftmost(_, _, _)
Leftmost(s, pairs, e) ==
  LET here == {i \in DOMAIN pairs : pairs[i][1] # <<>> /\ Occurs(pairs[i][1], s, e)}
      i == CHOOSE k \in here : TRUE
  IN IF e >= Len(s) THEN <<>>
     ELSE IF here = {} THEN <<s[e + 1]>> \o Leftmost(s, pairs, e + 1)
     ELSE pairs[i][2] \o Leftmost(s, pairs, e + Len(pairs[i][1]))
\* replace() with arrays finds every string by halving a sorted copy, if none
\* is the beginning of another.  array_efuns.c:112
ReplacesAll == Is("many") => ReplaceMany(job.s, job.pairs) = Leftmost(job.s, job.pairs, 0)

-----------------------------------------------------------------------------
(* Sorting: job = [kind, s] *)

\* Both sorts return their elements in order, and the merge sort behind
\* sort_array() leaves equal ones in the order they had.  fsort.c:79, msort2.c:11
SortsWell ==
  Is("sort") =>
    LET Tens == [x, y \in 0..29 |-> (x \div 10) - (y \div 10)]
        keys == [x, y \in 0..9 |-> x - y]
        marked == [i \in DOMAIN job.s |-> 10 * job.s[i] + i]
        merged == MergeSort(marked, Tens)
    IN /\ SameBag(QuickSort(job.s, 1, Len(job.s), keys), job.s)
       /\ Ordered(QuickSort(job.s, 1, Len(job.s), keys), Difference)
       /\ SameBag(merged, marked) /\ Ordered(merged, Difference)

-----------------------------------------------------------------------------
(* Graphs: job = [kind, graph] *)

RECURSIVE Within(_, _, _)
Within(graph, from, n) ==
  IF n = 0 THEN {from}
  ELSE LET near == Within(graph, from, n - 1) IN near \cup UNION {SetOf(graph[x]) : x \in near}
\* find_shortest_path() walks existing exits from one room to the other, takes
\* no more of them than needed, and returns 0 only when there is no way.
\* array_efuns.c:487
PathsAreShortest ==
  Is("graph") =>
    \A from, to \in DOMAIN job.graph :
      LET p == FindShortestPath(job.graph, from, to)
          n == Cardinality(DOMAIN job.graph)
      IN from # to =>
           IF p = NoWay THEN to \notin Within(job.graph, from, n)
           ELSE /\ p[1] = from /\ p[Len(p)] = to
                /\ \A i \in 2..Len(p) : p[i] \in SetOf(job.graph[p[i - 1]])
                /\ to \notin Within(job.graph, from, Len(p) - 2)

\* deep_inventory() lists whatever lies anywhere inside, once, and exactly as
\* many things as the array was made for.  array.c:735
DeepInventoryComplete ==
  Is("inside") =>
    \A ob \in DOMAIN job.contains :
      LET list == DeepInventory(job.contains, ob, TRUE)
      IN /\ Len(list) = NumberDeepInv(job.contains, ob)
         /\ SetOf(list) = Within(job.contains, ob, Cardinality(DOMAIN job.contains))
         /\ DeepInventory(job.contains, ob, FALSE) = Tail(list)

-----------------------------------------------------------------------------
(* Indexing: job = [kind, c, i, x]; [kind, list, links] *)

\* What was assigned to an index is read back from it, and nothing else of the
\* container changed: arrays and strings with negative indexes, lists by search.
\* opcodes.c:127, opcodes.c:232
ReadsBack ==
  Is("index") =>
    LET c == AssignIndex(job.c, job.i, job.x)
        Same(i) == job.i.t = Number /\ i.t = Number /\ job.c.t # List
                   /\ LET n == Len(IF job.c.t = Pointer THEN job.c.v.item ELSE job.c.v)
                      IN Place(i.v, n) = Place(job.i.v, n)
        Expected == CASE job.c.t = Pointer -> job.x
                      [] job.c.t = String -> Num(job.x.v % 256)
                      [] OTHER -> IF IsZero(job.x) THEN Zero ELSE Num(1)
    IN c # Bad => \A i \in {Num(n) : n \in -3..3} :
         IF i = job.i \/ Same(i) THEN ReadIndex(c, i, {}) = Expected
         ELSE ReadIndex(c, i, {}) = ReadIndex(job.c, i, {})

\* (object)number finds the object with that number whatever the links leap
\* over.  opcodes.c:398
FindsClone ==
  Is("clones") => \A i \in 1..(Len(job.list) + 1) :
    FindClone(job.list, job.links, i) = IF i \in SetOf(job.list) THEN i ELSE 0

\* Arrays, sorts, graphs and indexes give what the definitions without masks,
\* columns and pointers give.
ArraysAsDefined ==
  /\ MasksTell /\ ArrayAlgebra /\ SearchesAgree /\ SortsWell
  /\ PathsAreShortest /\ DeepInventoryComplete /\ ReadsBack /\ FindsClone
=============================================================================

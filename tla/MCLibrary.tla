----------------------------- MODULE MCLibrary -----------------------------
(***************************************************************************)
(* Instances for TLC: a call of Library and Texts with small arguments,    *)
(* or the shared strings, or two mappings, or the allocator, or a program  *)
(* that is read: part says which.                                          *)
(***************************************************************************)
EXTENDS Texts, Strings, Tables, Heap, MCSources

VARIABLE part
sourceVars == <<lx, source>>
all == <<part, job, stringVars, tableVars, heapVars, sourceVars>>

Seqs(S, n) == UNION {[1..k -> S] : k \in 0..n}
N1 == Num(1)
Ob(n) == Val(Object, n)

\* Arrays of numbers and objects, some of them destructed.
ArrayCall == \E a, b \in Seqs({Zero, N1, Ob(1), Ob(2)}, 2), gone \in {{}, {1}} :
  Do([kind |-> "arrays", a |-> NewVector(a), b |-> NewVector(b), dead |-> gone])
\* The same with a mask as small as a check leaves it.
MaskedCall == \E a \in Seqs({N1, Ob(1), Ob(2)}, 2), b \in Seqs({Ob(1), Ob(2), Zero}, 1), gone \in {{}, {1}} :
  Do([kind |-> "arrays", a |-> CheckForDestruct(NewVector(a), {}),
      b |-> CheckForDestruct(NewVector(b), {}), dead |-> gone])

TextCall == \E s \in Seqs({1, 2}, 4), d \in Seqs({1, 2}, 2), to \in Seqs({1, 3}, 1) :
  Do([kind |-> "texts", s |-> s, d |-> d, to |-> to])
ManyCall == \E s \in Seqs(1..3, 3), p \in {<<1>>, <<1, 2>>, <<3>>}, q \in {<<2>>, <<2, 1>>, <<2, 3, 1>>} :
  \E to \in {<<>>, <<1>>, <<2, 2>>} :
    Do([kind |-> "many", s |-> s, pairs |-> <<<<q, to>>, <<p, <<3>>>>>>])
SortCall == \E s \in Seqs(0..2, 5) : Do([kind |-> "sort", s |-> s])

GraphCall ==
  \/ \E g \in [0..2 -> Seqs(0..2, 2)] : Do([kind |-> "graph", graph |-> g])
  \/ \E g \in [0..4 -> {<<1, 2>>, <<3>>, <<4>>, <<0>>}] : Do([kind |-> "graph", graph |-> g])
InsideCall ==
  \E up \in [2..4 -> 1..3] :
    /\ \A x \in 2..4 : up[x] < x
    /\ Do([kind |-> "inside",
           contains |-> [x \in 1..4 |-> SelectSeq(<<2, 3, 4>>, LAMBDA y : up[y] = x)]])

Container(c) == \E i \in {Num(n) : n \in -3..3}, x \in {Zero, N1, Num(300)} :
  Do([kind |-> "index", c |-> c, i |-> i, x |-> x])
IndexCall ==
  \/ \E s \in Seqs({Zero, N1}, 2) : Container(Val(Pointer, NewVector(s)))
  \/ \E s \in Seqs({65, 66}, 2) : Container(Val(String, s))
  \/ \E s \in {<<>>, <<Zero>>, <<Zero, N1>>, <<Num(-1), N1>>} : Container(Val(List, NewVector(s)))
CloneCall == \E links \in [1..5 -> SUBSET {1, 3}], l \in {<<5, 4, 3, 2, 1>>, <<4, 3, 2, 1>>, <<5, 3, 1>>} :
  Do([kind |-> "clones", list |-> l, links |-> links])

-----------------------------------------------------------------------------
(* Regular expressions up to three operators deep                           *)

Ch(c) == [op |-> "char", c |-> c]
Here(op) == [op |-> op]
In(op, text, set) == [op |-> op, text |-> text, set |-> set]
Then(A, B) == {[op |-> "then", a |-> x, b |-> y] : x \in A, y \in B}
Either(A, B) == {[op |-> "or", a |-> x, b |-> y] : x \in A, y \in B}
Stars(A) == {[op |-> "star", a |-> x] : x \in A}
Ab == {Ch(97), Ch(98)}
Few == Ab \cup {Here("any"), Here("start")}
Atoms == Ab \cup {Here(o) : o \in {"any", "start", "end", "word", "unword"}}
         \cup {In("in", <<97, 45, 98>>, {97, 98}), In("but", <<97>>, {97})}
Two == Then(Few, Few) \cup Either(Few, Few) \cup Stars(Few)
Expressions ==
  Atoms \cup {In("in", <<93, 97>>, {93, 97}), Ch(46)}
  \cup Then(Atoms, Atoms) \cup Either(Atoms, Atoms) \cup Stars(Atoms)
  \cup Stars(Two) \cup Then(Two, Few) \cup Then(Few, Two) \cup Either(Two, Few)
  \cup Then(Stars(Then(Ab, Ab) \cup Either(Ab, Ab) \cup Ab), Ab \cup Then(Ab, Ab) \cup {Here("end")})
  \cup Then(Then(Stars({Here("any"), Ch(97)}), Ab), Stars(Ab)) \cup Stars(Either(Then(Ab, Ab), Ab))
Subjects == Seqs({97, 98, 32}, 3) \cup Seqs({97, 98}, 4) \cup {<<97, 98, 32, 97>>, <<46>>}
MatchCall == \E t \in Expressions : Do([kind |-> "regexp", tree |-> t, texts |-> Subjects])

-----------------------------------------------------------------------------
(* Formats of up to three parts                                             *)

Text(t) == [op |-> "text", text |-> t]
Take(op, assign) == [op |-> op, assign |-> assign]
Parts == {Text(<<1>>), Text(<<2, 1>>), Text(<<37>>), Take("c", TRUE), Take("d", TRUE), Take("n", TRUE),
          Take("s", TRUE), Take("s", FALSE),
          [op |-> "set", assign |-> TRUE, written |-> <<48, 45, 50>>, chars |-> 48..50],
          [op |-> "set", assign |-> FALSE, written |-> <<94, 93, 1>>, chars |-> (0..255) \ {93, 1}]}
\* What may follow a %s; text does not follow text.
Follows(p, q) == CASE p.op = "text" -> q.op # "text"
                   [] p.op = "s" -> q.op \in {"d", "set"} \/ q \in {Text(<<1>>), Text(<<2, 1>>)}
                   [] OTHER -> TRUE
Inputs == {<<>>, <<1>>, <<2, 2, 1>>, <<49, 48, 1, 2, 1>>, <<2, 45, 51, 1>>, <<50, 51, 49, 1, 2, 2, 1>>,
           <<45>>, <<1, 37, 1>>, <<2, 1, 49, 1>>, <<93, 2, 48, 49>>, <<2, 2, 52, 49, 2, 1, 50>>}
ScanCall ==
  \E parts \in Seqs(Parts, 3), input \in Inputs :
    /\ \A i \in 2..Len(parts) : Follows(parts[i - 1], parts[i])
    /\ Do([kind |-> "scan", parts |-> parts, input |-> input])

-----------------------------------------------------------------------------
(* Values in values: object 2 is a clone                                    *)

MCIndexOf == [o \in 1..3 |-> IF o = 2 THEN <<>> ELSE <<96 + o, 95>>]
Fun == Val(Function, [ob |-> 1, name |-> <<102, 95, 49>>])
Str(s) == Val(String, s)
Leaves == <<Num(-12), Num(7), Ob(1), Ob(2), Str(<<10, 34, 92, 110, 8, 9>>), Str(<<>>), Str(<<49, 44, 125>>), Fun>>
LeavesAt(s) == [i \in DOMAIN s |-> Leaves[s[i]]]
SomeKeys == {s \in Seqs(1..4, 2) : \A i \in 2..Len(s) : AlistCmp(Leaves[s[i - 1]], Leaves[s[i]]) <= 0}
Map == 2
\* A saved value that holds another, which holds leaves.
Outer(type, items, style) ==
  LET y == Val(type, 1) IN
  \/ \E k \in {3, 4} : Do([kind |-> "save", x |-> Val(Map, 2), style |-> style,
                           store |-> <<items, <<IF k = 3 THEN Num(3) ELSE Ob(2), y, Num(100), N1>>>>])
  \/ \E z \in 1..2 : Do([kind |-> "save", x |-> Val(Pointer, 2), style |-> style,
                         store |-> <<items, <<y, IF z = 1 THEN y ELSE Num(5)>>>>])
SaveCall ==
  \E style \in {"binary", "line", "old"} :
    \/ \E s \in Seqs(DOMAIN Leaves, 2) : Outer(Pointer, LeavesAt(s), style)
    \/ \E s \in SomeKeys : Outer(List, LeavesAt(s), style)
    \/ \E s \in {t \in SomeKeys : Len(t) = 2} :
         Outer(Map, <<Leaves[s[1]], Fun, Leaves[s[2]], Str(<<34>>)>>, style)
    \/ \E i \in DOMAIN Leaves : Do([kind |-> "save", x |-> Leaves[i], store |-> <<>>, style |-> style])
SelfCall ==
  \/ Do([kind |-> "save", x |-> Val(Pointer, 1), store |-> <<<<Val(Pointer, 1)>>>>, style |-> "line"])
  \/ Do([kind |-> "save", x |-> Val(Pointer, 1), style |-> "line", store |-> <<<<Val(Pointer, 2)>>, <<Val(Pointer, 1)>>>>])
  \/ Do([kind |-> "save", x |-> Val(Pointer, 1), style |-> "line",
         store |-> <<<<N1, Val(Pointer, 2)>>, <<Val(Pointer, 2)>>>>])

\* Three variables, two of them declared with a type or without.
Untyped == 255
Variable(name, type, static) == [name |-> name, rttype |-> type, static |-> static]
Fits(v, x) == v.rttype \in {Untyped, x.t} \/ x = Zero
VariableCall ==
  \E a \in {Untyped, Number, String}, b \in {Untyped, Pointer, Object, Number}, static \in BOOLEAN :
    LET prog == <<Variable(<<97>>, a, static), Variable(<<97, 98>>, b, FALSE), Variable(<<95>>, Untyped, FALSE)>>
        news == <<Zero, Num(4), Str(<<10, 97, 32>>), Val(Pointer, 1), Ob(1), Ob(2)>>
    IN \E i, k \in 1..4, j \in {1, 4, 5, 6}, o \in 1..2 :
         LET x == news[i] y == news[j] z == news[k] old == <<Str(<<120>>), Zero>>[o] IN
         /\ Fits(prog[1], x) /\ Fits(prog[2], y) /\ Fits(prog[1], old)
         /\ Do([kind |-> "variables", prog |-> prog, old |-> <<old, Zero, Num(9)>>, new |-> <<x, y, z>>,
                store |-> <<<<Num(3), Ob(2)>>>>])

-----------------------------------------------------------------------------
(* Strings: two letters and what two or three of them add up to              *)

MCSums == {<<1>>, <<2>>, <<1, 2>>, <<2, 1>>, <<1, 1>>, <<1, 1, 2>>}
MCLiterals == {<<1>>, <<2>>}
MCHash == [t \in MCSums |-> Len(t) % 2]

(* Mappings: m = ([1:0,1:1]), n = ([object:1])                              *)

MCKeys == {N1, Ob(1)}
MCValues == {Zero, N1, Ob(1)}
MCStart == [q \in {"m", "n"} |-> IF q = "m" THEN MkMapping(<<N1, N1>>, <<Zero, N1>>) ELSE MkMapping(<<Ob(1)>>, <<N1>>)]

-----------------------------------------------------------------------------
JobNext ==
  /\ part = "job" /\ job = NoJob
  /\ \/ ArrayCall \/ MaskedCall \/ TextCall \/ ManyCall \/ SortCall \/ GraphCall \/ InsideCall
     \/ IndexCall \/ CloneCall \/ MatchCall \/ ScanCall \/ SaveCall \/ SelfCall
     \/ VariableCall
  /\ UNCHANGED <<part, stringVars, tableVars, heapVars, sourceVars>>
Init == part \in {"job", "strings", "tables", "heap", "source"} /\ JobInit /\ SourceInit /\ HeapInit /\ StringsInit /\ TableInit(MCStart)
Next ==
  \/ JobNext
  \/ part = "strings" /\ StringsNext /\ UNCHANGED <<part, job, tableVars, heapVars, sourceVars>>
  \/ part = "tables" /\ TableNext /\ UNCHANGED <<part, job, stringVars, heapVars, sourceVars>>
  \/ part = "heap" /\ HeapNext /\ UNCHANGED <<part, job, stringVars, tableVars, sourceVars>>
  \/ part = "source" /\ (SourceCall \/ SourceNext) /\ UNCHANGED <<part, job, stringVars, tableVars, heapVars>>
Spec == Init /\ [][Next]_all

\* The mappings behave as TableSpec says, whatever columns they share.
AsSpecified == Abstract!Spec
=============================================================================

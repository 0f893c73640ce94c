----------------------------- MODULE MCSources -----------------------------
(***************************************************************************)
(* Programs for Sources: conditionals of one to three parts, conditions of *)
(* two operators, macros in macros, files in files, macros without end.    *)
(***************************************************************************)
EXTENDS Sources, TLC

Wd(w) == [op |-> "word", word |-> w]
Strg(w) == [op |-> "string", words |-> w]
CallOf(w, args) == [op |-> "call", word |-> w, args |-> args, split |-> FALSE]
SplitCall(w, args) == [op |-> "call", word |-> w, args |-> args, split |-> TRUE]
TextOfWords(text) == [op |-> "text", text |-> text]
Line(w) == TextOfWords(<<Wd(w)>>)
Define(n, args, body) == [op |-> "define", name |-> n, args |-> args, joined |-> FALSE, body |-> body]
JoinedDefine(n, args, body) == [op |-> "define", name |-> n, args |-> args, joined |-> TRUE, body |-> body]
Cond(branches) == [op |-> "cond", ended |-> TRUE, branches |-> branches]
Part(test, items) == [test |-> test, items |-> items]
If(e) == [op |-> "if", e |-> e]
IfDef(o, n) == [op |-> o, name |-> n]
Else == [op |-> "#else"]
Include(n, quoted) == [op |-> "include", name |-> n, quoted |-> quoted]
Asks(w, n) == [op |-> "asks", word |-> w, name |-> n]
Bin(o, a, b) == [op |-> o, a |-> a, b |-> b]

MCFileTrees ==
  <<"inc", "h">> :> <<Cond(<<Part(IfDef("#ifndef", "H"), <<Define("H", <<>>, <<Wd("h"), Wd("i")>>), Line("H"), Line("j")>>)>>)>>
  @@ <<"dir", "k">> :> <<Line("k"), Include("h", FALSE), Cond(<<Part(If(Asks("defined", "H")), <<Line("l")>>)>>), Line("m")>>
  @@ <<"inc", "k">> :> <<Line("wrong")>>
  @@ <<"sys", "h">> :> <<Line("wrong")>>
MCDirs == <<"inc", "sys">>
MCFiles == [f \in DOMAIN MCFileTrees |-> WrittenFile(f, MCFileTrees[f])]

-----------------------------------------------------------------------------
Tests == {If(Wd("0")), If(Wd("2")), If(Asks("defined", "A")), If([op |-> "not", a |-> Asks("efun", "write")])}
Firsts == Tests \cup {IfDef("#ifdef", "A"), IfDef("#ifndef", "A")}
Bodies(w) == {<<Line(w)>>,
              <<[op |-> "comment", line |-> TRUE], Line(w),
                Cond(<<Part(IfDef("#ifdef", w), <<Line("n")>>), Part(Else, <<Line("o")>>)>>), Line("p")>>}
Branches ==
  {<<Part(t, b)>> : t \in Firsts, b \in Bodies("x")}
  \cup {<<Part(t, b), Part(u, c)>> : t \in Firsts, u \in Tests \cup {Else}, b \in Bodies("x"), c \in Bodies("y")}
  \cup {<<Part(t, <<Line("x")>>), Part(u, b), Part(v, <<Line("z")>>)>> :
          t \in Firsts, u \in Tests, v \in Tests \cup {Else}, b \in Bodies("y")}
CondPrograms == {a \o <<Cond(b), Line("q")>> : a \in {<<>>, <<Define("A", <<>>, <<>>)>>}, b \in Branches}

UnendedPrograms ==
  {<<Line("a"), [Cond(b) EXCEPT !.ended = FALSE]>> : b \in {c \in Branches : Len(c) <= 2}}

\* Conditions: the operators of two rows, in the order that needs no
\* parentheses.  (^ is left out: calc5() takes it for &.)
Rows == (1..Len(Binary)) \ {4}
Deep == {If(Bin(o, Bin(p, Wd("3"), Wd(a)), Wd(b))) :
           o \in UNION {Binary[l] : l \in 1..7} \ {"^"}, p \in UNION {Binary[l] : l \in 7..10},
           a \in {"1", "2"}, b \in {"0", "1"}}
        \cup {If(Bin(o, Wd("2"), Bin(p, Wd(a), Wd(b)))) :
           o \in UNION {Binary[l] : l \in 1..6} \ {"^"}, p \in UNION {Binary[l] : l \in 7..10},
           a \in {"0", "1"}, b \in {"1", "2"}}
        \cup {If(Bin("-", Bin("-", Wd("3"), Wd("2")), [op |-> "not", a |-> Wd("1")]))}
TestPrograms == {<<Cond(<<Part(t, <<Line("x")>>), Part(Else, <<Line("y")>>)>>)>> : t \in Deep}

Macros == <<Define("M", <<>>, <<Wd("m"), Wd("1")>>),
            JoinedDefine("F", <<"x">>, <<CallOf("g", <<<<Wd("x")>>>>), Strg(<<"x">>), Wd("x")>>),
            Define("G", <<"x", "y">>, <<CallOf("F", <<<<Wd("y")>>>>), Wd("M"), Wd("x")>>)>>
Arguments1 == {<<Wd("a")>>, <<Wd("M")>>, <<>>, <<CallOf("f", <<<<Wd("a")>>, <<Wd("b")>>>>)>>, <<CallOf("F", <<<<Wd("M")>>>>)>>}
Arguments2 == {<<Wd("b"), Wd("M")>>, <<Wd("c"), Wd("y")>>}
MacroTexts == {<<Wd("M")>>, <<Strg(<<"M", ",", "(">>)>>, <<CallOf("F", <<<<Strg(<<",", ")">>)>>>>)>>}
              \cup {<<CallOf("F", <<x>>), Wd("c")>> : x \in Arguments1}
              \cup {<<CallOf("G", <<x, y>>)>> : x \in Arguments1, y \in Arguments2}
              \cup {<<SplitCall("G", <<x, y>>), Wd("c")>> : x \in Arguments1, y \in Arguments2}
MacroPrograms ==
  {Macros \o <<TextOfWords(t), [op |-> "undef", name |-> "M"], [op |-> "undef", name |-> "N"],
               TextOfWords(<<Wd("M"), CallOf("N", <<<<Wd("a")>>>>)>>)>> : t \in MacroTexts}
FilePrograms ==
  {<<Line("a"), Include(n, TRUE), [op |-> "pragma"], Line("b"), Include("h", q), Line("H"), Line("c")>> :
     n \in {"k", "z"}, q \in BOOLEAN}
  \cup {<<Define("H", <<>>, <<>>), Include("h", TRUE), Define("H", <<>>, <<Wd("c")>>), Line("H"), Line("d")>>}
EndlessPrograms ==
  {Macros \o <<Define("A", <<>>, <<Wd("A"), Wd("b")>>), Line("A")>>,
   Macros \o <<Define("A", <<>>, <<Wd("b"), Wd("B"), Wd("B")>>), Define("B", <<>>, <<Wd("c"), Wd("A")>>), Line("A"), Line("d")>>}
SourceCall ==
  /\ source = NoSource
  /\ \/ \E p \in CondPrograms \cup UnendedPrograms \cup TestPrograms \cup MacroPrograms \cup FilePrograms :
          Begin([file |-> <<"dir", "main">>, items |-> p, loops |-> FALSE])
     \/ \E p \in EndlessPrograms : Begin([file |-> <<"dir", "main">>, items |-> p, loops |-> TRUE])
=============================================================================

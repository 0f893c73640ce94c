------------------------------- MODULE Sources -------------------------------
(***************************************************************************)
(* Programs as trees, how they are written, and what the preprocessor is   *)
(* to make of them: a conditional is its first part that holds, a macro a  *)
(* function of the values of its arguments.                                *)
(***************************************************************************)
EXTENDS Preprocessor, TLC
LOCAL INSTANCE SequencesExt

CONSTANT FileTrees       \* <<directory, name>> to items
VARIABLE source          \* the program that is read

-----------------------------------------------------------------------------
(* How a program is written                                                 *)

Between(words, sep) == FlattenSeq([i \in DOMAIN words |-> (IF i = 1 THEN <<>> ELSE sep) \o words[i]])

\* Texts: a word, a call of a macro or a function, a string.
RECURSIVE TextWords(_)
TextWords(text) ==
  FlattenSeq([i \in DOMAIN text |->
    LET e == text[i]
    IN CASE e.op = "word" -> <<e.word>>
         [] e.op = "string" -> <<"\"">> \o e.words \o <<"\"">>
         [] e.op = "call" -> <<e.word, "(">> \o Between([k \in DOMAIN e.args |-> TextWords(e.args[k])],
                                                       IF e.split THEN <<",", "\n">> ELSE <<",">>) \o <<")">>])

\* Conditions: what binds weaker stands on the left or not at all.
RECURSIVE TestWords(_)
TestWords(e) ==
  CASE e.op = "word" -> <<e.word>>
    [] e.op = "asks" -> <<e.word, "(", e.name, ")">>
    [] e.op = "not" -> <<"!">> \o TestWords(e.a)
    [] OTHER -> TestWords(e.a) \o <<e.op>> \o TestWords(e.b)

RECURSIVE ItemWords(_)
Opening(branch, i) ==
  LET t == branch.test
  IN CASE t.op = "if" -> <<IF i = 1 THEN "#if" ELSE "#elif">> \o TestWords(t.e)
       [] t.op \in {"#ifdef", "#ifndef"} -> <<t.op, t.name>>
       [] t.op = "#else" -> <<"#else">>
ItemWords(items) ==
  FlattenSeq([k \in DOMAIN items |->
    LET item == items[k]
    IN CASE item.op = "text" -> TextWords(item.text) \o <<";", "\n">>
         [] item.op = "comment" -> <<"/*", "\n", "#endif", "\n", "*/">> \o (IF item.line THEN <<"//", "a", "\n">> ELSE <<>>)
         [] item.op = "pragma" -> <<"#pragma", "a", "\n">>
         [] item.op = "undef" -> <<"#undef", item.name, "\n">>
         [] item.op = "include" ->
              <<"#include">> \o (IF item.quoted THEN <<"\"", item.name, "\"">> ELSE <<"<", item.name, ">">>) \o <<"\n">>
         [] item.op = "define" ->
              <<"#define", item.name>>
              \o (IF item.args = <<>> THEN <<" ">>
                  ELSE <<"(">> \o Between([i \in DOMAIN item.args |-> <<item.args[i]>>], <<",">>) \o <<")">>)
              \o (IF item.joined THEN <<"\\", "\n">> ELSE <<>>) \o TextWords(item.body) \o <<"\n">>
         [] item.op = "cond" ->
              FlattenSeq([i \in DOMAIN item.branches |->
                            Opening(item.branches[i], i) \o <<"\n">> \o ItemWords(item.branches[i].items)])
              \o (IF item.ended THEN <<"#endif", "\n">> ELSE <<>>)])

WrittenFile(f, items) ==
  LET words == ItemWords(items)
  IN [i \in DOMAIN words |->
        [s |-> words[i], at |-> <<f, 1 + Cardinality({k \in 1..(i - 1) : words[k] = "\n"})>>]]

-----------------------------------------------------------------------------
(* What it means                                                            *)

NoWords == [n \in {} |-> <<>>]
RECURSIVE RawText(_, _)
RawText(text, env) ==
  FlattenSeq([i \in DOMAIN TextWords(text) |->
    LET w == TextWords(text)[i] IN IF w \in DOMAIN env THEN env[w].raw ELSE <<w>>])
RECURSIVE ValueOf(_, _, _)
ValueOf(text, defs, env) ==
  FlattenSeq([i \in DOMAIN text |->
    LET e == text[i]
        Args == [k \in DOMAIN e.args |-> [raw |-> RawText(e.args[k], env), value |-> ValueOf(e.args[k], defs, env)]]
    IN CASE e.op = "string" -> RawText(<<e>>, env)
         [] e.op = "word" -> IF e.word \in DOMAIN env THEN env[e.word].value
                             ELSE IF e.word \in DOMAIN defs THEN ValueOf(defs[e.word].body, defs, NoWords)
                             ELSE <<e.word>>
         [] e.op = "call" ->
              IF e.word \in DOMAIN defs
              THEN LET d == defs[e.word]
                       args == Args
                   IN ValueOf(d.body, defs, [n \in {d.args[k] : k \in DOMAIN d.args} |->
                                               args[CHOOSE k \in DOMAIN d.args : d.args[k] = n]])
              ELSE <<e.word, "(">> \o Between([k \in DOMAIN e.args |-> ValueOf(e.args[k], defs, env)], <<",">>) \o <<")">>])

RECURSIVE TestValue(_, _)
TestValue(e, defs) ==
  LET a == TestValue(e.a, defs)
      b == TestValue(e.b, defs)
  IN CASE e.op = "word" -> IF e.word \in DOMAIN Numbers THEN Numbers[e.word] ELSE 0
       [] e.op = "asks" -> Truth(e.name \in (IF e.word = "efun" THEN Efuns ELSE DOMAIN defs))
       [] e.op = "not" -> Truth(a = 0)
       [] OTHER -> Apply(e.op, a, b)
Holds(test, defs) == CASE test.op = "if" -> TestValue(test.e, defs) # 0
                       [] test.op = "#ifdef" -> test.name \in DOMAIN defs
                       [] test.op = "#ifndef" -> test.name \notin DOMAIN defs
                       [] test.op = "#else" -> TRUE

\* env: the macros, the words that remain, what is wrong, and whether do_skip() can choose
\* the parts: behind the part that holds, and the directive that ends it, it
\* takes up the next part that holds.
RECURSIVE MeaningOf(_, _, _)
MeaningOf(items, dir, env) ==
  LET item == items[1]
      holding == {i \in DOMAIN item.branches : Holds(item.branches[i].test, env.defs)}
      chosen == CHOOSE i \in holding : \A j \in holding : i <= j
      After(b) == MeaningOf(item.branches[b].items, dir, env)
      places == {d \in DOMAIN (<<dir>> \o IncludeDirs) : <<(<<dir>> \o IncludeDirs)[d], item.name>> \in DOMAIN FileTrees}
      place == (<<dir>> \o IncludeDirs)[CHOOSE d \in places : \A e \in places : d <= e]
      next ==
        CASE item.op = "text" -> [env EXCEPT !.out = @ \o ValueOf(item.text, env.defs, NoWords) \o <<";">>]
          [] item.op \in {"comment", "pragma"} -> env
          [] item.op = "undef" -> [env EXCEPT !.defs = [n \in DOMAIN @ \ {item.name} |-> @[n]]]
          [] item.op = "define" ->
               IF item.name \in DOMAIN env.defs THEN [env EXCEPT !.errors = @ \cup {"Redefining"}]
               ELSE [env EXCEPT !.defs = @ @@ (item.name :> [args |-> item.args, body |-> item.body])]
          [] item.op = "include" ->
               IF places = {} THEN [env EXCEPT !.errors = @ \cup {"Couldn't find file to include"}]
               ELSE MeaningOf(FileTrees[<<place, item.name>>], place, env)
          [] item.op = "cond" ->
               IF ~item.ended /\ (holding = {} \/ chosen < Len(item.branches))
               THEN [(IF holding = {} THEN env ELSE After(chosen)) EXCEPT
                       !.errors = @ \cup {"Unexpected end of file while skipping"}]
               ELSE IF holding = {} THEN env
               ELSE [After(chosen) EXCEPT !.sound =
                       @ /\ \A i \in (chosen + 2)..Len(item.branches) :
                              ~Holds(item.branches[i].test, After(chosen).defs)]
  IN IF items = <<>> THEN env ELSE MeaningOf(Tail(items), dir, next)

Meaning(s) == MeaningOf(s.items, s.file[1], [defs |-> NoWords, out |-> <<>>, errors |-> {}, sound |-> TRUE])

-----------------------------------------------------------------------------
(* Reading it                                                               *)

\* loops: macros of it call themselves.
NoSource == [file |-> Nowhere, items |-> <<>>, loops |-> FALSE]
SourceInit == source = NoSource /\ lx = Idle
Begin(s) == source = NoSource /\ source' = s /\ lx' = StartNew(s.file, WrittenFile(s.file, s.items))
SourceNext == LexNext /\ UNCHANGED source

ReadToEnd == source # NoSource /\ lx.end /\ "crashed" \notin lx.errors
\* do_lex() gives the grammar the words that remain when every conditional is
\* its first part that holds, every macro the value of its body, and every
\* file what stands where it is included.  lex.c:696, lex.c:877, lex.c:968
PreprocessesAsWritten ==
  ReadToEnd /\ ~source.loops =>
    LET m == Meaning(source)
    IN m.sound => lx.errors = m.errors /\ [i \in DOMAIN lx.out |-> lx.out[i].s] = m.out

\* A message about a word of a file names the file and the line it stands in,
\* however many lines macros, comments, skipped parts and other files took in
\* front of it.  lex.c:300, lex.c:877
LinesTold ==
  \A i \in DOMAIN lx.out : lx.out[i].stands # Nowhere => lx.out[i].told = lx.out[i].stands

\* Macros that call themselves put no more words into a program than
\* EXPANDMAX and one expansion, and then end with an error.  lex.c:783
Longest == 4
MacroBudget ==
  /\ Len(SelectSeq(lx.out, LAMBDA t : t.stands = Nowhere)) <= EXPANDMAX + Longest
  /\ ReadToEnd /\ source.loops => lx.errors = {"Macro limit exceeded"}

\* Words, their lines and the budget of macros.
SourcesReadRight == PreprocessesAsWritten /\ LinesTold /\ MacroBudget
=============================================================================

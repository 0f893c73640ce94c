-------------------------------- MODULE Texts --------------------------------
(***************************************************************************)
(* The functions of LPC that take texts apart and put them together,       *)
(* against what they are for: regular expressions, sscanf(), saved values. *)
(***************************************************************************)
EXTENDS Library

CONSTANT IndexOf         \* Saving's objects
Exp == INSTANCE RegExp
Scanner == INSTANCE Scan
Saved == INSTANCE Saving

-----------------------------------------------------------------------------
(* Regular expressions: job = [kind, tree, texts]                           *)

\* How a tree is written; what binds weaker stands in parentheses.
Strength(t) == CASE t.op = "or" -> 0 [] t.op = "then" -> 1 [] OTHER -> 2
RECURSIVE Written(_)
Written(t) ==
  LET S == Exp!Sign
      In(sub, strength) == IF Strength(sub) < strength THEN <<S.open>> \o Written(sub) \o <<S.close>>
                           ELSE Written(sub)
  IN CASE t.op = "char" -> IF t.c \in {S.dot, S.esquare} THEN <<S.back, t.c>> ELSE <<t.c>>
       [] t.op = "any" -> <<S.dot>>
       [] t.op = "in" -> <<S.square>> \o t.text \o <<S.esquare>>
       [] t.op = "but" -> <<S.square, S.hat>> \o t.text \o <<S.esquare>>
       [] t.op = "start" -> <<S.hat>>
       [] t.op = "end" -> <<S.dollar>>
       [] t.op = "word" -> <<S.back, S.less>>
       [] t.op = "unword" -> <<S.back, S.greater>>
       [] t.op = "then" -> In(t.a, 1) \o In(t.b, 1)
       [] t.op = "or" -> In(t.a, 0) \o <<S.bar>> \o In(t.b, 0)
       [] t.op = "star" -> In(t.a, 2) \o <<S.star>>

RECURSIVE MayBeEmpty(_)
MayBeEmpty(t) ==
  CASE t.op \in {"char", "any", "in", "but"} -> FALSE
    [] t.op \in {"start", "end", "word", "unword", "star"} -> TRUE
    [] t.op = "then" -> MayBeEmpty(t.a) /\ MayBeEmpty(t.b)
    [] t.op = "or" -> MayBeEmpty(t.a) \/ MayBeEmpty(t.b)
RECURSIVE LoopsEmpty(_)
LoopsEmpty(t) == \/ t.op = "star" /\ (MayBeEmpty(t.a) \/ LoopsEmpty(t.a))
                 \/ t.op \in {"then", "or"} /\ (LoopsEmpty(t.a) \/ LoopsEmpty(t.b))

\* Where a tree that begins at i may end, what is tried first in front.
RECURSIVE Ways(_, _, _)
RECURSIVE FromEach(_, _, _)
FromEach(t, s, ends) ==
  IF ends = <<>> THEN <<>> ELSE Ways(t, s, ends[1]) \o FromEach(t, s, Tail(ends))
Ways(t, s, i) ==
  LET c == Exp!Tok(s, i)
      One(takes) == IF c # 0 /\ takes THEN <<i + 1>> ELSE <<>>
      None(holds) == IF holds THEN <<i>> ELSE <<>>
      word == [j \in 0..(Len(s) - 1) |-> Exp!WordAt(s, j)]
  IN CASE t.op = "char" -> One(c = t.c)
       [] t.op = "any" -> One(TRUE)
       [] t.op = "in" -> One(c \in t.set)
       [] t.op = "but" -> One(c \notin t.set)
       [] t.op = "start" -> None(i = 0)
       [] t.op = "end" -> None(i = Len(s))
       [] t.op = "word" -> None(i = 0 \/ (i < Len(s) /\ ~word[i - 1] /\ word[i]))
       [] t.op = "unword" -> None(i = Len(s) \/ (i > 0 /\ word[i - 1] /\ ~word[i]))
       [] t.op = "then" -> FromEach(t.b, s, Ways(t.a, s, i))
       [] t.op = "or" -> Ways(t.a, s, i) \o Ways(t.b, s, i)
       [] t.op = "star" -> FromEach(t, s, Ways(t.a, s, i)) \o <<i>>

\* regcomp() takes every expression but one that repeats what may be empty,
\* and regexec() finds the leftmost match and there the one tried first; the
\* first character, the anchor and the text that must appear, which let it
\* skip places, and the lookahead behind a * never lose a match.
\* regexp.c:296, regexp.c:766, regexp.c:1029
MatchesFirst ==
  Is("regexp") =>
    LET prog == Exp!RegComp(Written(job.tree), FALSE)
    IN IF LoopsEmpty(job.tree) THEN prog.error
       ELSE /\ ~prog.error
            /\ \A s \in job.texts :
                 LET ways == [i \in 0..Len(s) |-> Ways(job.tree, s, i)]
                     from == {i \in 0..Len(s) : ways[i] # <<>>}
                     first == CHOOSE i \in from : \A j \in from : i <= j
                 IN Exp!RegExec(prog, s) = IF from = {} THEN Exp!NoMatch ELSE <<first, ways[first][1]>>

-----------------------------------------------------------------------------
(* sscanf(): job = [kind, parts, input]; a part is text or a directive.     *)

RECURSIVE FormatOf(_)
FormatOf(parts) ==
  LET p == parts[1]
      L == Scanner!Letter
      Doubled(c) == IF c = L.percent THEN <<c, c>> ELSE <<c>>
  IN IF parts = <<>> THEN <<>>
     ELSE (IF p.op = "text" THEN Joined([i \in DOMAIN p.text |-> [item |-> Doubled(p.text[i])]], <<>>)
           ELSE <<L.percent>> \o (IF p.assign THEN <<>> ELSE <<L.star>>)
                \o (IF p.op = "set" THEN <<L.open>> \o p.written \o <<L.close>> ELSE <<L[p.op]>>))
          \o FormatOf(Tail(parts))

NumberChars == Scanner!Digits \cup {Scanner!Letter.minus}
Span(input, e, chars) ==
  CHOOSE f \in e..Len(input) : /\ \A i \in e..(f - 1) : input[i + 1] \in chars
                               /\ f = Len(input) \/ input[f + 1] \notin chars
\* How far the text of a directive goes, and -1 when it does not fit.  What
\* ends a %s is the next part.
Reach(parts, input, e) ==
  LET p == parts[1]
      next == parts[2]
      from == IF Scanner!At(input, e) = Scanner!Letter.minus THEN e + 1 ELSE e
      places == {f \in e..Len(input) : Occurs(next.text, input, f)}
  IN CASE p.op = "n" -> e
       [] p.op = "c" -> IF e < Len(input) THEN e + 1 ELSE -1
       [] p.op = "set" -> Span(input, e, p.chars)
       [] p.op = "d" -> IF e = Len(input) \/ Scanner!At(input, e) \notin NumberChars THEN -1
                        ELSE LET f == Span(input, from, Scanner!Digits) IN IF f = from THEN e ELSE f
       [] p.op = "s" ->
            IF Len(parts) = 1 THEN Len(input)
            ELSE IF next.op = "text"
                 THEN IF places = {} THEN -1 ELSE CHOOSE f \in places : \A g \in places : f <= g
            ELSE Span(input, e, Scanner!AllChars \ (IF next.op = "d" THEN NumberChars ELSE next.chars))
RECURSIVE Taken(_, _, _)
Taken(parts, input, e) ==
  LET p == parts[1]
      f == Reach(parts, input, e)
  IN IF parts = <<>> THEN <<>>
     ELSE IF p.op = "text"
     THEN IF Occurs(p.text, input, e) THEN Taken(Tail(parts), input, e + Len(p.text)) ELSE <<>>
     ELSE IF f = -1 THEN <<>>
     ELSE <<[span |-> SubSeq(input, e + 1, f), assign |-> p.assign]>> \o Taken(Tail(parts), input, f)

\* sscanf() reads the parts of its format one after another as far as they
\* fit, a %s up to the first place where the next part stands, though it sees
\* only characters; a number has the value it is written with, so that it
\* can be written back.  opcodes.c:583, opcodes.c:644
ScansAsWritten ==
  Is("scan") =>
    LET directives == SelectSeq(job.parts, LAMBDA p : p.op # "text")
        Holds(op, t) == CASE op \in {"s", "set"} -> t.value = t.span
                          [] op = "c" -> <<t.value>> = t.span
                          [] op = "d" -> IF t.span = <<>> THEN t.value = 0
                                         ELSE t.span[1] # Scanner!Letter.zero => Saved!Decimal(t.value) = t.span
                          [] OTHER -> TRUE
        Right(r) ==
          /\ ~r.error
          /\ [i \in DOMAIN r.taken |-> [span |-> r.taken[i].span, assign |-> r.taken[i].assign]]
               = Taken(job.parts, job.input, 0)
          /\ \A i \in DOMAIN r.taken : Holds(directives[i].op, r.taken[i])
    IN Right(Scanner!Sscanf(job.input, FormatOf(job.parts)))

-----------------------------------------------------------------------------
(* Saved values: job = [kind, x, store, style]; [kind, prog, old, new, store] *)

\* A value without its store, down to a depth; what becomes of clones is 0.
\* The entries of lists and mappings have no order.
BagOfItems(items) == {<<items[i], CountIn(items, items[i])>> : i \in DOMAIN items}
RECURSIVE Unfold(_, _, _, _)
Unfold(x, store, depth, back) ==
  LET Part(y) == Unfold(y, store, depth - 1, back)
      items == [i \in DOMAIN store[x.v] |-> Part(store[x.v][i])]
      pairs == [i \in 1..(Len(items) \div 2) |-> <<items[2 * i - 1], items[2 * i]>>]
  IN CASE x.t = Object -> IF back /\ IndexOf[x.v] = <<>> THEN Zero ELSE x
       [] x.t \notin {Pointer, List, Saved!MappingType} -> x
       [] depth = 0 -> [t |-> x.t]
       [] depth > 0 /\ x.t = Pointer -> [t |-> x.t, v |-> items]
       [] depth > 0 /\ x.t = List -> [t |-> x.t, v |-> BagOfItems(items)]
       [] depth > 0 /\ x.t = Saved!MappingType -> [t |-> x.t, v |-> BagOfItems(pairs)]
KeysOf(x, store) == IF x.t = List THEN store[x.v] ELSE Saved!EverySecond(store[x.v], 1)
RECURSIVE Searchable(_, _, _)
Searchable(x, store, depth) ==
  x.t \in {Pointer, List, Saved!MappingType} /\ depth > 0 =>
    /\ x.t # Pointer => Ordered(KeysOf(x, store), AlistCmp)
    /\ \A i \in DOMAIN store[x.v] : Searchable(store[x.v][i], store, depth - 1)

\* decode_value() is the inverse of code_value() in every style, to the last
\* character, for values in values, for the characters that have a meaning in
\* the text, and for a vector of one item that holds itself; clones come back
\* as 0, and lists and mappings in the order a search needs, which need not be
\* the one they were saved in.  (Not for functions of clones, regular
\* expressions, or larger vectors that hold themselves.)  save_objectII.c:267
SavedComesBack ==
  Is("save") =>
    LET Same(r, text) == /\ ~r.error /\ r.t = Len(text)
                         /\ Unfold(r.value, r.store, 4, TRUE) = Unfold(job.x, job.store, 4, TRUE)
                         /\ Searchable(r.value, r.store, 4)
        Read(text) == Same(Saved!DecodeValue(text), text)
    IN Read(Saved!CodeValue(job.x, job.store, job.style))

\* restore_object() gives every variable its value back: one declared without
\* a type always, one with a type if what was saved still has that type, which
\* a 0 in a variable for a string, an array or an object has not; that one and
\* the static ones stay.  save_objectII.c:579
VariablesComeBack ==
  Is("variables") =>
    LET Back(i) == ~job.prog[i].static
                   /\ \/ job.prog[i].rttype = Saved!AnyRtType
                      \/ job.prog[i].rttype = Unfold(job.new[i], job.store, 1, TRUE).t
        Right(r) ==
          /\ ~r.error
          /\ \A i \in DOMAIN job.prog :
               Unfold(r.vals[i], r.store, 4, TRUE)
                 = Unfold(IF Back(i) THEN job.new[i] ELSE job.old[i], job.store, 4, TRUE)
    IN Right(Saved!RestoreVariables(job.prog, job.old, Saved!SaveVariables(job.prog, job.new, job.store), job.store))

\* Texts are split, replaced, matched and scanned as the patterns say.
TextsAsDefined == SplitsAndJoins /\ ReplacesAll /\ MatchesFirst /\ ScansAsWritten

\* What save_object() and code_value() write is what is read back.
SavedReadBack == SavedComesBack /\ VariablesComeBack
=============================================================================

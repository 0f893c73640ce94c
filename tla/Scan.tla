-------------------------------- MODULE Scan --------------------------------
(***************************************************************************)
(* sscanf() of opcodes.c on sequences of characters.  A character is a     *)
(* number; Letter names the ones the format gives a meaning to.  The       *)
(* result holds the text every directive took (span) beside its value.     *)
(***************************************************************************)
EXTENDS Integers, Sequences

Letter == [percent |-> 37, star |-> 42, minus |-> 45, zero |-> 48, nine |-> 57,
           open |-> 91, close |-> 93, hat |-> 94, c |-> 99, d |-> 100, n |-> 110, s |-> 115]
AllChars == 0..255
Digits == Letter.zero..Letter.nine
At(s, i) == IF i < Len(s) THEN s[i + 1] ELSE 0      \* the 0 behind a string
Part(s, from, to) == SubSeq(s, from + 1, to)

\* read_set(): the set and the place of the bracket that closes it, or an error.
RECURSIVE SetItems(_, _, _, _, _)
SetItems(m, cnt, last, chars, error) ==
  IF cnt > Len(m) \/ error THEN [chars |-> chars, at |-> cnt, error |-> TRUE]
  ELSE IF At(m, cnt) = Letter.close THEN [chars |-> chars, at |-> cnt, error |-> cnt >= Len(m)]
  ELSE IF At(m, cnt) = Letter.minus
       THEN IF cnt + 1 >= Len(m) THEN [chars |-> chars, at |-> cnt, error |-> TRUE]
            ELSE IF At(m, cnt + 1) = Letter.close
                 THEN [chars |-> chars \cup {Letter.minus}, at |-> cnt + 1, error |-> FALSE]
                 ELSE SetItems(m, cnt + 2, At(m, cnt + 1), chars \cup (last..At(m, cnt + 1)), FALSE)
       ELSE SetItems(m, cnt + 1, At(m, cnt), chars \cup {At(m, cnt)}, FALSE)
ReadSet(m, cnt) ==
  LET inverted == At(m, cnt) = Letter.hat
      from == IF inverted THEN cnt + 1 ELSE cnt
      Meant(items) == IF inverted THEN [items EXCEPT !.chars = AllChars \ @] ELSE items
  IN Meant(IF At(m, from) = Letter.close
           THEN SetItems(m, from + 1, Letter.close, {Letter.close}, from + 1 >= Len(m))
           ELSE SetItems(m, from, 0, {}, from >= Len(m)))

RECURSIVE SpanOf(_, _, _)
SpanOf(input, eye, chars) ==
  IF eye < Len(input) /\ input[eye + 1] \in chars THEN SpanOf(input, eye + 1, chars) ELSE eye

\* strtol() with base 0: a sign, then octal after a 0, decimal otherwise.
RECURSIVE NumberFrom(_, _, _, _)
NumberFrom(input, eye, base, value) ==
  IF eye < Len(input) /\ input[eye + 1] \in Letter.zero..(Letter.zero + base - 1)
  THEN NumberFrom(input, eye + 1, base, value * base + input[eye + 1] - Letter.zero)
  ELSE [value |-> value, eye |-> eye]
Strtol(input, eye) ==
  LET minus == input[eye + 1] = Letter.minus
      from == IF minus THEN eye + 1 ELSE eye
      Read(n) == IF n.eye = from THEN [value |-> 0, eye |-> eye]
                 ELSE [n EXCEPT !.value = IF minus THEN -@ ELSE @]
  IN Read(NumberFrom(input, from, IF At(input, from) = Letter.zero THEN 8 ELSE 10, 0))

\* Literal text up to the next directive; two percents stand for one.
RECURSIVE Literal(_, _, _, _)
Literal(input, m, cnt, eye) ==
  LET double == At(m, cnt) = Letter.percent /\ At(m, cnt + 1) = Letter.percent
      at == IF double THEN cnt + 1 ELSE cnt
  IN IF cnt >= Len(m) THEN [stop |-> TRUE, cnt |-> cnt, eye |-> eye]
     ELSE IF At(m, cnt) = Letter.percent /\ ~double THEN [stop |-> FALSE, cnt |-> cnt, eye |-> eye]
     ELSE IF eye >= Len(input) \/ At(input, eye) # At(m, at) THEN [stop |-> TRUE, cnt |-> at, eye |-> eye]
     ELSE Literal(input, m, at + 1, eye + 1)

\* What ends a %s: the set of the directive that follows, or text to look for.
RECURSIVE Ending(_, _, _)
Ending(m, cnt, s) ==
  LET star == IF At(m, s + 1) = Letter.star THEN s + 2 ELSE s + 1
      Text(e) == [kind |-> "text", until |-> e, double |-> \E i \in (cnt + 1)..(e - 1) : At(m, i) = Letter.percent]
      Plain == Text(CHOOSE e \in (cnt + 1)..Len(m) :
                      /\ \A i \in (cnt + 1)..(e - 1) : At(m, i) = Letter.percent => At(m, i + 1) = Letter.percent
                      /\ e < Len(m) => At(m, e) = Letter.percent /\ At(m, e + 1) # Letter.percent)
      Other(chars) == [kind |-> "set", chars |-> AllChars \ chars]
      Set(set) == IF set.error THEN [kind |-> "error"] ELSE Other(set.chars)
  IN IF At(m, s) # Letter.percent THEN Plain
     ELSE CASE At(m, star) = Letter.n -> Ending(m, cnt, star + 1)
            [] At(m, star) = Letter.s -> [kind |-> "error"]
            [] At(m, star) = Letter.d -> Other(Digits \cup {Letter.minus})
            [] At(m, star) = Letter.open -> Set(ReadSet(m, star + 1))
            [] OTHER -> Plain

FindLast(input, eye, text) ==
  LET places == {e \in eye..(Len(input) - Len(text)) : Part(input, e, e + Len(text)) = text}
  IN IF places = {} THEN -1 ELSE CHOOSE e \in places : \A f \in places : f <= e
\* The first place of the text; one with two percents in a row is never found.
Find(input, eye, text) ==
  LET places == {e \in eye..(Len(input) - Len(text)) : Part(input, e, e + Len(text)) = text}
  IN IF places = {} THEN -1 ELSE CHOOSE e \in places : \A f \in places : e <= f

\* One directive at m[cnt]: where input and format go on, and its value.
Took(input, from, to, eye, cnt, value) ==
  [stop |-> FALSE, error |-> FALSE, span |-> Part(input, from, to), value |-> value, eye |-> eye, cnt |-> cnt]
Stopped(error) == [stop |-> TRUE, error |-> error]
Directive(input, m, cnt, eye) ==
  LET Upto(to, next) == Took(input, eye, to, to, next, Part(input, eye, to))
      Set(chars, next) == Upto(SpanOf(input, eye, chars), next)
      Bracket(set) == IF set.error THEN Stopped(TRUE) ELSE Set(set.chars, set.at)
      Number(n) == Took(input, eye, n.eye, n.eye, cnt, n.value)
      Text(found, until) ==
        IF found < 0 THEN Stopped(FALSE)
        ELSE Took(input, eye, found, found + until - (cnt + 1), until - 1, Part(input, eye, found))
      String(end) ==
        CASE end.kind = "error" -> Stopped(TRUE)
          [] end.kind = "set" -> Set(end.chars, cnt)
          [] end.kind = "text" ->
               IF end.double THEN Stopped(FALSE)
               ELSE Text(Find(input, eye, Part(m, cnt + 1, end.until)), end.until)
  IN CASE At(m, cnt) = Letter.c ->
            IF eye >= Len(input) THEN Stopped(FALSE)
            ELSE Took(input, eye, eye + 1, eye + 1, cnt, input[eye + 1])
       [] At(m, cnt) = Letter.d ->
            IF eye >= Len(input) \/ At(input, eye) \notin Digits \cup {Letter.minus} THEN Stopped(FALSE)
            ELSE Number(Strtol(input, eye))
       [] At(m, cnt) = Letter.n -> Took(input, eye, eye, eye, cnt, eye)
       [] At(m, cnt) = Letter.open -> Bracket(ReadSet(m, cnt + 1))
       [] At(m, cnt) = Letter.s ->
            IF cnt + 1 >= Len(m) THEN Took(input, eye, Len(input), eye, cnt, Part(input, eye, Len(input)))
            ELSE String(Ending(m, cnt, cnt + 1))
       [] OTHER -> Stopped(TRUE)

RECURSIVE ScanFrom(_, _, _, _, _)
ScanFrom(input, m, cnt, eye, taken) ==
  LET Taking(d, star) ==
        IF d.stop THEN [taken |-> taken, error |-> d.error]
        ELSE ScanFrom(input, m, d.cnt + 1, d.eye,
                      Append(taken, [span |-> d.span, value |-> d.value, assign |-> ~star]))
      Percent(lit, at, star) ==
        IF lit.stop THEN [taken |-> taken, error |-> FALSE]
        ELSE IF at >= Len(m) THEN [taken |-> taken, error |-> TRUE]
        ELSE Taking(Directive(input, m, at, lit.eye), star)
      Behind(lit, star) == Percent(lit, IF star THEN lit.cnt + 2 ELSE lit.cnt + 1, star)
      Text(lit) == Behind(lit, At(m, lit.cnt + 1) = Letter.star)
  IN Text(Literal(input, m, cnt, eye))
Sscanf(input, m) == ScanFrom(input, m, 0, 0, <<>>)
=============================================================================

------------------------------- MODULE Saving -------------------------------
(***************************************************************************)
(* save_objectII.c: a value as text and back.  Vectors lie in a store, so  *)
(* that a value may hold itself: store[id] is the sequence of the items of *)
(* an array or list, or the keys and values of a mapping in turn.  Objects *)
(* are numbers; Index gives the obj_index of those that are no clones.     *)
(***************************************************************************)
EXTENDS Alists

CONSTANT IndexOf         \* [object -> obj_index, empty for a clone]
Chars == INSTANCE Scan

MappingType == 2
RegExpType == 6
Mark == [bs |-> 8, tab |-> 9, newline |-> 10, space |-> 32, quote |-> 34, hash |-> 35, open |-> 40,
         close |-> 41, comma |-> 44, minus |-> 45, zero |-> 48, nine |-> 57, colon |-> 58, great |-> 62,
         H |-> 72, O |-> 79, R |-> 82, back |-> 92, b |-> 98, n |-> 110, t |-> 116]
Bracket == [t \in {Pointer, List, MappingType} |->
              CASE t = Pointer -> <<123, 125>> [] t = List -> <<60, 62>> [] OTHER -> <<91, 93>>]
WordChars == (48..57) \cup (65..90) \cup (97..122) \cup {95}

RECURSIVE Decimal(_)
Decimal(n) == IF n < 0 THEN <<Mark.minus>> \o Decimal(-n)
              ELSE IF n < 10 THEN <<Mark.zero + n>> ELSE Decimal(n \div 10) \o Decimal(n % 10)

EscapeQuoteOnly(c, style) == IF c = Mark.quote THEN <<Mark.back, c>> ELSE <<c>>
\* save_string() in its three styles.
Escape(c, style) ==
  CASE style = "line" /\ c = Mark.newline -> <<Mark.back, Mark.n>>
    [] style = "line" /\ c = Mark.tab -> <<Mark.back, Mark.t>>
    [] style = "line" /\ c = Mark.bs -> <<Mark.back, Mark.b>>
    [] c \in {Mark.quote, Mark.back} \/ (style = "old" /\ c = Mark.newline) -> <<Mark.back, c>>
    [] OTHER -> <<c>>
RECURSIVE Escaped(_, _)
Escaped(s, style) == IF s = <<>> THEN <<>> ELSE Escape(s[1], style) \o Escaped(Tail(s), style)
SaveString(s, style) ==
  IF style = "binary" THEN Decimal(Len(s)) \o <<Mark.H>> \o s
  ELSE <<Mark.quote>> \o Escaped(s, style) \o <<Mark.quote>>

SaveObjectDesc(ob, style) ==
  IF IndexOf[ob] = <<>> THEN <<Mark.O, Mark.open>> \o Decimal(ob) \o <<Mark.close>>
  ELSE <<Mark.H, Mark.open>> \o SaveString(IndexOf[ob], style) \o <<Mark.close>>

\* A vector inside itself is a # and how far outside it is; inside lists the
\* vectors around, the nearest first.
Size(x, store) == IF x.t = MappingType THEN Len(store[x.v]) \div 2 ELSE Len(store[x.v])
RECURSIVE SaveItems(_, _, _, _, _)
RECURSIVE SaveValue(_, _, _, _)
SaveValue(x, store, style, inside) ==
  LET again == {i \in DOMAIN inside : inside[i] = x.v}
      first == CHOOSE i \in again : \A j \in again : i <= j
  IN CASE x.t = String -> SaveString(x.v, style)
       [] x.t = Number -> Decimal(x.v)
       [] x.t = RegExpType -> <<Mark.R, Mark.open>> \o SaveString(x.v, style) \o <<Mark.close>>
       [] x.t = Object -> SaveObjectDesc(x.v, style)
       [] x.t = Function -> SaveObjectDesc(x.v.ob, style) \o <<Mark.minus, Mark.great>> \o x.v.name
       [] OTHER ->
            <<Mark.open>> \o Decimal(Size(x, store)) \o <<Bracket[x.t][1]>>
            \o (IF again # {} THEN <<Mark.hash>> \o Decimal(first - 1)
                ELSE SaveItems(x, store, style, <<x.v>> \o inside, 1))
            \o <<Bracket[x.t][2], Mark.close>>
SaveItems(x, store, style, inside, i) ==
  IF i > Len(store[x.v]) THEN <<>>
  ELSE (IF i = 1 THEN <<>> ELSE IF x.t = MappingType /\ i % 2 = 0 THEN <<Mark.colon>> ELSE <<Mark.comma>>)
       \o SaveValue(store[x.v][i], store, style, inside) \o SaveItems(x, store, style, inside, i + 1)

\* f_code_value()
CodeValue(x, store, style) == SaveValue(x, store, style, <<>>)

-----------------------------------------------------------------------------
(* r: where the text goes on, the value, the store, and whether it failed.  *)

At(s, t) == Chars!At(s, t)
Got(t, value, store) == [t |-> t, value |-> value, store |-> store, error |-> FALSE]
Failed(r) == [r EXCEPT !.error = TRUE]
Digits == Mark.zero..Mark.nine
StrTol(s, t) ==
  LET from == IF At(s, t) = Mark.minus THEN t + 1 ELSE t
      Read(n) == IF n.eye = from THEN [value |-> 0, eye |-> t]
                 ELSE [n EXCEPT !.value = IF from # t THEN -@ ELSE @]
  IN Read(Chars!NumberFrom(s, from, 10, 0))

\* A backslash and two digits stay two characters; octal ones are left out.
RECURSIVE RestoreString(_, _, _)
RestoreString(s, t, buf) ==
  LET d == At(s, t + 1)
      plain == CASE d = Mark.n -> Mark.newline [] d = Mark.t -> Mark.tab [] d = Mark.b -> Mark.bs [] OTHER -> d
  IN IF At(s, t) = Mark.quote THEN [t |-> t + 1, buf |-> buf, error |-> FALSE]
     ELSE IF At(s, t) = 0 \/ (At(s, t) = Mark.back /\ d = 0) THEN [t |-> t, buf |-> buf, error |-> TRUE]
     ELSE IF At(s, t) = Mark.back THEN RestoreString(s, t + 2, Append(buf, plain))
     ELSE RestoreString(s, t + 1, Append(buf, At(s, t)))

\* f_cast_to_object() of a name; 0 stands for its error.
Named(name) == {ob \in DOMAIN IndexOf : name # <<>> /\ IndexOf[ob] = name}
CastToObject(x) == IF x.t = String /\ Named(x.v) # {} THEN Val(Object, CHOOSE ob \in Named(x.v) : TRUE) ELSE Zero

\* order_alist() of a list or mapping that was read.
RECURSIVE InTurn(_, _)
InTurn(keys, vals) == IF keys = <<>> THEN <<>> ELSE <<keys[1], vals[1]>> \o InTurn(Tail(keys), Tail(vals))
EverySecond(items, from) == [i \in 1..(Len(items) \div 2) |-> items[2 * i - 2 + from]]
InOrder(type, items) ==
  CASE type = Pointer -> items
    [] type = List -> MkList(items)
    [] type = MappingType -> LET Paired(m) == InTurn(m.keys.item, m.vals.item)
                             IN Paired(OrderAlist(EverySecond(items, 1), EverySecond(items, 2)))

\* outer lists the values around; the vector of a sized one is there from the
\* start, that of an unsized one is made from the stack in the end.
RECURSIVE Restore(_, _, _, _)
RECURSIVE Fill(_, _, _, _, _)
Fill(s, r, type, i, outer) ==
  LET id == outer[1].v
      key == type = MappingType /\ i % 2 = 1
      On(item, more) == IF item.error \/ (key /\ ~more) THEN Failed(item)
                        ELSE Fill(s, [item EXCEPT !.store[id][i] = item.value, !.t = IF more THEN @ + 1 ELSE @],
                                  type, i + 1, outer)
      Read(item) == On(item, At(s, item.t) = (IF key THEN Mark.colon ELSE Mark.comma))
  IN IF r.error THEN r
     ELSE IF i > Len(r.store[id])
     THEN IF At(s, r.t) # Bracket[type][2] \/ At(s, r.t + 1) # Mark.close THEN Failed(r)
          ELSE Got(r.t + 2, Val(type, id), [r.store EXCEPT ![id] = InOrder(type, @)])
     ELSE Read(Restore(s, r.t, r.store, outer))
RECURSIVE Collect(_, _, _, _, _)
Collect(s, r, type, items, outer) ==
  LET value == type = MappingType /\ Len(items) % 2 = 1
      key == type = MappingType /\ ~value
      On(item, more) == IF item.error \/ (key /\ ~more) THEN Failed(item)
                        ELSE Collect(s, [item EXCEPT !.t = IF more THEN @ + 1 ELSE @],
                                     type, Append(items, item.value), outer)
      Read(item) == On(item, At(s, item.t) = (IF key THEN Mark.colon ELSE Mark.comma))
  IN IF r.error \/ At(s, r.t) = 0 THEN Failed(r)
     ELSE IF At(s, r.t) = Bracket[type][2] /\ ~value
     THEN Got(IF At(s, r.t + 1) = Mark.close THEN r.t + 2 ELSE r.t + 1, Val(type, Len(r.store) + 1),
              Append(r.store, InOrder(type, items)))
     ELSE Read(Restore(s, r.t, r.store, outer))

RestoreVector(s, t, store, outer) ==
  LET sized == At(s, t) \in Digits
      In(type, end, room) ==
        IF sized THEN Fill(s, Got(end, Zero, room), type, 1, <<Val(type, Len(room))>> \o outer)
        ELSE Collect(s, Got(t + 1, Zero, store), type, <<>>, <<Zero>> \o outer)
      Open(type, size) == In(type, size.eye + 1,
                             Append(store, Zeros(IF type = MappingType THEN 2 * size.value ELSE size.value)))
      Read(size, types) == IF types = {} THEN Got(IF sized THEN size.eye + 1 ELSE t, Zero, store)
                           ELSE Open(CHOOSE k \in types : TRUE, size)
      Sized(size) == Read(size, {k \in DOMAIN Bracket : Bracket[k][1] = At(s, size.eye)})
  IN Sized(StrTol(s, t))

RestoreObject(s, t, store, outer) ==
  LET Wrong == Failed(Got(t, Zero, store))
      Fun(ob, from, end) == Got(end, Val(Function, [ob |-> ob.v, name |-> SubSeq(s, from + 1, end)]), store)
      Word(from) == CHOOSE e \in from..Len(s) : /\ At(s, e) \notin WordChars
                                                 /\ \A f \in from..(e - 1) : At(s, f) \in WordChars
      Cast(name, ob) ==
        IF ob = Zero THEN Wrong
        ELSE IF At(s, name.t + 1) # Mark.minus THEN Got(name.t + 1, ob, store)
        ELSE IF At(s, name.t + 2) # Mark.great THEN Wrong
        ELSE Fun(ob, name.t + 3, Word(name.t + 3))
      Read(name) == IF name.error \/ At(s, name.t) # Mark.close THEN Wrong ELSE Cast(name, CastToObject(name.value))
  IN IF At(s, t + 1) # Mark.open THEN Wrong ELSE Read(Restore(s, t + 2, store, outer))

Restore(s, t, store, outer) ==
  LET c == At(s, t)
      Wrong == Failed(Got(t, Zero, store))
      Around(n) == IF n.value \notin 0..(Len(outer) - 1) THEN Wrong ELSE Got(n.eye, outer[n.value + 1], store)
      Digit(n) ==
        IF At(s, n.eye) = Mark.H
        THEN Got(n.eye + 1 + n.value, Val(String, SubSeq(s, n.eye + 2, n.eye + 1 + n.value)), store)
        ELSE Got(n.eye, Num(n.value), store)
      Clone(end) == IF At(s, t + 1) # Mark.open \/ At(s, end) # Mark.close THEN Wrong ELSE Got(end + 1, Zero, store)
      Text(text) == IF text.error THEN Wrong ELSE Got(text.t, Val(String, text.buf), store)
  IN CASE c = Mark.hash -> Around(StrTol(s, t + 1))
       [] c \in Digits \cup {Mark.minus} -> Digit(StrTol(s, t))
       [] c = Mark.R -> Wrong          \* the cast works on a 0
       [] c = Mark.O -> Clone(Chars!SpanOf(s, t + 2, Digits))
       [] c = Mark.H -> RestoreObject(s, t, store, outer)
       [] c = Mark.quote -> Text(RestoreString(s, t + 1, <<>>))
       [] c = Mark.open -> RestoreVector(s, t + 1, store, outer)
       [] OTHER -> Got(t, Zero, store)

\* f_decode_value(): a text with no vector around it
DecodeValue(s) == Restore(s, 0, <<>>, <<>>)

-----------------------------------------------------------------------------
(* save_object() and restore_object(): prog lists the variables, each with  *)
(* its name, the type it is declared with and whether it is static; a       *)
(* declared one is read back only if the type is still the same.            *)

AnyRtType == 255
RECURSIVE SaveFrom(_, _, _, _)
SaveFrom(prog, vals, store, i) ==
  IF i > Len(prog) THEN <<>>
  ELSE (IF prog[i].static THEN <<>>
        ELSE prog[i].name \o <<Mark.space>> \o SaveValue(vals[i], store, "binary", <<>>) \o <<Mark.newline>>)
       \o SaveFrom(prog, vals, store, i + 1)
SaveVariables(prog, vals, store) == SaveFrom(prog, vals, store, 1)

AcceptsAny(status, x) == ~status.static
Accepts(status, x) == ~status.static /\ status.rttype \in {AnyRtType, x.t}
RECURSIVE RestoreFrom(_, _, _, _, _)
RestoreFrom(prog, vals, s, t, store) ==
  LET Matching(space) == {i \in DOMAIN prog : prog[i].name = SubSeq(s, t + 1, space)}
      FindStatus(found) == CHOOSE i \in found : \A j \in found : i <= j
      Assigned(found, value) ==
        IF found # {} /\ Accepts(prog[FindStatus(found)], value) THEN [vals EXCEPT ![FindStatus(found)] = value]
        ELSE vals
      On(r, space) ==
        IF r.error THEN [vals |-> vals, store |-> store, error |-> TRUE]
        ELSE RestoreFrom(prog, Assigned(Matching(space), r.value), s,
                         IF At(s, r.t) = Mark.newline THEN r.t + 1 ELSE r.t, r.store)
      Line(spaces) ==
        IF spaces = {} THEN [vals |-> vals, store |-> store, error |-> TRUE]
        ELSE LET space == CHOOSE e \in spaces : \A f \in spaces : e <= f
             IN On(Restore(s, space + 1, store, <<>>), space)
  IN IF At(s, t) = 0 THEN [vals |-> vals, store |-> store, error |-> FALSE]
     ELSE IF At(s, t) = Mark.newline THEN RestoreFrom(prog, vals, s, t + 1, store)
     ELSE Line({e \in t..(Len(s) - 1) : s[e + 1] = Mark.space})
RestoreVariables(prog, vals, s, store) == RestoreFrom(prog, vals, s, 0, store)
=============================================================================

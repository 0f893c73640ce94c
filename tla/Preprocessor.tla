---------------------------- MODULE Preprocessor ----------------------------
(***************************************************************************)
(* What lex.c does to a file before the grammar sees it: macros, included  *)
(* files and conditional parts, and the line numbers it keeps meanwhile.   *)
(* A text is a sequence of tokens; a token knows the file and the line it  *)
(* stands in, or nothing when a macro or a directive put it there.         *)
(* lvl is what do_skip() counts: 0 while text is read.                     *)
(***************************************************************************)
EXTENDS Integers, Sequences, FiniteSets
LOCAL INSTANCE SequencesExt
LOCAL INSTANCE Bitwise

CONSTANTS EXPANDMAX,     \* tokens that macros may put into one program
          Files,         \* <<directory, name>> to tokens
          IncludeDirs,   \* inc_list
          Efuns

VARIABLE lx
lexVars == lx

Nowhere == <<>>
Pushed(words) == [i \in DOMAIN words |-> [s |-> words[i], at |-> Nowhere]]
NewLine == Pushed(<<"\n">>)[1]
White == {" ", "\n"}
Directives == {"#line", "#include", "#if", "#ifdef", "#ifndef", "#endif", "#else", "#elif",
               "#undef", "#define", "#pragma"}
Binary == <<{"||"}, {"&&"}, {"|"}, {"^"}, {"&"}, {"==", "!="}, {"<", ">", ">=", "<="},
            {"<<", ">>"}, {"+", "-"}, {"*", "/", "%"}>>
Signs == UNION {Binary[l] : l \in DOMAIN Binary} \cup White \cup Directives
         \cup {"(", ")", ",", ";", "!", "~", "?", ":", "[", "]", "\"", "\\", "/*", "*/", "//"}
Numbers == [s \in {"0", "1", "2", "3", "4"} |-> CASE s = "0" -> 0 [] s = "1" -> 1 [] s = "2" -> 2
                                                [] s = "3" -> 3 [] s = "4" -> 4]
IsWord(s) == s \notin Signs
IsIdentifier(s) == IsWord(s) /\ s \notin DOMAIN Numbers

-----------------------------------------------------------------------------
(* Input                                                                    *)

Lines(toks) == Cardinality({i \in DOMAIN toks : toks[i].s = "\n"})
Look(x) == IF x.input = <<>> THEN "EOF" ELSE x.input[1].s
GetC(x, n) == [x EXCEPT !.input = SubSeq(@, n + 1, Len(@)), !.line = @ + Lines(SubSeq(x.input, 1, n))]
UngetStr(x, toks) == [x EXCEPT !.input = toks \o @, !.line = @ - Lines(toks)]
Before(x, stops) == CHOOSE n \in 0..Len(x.input) :
                         /\ \A i \in 1..n : x.input[i].s \notin stops
                         /\ n = Len(x.input) \/ x.input[n + 1].s \in stops
SkipUpto(x, s) == GetC(x, Before(x, {s}))
SkipWhite(x) == GetC(x, Before(x, {x.input[i].s : i \in DOMAIN x.input} \ White))
SkipComment(x) == LET n == Before(x, {"*/"})
                  IN GetC(x, IF n = Len(x.input) THEN n ELSE n + 1)
YyError(x, what) == [x EXCEPT !.errors = @ \cup {what}]

-----------------------------------------------------------------------------
(* Macros                                                                   *)

DoDefine(x) ==
  LET y == SkipWhite(x)
      name == Look(y)
      listed == Len(y.input) > 1 /\ y.input[2].s = "("
      close == IF listed THEN Before(y, {")"}) + 1 ELSE 1
      args == SelectSeq([i \in 1..(close - 1) |-> y.input[i + 1].s], LAMBDA t : IsWord(t))
      z == GetC(y, close)
      \* a backslash takes the end of its line away
      joins == {i \in 1..(Len(z.input) - 1) : z.input[i].s = "\\" /\ z.input[i + 1].s = "\n"}
      end == CHOOSE n \in 0..Len(z.input) :
               /\ \A i \in 1..n : z.input[i].s # "\n" \/ i - 1 \in joins
               /\ n = Len(z.input) \/ (z.input[n + 1].s = "\n" /\ n \notin joins)
      body == [i \in 1..end |-> IF i \in joins \/ i - 1 \in joins THEN <<>> ELSE <<z.input[i].s>>]
      done == GetC(z, end)
  IN IF name \in DOMAIN x.defines THEN YyError(done, "Redefining")
     ELSE [done EXCEPT !.defines =
             [n \in DOMAIN @ \cup {name} |->
                IF n = name THEN [args |-> args, parts |-> FlattenSeq(body) \o <<" ">>] ELSE @[n]]]

RECURSIVE CallArgs(_, _, _, _, _)
\* The arguments behind a parenthesis; the last of args is being read.
CallArgs(toks, i, parlvl, quote, args) ==
  LET s == toks[i].s
      grown == [args EXCEPT ![Len(args)] = Append(@, s)]
      Level == IF quote THEN parlvl ELSE IF s = "(" THEN parlvl + 1 ELSE IF s = ")" THEN parlvl - 1 ELSE parlvl
  IN IF i > Len(toks) THEN [end |-> 0, args |-> args]
     ELSE IF Level = 0 THEN [end |-> i, args |-> args]
     ELSE IF s = "," /\ ~quote /\ parlvl = 1 THEN CallArgs(toks, i + 1, parlvl, quote, Append(args, <<>>))
     ELSE CallArgs(toks, i + 1, Level, quote # (s = "\""), grown)

Filling(d, args) ==
  FlattenSeq([i \in DOMAIN d.parts |->
    LET params == {k \in DOMAIN d.args : d.args[k] = d.parts[i]}
    IN IF params = {} THEN <<d.parts[i]>> ELSE args[CHOOSE k \in params : \A l \in params : k <= l]])

\* Mutant: an expansion counts once, however long it is.
ExpandDefineCheaply(x, name) ==
  LET d == x.defines[name]
      part == Filling(d, [i \in DOMAIN d.args |-> <<>>])
  IN IF x.nexpands > EXPANDMAX THEN [x |-> YyError(x, "Macro limit exceeded"), ok |-> FALSE]
     ELSE [x |-> [UngetStr(SkipWhite(x), Pushed(part)) EXCEPT !.nexpands = @ + 1], ok |-> TRUE]
\* The word name has been read: what stands in its place comes next in the
\* input, or the word stays a word.
ExpandDefine(x, name) ==
  LET d == x.defines[name]
      Fails(w, what) == [x |-> YyError(w, what), ok |-> FALSE]
      Given(z, part) == [x |-> [UngetStr(z, Pushed(part)) EXCEPT !.nexpands = @ + Len(part)], ok |-> TRUE]
      Called(z, args) == IF Len(args) # Len(d.args) THEN Fails(z, "Wrong number of arguments")
                         ELSE Given(z, Filling(d, args))
      Closed(from, read) ==
        IF read.end = 0 THEN Fails(GetC(from, Len(from.input)), "Unexpected end of file")
        ELSE Called(GetC(from, read.end),
                    IF d.args = <<>> /\ read.args = <<<<>>>> THEN <<>> ELSE read.args)
      Open(from) == Closed(from, CallArgs(from.input, 1, 1, FALSE, <<<<>>>>))
      Behind(y) == IF Look(y) = "(" THEN Open(SkipWhite(GetC(y, 1))) ELSE Called(y, <<>>)
  IN IF x.nexpands > EXPANDMAX THEN Fails(x, "Macro limit exceeded") ELSE Behind(SkipWhite(x))

-----------------------------------------------------------------------------
(* #include                                                                 *)

\* Mutant: it comes back to the line of the directive.
HandleIncludeSameLine(x, name) ==
  LET f == <<x.file[1], name>>
  IN IF f \notin DOMAIN Files THEN YyError(x, "Couldn't find file to include")
     ELSE [x EXCEPT !.input = <<NewLine>> \o Files[f]
                              \o <<NewLine, [s |-> "#line", at |-> <<x.file, x.line>>]>> \o @,
                    !.file = f, !.line = 0]
HandleInclude(x, name) ==
  LET dirs == <<x.file[1]>> \o IncludeDirs
      found == {i \in DOMAIN dirs : <<dirs[i], name>> \in DOMAIN Files}
      f == <<dirs[CHOOSE i \in found : \A j \in found : i <= j], name>>
  IN IF found = {} THEN YyError(x, "Couldn't find file to include")
     ELSE [x EXCEPT !.input = <<NewLine>> \o Files[f]
                              \o <<NewLine, [s |-> "#line", at |-> <<x.file, x.line + 1>>]>> \o @,
                    !.file = f, !.line = 0]

-----------------------------------------------------------------------------
(* #if: a name counts 0, also that of a macro, for buf is no shared string   *)

RECURSIVE LowLex(_)
LowLex(x) ==
  LET t == Look(x)
      y == GetC(x, 1)
      Asked(holds) == LowLex(UngetStr(GetC(SkipWhite(y), 3), Pushed(IF holds THEN <<"1">> ELSE <<"0">>)))
      word == SkipWhite(y).input[2].s
  IN CASE t \in {"\n", "EOF"} -> [x EXCEPT !.lookahead = t]
       [] t = " " -> LowLex(y)
       [] t = "defined" -> Asked(word \in DOMAIN x.defines)
       [] t = "efun" -> Asked(word \in Efuns)
       [] t \notin {"\n", "EOF", " ", "defined", "efun"} ->
            IF IsIdentifier(t) THEN LowLex(UngetStr(y, Pushed(<<"0">>))) ELSE [y EXCEPT !.lookahead = t]

Truth(b) == IF b THEN 1 ELSE 0
\* calc5() calls f_and() too.
Apply(op, a, b) ==
  CASE op = "||" -> IF a # 0 THEN a ELSE b
    [] op = "&&" -> IF a = 0 THEN a ELSE b
    [] op = "|" -> a | b
    [] op \in {"&", "^"} -> a & b
    [] op = "==" -> Truth(a = b)
    [] op = "!=" -> Truth(a # b)
    [] op = "<" -> Truth(a < b)
    [] op = ">" -> Truth(a > b)
    [] op = ">=" -> Truth(a >= b)
    [] op = "<=" -> Truth(a <= b)
    [] op = "<<" -> a * 2 ^ b
    [] op = ">>" -> a \div 2 ^ b
    [] op = "+" -> a + b
    [] op = "-" -> a - b
    [] op = "*" -> a * b
    [] op = "/" -> a \div b
    [] op = "%" -> a % b

RECURSIVE CalcLevel(_, _)
RECURSIVE CalcRest(_, _)
CalcRest(l, r) ==
  LET Applied(right) == CalcRest(l, [x |-> right.x, v |-> Apply(r.x.lookahead, r.v, right.v)])
  IN IF r.x.lookahead \notin Binary[l] THEN r ELSE Applied(CalcLevel(l + 1, LowLex(r.x)))
\* A line that ends ends twice; what is left on it is thrown away.
Calc1(x) ==
  LET Ended(r) ==
        IF r.x.lookahead # "\n"
        THEN [r EXCEPT !.x = YyError(SkipUpto(@, "\n"), "Extra characters after #if expression")]
        ELSE [r EXCEPT !.x = UngetStr(@, <<NewLine>>)]
  IN Ended(CalcLevel(1, x))
\* calc2() to calcA(), one for each row of Binary, then calcB() and calcC().
CalcLevel(l, x) ==
  LET c == x.lookahead
  IN IF l <= Len(Binary) THEN CalcRest(l, CalcLevel(l + 1, x))
     ELSE CASE c = "!" -> [CalcLevel(l, LowLex(x)) EXCEPT !.v = Truth(@ = 0)]
            [] c = "~" -> [CalcLevel(l, LowLex(x)) EXCEPT !.v = -1 - @]
            [] c = "(" -> [Calc1(LowLex(x)) EXCEPT !.x = LowLex(@)]
            [] c \in DOMAIN Numbers -> [x |-> LowLex(x), v |-> Numbers[c]]
Calc(x) == Calc1(LowLex(x))

-----------------------------------------------------------------------------
(* do_skip()                                                                *)

DoSkip(x) == [x EXCEPT !.lvl = 1]

AtDirective(x) == Len(x.input) > 1 /\ x.input[1].s = "\n" /\ x.input[2].s \in Directives
\* Mutant: conditionals in what is skipped are not counted.
SkipFlat(x) ==
  LET t == x.input[2].s
      y == GetC(x, 2)
  IN CASE t = "#endif" -> [y EXCEPT !.lvl = @ - 1]
       [] t = "#else" -> IF y.lvl = 1 THEN [y EXCEPT !.lvl = 0] ELSE y
       [] OTHER -> y
SkipDirective(x) ==
  LET t == x.input[2].s
      y == GetC(x, 2)
      Tested(c) == IF c.v # 0 THEN [c.x EXCEPT !.lvl = 0] ELSE c.x
  IN CASE t \in {"#if", "#ifdef", "#ifndef"} -> [y EXCEPT !.lvl = @ + 1]
       [] t = "#endif" -> [y EXCEPT !.lvl = @ - 1]
       [] t = "#else" -> IF y.lvl = 1 THEN [y EXCEPT !.lvl = 0] ELSE y
       [] t = "#elif" -> IF y.lvl # 1 THEN y ELSE Tested(Calc(y))
       [] OTHER -> y

Skipping == lx.lvl > 0 /\ ~lx.end
SkipSome ==
  /\ Skipping /\ lx.input # <<>>
  /\ lx' = CASE AtDirective(lx) -> SkipDirective(lx)
             [] Look(lx) = "/*" -> SkipComment(lx)
             [] Look(lx) = "\\" -> GetC(lx, 2)
             [] OTHER -> GetC(lx, 1)
SkipEnds == Skipping /\ lx.input = <<>>
            /\ lx' = [YyError(lx, "Unexpected end of file while skipping") EXCEPT !.lvl = 0]

-----------------------------------------------------------------------------
(* do_lex()                                                                 *)

Reading == lx.lvl = 0 /\ ~lx.end /\ lx.input # <<>>
Told(x, n) == [i \in 1..n |-> [s |-> x.input[i].s, stands |-> x.input[i].at, told |-> <<x.file, x.line>>]]
Deliver(x, n) == [GetC(x, n) EXCEPT !.out = @ \o Told(x, n)]

Directive ==
  /\ Reading /\ AtDirective(lx)
  /\ LET t == lx.input[2]
         y == GetC(lx, 2)
         z == SkipWhite(y)
         Tested(c) == IF c.v = 0 THEN DoSkip(c.x) ELSE c.x
         known == Look(z) \in DOMAIN lx.defines
     IN lx' = CASE t.s = "#line" -> [y EXCEPT !.file = t.at[1], !.line = t.at[2] - 1]
                [] t.s = "#include" -> HandleInclude(GetC(z, 3), z.input[2].s)
                [] t.s = "#if" -> Tested(Calc(y))
                [] t.s = "#ifdef" -> IF known THEN GetC(z, 1) ELSE DoSkip(GetC(z, 1))
                [] t.s = "#ifndef" -> IF known THEN DoSkip(GetC(z, 1)) ELSE GetC(z, 1)
                [] t.s \in {"#else", "#elif"} -> DoSkip(SkipUpto(y, "\n"))
                [] t.s = "#undef" -> [GetC(z, 1) EXCEPT !.defines =
                                        [n \in DOMAIN @ \ {Look(z)} |-> @[n]]]
                [] t.s = "#define" -> DoDefine(y)
                [] t.s = "#pragma" -> SkipUpto(y, "\n")
                [] t.s = "#endif" -> y
\* undefine() goes on from the link of the block it has just freed.
UndefineReadsFreed ==
  /\ Reading /\ AtDirective(lx) /\ lx.input[2].s = "#undef"
  /\ Look(SkipWhite(GetC(lx, 2))) \in DOMAIN lx.defines
  /\ lx' = [YyError(lx, "crashed") EXCEPT !.end = TRUE]

Comment ==
  /\ Reading
  /\ \/ Look(lx) = "/*" /\ lx' = SkipComment(lx)
     \/ Look(lx) = "//" /\ lx' = SkipUpto(lx, "\n")
     \/ Look(lx) \in White /\ ~AtDirective(lx) /\ lx' = GetC(lx, 1)
Macro ==
  /\ Reading /\ Look(lx) \in DOMAIN lx.defines
  /\ LET Read(r) == IF r.ok THEN r.x ELSE [r.x EXCEPT !.out = @ \o Told(lx, 1)]
     IN lx' = Read(ExpandDefine(GetC(lx, 1), Look(lx)))
StringConstant ==
  /\ Reading /\ Look(lx) = "\""
  /\ LET n == Before(GetC(lx, 1), {"\"", "\n"}) + 2
     IN lx' = IF n <= Len(lx.input) /\ lx.input[n].s = "\"" THEN Deliver(lx, n)
              ELSE [YyError(GetC(lx, IF n < Len(lx.input) THEN n ELSE Len(lx.input)), "Newline in string") EXCEPT !.end = TRUE]
Symbol ==
  /\ Reading /\ Look(lx) \notin DOMAIN lx.defines \cup White \cup {"\"", "/*", "//"}
  /\ lx' = IF Look(lx) \in Directives \cup {"\\"} THEN YyError(GetC(lx, 1), "Illegal character")
           ELSE Deliver(lx, 1)
EndOfFile == lx.lvl = 0 /\ ~lx.end /\ lx.input = <<>> /\ lx' = [lx EXCEPT !.end = TRUE]

\* A file begins behind an end of line, so that its first line may be a
\* directive.
Idle == [input |-> <<>>, file |-> Nowhere, line |-> 0, defines |-> [n \in {} |-> 0], nexpands |-> 0,
         lookahead |-> "\n", out |-> <<>>, errors |-> {}, lvl |-> 0, end |-> TRUE]
StartNew(f, content) == [Idle EXCEPT !.input = <<NewLine>> \o content, !.file = f, !.end = FALSE]
LexNext == SkipSome \/ SkipEnds \/ Directive \/ UndefineReadsFreed \/ Comment \/ Macro \/ StringConstant
           \/ Symbol \/ EndOfFile
=============================================================================

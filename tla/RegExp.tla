------------------------------- MODULE RegExp -------------------------------
(***************************************************************************)
(* The regular expressions of regexp.c: regcomp() writes a program of      *)
(* nodes, regexec() runs it with backtracking.  A program is a sequence of *)
(* nodes, next is the distance to the node that follows (0: none yet), and *)
(* the operand of BRANCH and STAR is the node beside it.  Characters are   *)
(* numbers; an operator is its character with the bit SPECIAL.             *)
(***************************************************************************)
EXTENDS Integers, Sequences

Sign == [dollar |-> 36, open |-> 40, close |-> 41, star |-> 42, minus |-> 45, dot |-> 46,
         less |-> 60, greater |-> 62, square |-> 91, back |-> 92, esquare |-> 93, hat |-> 94,
         brace |-> 123, bar |-> 124, ebrace |-> 125]
SPECIAL == 256
Op(c) == c + SPECIAL
IsOp(t) == t >= SPECIAL
Escapes == [c \in {98, 116, 114} |-> CASE c = 98 -> 8 [] c = 116 -> 9 [] c = 114 -> 13]
WordPart == (48..57) \cup (65..90) \cup (97..122) \cup {95}
Tok(s, i) == IF i < Len(s) THEN s[i + 1] ELSE 0

\* The pattern with its operators marked; 0 is an operator not implemented.
RECURSIVE Marked(_, _)
Marked(exp, excompat) ==
  LET c == exp[1]
      d == exp[2]
      round == {Sign.open, Sign.close}
  IN IF exp = <<>> THEN <<>>
     ELSE IF c # Sign.back
     THEN <<IF \/ c \in round /\ ~excompat
               \/ c \in {Sign.dot, Sign.star, Sign.bar, Sign.dollar, Sign.hat, Sign.square, Sign.esquare}
            THEN Op(c) ELSE c>> \o Marked(Tail(exp), excompat)
     ELSE <<CASE d \in round -> IF excompat THEN Op(d) ELSE d
              [] d \in {Sign.less, Sign.greater} -> Op(d)
              [] d \in {Sign.brace, Sign.ebrace} -> 0
              [] d \in DOMAIN Escapes -> Escapes[d]
              [] OTHER -> d>> \o Marked(SubSeq(exp, 3, Len(exp)), excompat)

-----------------------------------------------------------------------------
(* The compiler: p holds the code, the place in the pattern and, of the     *)
(* part just read, its first node (ret) and what is known of it (flags).    *)

Node(op, text) == [op |-> op, next |-> 0, text |-> text]
RegNode(p, op, text) == [p EXCEPT !.code = Append(@, Node(op, text)), !.ret = Len(p.code) + 1]
Fail(p) == [p EXCEPT !.error = TRUE]
Flagged(p, flags) == [p EXCEPT !.flags = flags]
Skip(p) == [p EXCEPT !.at = @ + 1]

RegNext(code, at) == IF at = 0 \/ code[at].next = 0 THEN 0 ELSE at + code[at].next
RECURSIVE LastNode(_, _)
LastNode(code, at) == IF RegNext(code, at) = 0 THEN at ELSE LastNode(code, RegNext(code, at))
RegTail(code, at, val) ==
  LET Hook(last) == [code EXCEPT ![last].next = val - last] IN Hook(LastNode(code, at))
RegOpTail(code, at, val) == IF code[at].op = "BRANCH" THEN RegTail(code, at + 1, val) ELSE code
RegInsert(code, op, at) ==
  SubSeq(code, 1, at - 1) \o <<Node(op, <<>>)>> \o SubSeq(code, at, Len(code))

\* The characters of a [] and where it ends; c-d goes from behind c to d.
RECURSIVE ClassItems(_, _, _)
ClassItems(toks, at, chars) ==
  LET t == Tok(toks, at)
      t2 == Tok(toks, at + 1)
      prev == Tok(toks, at - 1) % SPECIAL
  IN IF t \in {0, Op(Sign.esquare)} THEN [at |-> at + 1, chars |-> chars, error |-> t = 0]
     ELSE IF t # Sign.minus THEN ClassItems(toks, at + 1, chars \cup {t % SPECIAL})
     ELSE IF t2 \in {0, Op(Sign.esquare)} THEN ClassItems(toks, at + 1, chars \cup {t})
     ELSE IF prev > t2 % SPECIAL THEN [at |-> at, chars |-> chars, error |-> TRUE]
     ELSE ClassItems(toks, at + 2, chars \cup ((prev + 1)..(t2 % SPECIAL)))
Class(toks, p) ==
  LET but == Tok(toks, p.at) = Op(Sign.hat)
      from == IF but THEN p.at + 1 ELSE p.at
      Items(first) == IF first \in {Op(Sign.esquare), Sign.minus}
                      THEN ClassItems(toks, from + 1, {first % SPECIAL}) ELSE ClassItems(toks, from, {})
      Found(items) ==
        IF items.error THEN Fail(p)
        ELSE Flagged([RegNode(p, IF but THEN "ANYBUT" ELSE "ANYOF", items.chars) EXCEPT !.at = items.at],
                     {"width", "simple"})
  IN Found(Items(Tok(toks, from)))

\* As many plain characters as there are, but a * takes only the last one.
Plain(toks, p) ==
  LET ends == {e \in p.at..Len(toks) : e = Len(toks) \/ IsOp(toks[e + 1])}
      Upto(end) == IF end - p.at > 1 /\ Tok(toks, end) = Op(Sign.star) THEN end - p.at - 1 ELSE end - p.at
      Taken(len) ==
        IF len = 0 THEN Fail(p)
        ELSE Flagged([RegNode(p, "EXACTLY", SubSeq(toks, p.at + 1, p.at + len)) EXCEPT !.at = @ + len],
                     IF len = 1 THEN {"width", "simple"} ELSE {"width"})
  IN Taken(Upto(CHOOSE e \in ends : \A f \in ends : e <= f))

RECURSIVE Reg(_, _, _)
RegAtom(toks, p) ==
  LET t == Tok(toks, p.at)
      q == Skip(p)
  IN CASE t = Op(Sign.hat) -> Flagged(RegNode(q, "BOL", <<>>), {})
       [] t = Op(Sign.dollar) -> Flagged(RegNode(q, "EOL", <<>>), {})
       [] t = Op(Sign.dot) -> Flagged(RegNode(q, "ANY", <<>>), {"width", "simple"})
       [] t = Op(Sign.less) -> Flagged(RegNode(q, "WORDSTART", <<>>), {})
       [] t = Op(Sign.greater) -> Flagged(RegNode(q, "WORDEND", <<>>), {})
       [] t = Op(Sign.square) -> Class(toks, q)
       [] t = Op(Sign.open) -> Reg(toks, q, TRUE)
       [] t = Op(Sign.star) -> Fail(p)
       [] OTHER -> Plain(toks, p)

\* x* is a STAR before a simple x, and else (x&|) where & goes back to the (.
Looped(code, at) ==
  LET Back(inner) == Append(RegInsert(inner, "BRANCH", at), Node("BACK", <<>>))
      Round(back) == RegOpTail(RegOpTail(back, at, Len(back)), at, at)
      Hooked(inner, op) == RegTail(Append(inner, Node(op, <<>>)), at, Len(inner) + 1)
  IN Hooked(Hooked(Round(Back(code)), "BRANCH"), "NOTHING")
RegPiece(toks, p) ==
  LET Star(a) == IF "simple" \in a.flags THEN RegInsert(a.code, "STAR", a.ret) ELSE Looped(a.code, a.ret)
      Piece(a) ==
        IF a.error \/ Tok(toks, a.at) # Op(Sign.star) THEN a
        ELSE IF "width" \notin a.flags \/ Tok(toks, a.at + 1) = Op(Sign.star) THEN Fail(a)
        ELSE Flagged(Skip([a EXCEPT !.code = Star(a)]), {"spstart"})
  IN Piece(RegAtom(toks, p))

RECURSIVE Pieces(_, _, _, _)
Pieces(toks, p, chain, flags) ==
  LET kept == IF chain = 0 THEN {"width", "spstart"} ELSE {"width"}
      Chained(piece) == IF chain = 0 THEN piece ELSE [piece EXCEPT !.code = RegTail(@, chain, piece.ret)]
      On(piece) == IF piece.error THEN piece
                   ELSE Pieces(toks, Chained(piece), piece.ret, flags \cup (piece.flags \cap kept))
  IN IF p.error THEN p
     ELSE IF Tok(toks, p.at) \in {0, Op(Sign.bar), Op(Sign.close)}
     THEN Flagged(IF chain = 0 THEN RegNode(p, "NOTHING", <<>>) ELSE p, flags)
     ELSE On(RegPiece(toks, p))
RegBranch(toks, p) ==
  LET start == RegNode(p, "BRANCH", <<>>)
  IN [Pieces(toks, start, 0, {}) EXCEPT !.ret = start.ret]

\* The branches from ret on, each hooked to the one before.
RECURSIVE Branches(_, _, _, _)
Branches(toks, p, ret, flags) ==
  LET First(b) == IF ret = 0 THEN b.ret ELSE ret
      Hooked(b) == IF ret = 0 THEN b ELSE [b EXCEPT !.code = RegTail(@, ret, b.ret)]
      Known(b) == ((flags \cap b.flags) \cap {"width"}) \cup ((flags \cup b.flags) \cap {"spstart"})
      On(b, hooked) == IF Tok(toks, b.at) = Op(Sign.bar) THEN Branches(toks, Skip(hooked), First(b), Known(b))
                       ELSE Flagged([hooked EXCEPT !.ret = First(b)], Known(b))
      Read(b) == IF b.error THEN b ELSE On(b, Hooked(b))
  IN Read(RegBranch(toks, p))
RECURSIVE HookTails(_, _, _)
HookTails(code, at, ender) ==
  IF at = 0 THEN code ELSE HookTails(RegOpTail(code, at, ender), RegNext(code, at), ender)

NSUBEXP == 10
Reg(toks, p, paren) ==
  LET open == IF paren THEN RegNode([p EXCEPT !.npar = @ + 1], "OPEN", <<>>) ELSE [p EXCEPT !.ret = 0]
      Ended(all, ender) ==
        HookTails(RegTail(Append(all.code, Node(IF paren THEN "CLOSE" ELSE "END", <<>>)), all.ret, ender),
                  all.ret, ender)
      Closed(done) == IF Tok(toks, done.at) # (IF paren THEN Op(Sign.close) ELSE 0) THEN Fail(done)
                      ELSE IF paren THEN Skip(done) ELSE done
      Read(all) == IF all.error THEN all ELSE Closed([all EXCEPT !.code = Ended(all, Len(@) + 1)])
  IN IF paren /\ p.npar >= NSUBEXP THEN Fail(p)
     ELSE Read(Branches(toks, open, open.ret, {"width"}))

\* The plain texts on the way to the end, for the longest that must appear.
RECURSIVE MustAppear(_, _, _)
MustAppear(code, at, longest) ==
  IF at = 0 THEN longest
  ELSE MustAppear(code, RegNext(code, at),
                  IF code[at].op = "EXACTLY" /\ Len(code[at].text) >= Len(longest)
                  THEN code[at].text ELSE longest)
RegComp(exp, excompat) ==
  LET Single(p) == p.code[RegNext(p.code, 1)].op = "END"
      Program(p) ==
        [error |-> FALSE, code |-> p.code,
         start |-> IF Single(p) /\ p.code[2].op = "EXACTLY" THEN p.code[2].text[1] ELSE 0,
         anchored |-> Single(p) /\ p.code[2].op = "BOL",
         must |-> IF Single(p) /\ "spstart" \in p.flags THEN MustAppear(p.code, 2, <<>>) ELSE <<>>]
      Parsed(toks, p) == IF p.error \/ \E i \in DOMAIN toks : toks[i] = 0 THEN [error |-> TRUE] ELSE Program(p)
      Start == [code |-> <<>>, at |-> 0, npar |-> 1, error |-> FALSE, ret |-> 0, flags |-> {}]
      Compiled(toks) == Parsed(toks, Reg(toks, Start, FALSE))
  IN Compiled(Marked(exp, excompat))

-----------------------------------------------------------------------------
(* The matcher: where in s the match from i ends, or -1                     *)

Stands(text, s, i) == i + Len(text) <= Len(s) /\ SubSeq(s, i + 1, i + Len(text)) = text
\* Whether a simple node takes a character.
Takes(node, c) ==
  CASE node.op = "ANY" -> c # 0
    [] node.op = "EXACTLY" -> c = node.text[1]
    [] node.op = "ANYOF" -> c # 0 /\ c \in node.text
    [] node.op = "ANYBUT" -> c # 0 /\ c \notin node.text
RECURSIVE RegRepeat(_, _, _)
RegRepeat(node, s, i) == IF Takes(node, Tok(s, i)) THEN 1 + RegRepeat(node, s, i + 1) ELSE 0
WordAt(s, i) == Tok(s, i) \in WordPart

RECURSIVE RegMatch(_, _, _, _)
RECURSIVE TryBranches(_, _, _, _)
TryBranches(code, at, s, i) ==
  LET e == RegMatch(code, at + 1, s, i)
  IN IF at = 0 \/ code[at].op # "BRANCH" THEN -1
     ELSE IF e >= 0 THEN e ELSE TryBranches(code, RegNext(code, at), s, i)
RECURSIVE BackUpShort(_, _, _, _, _)
BackUpShort(code, next, s, i, no) ==
  LET e == RegMatch(code, next, s, i + no)
  IN IF no < 1 THEN -1 ELSE IF e >= 0 THEN e ELSE BackUpShort(code, next, s, i, no - 1)
RECURSIVE BackUp(_, _, _, _, _)
BackUp(code, next, s, i, no) ==
  LET worth == code[next].op # "EXACTLY" \/ Tok(s, i + no) = code[next].text[1]
      e == IF worth THEN RegMatch(code, next, s, i + no) ELSE -1
  IN IF no < 0 THEN -1 ELSE IF e >= 0 THEN e ELSE BackUp(code, next, s, i, no - 1)

RegMatch(code, at, s, i) ==
  LET node == code[at]
      next == RegNext(code, at)
      Go(ok, j) == IF ok THEN RegMatch(code, next, s, j) ELSE -1
  IN CASE node.op = "BOL" -> Go(i = 0, i)
       [] node.op = "EOL" -> Go(i = Len(s), i)
       [] node.op = "WORDSTART" -> Go(i = 0 \/ (i < Len(s) /\ ~WordAt(s, i - 1) /\ WordAt(s, i)), i)
       [] node.op = "WORDEND" -> Go(i = Len(s) \/ (i > 0 /\ WordAt(s, i - 1) /\ ~WordAt(s, i)), i)
       [] node.op = "EXACTLY" -> Go(Stands(node.text, s, i), i + Len(node.text))
       [] node.op \in {"ANY", "ANYOF", "ANYBUT"} -> Go(Takes(node, Tok(s, i)), i + 1)
       [] node.op \in {"NOTHING", "BACK", "OPEN", "CLOSE"} -> Go(TRUE, i)
       [] node.op = "BRANCH" ->
            IF code[next].op # "BRANCH" THEN RegMatch(code, at + 1, s, i) ELSE TryBranches(code, at, s, i)
       [] node.op = "STAR" -> BackUp(code, next, s, i, RegRepeat(code[at + 1], s, i))
       [] node.op = "END" -> i

\* regexec(): where the match begins and ends.
NoMatch == <<>>
RECURSIVE RegTry(_, _, _)
RegTry(prog, s, i) ==
  LET e == IF prog.start # 0 /\ Tok(s, i) # prog.start THEN -1 ELSE RegMatch(prog.code, 1, s, i)
  IN IF i > Len(s) THEN NoMatch
     ELSE IF e >= 0 THEN <<i, e>>
     ELSE IF prog.anchored THEN NoMatch ELSE RegTry(prog, s, i + 1)
RegExec(prog, s) ==
  IF prog.must # <<>> /\ ~\E i \in 0..Len(s) : Stands(prog.must, s, i) THEN NoMatch
  ELSE RegTry(prog, s, 0)

\* match_regexp(): the strings that match.
MatchRegexp(strings, prog) == SelectSeq(strings, LAMBDA s : RegExec(prog, s) # NoMatch)
=============================================================================

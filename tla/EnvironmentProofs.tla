------------------------- MODULE EnvironmentProofs -------------------------
(***************************************************************************)
(* Inventories stay one forest seen from above and from below, for any     *)
(* number of objects and whatever the LPC functions that move_object and   *)
(* destruct_object call do in the middle of them; and what the two do      *)
(* implements Containment.  The invariant speaks of the frames that wait:  *)
(* a move in exit() and a destruction are promises to change the tree.     *)
(* The third part is about the walk in which move_object calls init(): it  *)
(* passes nobody over and calls init() between objects that are present to *)
(* each other, as long as nobody moves what the walk holds a pointer to.   *)
(* The last part is about the tables of commands: what a step makes of     *)
(* each table, and of the walks of player_parser that wait on the stack    *)
(* while the function of a verb changes the table they walk through.       *)
(***************************************************************************)
EXTENDS Environment, TLAPS, FiniteSetTheorems, SequenceTheorems, WellFoundedInduction

Values == Objects \cup {NoObject}

ExitFrames  == [kind : {"exit"}, item : Objects, dest : Objects, save : Values]
InitFrames  == [kind : {"init"}, item : Objects, dest : Objects, save : Values,
                at : {"dest", "loop", "item", "ob", "last"}, ob : Values, next : Values,
                left : SUBSET Objects]
DestructFrames == [kind : {"destruct"}, ob : Objects, inside : {NoObject}, at : {"loop"}]
             \cup [kind : {"destruct"}, ob : Objects, inside : Objects, at : {"master"}]
AskFrames   == [kind : {"permit", "force"}, ob : Objects]
ParseFrames == [kind : {"parse"}, ob : Objects, e : Int, answer : {"none", "zero", "true"},
                save : Values, dangling : BOOLEAN]
Frames == LpcFrame \cup ExitFrames \cup InitFrames \cup DestructFrames
                   \cup AskFrames \cup ParseFrames

Typed ==
  /\ TreeTypes
  /\ command_giver \in Values /\ current_object \in Values
  /\ stack \in Seq(Frames) /\ taken \subseteq Liberties

Moving(s)      == {i \in 1 .. Len(s) : s[i].kind = "exit"}
Destructing(s) == {i \in 1 .. Len(s) : s[i].kind = "destruct"}

\* What waits to be moved or destructed is still in memory; l is life.
Remembered(s, l) ==
  /\ \A i \in Moving(s) : "none" \notin {l[s[i].item], l[s[i].dest]}
  /\ \A i \in Destructing(s) : l[s[i].ob] # "none"

\* Each destruction that waits is one of an object of its own.
Apart(s, l) ==
  /\ \A i \in Destructing(s) : l[s[i].ob] = "live"
  /\ \A i, j \in Destructing(s) : i # j => s[i].ob # s[j].ob

\* Where an object is and where the moves that wait take it; u is super
Edges(s, u, q) == {u[q]} \cup {s[i].dest : i \in {i \in Moving(s) : s[i].item = q}}

\* No circle can come to be when the moves that wait go on.
Bounded(s, u) ==
  \A S \in SUBSET Objects : S # {} => \E q \in S : Edges(s, u, q) \cap S = {}

Inv ==
  /\ Typed
  /\ "move_destructed" \notin taken => WellFormed /\ Remembered(stack, life)
  /\ taken \cap {"move_destructed", "destruct_twice"} = {} =>
       Apart(stack, life) /\ fatal = "none"
  /\ taken \cap {"move_destructed", "exit_moves_room"} = {} => Bounded(stack, super)

-----------------------------------------------------------------------------
(* Numbers have a least one: strict inclusion of finite sets is            *)
(* well-founded, so one of the sets 0 .. x is inside all the others.       *)

LEMMA LeastNat ==
  ASSUME NEW S \in SUBSET Nat, S # {}
  PROVE  Min(S) \in S /\ \A y \in S : Min(S) <= y
<1> DEFINE R == StrictSubsetOrdering(Nat)
           T == {0 .. x : x \in S}
<1>1. IsWellFoundedOn(R, FiniteSubsetsOf(Nat))
  BY FS_StrictSubsetOrderingWellFounded
<1>2. T \subseteq FiniteSubsetsOf(Nat)
  <2>1. \A x \in S : IsFiniteSet(0 .. x) /\ 0 .. x \in SUBSET Nat
    BY FS_Interval
  <2>2. \A x \in S : 0 .. x \in FiniteSubsetsOf(Nat)
    BY <2>1, Zenon DEF FiniteSubsetsOf
  <2> QED BY <2>2
<1>3. T # {}
  OBVIOUS
<1>4. \E u \in T : \A v \in T : ~ (<<v, u>> \in R)
  <2> HIDE DEF R, T
  <2> QED BY <1>1, <1>2, <1>3, WFMin
<1>5. PICK x \in S : \A y \in S : ~ (<<0 .. y, 0 .. x>> \in R)
  BY <1>4
<1>6. ASSUME NEW y \in S, y < x PROVE FALSE
  <2>1. 0 .. y \in SUBSET Nat /\ 0 .. x \in SUBSET Nat
    OBVIOUS
  <2>2. 0 .. y \subseteq 0 .. x /\ x \in 0 .. x /\ x \notin 0 .. y
    BY <1>6
  <2> QED BY <1>5, <2>1, <2>2 DEF StrictSubsetOrdering
<1>7. \A y \in S : x <= y
  BY <1>6
<1> QED BY <1>7 DEF Min

-----------------------------------------------------------------------------
(* The ways a stack of frames changes                                      *)

\* A frame at the same place that promises the same.
SameTask(f, g) ==
  /\ f.kind = g.kind
  /\ f.kind = "exit" => f.item = g.item /\ f.dest = g.dest
  /\ f.kind = "destruct" => f.ob = g.ob

\* The moves and destructions that wait on t wait on s.
Kept(s, t) ==
  \A i \in 1 .. Len(t) :
    t[i].kind \in {"exit", "destruct"} => i \in 1 .. Len(s) /\ SameTask(s[i], t[i])

\* A stack is kept as it is, and when it is cut.
LEMMA KeptCut ==
  ASSUME NEW s \in Seq(Frames), NEW n \in 0 .. Len(s)
  PROVE  /\ SubSeq(s, 1, n) \in Seq(Frames) /\ Len(SubSeq(s, 1, n)) = n
         /\ \A i \in 1 .. n : SubSeq(s, 1, n)[i] = s[i]
         /\ Kept(s, SubSeq(s, 1, n)) /\ Kept(s, s)
<1>1. Len(s) \in Nat
  BY LenProperties
<1>2. /\ SubSeq(s, 1, n) \in Seq(Frames) /\ Len(SubSeq(s, 1, n)) = n
      /\ \A i \in 1 .. n : SubSeq(s, 1, n)[i] = s[i]
  BY <1>1, SubSeqProperties, ElementOfSeq
<1> QED BY <1>1, <1>2 DEF Kept, SameTask

\* A frame without such a task is pushed.
LEMMA KeptPush ==
  ASSUME NEW s, NEW t \in Seq(Frames), Kept(s, t),
         NEW f \in Frames, f.kind \notin {"exit", "destruct"}
  PROVE  Append(t, f) \in Seq(Frames) /\ Kept(s, Append(t, f))
<1> DEFINE u == Append(t, f)
<1>1. /\ u \in Seq(Frames) /\ Len(u) = Len(t) + 1 /\ u[Len(t) + 1] = f
      /\ \A i \in 1 .. Len(t) : u[i] = t[i]
      /\ Len(t) \in Nat
  BY AppendProperties, LenProperties
<1> HIDE DEF u
<1>2. Kept(s, u)
  BY <1>1 DEF Kept
<1> QED BY <1>1, <1>2 DEF u

\* The last frame is replaced by one with the same task.
LEMMA KeptReplace ==
  ASSUME NEW s \in Seq(Frames), s # <<>>, NEW f \in Frames, SameTask(s[Len(s)], f)
  PROVE  /\ Append(Front(s), f) \in Seq(Frames) /\ Kept(s, Append(Front(s), f))
         /\ Len(Append(Front(s), f)) = Len(s) /\ Append(Front(s), f)[Len(s)] = f
         /\ \A i \in 1 .. Len(s) - 1 : Append(Front(s), f)[i] = s[i]
<1> DEFINE u == Append(Front(s), f)
<1>1. Len(s) \in Nat \ {0}
  BY EmptySeq
<1>2. Len(s) - 1 \in 0 .. Len(s)
  BY <1>1
<1>3. /\ Front(s) \in Seq(Frames) /\ Len(Front(s)) = Len(s) - 1
      /\ \A i \in 1 .. Len(s) - 1 : Front(s)[i] = s[i]
  BY <1>2, KeptCut DEF Front
<1>4. /\ u \in Seq(Frames) /\ Len(u) = Len(s) /\ u[Len(s)] = f
      /\ \A i \in 1 .. Len(s) - 1 : u[i] = s[i]
  BY <1>1, <1>3, AppendProperties
<1> HIDE DEF u
<1>5. Kept(s, u)
  BY <1>1, <1>4 DEF Kept, SameTask
<1> QED BY <1>4, <1>5 DEF u

\* The last frame is taken away.
LEMMA KeptPop ==
  ASSUME NEW s \in Seq(Frames), s # <<>>
  PROVE  /\ Front(s) \in Seq(Frames) /\ Len(Front(s)) = Len(s) - 1 /\ Kept(s, Front(s))
         /\ \A i \in 1 .. Len(s) - 1 : Front(s)[i] = s[i]
         /\ Len(s) \in Nat \ {0} /\ s[Len(s)] \in Frames
<1>1. Len(s) \in Nat \ {0}
  BY EmptySeq
<1>2. Len(s) - 1 \in 0 .. Len(s) /\ Len(s) \in 1 .. Len(s)
  BY <1>1
<1> QED BY <1>1, <1>2, KeptCut, ElementOfSeq DEF Front

\* What a frame is by its kind.
LEMMA FramesByKind ==
  ASSUME NEW f \in Frames
  PROVE  /\ f.kind \in {"call", "catch"} => f \in LpcFrame
         /\ f.kind = "exit" => f \in ExitFrames
         /\ f.kind = "init" => f \in InitFrames
         /\ f.kind = "destruct" => f \in DestructFrames
         /\ f.kind \in {"permit", "force"} => f \in AskFrames
         /\ f.kind = "parse" => f \in ParseFrames
BY DEF Frames, LpcFrame, ExitFrames, InitFrames, DestructFrames, AskFrames, ParseFrames

LEMMA Flagged ==
  ASSUME NEW f \in ParseFrames, NEW b \in BOOLEAN
  PROVE  [f EXCEPT !.dangling = b] \in ParseFrames
BY DEF ParseFrames

\* A parser's frame may be marked; no other is touched.
LEMMA MarkedKeeps ==
  ASSUME NEW s \in Seq(Frames), NEW new
  PROVE  /\ Marked(s, new) \in Seq(Frames) /\ Len(Marked(s, new)) = Len(s)
         /\ Kept(s, Marked(s, new)) /\ Kept(Marked(s, new), s)
<1> DEFINE g(i) == IF s[i].kind = "parse" /\ Len(new[s[i].ob]) # Len(sentences[s[i].ob])
                   THEN [s[i] EXCEPT !.dangling = TRUE] ELSE s[i]
           m == [i \in 1 .. Len(s) |-> g(i)]
<1>1. Len(s) \in Nat /\ DOMAIN s = 1 .. Len(s) /\ \A i \in 1 .. Len(s) : s[i] \in Frames
  BY LenProperties, ElementOfSeq
<1>2. Marked(s, new) = m
  BY <1>1 DEF Marked
<1>3. ASSUME NEW i \in 1 .. Len(s)
      PROVE  g(i) \in Frames /\ SameTask(s[i], g(i)) /\ SameTask(g(i), s[i])
  <2>1. CASE s[i].kind = "parse"
    <3>1. s[i] \in ParseFrames
      BY <1>1, <2>1, FramesByKind
    <3>2. TRUE \in BOOLEAN
      BY Zenon
    <3>4. [s[i] EXCEPT !.dangling = TRUE] \in ParseFrames
      BY <3>1, <3>2, Flagged, Zenon
    <3>5. [s[i] EXCEPT !.dangling = TRUE].kind = "parse"
      BY <3>4 DEF ParseFrames
    <3>6. SameTask(s[i], g(i)) /\ SameTask(g(i), s[i])
      BY <2>1, <3>5 DEF SameTask
    <3>7. g(i) \in Frames
      BY <1>1, <3>4 DEF Frames
    <3> QED BY <3>6, <3>7
  <2>2. CASE s[i].kind # "parse"
    BY <1>1, <2>2 DEF SameTask
  <2> QED BY <2>1, <2>2
<1> HIDE DEF g
<1>4. m \in Seq(Frames) /\ Len(m) = Len(s) /\ \A i \in 1 .. Len(s) : m[i] = g(i)
  BY <1>1, <1>3
<1>5. Kept(s, m) /\ Kept(m, s)
  BY <1>3, <1>4 DEF Kept, SameTask
<1> QED BY <1>2, <1>4, <1>5

\* So is a walk's frame when an object enters.
LEMMA EnteredKeeps ==
  ASSUME NEW s \in Seq(Frames), NEW o
  PROVE  /\ Entered(s, o) \in Seq(Frames) /\ Len(Entered(s, o)) = Len(s)
         /\ Kept(s, Entered(s, o)) /\ Kept(Entered(s, o), s)
<1> DEFINE g(i) == IF s[i].kind = "init" THEN [s[i] EXCEPT !.left = @ \ {o}] ELSE s[i]
           m == [i \in 1 .. Len(s) |-> g(i)]
<1>1. Len(s) \in Nat /\ DOMAIN s = 1 .. Len(s) /\ \A i \in 1 .. Len(s) : s[i] \in Frames
  BY LenProperties, ElementOfSeq
<1>2. Entered(s, o) = m
  BY <1>1 DEF Entered
<1>3. ASSUME NEW i \in 1 .. Len(s)
      PROVE  g(i) \in Frames /\ SameTask(s[i], g(i)) /\ SameTask(g(i), s[i])
  <2>1. CASE s[i].kind = "init"
    <3>1. s[i] \in InitFrames
      BY <1>1, <2>1, FramesByKind
    <3>2. g(i) = [kind |-> "init", item |-> s[i].item, dest |-> s[i].dest, save |-> s[i].save,
                  at |-> s[i].at, ob |-> s[i].ob, next |-> s[i].next, left |-> s[i].left \ {o}]
      BY <2>1, <3>1 DEF InitFrames
    <3>3. s[i].left \ {o} \in SUBSET Objects
      BY <3>1 DEF InitFrames
    <3>4. g(i) \in InitFrames
      BY <3>1, <3>2, <3>3 DEF InitFrames
    <3>5. g(i).kind = "init"
      BY <3>2
    <3> QED BY <2>1, <3>4, <3>5 DEF SameTask, Frames
  <2>2. CASE s[i].kind # "init"
    BY <1>1, <2>2 DEF SameTask
  <2> QED BY <2>1, <2>2
<1> HIDE DEF g
<1>4. m \in Seq(Frames) /\ Len(m) = Len(s) /\ \A i \in 1 .. Len(s) : m[i] = g(i)
  BY <1>1, <1>3
<1>5. Kept(s, m) /\ Kept(m, s)
  BY <1>3, <1>4 DEF Kept, SameTask
<1> QED BY <1>2, <1>4, <1>5

LEMMA KeptTransitive ==
  ASSUME NEW s, NEW t, NEW u, Kept(s, t), Kept(t, u)
  PROVE  Kept(s, u)
BY DEF Kept, SameTask

-----------------------------------------------------------------------------
(* What the invariant says of stacks and trees                             *)

\* What waits on a part of a stack is no danger if it was none on the whole.
LEMMA KeptSound ==
  ASSUME NEW s \in Seq(Frames), NEW t \in Seq(Frames), Kept(s, t), NEW l, NEW u
  PROVE  /\ Remembered(s, l) => Remembered(t, l)
         /\ Apart(s, l) => Apart(t, l)
         /\ \A q \in Objects : Edges(t, u, q) \subseteq Edges(s, u, q)
         /\ Bounded(s, u) => Bounded(t, u)
<1>1. Moving(t) \subseteq Moving(s) /\ Destructing(t) \subseteq Destructing(s)
  BY DEF Kept, SameTask, Moving, Destructing
<1>2. /\ \A i \in Moving(t) : t[i].item = s[i].item /\ t[i].dest = s[i].dest
      /\ \A i \in Destructing(t) : t[i].ob = s[i].ob
  BY DEF Kept, SameTask, Moving, Destructing
<1>3. \A q \in Objects : Edges(t, u, q) \subseteq Edges(s, u, q)
  BY <1>1, <1>2 DEF Edges
<1>4. Bounded(s, u) => Bounded(t, u)
  BY <1>3 DEF Bounded
<1> QED BY <1>1, <1>2, <1>3, <1>4 DEF Remembered, Apart

\* What Leads says is what the invariant says.
LEMMA LeadsIsEdges ==
  ASSUME Typed, NEW q
  PROVE  Leads(q) = Edges(stack, super, q)
<1>1. DOMAIN stack = 1 .. Len(stack)
  BY LenProperties DEF Typed
<1> QED BY <1>1 DEF Leads, Pending, Edges, Moving

-----------------------------------------------------------------------------
(* Steps that leave the tree alone and promise no change of it             *)

Quiet ==
  /\ UNCHANGED <<life, super, contains, fatal>>
  /\ stack' \in Seq(Frames) /\ Kept(stack, stack')
  /\ command_giver' \in Values /\ current_object' \in Values
  /\ taken \subseteq taken' /\ taken' \subseteq Liberties

LEMMA QuietKeeps ==
  ASSUME Inv, Quiet
  PROVE  Inv'
<1>1. Typed'
  BY DEF Inv, Typed, Quiet, TreeTypes
<1>2. WellFormed => WellFormed'
  BY DEF Quiet, WellFormed
<1>3. /\ Remembered(stack, life) => Remembered(stack', life')
      /\ Apart(stack, life) => Apart(stack', life')
      /\ Bounded(stack, super) => Bounded(stack', super')
  BY KeptSound DEF Quiet, Inv, Typed
<1> QED BY <1>1, <1>2, <1>3 DEF Inv, Quiet

\* The frame of a call or of a catch.
LEMMA LpcFrames ==
  ASSUME NEW k \in {"call", "catch"}, NEW x \in Values, NEW y \in Values
  PROVE  LET f == [kind |-> k, ob |-> x, comgiver |-> y]
         IN f \in Frames /\ f.kind \notin {"exit", "destruct"}
BY DEF Frames, LpcFrame, Values

\* The frame that runs.
LEMMA TopFrame ==
  ASSUME Typed, stack # <<>>
  PROVE  /\ Top \in Frames /\ Below \in Seq(Frames) /\ Kept(stack, Below)
         /\ Top = stack[Len(stack)] /\ Len(stack) \in Nat \ {0}
         /\ Len(Below) = Len(stack) - 1 /\ \A i \in 1 .. Len(stack) - 1 : Below[i] = stack[i]
         /\ Kept(stack, stack)
<1>1. 0 \in 0 .. Len(stack)
  BY EmptySeq DEF Typed
<1> QED BY <1>1, KeptPop, KeptCut DEF Typed, Top, Below

\* A function is called from a frame f on the stack s (push_control_stack).
LEMMA CallIsQuiet ==
  ASSUME Typed, NEW s, NEW f, NEW o \in Values, Call(s, f, o),
         Append(s, f) \in Seq(Frames), Kept(stack, Append(s, f)), command_giver' \in Values
  PROVE  stack' \in Seq(Frames) /\ Kept(stack, stack') /\ current_object' \in Values
<1>1. current_object \in Values
  BY DEF Typed
<1> DEFINE g == [kind |-> "call", ob |-> current_object, comgiver |-> command_giver']
<1>2. g \in Frames /\ g.kind \notin {"exit", "destruct"}
  BY <1>1, LpcFrames
<1>3. stack' = Append(Append(s, f), g) /\ current_object' = o
  BY DEF Call
<1> HIDE DEF g
<1> QED BY <1>2, <1>3, KeptPush

\* An error cuts the stack (simulate.c, va_error).
LEMMA ErrorIsQuiet ==
  ASSUME Typed, Error
  PROVE  /\ stack' \in Seq(Frames) /\ Kept(stack, stack')
         /\ command_giver' \in Values /\ current_object' \in Values
<1>1. /\ stack \in Seq(Frames) /\ DOMAIN stack = 1 .. Len(stack) /\ Len(stack) \in Nat
  BY LenProperties DEF Typed
<1> DEFINE catches == {i \in DOMAIN stack : stack[i].kind = "catch"}
<1>2. CASE catches = {}
  <2>1. stack' = <<>> /\ command_giver' = NoObject /\ current_object' = NoObject
    BY <1>2 DEF Error
  <2>2. <<>> \in Seq(Frames) /\ Len(<<>>) = 0
    BY EmptySeq
  <2>3. Kept(stack, <<>>)
    BY <2>2 DEF Kept
  <2> QED BY <2>1, <2>2, <2>3 DEF Values
<1>3. CASE catches # {}
  <2>1. PICK c \in catches : /\ stack' = SubSeq(stack, 1, c - 1)
                             /\ command_giver' = stack[c].comgiver
                             /\ current_object' = stack[c].ob
    BY <1>3 DEF Error
  <2>2. c \in 1 .. Len(stack) /\ stack[c].kind = "catch" /\ stack[c] \in Frames
    BY <1>1, ElementOfSeq
  <2>3. stack[c] \in LpcFrame
    BY <2>2, FramesByKind
  <2>4. c - 1 \in 0 .. Len(stack)
    BY <1>1, <2>2
  <2>5. SubSeq(stack, 1, c - 1) \in Seq(Frames) /\ Kept(stack, SubSeq(stack, 1, c - 1))
    BY <1>1, <2>4, KeptCut
  <2> QED BY <2>1, <2>3, <2>5 DEF LpcFrame, Values
<1> QED BY <1>2, <1>3

\* A liberty is taken only if LPC code may take it.
LEMMA OperationTyped ==
  ASSUME Typed, NEW o, NEW misuse, Operation(o, misuse)
  PROVE  /\ taken \subseteq taken' /\ taken' \subseteq Liberties /\ misuse \subseteq taken'
         /\ stack # <<>> /\ o = current_object /\ o \in Values /\ fatal = "none"
         /\ stack \in Seq(Frames) /\ Kept(stack, stack) /\ command_giver \in Values
<1>1. stack # <<>>
  BY DEF Operation, Running
<1>2. Kept(stack, stack)
  BY <1>1, TopFrame
<1> QED BY <1>1, <1>2 DEF Operation, Running, Typed

LEMMA CallOtherIsQuiet ==
  ASSUME Typed, NEW o, NEW p \in Objects, CallOther(o, p)
  PROVE  Quiet
<1>1. Operation(o, {})
  BY DEF CallOther
<1>2. /\ taken \subseteq taken' /\ taken' \subseteq Liberties
      /\ stack \in Seq(Frames) /\ Kept(stack, stack) /\ command_giver \in Values /\ o \in Values
  BY <1>1, OperationTyped
<1> DEFINE f == [kind |-> "call", ob |-> o, comgiver |-> command_giver]
<1>3. f \in Frames /\ f.kind \notin {"exit", "destruct"}
  BY <1>2, LpcFrames
<1>4. stack' = Append(stack, f) /\ current_object' = p
  BY DEF CallOther
<1> HIDE DEF f
<1>5. stack' \in Seq(Frames) /\ Kept(stack, stack')
  BY <1>2, <1>3, <1>4, KeptPush
<1> QED BY <1>2, <1>4, <1>5 DEF CallOther, Quiet, tree, Values

LEMMA CatchIsQuiet ==
  ASSUME Typed, NEW o, Catch(o)
  PROVE  Quiet
<1>1. Operation(o, {})
  BY DEF Catch
<1>2. /\ taken \subseteq taken' /\ taken' \subseteq Liberties
      /\ stack \in Seq(Frames) /\ Kept(stack, stack) /\ command_giver \in Values /\ o \in Values
  BY <1>1, OperationTyped
<1> DEFINE f == [kind |-> "catch", ob |-> o, comgiver |-> command_giver]
<1>3. f \in Frames /\ f.kind \notin {"exit", "destruct"}
  BY <1>2, LpcFrames
<1>4. stack' = Append(stack, f)
  BY DEF Catch
<1> HIDE DEF f
<1>5. stack' \in Seq(Frames) /\ Kept(stack, stack')
  BY <1>2, <1>3, <1>4, KeptPush
<1> QED BY <1>2, <1>4, <1>5 DEF Catch, Quiet, tree, regs, Typed

LEMMA ReturnIsQuiet ==
  ASSUME Typed, Return
  PROVE  Quiet
<1>1. stack # <<>> /\ Top.kind \in {"call", "catch"}
  BY DEF Return, Running
<1>2. /\ Top \in Frames /\ Below \in Seq(Frames) /\ Kept(stack, Below)
  BY <1>1, TopFrame
<1>3. Top \in LpcFrame
  BY <1>1, <1>2, FramesByKind
<1>4. current_object' \in Values /\ command_giver' \in Values
  BY <1>3 DEF Return, LpcFrame, Values
<1>5. stack' \in Seq(Frames) /\ Kept(stack, stack')
  <2>1. CASE Caller # "parse"
    BY <1>2, <2>1 DEF Return
  <2>2. CASE Caller = "parse"
    <3>1. PICK answer \in {"zero", "true"} : stack' = [Below EXCEPT ![Len(Below)].answer = answer]
      BY <2>2 DEF Return
    <3>2. Below # <<>> /\ Below[Len(Below)].kind = "parse"
      BY <2>2 DEF Caller, Last
    <3> DEFINE n == Len(Below)
               f == [Below[n] EXCEPT !.answer = answer]
    <3>3. n \in 1 .. n /\ n \in Nat
      BY <1>2, <3>2, EmptySeq
    <3>4. Below[n] \in ParseFrames
      <4>1. Below[n] \in Frames
        BY <1>2, <3>3, ElementOfSeq
      <4> QED BY <4>1, <3>2, FramesByKind
    <3>5. f \in ParseFrames /\ f.kind = "parse"
      BY <3>4 DEF ParseFrames
    <3>6. f \in Frames
      BY <3>5 DEF Frames
    <3>7. stack' = [Below EXCEPT ![n] = f]
      BY <3>1
    <3> HIDE DEF f
    <3>8. /\ stack' \in Seq(Frames) /\ Len(stack') = n
          /\ \A i \in 1 .. n : stack'[i] = IF i = n THEN f ELSE Below[i]
      BY <1>2, <3>3, <3>6, <3>7, ExceptSeq
    <3>9. Kept(Below, stack')
      BY <3>5, <3>8 DEF Kept, SameTask
    <3> QED BY <1>2, <3>8, <3>9, KeptTransitive
  <2> QED BY <2>1, <2>2
<1> QED BY <1>4, <1>5 DEF Return, Quiet, tree, Typed

LEMMA ThrowIsQuiet ==
  ASSUME Typed, Throw
  PROVE  Quiet
BY ErrorIsQuiet DEF Throw, Quiet, tree, Typed

LEMMA SetThisPlayerIsQuiet ==
  ASSUME Typed, NEW o, NEW p \in Objects, SetThisPlayer(o, p)
  PROVE  Quiet
<1>1. Operation(o, {})
  BY DEF SetThisPlayer
<1> QED BY <1>1, OperationTyped DEF SetThisPlayer, Quiet, tree, Typed, Values

LEMMA EnableCommandsIsQuiet ==
  ASSUME Typed, NEW o \in Objects, EnableCommands(o)
  PROVE  Quiet
<1>1. Operation(o, {})
  BY DEF EnableCommands
<1> QED BY <1>1, OperationTyped DEF EnableCommands, Quiet, tree, Typed, Values

LEMMA QueryActionsIsQuiet ==
  ASSUME Typed, NEW o, NEW p \in Objects, QueryActions(o, p)
  PROVE  Quiet
<1>1. Operation(o, {})
  BY DEF QueryActions
<1> QED BY <1>1, OperationTyped DEF QueryActions, Quiet, tree, regs, Typed

LEMMA DisableCommandsIsQuiet ==
  ASSUME Typed, NEW o \in Objects, DisableCommands(o)
  PROVE  Quiet
<1>1. Operation(o, Misuse(o # command_giver, "disable_other"))
  BY DEF DisableCommands
<1>2. stack' = Marked(stack, sentences') /\ stack \in Seq(Frames)
  BY DEF DisableCommands, Typed
<1>3. stack' \in Seq(Frames) /\ Kept(stack, stack')
  BY <1>2, MarkedKeeps
<1>4. command_giver' \in Values
  BY DEF DisableCommands, Typed, Values
<1> QED BY <1>1, <1>3, <1>4, OperationTyped DEF DisableCommands, Quiet, tree, Typed

LEMMA AddActionIsQuiet ==
  ASSUME Typed, NEW o \in Objects, NEW pri, AddAction(o, pri)
  PROVE  Quiet
<1> DEFINE p == command_giver
<1>1. CASE ~ (Present(o, p) \/ super[o] = super[p])
  <2>1. Operation(o, {}) /\ Error
    BY <1>1 DEF AddAction
  <2> QED BY <2>1, OperationTyped, ErrorIsQuiet DEF AddAction, Quiet, tree
<1>2. CASE Present(o, p) \/ super[o] = super[p]
  <2>1. /\ Operation(o, Misuse(p \notin living, "add_to_disabled") \cup
                        Misuse(~ Present(o, p), "add_in_void"))
        /\ stack' = Marked(stack, sentences') /\ UNCHANGED regs
    BY <1>2 DEF AddAction
  <2>2. stack' \in Seq(Frames) /\ Kept(stack, stack')
    BY <2>1, MarkedKeeps DEF Typed
  <2> QED BY <2>1, <2>2, OperationTyped DEF AddAction, Quiet, tree, regs, Typed
<1> QED BY <1>1, <1>2

\* A parser starts on a stack that promises nothing new.
LEMMA ParseKeeps ==
  ASSUME Typed, NEW s \in Seq(Frames), Kept(stack, s), NEW p \in Objects, Parse(s, p)
  PROVE  stack' \in Seq(Frames) /\ Kept(stack, stack') /\ command_giver' \in Values
<1>1. CASE sentences[p] = Null
  BY <1>1 DEF Parse, Typed
<1>2. CASE sentences[p] # Null
  <2> DEFINE f == [kind |-> "parse", ob |-> p, e |-> 1, answer |-> "none",
                   save |-> command_giver, dangling |-> FALSE]
  <2>1. FALSE \in BOOLEAN
    BY Zenon
  <2>2. \A b \in BOOLEAN : [kind |-> "parse", ob |-> p, e |-> 1, answer |-> "none",
                            save |-> command_giver, dangling |-> b] \in ParseFrames
    BY DEF ParseFrames, Typed
  <2>3. f \in ParseFrames
    BY <2>1, <2>2, Zenon
  <2>4. f \in Frames /\ f.kind \notin {"exit", "destruct"}
    BY <2>3 DEF Frames, ParseFrames
  <2>5. stack' = Append(s, f) /\ command_giver' = p
    BY <1>2 DEF Parse
  <2> HIDE DEF f
  <2> QED BY <2>4, <2>5, KeptPush DEF Values
<1> QED BY <1>1, <1>2

LEMMA CommandIsQuiet ==
  ASSUME Typed, NEW o \in Objects, NEW p \in Objects, Command(o, p)
  PROVE  Quiet
<1>1. Operation(o, Misuse(CommandsCaught, "caught_command"))
  BY DEF Command
<1>2. /\ stack \in Seq(Frames) /\ Kept(stack, stack) /\ command_giver \in Values
      /\ taken \subseteq taken' /\ taken' \subseteq Liberties
  BY <1>1, OperationTyped
<1>3. CASE o = p
  <2>1. Parse(stack, p) /\ UNCHANGED current_object
    BY <1>3 DEF Command
  <2>2. stack' \in Seq(Frames) /\ Kept(stack, stack') /\ command_giver' \in Values
    BY <1>2, <2>1, ParseKeeps
  <2> QED BY <1>2, <2>1, <2>2 DEF Command, Quiet, tree, Typed
<1>4. CASE o # p
  <2> DEFINE f == [kind |-> "force", ob |-> p]
  <2>1. command_giver' = command_giver /\ Call(stack, f, p)
    BY <1>4 DEF Command
  <2>2. f \in Frames /\ f.kind \notin {"exit", "destruct"}
    BY DEF Frames, AskFrames
  <2> HIDE DEF f
  <2>3. Append(stack, f) \in Seq(Frames) /\ Kept(stack, Append(stack, f))
    BY <1>2, <2>2, KeptPush
  <2>4. stack' \in Seq(Frames) /\ Kept(stack, stack') /\ current_object' \in Values
    BY <1>2, <2>1, <2>3, CallIsQuiet DEF Values
  <2> QED BY <1>2, <2>1, <2>4 DEF Command, Quiet, tree
<1> QED BY <1>3, <1>4

\* What a driver's function knows of its frame.
LEMMA WaitsFrame ==
  ASSUME Typed, NEW k, Waits(k)
  PROVE  /\ stack # <<>> /\ Top \in Frames /\ Top.kind = k /\ fatal = "none"
         /\ Below \in Seq(Frames) /\ Kept(stack, Below)
         /\ Top = stack[Len(stack)] /\ Len(stack) \in Nat \ {0}
BY TopFrame DEF Waits

LEMMA ForceDoneIsQuiet ==
  ASSUME Typed, ForceDone
  PROVE  Quiet
<1>1. Top \in AskFrames /\ Below \in Seq(Frames) /\ Kept(stack, Below)
  <2>1. Top \in Frames /\ Top.kind = "force" /\ Below \in Seq(Frames) /\ Kept(stack, Below)
    BY WaitsFrame DEF ForceDone
  <2> QED BY <2>1, FramesByKind
<1>2. Top.ob \in Objects
  BY <1>1 DEF AskFrames
<1>3. stack' \in Seq(Frames) /\ Kept(stack, stack') /\ command_giver' \in Values
  <2>1. CASE stack' = Below /\ UNCHANGED command_giver
    BY <1>1, <2>1 DEF Typed
  <2>2. CASE Parse(Below, Top.ob)
    BY <1>1, <1>2, <2>2, ParseKeeps
  <2> QED BY <2>1, <2>2 DEF ForceDone
<1> QED BY <1>3 DEF ForceDone, Quiet, tree, Typed

\* The frame of a parser that waits.
LEMMA ParserFrame ==
  ASSUME Typed, Waits("parse")
  PROVE  /\ Top \in ParseFrames /\ Top = stack[Len(stack)] /\ stack # <<>>
         /\ Top.e \in Int /\ Top.save \in Values
         /\ stack \in Seq(Frames) /\ Below \in Seq(Frames) /\ Kept(stack, Below)
<1>1. /\ Top \in Frames /\ Top.kind = "parse" /\ Top = stack[Len(stack)] /\ stack # <<>>
      /\ Below \in Seq(Frames) /\ Kept(stack, Below) /\ stack \in Seq(Frames)
  BY WaitsFrame DEF Typed
<1>2. Top \in ParseFrames
  BY <1>1, FramesByKind
<1> HIDE DEF Top, Below
<1> QED BY <1>1, <1>2 DEF ParseFrames

\* It goes on at another slot.
LEMMA ParserGoesOn ==
  ASSUME Typed, Waits("parse"), NEW f \in ParseFrames
  PROVE  Append(Below, f) \in Seq(Frames) /\ Kept(stack, Append(Below, f))
<1>1. Top \in ParseFrames /\ Top = stack[Len(stack)] /\ stack # <<>> /\ stack \in Seq(Frames)
  BY ParserFrame
<1>2. f \in Frames /\ f.kind = "parse" /\ Top.kind = "parse"
  BY <1>1 DEF ParseFrames, Frames
<1>3. SameTask(stack[Len(stack)], f)
  BY <1>1, <1>2 DEF SameTask
<1> QED BY <1>1, <1>2, <1>3, KeptReplace DEF Below

LEMMA OtherSlot ==
  ASSUME NEW f \in ParseFrames, NEW e \in Int
  PROVE  /\ [f EXCEPT !.e = e] \in ParseFrames
         /\ [f EXCEPT !.e = e, !.answer = "none"] \in ParseFrames
BY DEF ParseFrames

LEMMA ParseMatchIsQuiet ==
  ASSUME Typed, NEW o \in Objects, NEW e \in Int, ParseMatch(o, e)
  PROVE  Quiet
<1> DEFINE f == [Top EXCEPT !.e = e]
<1>1. Waits("parse") /\ command_giver' = command_giver /\ Call(Below, f, o)
  BY DEF ParseMatch
<1>2. f \in ParseFrames
  BY <1>1, ParserFrame, OtherSlot
<1> HIDE DEF f
<1>3. Append(Below, f) \in Seq(Frames) /\ Kept(stack, Append(Below, f))
  BY <1>1, <1>2, ParserGoesOn
<1>4. command_giver' \in Values /\ o \in Values
  BY <1>1 DEF Typed, Values
<1>5. stack' \in Seq(Frames) /\ Kept(stack, stack') /\ current_object' \in Values
  BY <1>1, <1>3, <1>4, CallIsQuiet
<1>6. UNCHANGED <<life, super, contains, fatal, taken>>
  BY DEF ParseMatch, tree
<1> QED BY <1>4, <1>5, <1>6 DEF Quiet, Typed

LEMMA ParserEndsQuiet ==
  ASSUME Typed, ParseEnd \/ ParseTrue
  PROVE  Quiet
<1>1. /\ Waits("parse") /\ command_giver' = Top.save /\ stack' = Below
      /\ UNCHANGED <<life, super, contains, current_object, fatal, taken>>
  BY DEF ParseEnd, ParseTrue, tree
<1>2. Top.save \in Values /\ Below \in Seq(Frames) /\ Kept(stack, Below)
  BY <1>1, ParserFrame
<1> QED BY <1>1, <1>2 DEF Quiet, Typed

LEMMA ParseZeroIsQuiet ==
  ASSUME Typed, ParseZero
  PROVE  Quiet
<1>1. Waits("parse") /\ UNCHANGED <<life, super, contains, fatal, taken>>
  BY DEF ParseZero, tree
<1>2. CASE command_modification
  <2>1. Error
    BY <1>2 DEF ParseZero
  <2> QED BY <1>1, <2>1, ErrorIsQuiet DEF Quiet, Typed
<1>3. CASE ~ command_modification
  <2> DEFINE e == Top.e + 1
             f == [Top EXCEPT !.e = e, !.answer = "none"]
  <2>1. stack' = Append(Below, f) /\ UNCHANGED regs
    BY <1>3 DEF ParseZero
  <2>2. e \in Int
    BY <1>1, ParserFrame
  <2> HIDE DEF e
  <2>3. f \in ParseFrames
    BY <1>1, <2>2, ParserFrame, OtherSlot
  <2> HIDE DEF f
  <2>4. Append(Below, f) \in Seq(Frames) /\ Kept(stack, Append(Below, f))
    BY <1>1, <2>3, ParserGoesOn
  <2> QED BY <1>1, <2>1, <2>4 DEF Quiet, regs, Typed
<1> QED BY <1>2, <1>3

\* The frame of a walk through an inventory that goes on.
LEMMA WalkGoesOn ==
  ASSUME Typed, Waits("init"), NEW at \in {"dest", "loop", "item", "ob", "last"},
         NEW ob \in Values, NEW next \in Values, NEW met
  PROVE  LET f == [Top EXCEPT !.at = at, !.ob = ob, !.next = next, !.left = @ \ {met}]
         IN Append(Below, f) \in Seq(Frames) /\ Kept(stack, Append(Below, f))
<1>1. /\ Top \in Frames /\ Top.kind = "init" /\ Top = stack[Len(stack)] /\ stack # <<>>
      /\ stack \in Seq(Frames)
  BY WaitsFrame DEF Typed
<1>2. Top \in InitFrames
  BY <1>1, FramesByKind
<1> DEFINE left == Top.left \ {met}
           f == [Top EXCEPT !.at = at, !.ob = ob, !.next = next, !.left = left]
<1>4. left \in SUBSET Objects
  BY <1>2 DEF InitFrames
<1> HIDE DEF left
<1>5. f \in InitFrames
  BY <1>2, <1>4 DEF InitFrames
<1>6. f \in Frames /\ f.kind = "init"
  BY <1>5 DEF Frames, InitFrames
<1> HIDE DEF f
<1>7. SameTask(stack[Len(stack)], f)
  BY <1>1, <1>6 DEF SameTask
<1>8. Append(Below, f) \in Seq(Frames) /\ Kept(stack, Append(Below, f))
  BY <1>1, <1>6, <1>7, KeptReplace DEF Below
<1> QED BY <1>8 DEF f, left

LEMMA WalkFrame ==
  ASSUME Typed, Waits("init")
  PROVE  /\ Top.item \in Objects /\ Top.dest \in Objects /\ Top.save \in Values
         /\ Top.ob \in Values /\ Top.next \in Values /\ Below \in Seq(Frames)
         /\ Kept(stack, Below)
<1>1. Top \in Frames /\ Top.kind = "init" /\ Below \in Seq(Frames) /\ Kept(stack, Below)
  BY WaitsFrame
<1>2. Top \in InitFrames
  BY <1>1, FramesByKind
<1> QED BY <1>1, <1>2 DEF InitFrames

\* The ways out of a step of the walk (simulate.c, move_object).
WalkedOn ==
  /\ stack' \in Seq(Frames) /\ Kept(stack, stack')
  /\ command_giver' \in Values /\ current_object' \in Values

LEMMA WalkIsQuiet ==
  ASSUME Typed, Waits("init"), NEW ob \in Values, Walk(ob)
  PROVE  WalkedOn
<1> DEFINE f == [Top EXCEPT !.at = "loop", !.ob = ob, !.next = NoObject, !.left = @ \ {Top.ob}]
<1>1. "loop" \in {"dest", "loop", "item", "ob", "last"} /\ NoObject \in Values
  BY DEF Values
<1>2. Append(Below, f) \in Seq(Frames) /\ Kept(stack, Append(Below, f))
  BY <1>1, WalkGoesOn
<1>3. stack' = Append(Below, f) /\ UNCHANGED regs
  BY DEF Walk
<1> HIDE DEF f
<1> QED BY <1>2, <1>3 DEF WalkedOn, regs, Typed

LEMMA CallInitIsQuiet ==
  ASSUME Typed, Waits("init"), NEW o \in Values, NEW who \in Values,
         NEW at \in {"dest", "loop", "item", "ob", "last"},
         NEW ob \in Values, NEW next \in Values, CallInit(o, who, at, ob, next)
  PROVE  WalkedOn
<1> DEFINE f == [Top EXCEPT !.at = at, !.ob = ob, !.next = next, !.left = @ \ {ob}]
<1>1. Append(Below, f) \in Seq(Frames) /\ Kept(stack, Append(Below, f))
  BY WalkGoesOn
<1>2. command_giver' = who /\ Call(Below, f, o)
  BY DEF CallInit
<1> HIDE DEF f
<1>3. command_giver' \in Values
  BY <1>2
<1>4. stack' \in Seq(Frames) /\ Kept(stack, stack') /\ current_object' \in Values
  BY <1>1, <1>2, <1>3, CallIsQuiet
<1> QED BY <1>3, <1>4 DEF WalkedOn

LEMMA GiveUpIsQuiet ==
  ASSUME Typed, Waits("init"), GiveUpMove
  PROVE  WalkedOn
BY WalkFrame DEF GiveUpMove, WalkedOn, Typed

LEMMA MeetOtherIsQuiet ==
  ASSUME Typed, Waits("init"), NEW ob \in Values, NEW next \in Values, MeetOther(ob, next)
  PROVE  WalkedOn
<1>1. Top.item \in Values /\ "ob" \in {"dest", "loop", "item", "ob", "last"}
  BY WalkFrame DEF Values
<1>2. CASE Top.item \in living
  <2>1. CallInit(ob, Top.item, "ob", ob, next)
    BY <1>2 DEF MeetOther
  <2> QED BY <1>1, <2>1, CallInitIsQuiet
<1>3. CASE Top.item \notin living
  BY <1>3, WalkIsQuiet DEF MeetOther
<1> QED BY <1>2, <1>3

LEMMA NeighboursTyped ==
  ASSUME TreeTypes, NEW o \in Objects
  PROVE  NextInv(o) \in Values /\ FirstInv(o) \in Values
<1>1. FirstInv(o) \in Values
  <2>1. contains[o] \in Seq(Objects)
    BY DEF TreeTypes
  <2>2. contains[o] # <<>> => Head(contains[o]) \in Objects
    BY <2>1, HeadTailProperties
  <2> QED BY <2>2 DEF FirstInv, Null, Values
<1>2. CASE super[o] = NoObject
  BY <1>1, <1>2 DEF NextInv, Values
<1>3. CASE super[o] # NoObject
  <2> DEFINE inv == contains[super[o]]
             at  == {i \in 1 .. Len(inv) - 1 : inv[i] = o}
  <2>1. inv \in Seq(Objects)
    BY <1>3 DEF TreeTypes
  <2>2. Len(inv) \in Nat
    BY <2>1, LenProperties
  <2>3. NextInv(o) = IF at = {} THEN NoObject ELSE inv[Min(at) + 1]
    BY <1>3 DEF NextInv
  <2>4. ASSUME at # {} PROVE inv[Min(at) + 1] \in Objects
    <3>1. at \in SUBSET Nat
      BY <2>2
    <3>2. Min(at) \in at
      <4> HIDE DEF at
      <4> QED BY <2>4, <3>1, LeastNat
    <3>3. Min(at) + 1 \in 1 .. Len(inv)
      BY <2>2, <3>2
    <3> HIDE DEF inv, at
    <3> QED BY <2>1, <3>3, ElementOfSeq
  <2> HIDE DEF inv, at
  <2> QED BY <1>1, <2>3, <2>4 DEF Values
<1> QED BY <1>2, <1>3

LEMMA InitIsQuiet ==
  ASSUME Typed, InitDestDone \/ InitLoop \/ InitItemDone \/ InitOtherDone \/ InitLastDone
  PROVE  Quiet
<1>1. /\ Waits("init") /\ UNCHANGED <<life, super, contains, fatal, taken>>
  BY DEF InitDestDone, InitLoop, InitItemDone, InitOtherDone, InitLastDone, tree
<1>2. /\ Top.item \in Objects /\ Top.dest \in Objects /\ Top.ob \in Values
      /\ Top.next \in Values /\ NoObject \in Values /\ Objects \subseteq Values
  BY <1>1, WalkFrame DEF Values
<1>3. NextInv(Top.ob) \in Values \/ Top.ob = NoObject
  BY <1>2, NeighboursTyped DEF Typed, Values
<1>4. FirstInv(Top.dest) \in Values
  BY <1>2, NeighboursTyped DEF Typed
<1>5. ASSUME InitDestDone PROVE WalkedOn
  BY <1>1, <1>4, <1>5, GiveUpIsQuiet, WalkIsQuiet DEF InitDestDone
<1>6. ASSUME InitItemDone PROVE WalkedOn
  BY <1>1, <1>2, <1>6, GiveUpIsQuiet, MeetOtherIsQuiet DEF InitItemDone
<1>7. ASSUME InitOtherDone PROVE WalkedOn
  BY <1>1, <1>2, <1>7, GiveUpIsQuiet, WalkIsQuiet DEF InitOtherDone
<1>8. ASSUME InitLastDone PROVE WalkedOn
  BY <1>1, <1>8, GiveUpIsQuiet DEF InitLastDone
<1>9. ASSUME InitLoop PROVE WalkedOn
  <2>1. Error => WalkedOn
    BY ErrorIsQuiet DEF WalkedOn
  <2>2. CASE Top.ob = NoObject \/ life[Top.item] = "destructed"
    <3>1. \/ Error \/ GiveUpMove
          \/ CallInit(Top.item, Top.dest, "last", NoObject, NoObject)
      BY <1>9, <2>2 DEF InitLoop
    <3>2. CASE CallInit(Top.item, Top.dest, "last", NoObject, NoObject)
      <4>1. "last" \in {"dest", "loop", "item", "ob", "last"}
        OBVIOUS
      <4>2. Top.item \in Values /\ Top.dest \in Values
        BY <1>2
      <4> QED BY <1>1, <1>2, <3>2, <4>1, <4>2, CallInitIsQuiet
    <3> QED BY <1>1, <2>1, <3>1, <3>2, GiveUpIsQuiet
  <2>3. CASE ~ (Top.ob = NoObject \/ life[Top.item] = "destructed")
    <3>1. NextInv(Top.ob) \in Values
      BY <1>3, <2>3
    <3>2. \/ Error \/ Walk(NextInv(Top.ob)) \/ MeetOther(Top.ob, NextInv(Top.ob))
          \/ CallInit(Top.item, Top.ob, "item", Top.ob, NextInv(Top.ob))
      BY <1>9, <2>3 DEF InitLoop
    <3>3. CASE CallInit(Top.item, Top.ob, "item", Top.ob, NextInv(Top.ob))
      <4>1. "item" \in {"dest", "loop", "item", "ob", "last"}
        OBVIOUS
      <4>2. Top.item \in Values
        BY <1>2
      <4> QED BY <1>1, <1>2, <3>1, <3>3, <4>1, <4>2, CallInitIsQuiet
    <3>4. CASE Walk(NextInv(Top.ob))
      BY <1>1, <3>1, <3>4, WalkIsQuiet
    <3>5. CASE MeetOther(Top.ob, NextInv(Top.ob))
      BY <1>1, <1>2, <3>1, <3>5, MeetOtherIsQuiet
    <3> QED BY <2>1, <3>2, <3>3, <3>4, <3>5
  <2> QED BY <2>2, <2>3
<1>10. WalkedOn
  BY <1>5, <1>6, <1>7, <1>8, <1>9
<1> QED BY <1>1, <1>10 DEF WalkedOn, Quiet, Typed

\* The master is asked about what is inside (simulate.c, destruct_object).
LEMMA AskMasterIsQuiet ==
  ASSUME Typed, AskMaster
  PROVE  Quiet
<1>1. /\ Waits("destruct") /\ Top.at = "loop" /\ contains[Top.ob] # <<>>
      /\ command_giver' = command_giver
      /\ Call(Below, [Top EXCEPT !.at = "master", !.inside = Head(contains[Top.ob])], NoObject)
  BY DEF AskMaster, Null
<1>2. /\ Top \in Frames /\ Top.kind = "destruct" /\ Top = stack[Len(stack)] /\ stack # <<>>
      /\ stack \in Seq(Frames)
  BY <1>1, WaitsFrame DEF Typed
<1>3. Top.ob \in Objects /\ Top \in DestructFrames
  <2>1. Top \in DestructFrames
    BY <1>2, FramesByKind
  <2> QED BY <2>1 DEF DestructFrames
<1>4. Head(contains[Top.ob]) \in Objects
  BY <1>1, <1>3, HeadTailProperties DEF Typed, TreeTypes
<1> DEFINE h == Head(contains[Top.ob])
           f == [Top EXCEPT !.at = "master", !.inside = h]
<1> HIDE DEF h
<1>5. f \in DestructFrames /\ f.kind = "destruct" /\ f.ob = Top.ob
  BY <1>3, <1>4 DEF DestructFrames, h
<1>6. f \in Frames
  BY <1>5 DEF Frames
<1>7. Call(Below, f, NoObject)
  BY <1>1 DEF h
<1> HIDE DEF f
<1>8. SameTask(stack[Len(stack)], f)
  BY <1>2, <1>5 DEF SameTask
<1>9. Append(Below, f) \in Seq(Frames) /\ Kept(stack, Append(Below, f))
  BY <1>2, <1>6, <1>8, KeptReplace DEF Below
<1>10. command_giver' \in Values /\ NoObject \in Values
  BY <1>1 DEF Typed, Values
<1>11. stack' \in Seq(Frames) /\ Kept(stack, stack') /\ current_object' \in Values
  BY <1>7, <1>9, <1>10, CallIsQuiet
<1> QED BY <1>10, <1>11 DEF AskMaster, Quiet, tree, Typed

LEMMA TurnIsQuiet ==
  ASSUME Typed, NEW o \in Objects, Turn(o)
  PROVE  Quiet
<1> DEFINE f == [kind |-> "call", ob |-> NoObject, comgiver |-> NoObject]
<1>1. f \in Frames /\ f.kind \notin {"exit", "destruct"}
  BY LpcFrames DEF Values
<1>2. stack = <<>> /\ stack' = <<f>>
  BY DEF Turn
<1>3. <<>> \in Seq(Frames) /\ Kept(stack, <<>>) /\ <<f>> = Append(<<>>, f)
  <2>1. <<>> \in Seq(Frames) /\ Len(<<>>) = 0
    BY EmptySeq
  <2> QED BY <2>1 DEF Kept
<1> HIDE DEF f
<1>4. stack' \in Seq(Frames) /\ Kept(stack, stack')
  BY <1>1, <1>2, <1>3, KeptPush
<1>5. command_giver' \in Values /\ current_object' \in Values
  BY DEF Turn, Values
<1> QED BY <1>4, <1>5 DEF Turn, Quiet, tree, Typed

-----------------------------------------------------------------------------
(* Inventories                                                             *)

\* An inventory without an object it held: the others keep their order.
LEMMA TakenAway ==
  ASSUME NEW s \in Seq(Objects), NEW o \in Range(s)
  PROVE  \E k \in 1 .. Len(s) :
           /\ s[k] = o /\ Without(s, o) \in Seq(Objects) /\ Len(Without(s, o)) = Len(s) - 1
           /\ \A i \in 1 .. Len(s) - 1 : Without(s, o)[i] = IF i < k THEN s[i] ELSE s[i + 1]
<1>1. /\ Len(s) \in Nat /\ DOMAIN s = 1 .. Len(s) /\ \A i \in 1 .. Len(s) : s[i] \in Objects
      /\ Range(s) = {s[i] : i \in 1 .. Len(s)}
  BY LenProperties, ElementOfSeq, RangeEquality
<1> DEFINE k == CHOOSE i \in DOMAIN s : s[i] = o
           a == SubSeq(s, 1, k - 1)
           b == SubSeq(s, k + 1, Len(s))
           t == a \o b
<1>2. k \in 1 .. Len(s) /\ s[k] = o
  BY <1>1
<1>3. Without(s, o) = t
  BY DEF Without, RemoveAt
<1> HIDE DEF k
<1>4. /\ a \in Seq(Objects) /\ Len(a) = k - 1 /\ \A i \in 1 .. k - 1 : a[i] = s[i]
  <2>1. k - 1 \in Int /\ 1 \in Int /\ \A i \in 1 .. k - 1 : s[i] \in Objects
    BY <1>1, <1>2
  <2>2. a \in Seq(Objects) /\ Len(a) = (IF 1 <= k - 1 THEN (k - 1) - 1 + 1 ELSE 0)
        /\ \A i \in 1 .. (k - 1) - 1 + 1 : a[i] = s[1 + i - 1]
    BY <2>1, SubSeqProperties
  <2> HIDE DEF a
  <2>3. Len(a) = k - 1
    BY <1>1, <1>2, <2>2
  <2>4. \A i \in 1 .. k - 1 : i \in 1 .. (k - 1) - 1 + 1 /\ 1 + i - 1 = i
    BY <1>1, <1>2
  <2> QED BY <2>2, <2>3, <2>4
<1>5. /\ b \in Seq(Objects) /\ Len(b) = Len(s) - k
      /\ \A i \in 1 .. Len(s) - k : b[i] = s[i + k]
  <2>1. k + 1 \in Int /\ Len(s) \in Int /\ \A i \in k + 1 .. Len(s) : s[i] \in Objects
    BY <1>1, <1>2
  <2>2. b \in Seq(Objects) /\ Len(b) = (IF k + 1 <= Len(s) THEN Len(s) - (k + 1) + 1 ELSE 0)
        /\ \A i \in 1 .. Len(s) - (k + 1) + 1 : b[i] = s[k + 1 + i - 1]
    BY <2>1, SubSeqProperties
  <2> HIDE DEF b
  <2> DEFINE n == Len(s)
  <2>3. Len(b) = n - k
    <3>1. n \in Nat /\ k \in 1 .. n
      BY <1>1, <1>2
    <3>2. Len(b) = (IF k + 1 <= n THEN n - (k + 1) + 1 ELSE 0)
      BY <2>2
    <3> HIDE DEF n
    <3> QED BY <3>1, <3>2
  <2>4. \A i \in 1 .. Len(s) - k : i \in 1 .. Len(s) - (k + 1) + 1 /\ k + 1 + i - 1 = i + k
    BY <1>1, <1>2
  <2> QED BY <2>2, <2>3, <2>4
<1> HIDE DEF a, b
<1>6. /\ t \in Seq(Objects) /\ Len(t) = Len(s) - 1
      /\ \A i \in 1 .. Len(s) - 1 : t[i] = IF i < k THEN s[i] ELSE s[i + 1]
  <2>1. /\ t \in Seq(Objects) /\ Len(t) = Len(a) + Len(b)
        /\ \A i \in 1 .. Len(a) + Len(b) : t[i] = IF i <= Len(a) THEN a[i] ELSE b[i - Len(a)]
    BY <1>4, <1>5, ConcatProperties
  <2> HIDE DEF t
  <2>2. Len(s) \in Nat /\ k \in 1 .. Len(s)
    BY <1>1, <1>2
  <2>3. Len(a) = k - 1 /\ Len(b) = Len(s) - k
    BY <1>4, <1>5
  <2>4. Len(t) = Len(s) - 1
    BY <2>1, <2>2, <2>3
  <2>5. ASSUME NEW i \in 1 .. Len(s) - 1 PROVE t[i] = IF i < k THEN s[i] ELSE s[i + 1]
    <3>1. i \in 1 .. Len(a) + Len(b)
      BY <2>2, <2>3
    <3>2. CASE i < k
      <4>1. i \in 1 .. k - 1 /\ i <= Len(a)
        BY <2>2, <2>3, <3>2
      <4> QED BY <1>4, <2>1, <3>1, <3>2, <4>1
    <3>3. CASE i >= k
      <4>1. i - Len(a) \in 1 .. Len(s) - k /\ ~ (i <= Len(a)) /\ i - Len(a) + k = i + 1 /\ ~ (i < k)
        BY <2>2, <2>3, <3>3
      <4>2. t[i] = b[i - Len(a)] /\ b[i - Len(a)] = s[i - Len(a) + k]
        BY <1>5, <2>1, <3>1, <4>1
      <4> QED BY <4>1, <4>2
    <3> QED BY <2>2, <3>2, <3>3
  <2> QED BY <2>1, <2>4, <2>5
<1> HIDE DEF t
<1> QED BY <1>2, <1>3, <1>6

\* Taking an object out of an inventory and putting one at its head.
LEMMA TakenOut ==
  ASSUME NEW s \in Seq(Objects), NEW o
  PROVE  /\ Without(s, o) \in Seq(Objects)
         /\ IsInjective(s) => /\ IsInjective(Without(s, o))
                              /\ Range(Without(s, o)) = Range(s) \ {o}
<1>1. /\ Len(s) \in Nat /\ DOMAIN s = 1 .. Len(s) /\ \A i \in 1 .. Len(s) : s[i] \in Objects
      /\ Range(s) = {s[i] : i \in 1 .. Len(s)}
  BY LenProperties, ElementOfSeq, RangeEquality
<1>2. CASE o \notin Range(s)
  BY <1>2 DEF Without
<1>3. CASE o \in Range(s)
  <2> DEFINE t == Without(s, o)
  <2>1. PICK k \in 1 .. Len(s) :
           /\ s[k] = o /\ t \in Seq(Objects) /\ Len(t) = Len(s) - 1
           /\ \A i \in 1 .. Len(s) - 1 : t[i] = IF i < k THEN s[i] ELSE s[i + 1]
    BY <1>3, TakenAway
  <2> HIDE DEF t
  <2>2. DOMAIN t = 1 .. Len(s) - 1 /\ Range(t) = {t[i] : i \in 1 .. Len(s) - 1}
    BY <2>1, LenProperties, RangeEquality
  <2>3. ASSUME IsInjective(s)
        PROVE  IsInjective(t) /\ Range(t) = Range(s) \ {o}
    <3>1. \A i, j \in 1 .. Len(s) : s[i] = s[j] => i = j
      BY <1>1, <2>3 DEF IsInjective
    <3>2. IsInjective(t)
      BY <1>1, <2>1, <2>2, <3>1 DEF IsInjective
    <3>3. ASSUME NEW i \in 1 .. Len(s) - 1 PROVE t[i] \in Range(s) \ {o}
      BY <1>1, <2>1, <3>1
    <3>4. ASSUME NEW i \in 1 .. Len(s), s[i] # o PROVE s[i] \in Range(t)
      <4>1. CASE i < k
        <5>1. i \in 1 .. Len(s) - 1 /\ t[i] = s[i]
          BY <1>1, <2>1, <4>1
        <5> QED BY <2>2, <5>1
      <4>2. CASE i > k
        <5>1. i - 1 \in 1 .. Len(s) - 1 /\ t[i - 1] = s[i]
          BY <1>1, <2>1, <4>2
        <5> QED BY <2>2, <5>1
      <4> QED BY <1>1, <2>1, <3>4, <4>1, <4>2
    <3> QED BY <1>1, <2>2, <3>2, <3>3, <3>4
  <2> QED BY <2>1, <2>3 DEF t
<1> QED BY <1>2, <1>3

LEMMA PutIn ==
  ASSUME NEW s \in Seq(Objects), NEW o \in Objects
  PROVE  /\ <<o>> \o s \in Seq(Objects)
         /\ IsInjective(s) /\ o \notin Range(s) => /\ IsInjective(<<o>> \o s)
                                                 /\ Range(<<o>> \o s) = Range(s) \cup {o}
<1> DEFINE t == <<o>> \o s
<1>1. /\ Len(s) \in Nat /\ DOMAIN s = 1 .. Len(s) /\ Range(s) = {s[i] : i \in 1 .. Len(s)}
  BY LenProperties, RangeEquality
<1>2. <<o>> \in Seq(Objects) /\ Len(<<o>>) = 1 /\ <<o>>[1] = o
  OBVIOUS
<1>3. /\ t \in Seq(Objects) /\ Len(t) = 1 + Len(s)
      /\ \A i \in 1 .. 1 + Len(s) : t[i] = IF i <= 1 THEN o ELSE s[i - 1]
  BY <1>2, ConcatProperties
<1> HIDE DEF t
<1>4. DOMAIN t = 1 .. 1 + Len(s) /\ Range(t) = {t[i] : i \in 1 .. 1 + Len(s)}
  BY <1>3, LenProperties, RangeEquality
<1>5. ASSUME IsInjective(s), o \notin Range(s)
      PROVE  IsInjective(t) /\ Range(t) = Range(s) \cup {o}
  <2>1. IsInjective(t)
    <3>1. \A i, j \in 1 .. Len(s) : s[i] = s[j] => i = j
      BY <1>1, <1>5 DEF IsInjective
    <3>2. \A i \in 1 .. Len(s) : s[i] # o
      BY <1>1, <1>5
    <3> QED BY <1>1, <1>3, <1>4, <3>1, <3>2 DEF IsInjective
  <2>2. \A i \in 1 .. 1 + Len(s) : t[i] \in Range(s) \cup {o}
    BY <1>1, <1>3
  <2>3. ASSUME NEW i \in 1 .. Len(s) PROVE s[i] \in Range(t)
    <3>1. i + 1 \in 1 .. 1 + Len(s) /\ t[i + 1] = s[i]
      BY <1>1, <1>3
    <3> QED BY <1>4, <3>1
  <2>4. o \in Range(t)
    <3>1. 1 \in 1 .. 1 + Len(s) /\ t[1] = o
      BY <1>1, <1>3
    <3> QED BY <1>4, <3>1
  <2> QED BY <1>1, <1>4, <2>1, <2>2, <2>3, <2>4
<1> QED BY <1>3, <1>5 DEF t

-----------------------------------------------------------------------------
(* Circles                                                                 *)

\* One more edge, out of a set that is closed: a set without a way out of it
\* would have been one before, whole or cut down to the closed set.
LEMMA EdgeKeepsBounded ==
  ASSUME NEW s, NEW u, NEW t, NEW v, Bounded(s, u),
         NEW o \in Objects, NEW d \in Objects, NEW U \in SUBSET Objects,
         d \in U, o \notin U, \A q \in U : Edges(s, u, q) \subseteq U \cup {NoObject},
         \A q \in Objects \ {o} : Edges(t, v, q) \subseteq Edges(s, u, q),
         Edges(t, v, o) \subseteq Edges(s, u, o) \cup {d}
  PROVE  Bounded(t, v)
<1>1. SUFFICES ASSUME NEW S \in SUBSET Objects, S # {}, \A q \in S : Edges(t, v, q) \cap S # {}
               PROVE  FALSE
  BY DEF Bounded
<1>2. CASE o \in S /\ d \in S
  <2> DEFINE W == S \cap U
  <2>1. W \in SUBSET Objects /\ W # {}
    BY <1>2
  <2>2. ASSUME NEW q \in W PROVE Edges(s, u, q) \cap W # {}
    <3>1. q \in Objects \ {o} /\ q \in S /\ q \in U
      OBVIOUS
    <3>2. PICK p \in Edges(t, v, q) : p \in S
      BY <1>1, <3>1
    <3>3. p \in Edges(s, u, q)
      BY <3>1, <3>2
    <3>4. p \in U
      BY <3>1, <3>2, <3>3, ObjectsAssumption
    <3> QED BY <3>2, <3>3, <3>4
  <2> HIDE DEF W
  <2> QED BY <2>1, <2>2 DEF Bounded
<1>3. CASE ~ (o \in S /\ d \in S)
  <2>1. ASSUME NEW q \in S PROVE Edges(s, u, q) \cap S # {}
    <3>1. PICK p \in Edges(t, v, q) : p \in S
      BY <1>1
    <3>2. q \in Objects
      OBVIOUS
    <3>3. p \in Edges(s, u, q)
      BY <1>3, <3>1, <3>2
    <3> QED BY <3>1, <3>3
  <2> QED BY <1>1, <2>1 DEF Bounded
<1> QED BY <1>2, <1>3

\* Fewer edges
LEMMA FewerKeepBounded ==
  ASSUME NEW s, NEW u, NEW t, NEW v, Bounded(s, u),
         \A q \in Objects : Edges(t, v, q) \subseteq Edges(s, u, q) \cup {NoObject}
  PROVE  Bounded(t, v)
<1>1. SUFFICES ASSUME NEW S \in SUBSET Objects, S # {}
               PROVE  \E q \in S : Edges(t, v, q) \cap S = {}
  BY DEF Bounded
<1>2. PICK q \in S : Edges(s, u, q) \cap S = {}
  BY <1>1 DEF Bounded
<1>3. NoObject \notin S
  BY ObjectsAssumption
<1> QED BY <1>2, <1>3

\* What is in no closed set around d
LEMMA OutsideBound ==
  ASSUME Typed, NEW o, NEW d \in Objects, o \in Objects, o \notin Bound(d)
  PROVE  \E U \in SUBSET Objects :
           d \in U /\ o \notin U /\ \A q \in U : Edges(stack, super, q) \subseteq U \cup {NoObject}
<1>1. PICK U \in SUBSET Objects :
        d \in U /\ o \notin U /\ \A q \in U : Leads(q) \subseteq U \cup {NoObject}
  BY DEF Bound
<1> QED BY <1>1, LeadsIsEdges

-----------------------------------------------------------------------------
(* Steps that change the tree                                              *)

\* What Link does to the tree and to the stack it returns to
LinkFails(item) == super[item] # NoObject /\ item \notin Range(contains[super[item]])

Taken(item) == IF super[item] = NoObject THEN contains
               ELSE [contains EXCEPT ![super[item]] = Without(@, item)]

LEMMA LinkTyped ==
  ASSUME Typed, NEW s \in Seq(Frames), NEW item \in Objects, NEW dest \in Objects,
         NEW save \in Values, Link(s, item, dest, save), ~ LinkFails(item)
  PROVE  /\ stack' \in Seq(Frames) /\ Kept(s, stack')
         /\ command_giver' \in Values /\ current_object' \in Values /\ fatal' = fatal
         /\ super' = [super EXCEPT ![item] = dest]
         /\ contains' = [Taken(item) EXCEPT ![dest] = <<item>> \o @]
<1> DEFINE m == Marked(Entered(s, item), sentences')
           f(at, ob) == InitFrame(item, dest, save, at, ob)
<1>1. /\ super' = [super EXCEPT ![item] = dest]
      /\ contains' = [Taken(item) EXCEPT ![dest] = <<item>> \o @]
      /\ fatal' = fatal
      /\ IF item \in living
         THEN command_giver' = item /\ Call(m, f("dest", NoObject), dest)
         ELSE stack' = Append(m, f("loop", item)) /\ UNCHANGED regs
  BY DEF Link, LinkFails, Taken
<1>2. m \in Seq(Frames) /\ Kept(s, m)
  <2>1. Entered(s, item) \in Seq(Frames) /\ Kept(s, Entered(s, item))
    BY EnteredKeeps
  <2>2. m \in Seq(Frames) /\ Kept(Entered(s, item), m)
    BY <2>1, MarkedKeeps
  <2> HIDE DEF m
  <2> QED BY <2>1, <2>2, KeptTransitive
<1>3. ASSUME NEW at \in {"dest", "loop"}, NEW ob \in Values
      PROVE  f(at, ob) \in Frames /\ f(at, ob).kind = "init"
  <2>1. Range(contains[dest]) \in SUBSET Objects
    BY RangeOfSeq DEF Typed, TreeTypes
  <2>2. f(at, ob) \in InitFrames
    BY <2>1 DEF InitFrames, InitFrame, Values
  <2> QED BY <2>2 DEF Frames, InitFrames
<1>4. NoObject \in Values /\ item \in Values /\ dest \in Values
  BY DEF Values
<1> HIDE DEF m, f
<1>5. ASSUME NEW at \in {"dest", "loop"}, NEW ob \in Values
      PROVE  Append(m, f(at, ob)) \in Seq(Frames) /\ Kept(s, Append(m, f(at, ob)))
  <2>1. f(at, ob) \in Frames /\ f(at, ob).kind \notin {"exit", "destruct"}
    BY <1>3
  <2> QED BY <1>2, <2>1, KeptPush
<1>6. CASE item \in living
  <2> DEFINE t == Append(m, f("dest", NoObject))
             g == [kind |-> "call", ob |-> current_object, comgiver |-> command_giver']
  <2>1. t \in Seq(Frames) /\ Kept(s, t)
    BY <1>4, <1>5
  <2>2. command_giver' = item /\ current_object' = dest /\ stack' = Append(t, g)
    BY <1>1, <1>6 DEF Call
  <2>3. current_object \in Values /\ command_giver' \in Values
    BY <1>4, <2>2 DEF Typed
  <2>4. g \in Frames /\ g.kind \notin {"exit", "destruct"}
    BY <2>3, LpcFrames
  <2> HIDE DEF t, g
  <2>5. stack' \in Seq(Frames) /\ Kept(s, stack')
    BY <2>1, <2>2, <2>4, KeptPush
  <2> QED BY <1>1, <1>4, <2>2, <2>5
<1>7. CASE item \notin living
  <2>1. stack' = Append(m, f("loop", item)) /\ UNCHANGED regs
    BY <1>1, <1>7
  <2> QED BY <1>1, <1>4, <1>5, <2>1 DEF regs, Typed
<1> QED BY <1>6, <1>7

LEMMA LinkFailed ==
  ASSUME NEW s, NEW item, NEW dest, NEW save, Link(s, item, dest, save), LinkFails(item)
  PROVE  UNCHANGED <<super, contains, stack, command_giver, current_object>>
BY DEF Link, LinkFails, regs

\* Inventories stay typed, whatever was in them.
LEMMA LinkTreeTypes ==
  ASSUME TreeTypes, NEW item \in Objects, NEW dest \in Objects, life' = life,
         super' = [super EXCEPT ![item] = dest],
         contains' = [Taken(item) EXCEPT ![dest] = <<item>> \o @]
  PROVE  TreeTypes'
<1>1. Taken(item) \in [Objects -> Seq(Objects)]
  BY TakenOut DEF Taken, TreeTypes
<1> HIDE DEF Taken
<1>2. <<item>> \o Taken(item)[dest] \in Seq(Objects)
  BY <1>1, PutIn
<1>3. contains' \in [Objects -> Seq(Objects)]
  BY <1>1, <1>2
<1> QED BY <1>3 DEF TreeTypes

LEMMA LinkWellFormed ==
  ASSUME TreeTypes, WellFormed, NEW item \in Objects, NEW dest \in Objects, life' = life,
         life[item] = "live", life[dest] = "live",
         super' = [super EXCEPT ![item] = dest],
         contains' = [Taken(item) EXCEPT ![dest] = <<item>> \o @]
  PROVE  WellFormed'
<1> DEFINE left == Taken(item)
<1>1. left \in [Objects -> Seq(Objects)]
  BY TakenOut DEF Taken, TreeTypes
<1>2. ASSUME NEW p \in Objects
      PROVE  /\ IsInjective(left[p])
             /\ Range(left[p]) = {q \in Objects : super[q] = p} \ {item}
  <2>1. /\ contains[p] \in Seq(Objects) /\ IsInjective(contains[p])
        /\ Range(contains[p]) = {q \in Objects : super[q] = p}
    BY DEF TreeTypes, WellFormed
  <2>2. CASE p = super[item]
    <3>1. left[p] = Without(contains[p], item)
      <4>1. super[item] # NoObject /\ contains \in [Objects -> Seq(Objects)]
        BY <2>2, ObjectsAssumption DEF TreeTypes
      <4>2. left = [contains EXCEPT ![p] = Without(contains[p], item)]
        BY <2>2, <4>1 DEF Taken
      <4> HIDE DEF left
      <4> QED BY <4>1, <4>2
    <3>2. /\ IsInjective(Without(contains[p], item))
          /\ Range(Without(contains[p], item)) = Range(contains[p]) \ {item}
      BY <2>1, TakenOut
    <3> QED BY <2>1, <3>1, <3>2
  <2>3. CASE p # super[item]
    <3>1. left[p] = contains[p]
      BY <2>3 DEF Taken, TreeTypes
    <3> QED BY <2>1, <2>3, <3>1
  <2> QED BY <2>2, <2>3
<1> HIDE DEF left
<1>3. contains' = [left EXCEPT ![dest] = <<item>> \o @]
  BY DEF left
<1>4. \A p \in Objects : super'[p] = IF p = item THEN dest ELSE super[p]
  BY DEF TreeTypes
<1>5. ASSUME NEW p \in Objects
      PROVE  /\ super'[p] # NoObject => life'[p] = "live" /\ life'[super'[p]] = "live"
             /\ IsInjective(contains'[p])
             /\ Range(contains'[p]) = {q \in Objects : super'[q] = p}
  <2>1. super'[p] # NoObject => life'[p] = "live" /\ life'[super'[p]] = "live"
    BY <1>4 DEF WellFormed
  <2>2. CASE p = dest
    <3>1. contains'[p] = <<item>> \o left[p]
      BY <1>1, <1>3, <2>2
    <3>2. left[p] \in Seq(Objects) /\ item \notin Range(left[p]) /\ IsInjective(left[p])
      BY <1>1, <1>2
    <3>3. IsInjective(<<item>> \o left[p]) /\ Range(<<item>> \o left[p]) = Range(left[p]) \cup {item}
      BY <3>2, PutIn
    <3>4. Range(contains'[p]) = {q \in Objects : super'[q] = p}
      <4>1. Range(contains'[p]) = ({q \in Objects : super[q] = p} \ {item}) \cup {item}
        BY <1>2, <3>1, <3>3
      <4>2. \A q \in Objects : super'[q] = p <=> q = item \/ super[q] = p
        BY <1>4, <2>2
      <4> QED BY <4>1, <4>2
    <3> QED BY <2>1, <3>1, <3>3, <3>4
  <2>3. CASE p # dest
    <3>1. contains'[p] = left[p]
      BY <1>1, <1>3, <2>3
    <3>2. Range(contains'[p]) = {q \in Objects : super'[q] = p}
      BY <1>2, <1>4, <2>3, <3>1
    <3> QED BY <1>2, <2>1, <3>1, <3>2
  <2> QED BY <2>2, <2>3
<1> QED BY <1>5 DEF WellFormed

\* WellFormed rules the fatal() of move_object out.
LEMMA LinkSucceeds ==
  ASSUME WellFormed, TreeTypes, NEW item \in Objects
  PROVE  ~ LinkFails(item)
BY DEF WellFormed, TreeTypes, LinkFails

-----------------------------------------------------------------------------
(* Promises made                                                           *)

LEMMA Pushed ==
  ASSUME NEW s \in Seq(Frames), NEW x \in Frames
  PROVE  /\ Append(s, x) \in Seq(Frames) /\ Len(Append(s, x)) = Len(s) + 1 /\ Len(s) \in Nat
         /\ Append(s, x)[Len(s) + 1] = x /\ \A i \in 1 .. Len(s) : Append(s, x)[i] = s[i]
BY AppendProperties, LenProperties

\* A move waits for exit() to return.
LEMMA ExitPushed ==
  ASSUME NEW s \in Seq(Frames), NEW x \in ExitFrames,
         NEW t \in Seq(Frames), Kept(Append(s, x), t), NEW l, NEW u
  PROVE  /\ Remembered(s, l) /\ "none" \notin {l[x.item], l[x.dest]} => Remembered(t, l)
         /\ Apart(s, l) => Apart(t, l)
         /\ \A q \in Objects \ {x.item} : Edges(t, u, q) \subseteq Edges(s, u, q)
         /\ x.item \in Objects => Edges(t, u, x.item) \subseteq Edges(s, u, x.item) \cup {x.dest}
<1> DEFINE a == Append(s, x)
           n == Len(s) + 1
<1>1. x \in Frames /\ x.kind = "exit"
  BY DEF Frames, ExitFrames
<1>2. /\ a \in Seq(Frames) /\ Len(a) = n /\ Len(s) \in Nat
      /\ a[n] = x /\ \A i \in 1 .. Len(s) : a[i] = s[i]
  BY <1>1, Pushed
<1> HIDE DEF a
<1>3. Moving(a) = Moving(s) \cup {n} /\ Destructing(a) = Destructing(s)
  BY <1>1, <1>2 DEF Moving, Destructing
<1>4. /\ \A i \in Moving(s) : i # n /\ a[i] = s[i]
      /\ \A i \in Destructing(s) : a[i] = s[i]
  BY <1>2 DEF Moving, Destructing
<1>5. Remembered(s, l) /\ "none" \notin {l[x.item], l[x.dest]} => Remembered(a, l)
  BY <1>2, <1>3, <1>4 DEF Remembered
<1>6. Apart(s, l) => Apart(a, l)
  BY <1>3, <1>4 DEF Apart
<1>7. \A q \in Objects \ {x.item} : Edges(a, u, q) \subseteq Edges(s, u, q)
  BY <1>2, <1>3, <1>4 DEF Edges
<1>8. Edges(a, u, x.item) \subseteq Edges(s, u, x.item) \cup {x.dest}
  BY <1>2, <1>3, <1>4 DEF Edges
<1>9. /\ Remembered(a, l) => Remembered(t, l)
      /\ Apart(a, l) => Apart(t, l)
      /\ \A q \in Objects : Edges(t, u, q) \subseteq Edges(a, u, q)
  BY <1>2, KeptSound DEF a
<1> QED BY <1>5, <1>6, <1>7, <1>8, <1>9

\* An object is going to be destructed.
LEMMA DestructPushed ==
  ASSUME NEW s \in Seq(Frames), NEW x \in DestructFrames, NEW l, NEW u
  PROVE  LET t == Append(s, x)
         IN /\ t \in Seq(Frames)
            /\ Remembered(s, l) /\ l[x.ob] # "none" => Remembered(t, l)
            /\ Apart(s, l) /\ l[x.ob] = "live" /\ (\A i \in Destructing(s) : s[i].ob # x.ob)
                 => Apart(t, l)
            /\ \A q \in Objects : Edges(t, u, q) \subseteq Edges(s, u, q)
<1> DEFINE a == Append(s, x)
           n == Len(s) + 1
<1>1. x \in Frames /\ x.kind = "destruct"
  BY DEF Frames, DestructFrames
<1>2. /\ a \in Seq(Frames) /\ Len(a) = n /\ Len(s) \in Nat
      /\ a[n] = x /\ \A i \in 1 .. Len(s) : a[i] = s[i]
  BY <1>1, Pushed
<1> HIDE DEF a
<1>3. Moving(a) = Moving(s) /\ Destructing(a) = Destructing(s) \cup {n}
  BY <1>1, <1>2 DEF Moving, Destructing
<1>4. /\ \A i \in Moving(s) : a[i] = s[i]
      /\ \A i \in Destructing(s) : i # n /\ a[i] = s[i]
  BY <1>2 DEF Moving, Destructing
<1>5. Remembered(s, l) /\ l[x.ob] # "none" => Remembered(a, l)
  BY <1>2, <1>3, <1>4 DEF Remembered
<1>6. Apart(s, l) /\ l[x.ob] = "live" /\ (\A i \in Destructing(s) : s[i].ob # x.ob)
        => Apart(a, l)
  BY <1>2, <1>3, <1>4 DEF Apart
<1>7. \A q \in Objects : Edges(a, u, q) \subseteq Edges(s, u, q)
  BY <1>3, <1>4 DEF Edges
<1> QED BY <1>2, <1>5, <1>6, <1>7 DEF a

-----------------------------------------------------------------------------
(* move_object                                                             *)

\* What is known of a move that took no liberty.
LEMMA MoveLiberties ==
  ASSUME Typed, NEW o \in Objects, NEW d \in Objects, Operation(o, MoveMisuse(o, d))
  PROVE  /\ "move_destructed" \notin taken' => life[o] = "live" /\ "move_destructed" \notin taken
         /\ "exit_moves_room" \notin taken' => ExitStaysOut(o, d) /\ "exit_moves_room" \notin taken
         /\ "destruct_twice" \notin taken' => "destruct_twice" \notin taken
<1>1. taken \subseteq taken' /\ MoveMisuse(o, d) \subseteq taken'
  BY OperationTyped
<1> QED BY <1>1 DEF MoveMisuse, Misuse

\* A closed set around the destination and without the object.
Around(s, u, o, d, U) ==
  /\ U \in SUBSET Objects /\ d \in U /\ o \notin U
  /\ \A q \in U : Edges(s, u, q) \subseteq U \cup {NoObject}

LEMMA MoveGoesOut ==
  ASSUME Typed, NEW o \in Objects, NEW d \in Objects, Operation(o, MoveMisuse(o, d)),
         o \notin Outwards(d), "exit_moves_room" \notin taken'
  PROVE  \E U : Around(stack, super, o, d, U)
<1>1. o \notin Bound(d)
  BY MoveLiberties DEF ExitStaysOut
<1> QED BY <1>1, OutsideBound DEF Around

LEMMA MoveObjectKeeps ==
  ASSUME Inv, NEW o \in Objects, NEW d \in Objects, MoveObject(o, d)
  PROVE  Inv'
<1>1. Typed /\ Operation(o, MoveMisuse(o, d)) /\ life[d] = "live" /\ UNCHANGED life
  BY DEF Inv, MoveObject
<1>2. /\ taken \subseteq taken' /\ taken' \subseteq Liberties /\ stack \in Seq(Frames)
      /\ Kept(stack, stack) /\ command_giver \in Values /\ TreeTypes
  BY <1>1, OperationTyped DEF Typed
<1>3. CASE o \in Outwards(d)
  <2>1. Error /\ UNCHANGED <<super, contains, fatal>>
    BY <1>3 DEF MoveObject
  <2>2. Quiet
    BY <1>1, <1>2, <2>1, ErrorIsQuiet DEF Quiet
  <2> QED BY <2>2, QuietKeeps
<1>4. CASE o \notin Outwards(d) /\ super[o] # NoObject
  <2> DEFINE x == [kind |-> "exit", item |-> o, dest |-> d, save |-> command_giver]
             g == [kind |-> "call", ob |-> current_object, comgiver |-> command_giver']
  <2>1. /\ command_giver' = command_giver /\ UNCHANGED <<super, contains, fatal>>
        /\ current_object' = super[o] /\ stack' = Append(Append(stack, x), g)
    BY <1>4 DEF MoveObject, Call
  <2>2. x \in ExitFrames /\ x.item = o /\ x.dest = d
    BY <1>2 DEF ExitFrames
  <2>3. x \in Frames
    BY <2>2 DEF Frames
  <2>4. g \in Frames /\ g.kind \notin {"exit", "destruct"}
    BY <1>1, <2>1, LpcFrames DEF Typed
  <2> HIDE DEF x, g
  <2>5. Append(stack, x) \in Seq(Frames) /\ Kept(Append(stack, x), Append(stack, x))
    BY <1>2, <2>3, Pushed DEF Kept, SameTask
  <2>6. stack' \in Seq(Frames) /\ Kept(Append(stack, x), stack')
    BY <2>1, <2>4, <2>5, KeptPush
  <2>7. Typed'
    BY <1>1, <1>2, <2>1, <2>6 DEF Typed, TreeTypes, Values
  <2>8. "move_destructed" \notin taken' => WellFormed' /\ Remembered(stack', life')
    <3>1. SUFFICES ASSUME "move_destructed" \notin taken' PROVE WellFormed' /\ Remembered(stack', life')
      OBVIOUS
    <3>2. life[o] = "live" /\ WellFormed /\ Remembered(stack, life)
      BY <1>1, <3>1, MoveLiberties DEF Inv
    <3>3. Remembered(stack', life)
      BY <1>1, <1>2, <2>2, <2>6, <3>2, ExitPushed
    <3> QED BY <1>1, <2>1, <3>2, <3>3 DEF WellFormed
  <2>9. taken' \cap {"move_destructed", "destruct_twice"} = {} =>
          Apart(stack', life') /\ fatal' = "none"
    <3>1. Apart(stack, life) => Apart(stack', life)
      BY <1>2, <2>2, <2>6, ExitPushed
    <3> QED BY <1>1, <1>2, <2>1, <3>1 DEF Inv
  <2>10. taken' \cap {"move_destructed", "exit_moves_room"} = {} => Bounded(stack', super')
    <3>1. SUFFICES ASSUME taken' \cap {"move_destructed", "exit_moves_room"} = {}
                   PROVE  Bounded(stack', super)
      BY <2>1
    <3>2. Bounded(stack, super)
      BY <1>2, <3>1 DEF Inv
    <3>3. PICK U : Around(stack, super, o, d, U)
      BY <1>1, <1>4, <3>1, MoveGoesOut
    <3>4. /\ \A q \in Objects \ {o} : Edges(stack', super, q) \subseteq Edges(stack, super, q)
          /\ Edges(stack', super, o) \subseteq Edges(stack, super, o) \cup {d}
      BY <1>2, <2>2, <2>6, ExitPushed
    <3> QED BY <3>2, <3>3, <3>4, EdgeKeepsBounded DEF Around
  <2> QED BY <2>7, <2>8, <2>9, <2>10 DEF Inv
<1>5. CASE o \notin Outwards(d) /\ super[o] = NoObject
  <2>1. Link(stack, o, d, command_giver) /\ ~ LinkFails(o)
    BY <1>5 DEF MoveObject, LinkFails
  <2>2. /\ stack' \in Seq(Frames) /\ Kept(stack, stack')
        /\ command_giver' \in Values /\ current_object' \in Values /\ fatal' = fatal
        /\ super' = [super EXCEPT ![o] = d]
        /\ contains' = [Taken(o) EXCEPT ![d] = <<o>> \o @]
    BY <1>1, <1>2, <2>1, LinkTyped
  <2>3. TreeTypes'
    BY <1>1, <1>2, <2>2, LinkTreeTypes
  <2>4. Typed'
    BY <1>2, <2>2, <2>3 DEF Typed
  <2>5. /\ Remembered(stack, life) => Remembered(stack', life')
        /\ Apart(stack, life) => Apart(stack', life')
        /\ \A q \in Objects : Edges(stack', super, q) \subseteq Edges(stack, super, q)
    BY <1>1, <1>2, <2>2, KeptSound
  <2>6. "move_destructed" \notin taken' => WellFormed' /\ Remembered(stack', life')
    <3>1. SUFFICES ASSUME "move_destructed" \notin taken' PROVE WellFormed' /\ Remembered(stack', life')
      OBVIOUS
    <3>2. life[o] = "live" /\ WellFormed /\ Remembered(stack, life)
      BY <1>1, <3>1, MoveLiberties DEF Inv
    <3> QED BY <1>1, <1>2, <2>2, <2>5, <3>2, LinkWellFormed
  <2>7. taken' \cap {"move_destructed", "exit_moves_room"} = {} => Bounded(stack', super')
    <3>1. SUFFICES ASSUME taken' \cap {"move_destructed", "exit_moves_room"} = {}
                   PROVE  Bounded(stack', super')
      OBVIOUS
    <3>2. Bounded(stack, super)
      BY <1>2, <3>1 DEF Inv
    <3>3. PICK U : Around(stack, super, o, d, U)
      BY <1>1, <1>5, <3>1, MoveGoesOut
    <3>4. \A q \in Objects : super'[q] = IF q = o THEN d ELSE super[q]
      BY <1>2, <2>2 DEF TreeTypes
    <3>5. /\ \A q \in Objects \ {o} : Edges(stack', super', q) \subseteq Edges(stack, super, q)
          /\ Edges(stack', super', o) \subseteq Edges(stack, super, o) \cup {d}
      BY <2>5, <3>4 DEF Edges
    <3> QED BY <3>2, <3>3, <3>5, EdgeKeepsBounded DEF Around
  <2> QED BY <1>2, <2>2, <2>4, <2>5, <2>6, <2>7 DEF Inv
<1> QED BY <1>3, <1>4, <1>5

\* The move that waits, when exit() has returned.
LEMMA ExitFrame ==
  ASSUME Typed, Waits("exit")
  PROVE  /\ Top.item \in Objects /\ Top.dest \in Objects /\ Top.save \in Values
         /\ Below \in Seq(Frames) /\ Kept(stack, Below)
         /\ Len(stack) \in Moving(stack) /\ Top = stack[Len(stack)]
<1>1. /\ Top \in Frames /\ Top.kind = "exit" /\ Top = stack[Len(stack)]
      /\ Below \in Seq(Frames) /\ Kept(stack, Below) /\ Len(stack) \in Nat \ {0}
  BY WaitsFrame
<1>2. Top \in ExitFrames
  BY <1>1, FramesByKind
<1>3. Len(stack) \in Moving(stack)
  BY <1>1 DEF Moving
<1> QED BY <1>1, <1>2, <1>3 DEF ExitFrames

LEMMA MoveOnKeeps ==
  ASSUME Inv, MoveOn
  PROVE  Inv'
<1> DEFINE o == Top.item
           d == Top.dest
<1>1. Typed /\ Waits("exit") /\ UNCHANGED <<life, taken>>
  BY DEF Inv, MoveOn
<1>2. /\ o \in Objects /\ d \in Objects /\ Top.save \in Values
      /\ Below \in Seq(Frames) /\ Kept(stack, Below) /\ stack \in Seq(Frames)
      /\ Len(stack) \in Moving(stack) /\ Top = stack[Len(stack)] /\ TreeTypes
      /\ taken \subseteq Liberties
  BY <1>1, ExitFrame DEF Typed
<1>3. CASE "destructed" \in {life[o], life[d]}
  <2>1. stack' = Below /\ UNCHANGED <<super, contains, regs, fatal>>
    BY <1>3 DEF MoveOn
  <2> QED BY <1>1, <1>2, <2>1, QuietKeeps DEF Quiet, Typed, regs
<1>4. CASE "destructed" \notin {life[o], life[d]}
  <2>1. Link(Below, o, d, Top.save)
    BY <1>4 DEF MoveOn
  <2>2. "move_destructed" \notin taken =>
          WellFormed /\ Remembered(stack, life) /\ life[o] = "live" /\ life[d] = "live"
    <3>1. life[o] \in {"none", "live", "destructed"} /\ life[d] \in {"none", "live", "destructed"}
      BY <1>2 DEF TreeTypes
    <3>2. Remembered(stack, life) => "none" \notin {life[o], life[d]}
      BY <1>2 DEF Remembered
    <3> QED BY <1>4, <3>1, <3>2 DEF Inv
  <2>3. CASE LinkFails(o)
    <3>1. UNCHANGED <<super, contains, stack, command_giver, current_object>>
      BY <2>1, <2>3, LinkFailed
    <3>2. "move_destructed" \in taken
      BY <1>2, <2>2, <2>3, LinkSucceeds
    <3> QED BY <1>1, <3>1, <3>2 DEF Inv, Typed, TreeTypes
  <2>4. CASE ~ LinkFails(o)
    <3>1. /\ stack' \in Seq(Frames) /\ Kept(Below, stack')
          /\ command_giver' \in Values /\ current_object' \in Values /\ fatal' = fatal
          /\ super' = [super EXCEPT ![o] = d]
          /\ contains' = [Taken(o) EXCEPT ![d] = <<o>> \o @]
      BY <1>1, <1>2, <2>1, <2>4, LinkTyped, SMTT(30)
    <3>2. TreeTypes'
      BY <1>1, <1>2, <3>1, LinkTreeTypes
    <3>3. Typed'
      BY <1>1, <1>2, <3>1, <3>2 DEF Typed
    <3>4. Kept(stack, stack')
      BY <1>2, <3>1, KeptTransitive
    <3>5. /\ Remembered(stack, life) => Remembered(stack', life')
          /\ Apart(stack, life) => Apart(stack', life')
          /\ \A q \in Objects : Edges(stack', super, q) \subseteq Edges(stack, super, q)
      BY <1>1, <1>2, <3>1, <3>4, KeptSound
    <3>6. "move_destructed" \notin taken => WellFormed'
      BY <1>1, <1>2, <2>2, <3>1, LinkWellFormed
    <3>7. Bounded(stack, super) => Bounded(stack', super')
      <4>1. \A q \in Objects : super'[q] = IF q = o THEN d ELSE super[q]
        BY <1>2, <3>1 DEF TreeTypes
      <4>2. d \in Edges(stack, super, o)
        BY <1>2 DEF Edges
      <4>3. \A q \in Objects : Edges(stack', super', q) \subseteq Edges(stack, super, q)
        BY <3>5, <4>1, <4>2 DEF Edges
      <4> QED BY <4>3, FewerKeepBounded
    <3> QED BY <1>1, <2>2, <3>1, <3>3, <3>5, <3>6, <3>7 DEF Inv
  <2> QED BY <2>3, <2>4
<1> QED BY <1>3, <1>4

-----------------------------------------------------------------------------
(* destruct_object                                                         *)

LEMMA NewDestruction ==
  ASSUME NEW p \in Objects
  PROVE  DestructFrame(p) \in DestructFrames /\ DestructFrame(p).ob = p
BY DEF DestructFrame, DestructFrames

LEMMA BeingDestructedIs ==
  ASSUME Typed, NEW p
  PROVE  BeingDestructed(p) <=> \E i \in Destructing(stack) : stack[i].ob = p
<1>1. DOMAIN stack = 1 .. Len(stack)
  BY LenProperties DEF Typed
<1> QED BY <1>1 DEF BeingDestructed, Pending, Destructing

\* A destruction of a live object begins, on a stack s that is kept.
LEMMA DestructionBegins ==
  ASSUME Inv, NEW p \in Objects, NEW s \in Seq(Frames), Kept(stack, s),
         "move_destructed" \notin taken => life[p] = "live",
         BeingDestructed(p) => "destruct_twice" \in taken',
         stack' = Append(s, DestructFrame(p)),
         UNCHANGED <<life, super, contains, command_giver, current_object, fatal>>,
         taken \subseteq taken', taken' \subseteq Liberties
  PROVE  Inv'
<1>1. Typed /\ stack \in Seq(Frames) /\ TreeTypes
  BY DEF Inv, Typed
<1>2. /\ Remembered(stack, life) => Remembered(s, life)
      /\ Apart(stack, life) => Apart(s, life)
      /\ \A q \in Objects : Edges(s, super, q) \subseteq Edges(stack, super, q)
  BY <1>1, KeptSound
<1>3. /\ stack' \in Seq(Frames)
      /\ Remembered(s, life) /\ life[p] # "none" => Remembered(stack', life)
      /\ Apart(s, life) /\ life[p] = "live" /\ (\A i \in Destructing(s) : s[i].ob # p)
           => Apart(stack', life)
      /\ \A q \in Objects : Edges(stack', super, q) \subseteq Edges(s, super, q)
  <2> DEFINE x == DestructFrame(p)
  <2>1. x \in DestructFrames /\ x.ob = p
    BY NewDestruction
  <2>2. stack' = Append(s, x)
    OBVIOUS
  <2> HIDE DEF x
  <2> QED BY <2>1, <2>2, DestructPushed
<1>4. "destruct_twice" \notin taken' => \A i \in Destructing(s) : s[i].ob # p
  <2>1. "destruct_twice" \notin taken' => \A i \in Destructing(stack) : stack[i].ob # p
    BY <1>1, BeingDestructedIs
  <2>2. \A i \in Destructing(s) : i \in Destructing(stack) /\ stack[i].ob = s[i].ob
    BY DEF Kept, SameTask, Destructing
  <2> QED BY <2>1, <2>2
<1>5. Typed'
  BY <1>1, <1>3 DEF Typed, TreeTypes
<1>6. "move_destructed" \notin taken' => WellFormed' /\ Remembered(stack', life')
  BY <1>2, <1>3 DEF Inv, WellFormed
<1>7. taken' \cap {"move_destructed", "destruct_twice"} = {} =>
        Apart(stack', life') /\ fatal' = "none"
  BY <1>2, <1>3, <1>4 DEF Inv
<1>8. Bounded(stack, super) => Bounded(stack', super')
  <2>1. \A q \in Objects : Edges(stack', super', q) \subseteq Edges(stack, super, q)
    BY <1>2, <1>3
  <2> QED BY <2>1, FewerKeepBounded
<1> QED BY <1>5, <1>6, <1>7, <1>8 DEF Inv

LEMMA DestructKeeps ==
  ASSUME Inv, NEW o \in Objects, NEW p \in Objects, Destruct(o, p)
  PROVE  Inv'
<1>1. CASE o = p
  <2>1. /\ Operation(o, DestructMisuse(p)) /\ stack' = Append(stack, DestructFrame(p))
        /\ life[p] = "live" /\ UNCHANGED <<life, super, contains, command_giver, current_object, fatal>>
    BY <1>1 DEF Destruct, tree, regs
  <2>2. /\ taken \subseteq taken' /\ taken' \subseteq Liberties /\ DestructMisuse(p) \subseteq taken'
        /\ stack \in Seq(Frames) /\ Kept(stack, stack)
    BY <2>1, OperationTyped DEF Inv
  <2>3. BeingDestructed(p) => "destruct_twice" \in taken'
    BY <2>2 DEF DestructMisuse, Misuse
  <2> QED BY <2>1, <2>2, <2>3, DestructionBegins
<1>2. CASE o # p
  <2> DEFINE f == [kind |-> "permit", ob |-> p]
  <2>1. /\ Operation(o, {}) /\ command_giver' = command_giver /\ Call(stack, f, NoObject)
        /\ UNCHANGED <<life, super, contains, fatal>>
    BY <1>2 DEF Destruct, tree
  <2>2. /\ taken \subseteq taken' /\ taken' \subseteq Liberties /\ command_giver \in Values
        /\ stack \in Seq(Frames) /\ Kept(stack, stack) /\ Typed
    BY <2>1, OperationTyped DEF Inv
  <2>3. f \in Frames /\ f.kind \notin {"exit", "destruct"}
    BY DEF Frames, AskFrames
  <2> HIDE DEF f
  <2>4. Append(stack, f) \in Seq(Frames) /\ Kept(stack, Append(stack, f))
    BY <2>2, <2>3, KeptPush
  <2>5. stack' \in Seq(Frames) /\ Kept(stack, stack') /\ current_object' \in Values
    BY <2>1, <2>2, <2>4, CallIsQuiet DEF Values
  <2>6. Quiet
    BY <2>1, <2>2, <2>5 DEF Quiet
  <2> QED BY <2>6, QuietKeeps
<1> QED BY <1>1, <1>2

LEMMA PermitDoneKeeps ==
  ASSUME Inv, PermitDone
  PROVE  Inv'
<1>1. Typed /\ Waits("permit") /\ UNCHANGED <<life, super, contains, fatal>>
  BY DEF Inv, PermitDone, tree
<1>2. Top \in Frames /\ Top.kind = "permit" /\ Below \in Seq(Frames) /\ Kept(stack, Below)
  BY <1>1, WaitsFrame
<1>3. Top.ob \in Objects
  BY <1>2, FramesByKind DEF AskFrames
<1>4. CASE Error /\ UNCHANGED taken
  <2>1. Quiet
    BY <1>1, <1>4, ErrorIsQuiet DEF Quiet, Typed
  <2> QED BY <2>1, QuietKeeps
<1> DEFINE p == Top.ob
           misuse == IF life[p] = "live" THEN DestructMisuse(p) ELSE {}
<1>5. CASE /\ misuse \subseteq Liberties /\ taken' = taken \cup misuse
           /\ stack' = IF life[p] = "live" THEN Append(Below, DestructFrame(p)) ELSE Below
           /\ UNCHANGED regs
  <2>1. taken \subseteq taken' /\ taken' \subseteq Liberties
    BY <1>1, <1>5 DEF Typed
  <2>2. CASE life[p] = "live"
    <3>1. BeingDestructed(p) => "destruct_twice" \in taken'
      BY <1>5, <2>2 DEF DestructMisuse, Misuse
    <3>2. stack' = Append(Below, DestructFrame(p)) /\ UNCHANGED <<command_giver, current_object>>
      BY <1>5, <2>2 DEF regs
    <3> QED BY <1>1, <1>2, <1>3, <2>1, <2>2, <3>1, <3>2, DestructionBegins
  <2>3. CASE life[p] # "live"
    <3>1. Quiet
      BY <1>1, <1>2, <1>5, <2>1, <2>3 DEF Quiet, Typed, regs
    <3> QED BY <3>1, QuietKeeps
  <2> QED BY <2>2, <2>3
<1> QED BY <1>4, <1>5 DEF PermitDone

\* A destruction that goes on.
LEMMA DestructionFrame ==
  ASSUME Typed, Waits("destruct")
  PROVE  /\ Top \in DestructFrames /\ Top.ob \in Objects /\ Top.kind = "destruct"
         /\ Below \in Seq(Frames) /\ Kept(stack, Below)
         /\ Len(stack) \in Destructing(stack) /\ Top = stack[Len(stack)]
<1>1. /\ Top \in Frames /\ Top.kind = "destruct" /\ Top = stack[Len(stack)]
      /\ Below \in Seq(Frames) /\ Kept(stack, Below) /\ Len(stack) \in Nat \ {0}
  BY WaitsFrame
<1>2. Top \in DestructFrames
  BY <1>1, FramesByKind
<1>3. Len(stack) \in Destructing(stack)
  BY <1>1 DEF Destructing
<1> QED BY <1>1, <1>2, <1>3 DEF DestructFrames

LEMMA MasterDoneKeeps ==
  ASSUME Inv, MasterDone
  PROVE  Inv'
<1>1. Typed /\ Waits("destruct") /\ Top.at = "master"
      /\ UNCHANGED <<life, super, contains, command_giver, current_object, fatal>>
  BY DEF Inv, MasterDone, tree, regs
<1>2. /\ Top \in DestructFrames /\ Top.ob \in Objects /\ Top.kind = "destruct"
      /\ Top = stack[Len(stack)] /\ stack # <<>> /\ stack \in Seq(Frames)
  BY <1>1, DestructionFrame DEF Typed, Waits
<1>3. Top.inside \in Objects
  BY <1>1, <1>2 DEF DestructFrames
<1> DEFINE p == Top.inside
           misuse == Misuse(super[p] = Top.ob /\ BeingDestructed(p), "destruct_twice")
                     \cup Misuse(super[p] = Top.ob /\ ~ InitLeavesAlone(p), "init_moves_other")
           f == [Top EXCEPT !.at = "loop", !.inside = NoObject]
           s == Append(Below, f)
<1>4. f \in DestructFrames /\ f.kind = "destruct" /\ f.ob = Top.ob
  BY <1>2 DEF DestructFrames
<1>5. /\ misuse \subseteq Liberties /\ taken' = taken \cup misuse
      /\ IF super[p] = Top.ob
         THEN stack' = s \o (IF life[p] = "destructed" THEN <<>> ELSE <<DestructFrame(p)>>)
         ELSE stack' = s
  BY DEF MasterDone
<1>6. s \in Seq(Frames) /\ Kept(stack, s)
  <2>1. f \in Frames /\ SameTask(stack[Len(stack)], f)
    BY <1>2, <1>4 DEF Frames, SameTask
  <2> HIDE DEF f
  <2> QED BY <1>2, <2>1, KeptReplace DEF Below
<1>7. taken \subseteq taken' /\ taken' \subseteq Liberties
  BY <1>1, <1>5 DEF Typed
<1> HIDE DEF s, f
<1>8. CASE stack' = s
  <2>1. Quiet
    BY <1>1, <1>6, <1>7, <1>8 DEF Quiet, Typed
  <2> QED BY <2>1, QuietKeeps
<1>9. CASE super[p] = Top.ob /\ life[p] = "destructed"
  <2>1. stack' = s \o <<>>
    BY <1>5, <1>9
  <2> QED BY <1>6, <1>8, <2>1, ConcatEmptySeq
<1>10. CASE super[p] = Top.ob /\ life[p] # "destructed"
  <2>1. DestructFrame(p) \in Frames
    BY <1>3, NewDestruction DEF Frames
  <2>2. stack' = s \o <<DestructFrame(p)>>
    BY <1>5, <1>10
  <2>3. stack' = Append(s, DestructFrame(p))
    BY <1>6, <2>1, <2>2, AppendIsConcat
  <2>4. "move_destructed" \notin taken => life[p] = "live"
    BY <1>2, <1>3, <1>10, ObjectsAssumption DEF Inv, WellFormed
  <2>5. BeingDestructed(p) => "destruct_twice" \in taken'
    BY <1>5, <1>10 DEF Misuse
  <2> QED BY <1>1, <1>3, <1>6, <1>7, <2>3, <2>4, <2>5, DestructionBegins
<1> QED BY <1>5, <1>8, <1>9, <1>10

\* What destruct_object leaves of the tree
LEMMA DestructDoneKeeps ==
  ASSUME Inv, DestructDone
  PROVE  Inv'
<1> DEFINE o == Top.ob
<1>1. /\ Typed /\ TreeTypes /\ Waits("destruct") /\ contains[o] = <<>>
      /\ UNCHANGED <<current_object, taken>>
  BY DEF Inv, Typed, DestructDone, Null
<1>2. /\ o \in Objects /\ Below \in Seq(Frames) /\ Kept(stack, Below)
      /\ Len(stack) \in Destructing(stack) /\ Top = stack[Len(stack)] /\ stack \in Seq(Frames)
      /\ Top.kind = "destruct" /\ stack # <<>>
  BY <1>1, DestructionFrame DEF Typed, Waits
<1>3. CASE life[o] = "destructed"
  <2>1. UNCHANGED <<life, super, contains, command_giver, stack>>
    BY <1>3 DEF DestructDone, tree
  <2>2. taken \cap {"move_destructed", "destruct_twice"} # {}
    BY <1>2, <1>3 DEF Inv, Apart
  <2>3. Typed'
    BY <1>1, <2>1 DEF Typed, TreeTypes
  <2>4. WellFormed => WellFormed'
    BY <2>1 DEF WellFormed
  <2> QED BY <1>1, <2>1, <2>2, <2>3, <2>4 DEF Inv
<1>4. CASE life[o] # "destructed"
  <2>1. /\ life' = [life EXCEPT ![o] = "destructed"]
        /\ super' = [super EXCEPT ![o] = NoObject]
        /\ contains' = IF super[o] = NoObject THEN contains
                       ELSE [contains EXCEPT ![super[o]] = Without(@, o)]
        /\ command_giver' = IF o = command_giver THEN NoObject ELSE command_giver
        /\ stack' = Marked(Below, sentences') /\ fatal' = fatal
    BY <1>4 DEF DestructDone
  <2>2. stack' \in Seq(Frames) /\ Kept(Below, stack') /\ Len(stack') = Len(Below)
    BY <1>2, <2>1, MarkedKeeps
  <2>3. Kept(stack, stack')
    BY <1>2, <2>2, KeptTransitive
  <2>4. Len(Below) = Len(stack) - 1 /\ Len(stack) \in Nat \ {0}
    BY <1>1, <1>2, TopFrame
  <2>5. contains' \in [Objects -> Seq(Objects)]
    BY <1>1, <2>1, TakenOut DEF TreeTypes
  <2>6. /\ \A p \in Objects : life'[p] = IF p = o THEN "destructed" ELSE life[p]
        /\ \A p \in Objects : super'[p] = IF p = o THEN NoObject ELSE super[p]
        /\ life' \in [Objects -> {"none", "live", "destructed"}]
        /\ super' \in [Objects -> Values]
    BY <1>1, <2>1 DEF TreeTypes, Values
  <2>7. Typed'
    BY <1>1, <2>1, <2>2, <2>5, <2>6 DEF Typed, TreeTypes, Values
  <2>8. WellFormed => WellFormed'
    <3>1. SUFFICES ASSUME WellFormed, NEW p \in Objects
                   PROVE  /\ super'[p] # NoObject => life'[p] = "live" /\ life'[super'[p]] = "live"
                          /\ IsInjective(contains'[p])
                          /\ Range(contains'[p]) = {q \in Objects : super'[q] = p}
      BY DEF WellFormed
    <3>2. /\ contains[p] \in Seq(Objects) /\ IsInjective(contains[p])
          /\ Range(contains[p]) = {q \in Objects : super[q] = p}
      BY <1>1, <3>1 DEF TreeTypes, WellFormed
    <3>3. \A q \in Objects : super[q] # o
      <4>1. contains[o] = <<>> /\ Range(contains[o]) = {q \in Objects : super[q] = o}
        BY <1>1, <1>2, <3>1 DEF WellFormed
      <4>2. Range(contains[o]) = {}
        BY <4>1 DEF Range
      <4> QED BY <4>1, <4>2
    <3>4. super'[p] # NoObject => life'[p] = "live" /\ life'[super'[p]] = "live"
      <4>1. super[p] \in Objects \cup {NoObject}
        BY <1>1 DEF TreeTypes
      <4> QED BY <2>6, <3>1, <3>3, <4>1 DEF WellFormed
    <3>5. CASE p = super[o]
      <4>1. super[o] # NoObject /\ contains \in [Objects -> Seq(Objects)]
        BY <1>1, <3>5, ObjectsAssumption DEF TreeTypes
      <4>2. contains' = [contains EXCEPT ![p] = Without(contains[p], o)]
        BY <2>1, <3>5, <4>1
      <4>3. contains'[p] = Without(contains[p], o)
        BY <4>1, <4>2
      <4>4. IsInjective(contains'[p]) /\ Range(contains'[p]) = Range(contains[p]) \ {o}
        BY <3>2, <4>3, TakenOut
      <4>5. \A q \in Objects : super'[q] = p <=> super[q] = p /\ q # o
        BY <2>6, ObjectsAssumption
      <4> QED BY <3>2, <3>4, <4>4, <4>5
    <3>6. CASE p # super[o]
      <4>1. contains'[p] = contains[p]
        BY <1>1, <2>1, <3>6 DEF TreeTypes
      <4>2. \A q \in Objects : super'[q] = p <=> super[q] = p
        BY <2>6, <3>6, ObjectsAssumption
      <4> QED BY <3>2, <3>4, <4>1, <4>2
    <3> QED BY <3>5, <3>6
  <2>9. Remembered(stack, life) => Remembered(stack', life')
    <3>1. Remembered(stack, life) => Remembered(stack', life)
      BY <1>2, <2>2, <2>3, KeptSound
    <3>2. /\ \A i \in Moving(stack') : stack'[i].item \in Objects /\ stack'[i].dest \in Objects
          /\ \A i \in Destructing(stack') : stack'[i].ob \in Objects
      <4>1. \A i \in 1 .. Len(stack') : stack'[i] \in Frames
        BY <2>2, ElementOfSeq
      <4>2. \A i \in Moving(stack') : stack'[i] \in ExitFrames
        BY <4>1, FramesByKind DEF Moving
      <4>3. \A i \in Destructing(stack') : stack'[i] \in DestructFrames
        BY <4>1, FramesByKind DEF Destructing
      <4> QED BY <4>2, <4>3 DEF ExitFrames, DestructFrames
    <3> QED BY <2>6, <3>1, <3>2 DEF Remembered
  <2>10. Apart(stack, life) => Apart(stack', life')
    <3>1. SUFFICES ASSUME Apart(stack, life) PROVE Apart(stack', life')
      OBVIOUS
    <3>2. Apart(stack', life)
      BY <1>2, <2>2, <2>3, <3>1, KeptSound
    <3>3. ASSUME NEW i \in Destructing(stack')
          PROVE  i \in Destructing(stack) /\ stack'[i].ob = stack[i].ob /\ i # Len(stack)
                 /\ stack[i].ob \in Objects
      <4>1. i \in Destructing(stack) /\ stack'[i].ob = stack[i].ob
        BY <2>3 DEF Kept, SameTask, Destructing
      <4>2. i # Len(stack)
        BY <2>2, <2>4 DEF Destructing
      <4>3. stack[i] \in Frames /\ stack[i].kind = "destruct"
        BY <1>2, <4>1, ElementOfSeq DEF Destructing
      <4>4. stack[i].ob \in Objects
        BY <4>3, FramesByKind DEF DestructFrames
      <4> QED BY <4>1, <4>2, <4>4
    <3>4. \A i \in Destructing(stack') : stack'[i].ob # o /\ stack'[i].ob \in Objects
      BY <1>2, <3>1, <3>3 DEF Apart
    <3> QED BY <2>6, <3>2, <3>4 DEF Apart
  <2>11. Bounded(stack, super) => Bounded(stack', super')
    <3>1. \A q \in Objects : Edges(stack', super, q) \subseteq Edges(stack, super, q)
      BY <1>2, <2>2, <2>3, KeptSound
    <3>2. \A q \in Objects : Edges(stack', super', q) \subseteq Edges(stack, super, q) \cup {NoObject}
      BY <2>6, <3>1 DEF Edges
    <3> QED BY <3>2, FewerKeepBounded
  <2> QED BY <1>1, <2>1, <2>7, <2>8, <2>9, <2>10, <2>11 DEF Inv
<1> QED BY <1>3, <1>4

-----------------------------------------------------------------------------
(* Creation, and the end of what was destructed                            *)

LEMMA CloneKeeps ==
  ASSUME Inv, NEW o \in Objects, NEW n \in Objects, Clone(o, n)
  PROVE  Inv'
<1>1. /\ Operation(o, {}) /\ life[n] = "none" /\ life' = [life EXCEPT ![n] = "live"]
      /\ UNCHANGED <<super, contains, command_giver, current_object, stack, fatal>>
  BY DEF Clone, regs
<1>2. Typed /\ TreeTypes /\ taken \subseteq taken' /\ taken' \subseteq Liberties
  BY <1>1, OperationTyped DEF Inv, Typed
<1>3. /\ \A p \in Objects : life'[p] = IF p = n THEN "live" ELSE life[p]
      /\ life' \in [Objects -> {"none", "live", "destructed"}]
  BY <1>1, <1>2 DEF TreeTypes
<1>4. Typed'
  BY <1>1, <1>2, <1>3 DEF Typed, TreeTypes
<1>5. WellFormed => WellFormed'
  <2>1. \A p \in Objects : super[p] \in Objects \cup {NoObject}
    BY <1>2 DEF TreeTypes
  <2> QED BY <1>1, <1>3, <2>1 DEF WellFormed
<1>6. /\ \A i \in Moving(stack) : stack[i].item \in Objects /\ stack[i].dest \in Objects
      /\ \A i \in Destructing(stack) : stack[i].ob \in Objects
  <2>1. \A i \in 1 .. Len(stack) : stack[i] \in Frames
    BY <1>2, ElementOfSeq DEF Typed
  <2>2. \A i \in Moving(stack) : stack[i] \in ExitFrames
    BY <2>1, FramesByKind DEF Moving
  <2>3. \A i \in Destructing(stack) : stack[i] \in DestructFrames
    BY <2>1, FramesByKind DEF Destructing
  <2> QED BY <2>2, <2>3 DEF ExitFrames, DestructFrames
<1>7. Remembered(stack, life) => Remembered(stack, life')
  BY <1>3, <1>6 DEF Remembered
<1>8. Apart(stack, life) => Apart(stack, life')
  BY <1>1, <1>3, <1>6 DEF Apart
<1> QED BY <1>1, <1>2, <1>4, <1>5, <1>7, <1>8 DEF Inv

LEMMA ForgetKeeps ==
  ASSUME Inv, NEW o \in Objects, Forget(o)
  PROVE  Inv'
<1>1. /\ stack = <<>> /\ life[o] = "destructed" /\ life' = [life EXCEPT ![o] = "none"]
      /\ UNCHANGED <<super, contains, command_giver, current_object, stack, fatal, taken>>
      /\ Typed /\ TreeTypes
  BY DEF Forget, regs, Inv, Typed
<1>2. /\ \A p \in Objects : life'[p] = IF p = o THEN "none" ELSE life[p]
      /\ life' \in [Objects -> {"none", "live", "destructed"}]
  BY <1>1 DEF TreeTypes
<1>3. Typed'
  BY <1>1, <1>2 DEF Typed, TreeTypes
<1>4. WellFormed => WellFormed'
  <2>1. \A p \in Objects : super[p] \in Objects \cup {NoObject}
    BY <1>1 DEF TreeTypes
  <2> QED BY <1>1, <1>2, <2>1 DEF WellFormed
<1>5. Remembered(stack', life') /\ Apart(stack', life')
  <2>1. Moving(stack') = {} /\ Destructing(stack') = {}
    BY <1>1, EmptySeq DEF Moving, Destructing
  <2> QED BY <2>1 DEF Remembered, Apart
<1> QED BY <1>1, <1>3, <1>4, <1>5 DEF Inv

-----------------------------------------------------------------------------
(* The invariant                                                           *)

LEMMA InitInv ==
  ASSUME Init
  PROVE  Inv
<1>1. /\ life \in [Objects -> {"none", "live"}] /\ super \in [Objects -> Values]
      /\ contains \in [Objects -> Seqs(Objects)] /\ WellFormed /\ NoCycle
      /\ command_giver = NoObject /\ current_object = NoObject
      /\ stack = <<>> /\ fatal = "none" /\ taken = {}
  BY DEF Init, Values
<1>2. Seqs(Objects) \subseteq Seq(Objects)
  <2>1. Cardinality(Objects) \in Nat
    BY FS_CardinalityType, ObjectsAssumption
  <2>2. ASSUME NEW n \in 0 .. Cardinality(Objects) - 1, NEW s \in [1 .. n -> Objects]
        PROVE  s \in Seq(Objects)
    <3>1. n \in Nat
      BY <2>1
    <3> QED BY <3>1, SeqDef
  <2> QED BY <2>2 DEF Seqs
<1>3. <<>> \in Seq(Frames) /\ Len(<<>>) = 0
  BY EmptySeq
<1>4. contains \in [Objects -> Seq(Objects)]
  BY <1>1, <1>2
<1>5. life \in [Objects -> {"none", "live", "destructed"}]
  BY <1>1
<1>6. Typed
  BY <1>1, <1>3, <1>4, <1>5 DEF Typed, TreeTypes, Values
<1>7. Moving(stack) = {} /\ Destructing(stack) = {}
  BY <1>1, <1>3 DEF Moving, Destructing
<1>8. Bounded(stack, super)
  <2>1. \A q \in Objects : Edges(stack, super, q) = {super[q]}
    BY <1>7 DEF Edges
  <2>2. SUFFICES ASSUME NEW S \in SUBSET Objects, S # {}
                 PROVE  \E q \in S : Edges(stack, super, q) \cap S = {}
    BY DEF Bounded
  <2>3. PICK q \in S : super[q] \notin S
    BY <1>1, <2>2 DEF NoCycle
  <2>4. Edges(stack, super, q) \cap S = {}
    BY <2>1, <2>3
  <2> QED BY <2>4
<1> QED BY <1>1, <1>6, <1>7, <1>8 DEF Inv, Remembered, Apart

\* Only six actions promise a change of the tree or make one.
ChangingStep ==
  \/ \E o, p \in Objects : MoveObject(o, p) \/ Destruct(o, p) \/ Clone(o, p)
  \/ MoveOn \/ PermitDone \/ MasterDone \/ DestructDone
  \/ \E o \in Objects : Forget(o)

LEMMA Steps ==
  ASSUME Typed, Next
  PROVE  Quiet \/ UNCHANGED vars \/ ChangingStep
<1>1. CASE Lpc
  <2>1. ASSUME NEW o \in Objects, EnableCommands(o) \/ DisableCommands(o) PROVE Quiet
    BY <2>1, EnableCommandsIsQuiet, DisableCommandsIsQuiet
  <2>2. ASSUME NEW o, Catch(o) PROVE Quiet
    BY <2>2, CatchIsQuiet
  <2>3. ASSUME NEW o \in Objects, NEW pri, AddAction(o, pri) PROVE Quiet
    BY <2>3, AddActionIsQuiet
  <2>4. ASSUME NEW o, NEW p \in Objects, CallOther(o, p) PROVE Quiet
    BY <2>4, CallOtherIsQuiet
  <2>5. ASSUME NEW o \in Objects, NEW p \in Objects,
               SetThisPlayer(o, p) \/ Command(o, p) \/ QueryActions(o, p)
        PROVE  Quiet
    BY <2>5, SetThisPlayerIsQuiet, CommandIsQuiet, QueryActionsIsQuiet
  <2> QED BY <1>1, <2>1, <2>2, <2>3, <2>4, <2>5, ReturnIsQuiet, ThrowIsQuiet DEF Lpc, ChangingStep
<1>2. CASE Driver
  <2>1. ASSUME NEW o \in Objects, NEW e \in 1 .. MaxSlots, ParseMatch(o, e) PROVE Quiet
    <3>1. e \in Int
      BY BoundsAssumption
    <3> QED BY <2>1, <3>1, ParseMatchIsQuiet
  <2> QED BY <1>2, <2>1, InitIsQuiet, AskMasterIsQuiet, ForceDoneIsQuiet, ParserEndsQuiet,
             ParseZeroIsQuiet DEF Driver, ChangingStep
<1>3. CASE Idle
  BY <1>3 DEF Idle
<1> QED BY <1>1, <1>2, <1>3, TurnIsQuiet DEF Next, ChangingStep

LEMMA StepInv ==
  ASSUME Inv, [Next]_vars
  PROVE  Inv'
<1>1. CASE UNCHANGED vars
  <2>1. UNCHANGED <<life, super, contains, command_giver, current_object, stack, fatal, taken>>
    BY <1>1 DEF vars, tree, regs
  <2>2. Typed'
    BY <2>1 DEF Inv, Typed, TreeTypes
  <2>3. WellFormed => WellFormed'
    BY <2>1 DEF WellFormed
  <2> QED BY <2>1, <2>2, <2>3 DEF Inv
<1>2. CASE ChangingStep
  BY <1>2, MoveObjectKeeps, DestructKeeps, CloneKeeps, MoveOnKeeps, PermitDoneKeeps,
     MasterDoneKeeps, DestructDoneKeeps, ForgetKeeps DEF ChangingStep
<1>3. CASE Quiet
  BY <1>3, QuietKeeps
<1>4. Typed
  BY DEF Inv
<1> QED BY <1>1, <1>2, <1>3, <1>4, Steps

\* A circle of environments would be a set of objects without a way out, and
\* Bounded says that there is none.
LEMMA InvSound ==
  ASSUME Inv
  PROVE  InventoriesSound
<1>1. Bounded(stack, super) => NoCycle
  <2>1. SUFFICES ASSUME Bounded(stack, super), NEW S \in SUBSET Objects, S # {}
                 PROVE  \E q \in S : super[q] \notin S
    BY DEF NoCycle
  <2>2. PICK q \in S : Edges(stack, super, q) \cap S = {}
    BY <2>1 DEF Bounded
  <2>3. super[q] \in Edges(stack, super, q)
    BY DEF Edges
  <2> QED BY <2>2, <2>3
<1>2. Forest
  BY <1>1 DEF Inv, Forest
<1>3. NoFatal
  BY DEF Inv, NoFatal
<1> QED BY <1>2, <1>3 DEF Inv, Typed, InventoriesSound

\* Whatever LPC code does in exit(), init(), the master's functions and verbs
\* while move_object and destruct_object are halfway: the inventories are one
\* forest from above and from below, and no fatal() of the two is reached,
\* unless LPC code took the liberty named for it.
THEOREM InventoriesStaySound == Spec => []InventoriesSound
<1>1. Init => Inv
  BY InitInv
<1>2. Inv /\ [Next]_vars => Inv'
  BY StepInv
<1>3. Inv => InventoriesSound
  BY InvSound
<1> QED BY <1>1, <1>2, <1>3, PTL DEF Spec

-----------------------------------------------------------------------------
(* What move_object and destruct_object promise                            *)

\* A waiting move goes to a place that is not inside its object: the objects
\* from which every closed set leads to it would have no way out.
LEMMA WaitingMoveGoesOut ==
  ASSUME Typed, Bounded(stack, super), NEW o \in Objects, NEW d \in Objects,
         d \in Edges(stack, super, o)
  PROVE  \E U : Around(stack, super, o, d, U)
<1> DEFINE Closed(V) == \A q \in V : Edges(stack, super, q) \subseteq V \cup {NoObject}
           R == {x \in Objects : \A V \in SUBSET Objects : x \in V /\ Closed(V) => o \in V}
           W == Objects \ R
<1>1. CASE d \notin R
  <2>1. PICK V \in SUBSET Objects : d \in V /\ Closed(V) /\ o \notin V
    BY <1>1
  <2> QED BY <2>1 DEF Around
<1>2. CASE d \in R
  <2>1. Closed(W)
    <3>1. SUFFICES ASSUME NEW x \in W, NEW y \in Edges(stack, super, x), y # NoObject
                   PROVE  y \in W
      OBVIOUS
    <3>2. PICK V \in SUBSET Objects : x \in V /\ Closed(V) /\ o \notin V
      OBVIOUS
    <3>3. y \in V
      BY <3>1, <3>2
    <3> QED BY <3>2, <3>3
  <2>2. o \in R
    OBVIOUS
  <2>3. \A p \in Objects : Edges(stack, super, p) \subseteq Objects \cup {NoObject}
    <3>1. \A i \in Moving(stack) : stack[i].dest \in Objects
      <4>1. \A i \in Moving(stack) : stack[i] \in Frames /\ stack[i].kind = "exit"
        BY ElementOfSeq DEF Typed, Moving
      <4> QED BY <4>1, FramesByKind DEF ExitFrames
    <3> QED BY <3>1 DEF Edges, Typed, TreeTypes
  <2>4. ASSUME NEW p \in R PROVE Edges(stack, super, p) \cap R # {}
    <3>1. CASE p = o
      BY <1>2, <3>1
    <3>2. CASE p # o
      <4>1. SUFFICES ASSUME Edges(stack, super, p) \cap R = {} PROVE FALSE
        OBVIOUS
      <4> DEFINE V == W \cup {p}
      <4>2. V \in SUBSET Objects /\ p \in V /\ o \notin V
        BY <2>2, <3>2
      <4>3. Edges(stack, super, p) \subseteq V \cup {NoObject}
        BY <2>3, <4>1
      <4>4. Closed(V)
        BY <2>1, <4>3
      <4> HIDE DEF V
      <4> QED BY <4>2, <4>4
    <3> QED BY <3>1, <3>2
  <2>5. R \in SUBSET Objects /\ R # {}
    BY <2>2
  <2> HIDE DEF R
  <2> QED BY <2>4, <2>5 DEF Bounded
<1> QED BY <1>1, <1>2

LEMMA AroundIsOutside ==
  ASSUME NEW o, NEW d, NEW U, Around(stack, super, o, d, U)
  PROVE  Box!Outside(o, d)
<1>1. \A q \in U : super[q] \in Edges(stack, super, q)
  BY DEF Edges
<1> QED BY <1>1 DEF Around, Box!Outside

LEMMA OutwardsIsOutside ==
  ASSUME NEW o \in Objects, NEW d \in Objects, o \notin Outwards(d)
  PROVE  Box!Outside(o, d)
BY DEF Outwards, Box!Outside

LEMMA TreeStutters ==
  ASSUME UNCHANGED <<life, super>>
  PROVE  UNCHANGED Box!cvars
BY DEF Box!cvars

LEMMA LinkIsMove ==
  ASSUME UNCHANGED life, NEW o \in Objects, NEW d \in Objects, life[o] = "live", life[d] = "live",
         super' = [super EXCEPT ![o] = d], Box!Outside(o, d)
  PROVE  Box!CNext
<1>1. Box!Move(o, d)
  BY DEF Box!Move
<1> QED BY <1>1 DEF Box!CNext

LEMMA DestructIsDestroy ==
  ASSUME NEW o \in Objects, life[o] = "live", \A q \in Objects : super[q] # o,
         super' = [super EXCEPT ![o] = NoObject],
         {p \in Objects : life'[p] = "live"} = {p \in Objects : life[p] = "live"} \ {o}
  PROVE  Box!CNext
<1>1. Box!Destroy(o)
  BY DEF Box!Destroy, Box!Contains
<1> QED BY <1>1 DEF Box!CNext

LEMMA StepRefines ==
  ASSUME Inv, [Next]_vars, Liberties \cap {"move_destructed", "exit_moves_room"} = {}
  PROVE  [Box!CNext]_(Box!cvars)
<1>1. /\ Typed /\ TreeTypes /\ WellFormed /\ Remembered(stack, life) /\ Bounded(stack, super)
      /\ stack \in Seq(Frames)
  BY DEF Inv, Typed
<1>2. "move_destructed" \notin taken' /\ "exit_moves_room" \notin taken'
  BY StepInv DEF Inv, Typed
<1>3. CASE UNCHANGED vars
  BY <1>3, TreeStutters DEF vars, tree
<1>4. CASE Quiet
  BY <1>4, TreeStutters DEF Quiet
<1>5. ASSUME NEW o \in Objects, NEW d \in Objects, MoveObject(o, d) PROVE [Box!CNext]_(Box!cvars)
  <2>1. Operation(o, MoveMisuse(o, d)) /\ life[d] = "live" /\ UNCHANGED life
    BY <1>5 DEF MoveObject
  <2>2. CASE o \in Outwards(d) \/ super[o] # NoObject
    BY <1>5, <2>1, <2>2, TreeStutters DEF MoveObject
  <2>3. CASE o \notin Outwards(d) /\ super[o] = NoObject
    <3>1. Link(stack, o, d, command_giver) /\ ~ LinkFails(o)
      BY <1>5, <2>3 DEF MoveObject, LinkFails
    <3>2. super' = [super EXCEPT ![o] = d]
      BY <1>1, <3>1, LinkTyped DEF Typed
    <3>3. life[o] = "live"
      BY <1>1, <1>2, <2>1, MoveLiberties
    <3> QED BY <2>1, <2>3, <3>2, <3>3, OutwardsIsOutside, LinkIsMove
  <2> QED BY <2>2, <2>3
<1>6. ASSUME MoveOn PROVE [Box!CNext]_(Box!cvars)
  <2> DEFINE o == Top.item
             d == Top.dest
  <2>1. Waits("exit") /\ UNCHANGED life
    BY <1>6 DEF MoveOn
  <2>2. /\ o \in Objects /\ d \in Objects /\ Top.save \in Values /\ Below \in Seq(Frames)
        /\ Len(stack) \in Moving(stack) /\ Top = stack[Len(stack)]
    BY <1>1, <2>1, ExitFrame
  <2>3. CASE "destructed" \in {life[o], life[d]}
    BY <1>6, <2>1, <2>3, TreeStutters DEF MoveOn
  <2>4. CASE "destructed" \notin {life[o], life[d]}
    <3>1. Link(Below, o, d, Top.save) /\ ~ LinkFails(o)
      BY <1>1, <1>6, <2>2, <2>4, LinkSucceeds DEF MoveOn
    <3>2. super' = [super EXCEPT ![o] = d]
      <4> DEFINE save == Top.save
                 s    == Below
      <4>1. s \in Seq(Frames) /\ save \in Values /\ Link(s, o, d, save)
        BY <2>2, <3>1
      <4> HIDE DEF o, d, save, s
      <4> QED BY <1>1, <2>2, <3>1, <4>1, LinkTyped
    <3>3. life[o] = "live" /\ life[d] = "live"
      <4>1. life[o] \in {"none", "live", "destructed"} /\ life[d] \in {"none", "live", "destructed"}
        BY <1>1, <2>2 DEF TreeTypes
      <4>2. "none" \notin {life[o], life[d]}
        BY <1>1, <2>2 DEF Remembered
      <4> QED BY <2>4, <4>1, <4>2
    <3>4. d \in Edges(stack, super, o)
      BY <2>2 DEF Edges
    <3>5. Box!Outside(o, d)
      BY <1>1, <2>2, <3>4, WaitingMoveGoesOut, AroundIsOutside
    <3> QED BY <2>1, <2>2, <3>2, <3>3, <3>5, LinkIsMove
  <2> QED BY <2>3, <2>4
<1>7. ASSUME DestructDone PROVE [Box!CNext]_(Box!cvars)
  <2> DEFINE o == Top.ob
  <2>1. Waits("destruct") /\ contains[o] = <<>>
    BY <1>7 DEF DestructDone, Null
  <2>2. o \in Objects /\ Len(stack) \in Destructing(stack) /\ Top = stack[Len(stack)]
    BY <1>1, <2>1, DestructionFrame
  <2>3. CASE life[o] = "destructed"
    BY <1>7, <2>3, TreeStutters DEF DestructDone, tree
  <2>4. CASE life[o] # "destructed"
    <3>1. life' = [life EXCEPT ![o] = "destructed"] /\ super' = [super EXCEPT ![o] = NoObject]
      BY <1>7, <2>4 DEF DestructDone
    <3>2. life[o] = "live"
      <4>1. life[o] # "none"
        BY <1>1, <2>2 DEF Remembered
      <4> QED BY <1>1, <2>2, <2>4, <4>1 DEF TreeTypes
    <3>3. \A q \in Objects : super[q] # o
      <4>1. Range(contains[o]) = {q \in Objects : super[q] = o}
        BY <1>1, <2>2 DEF WellFormed
      <4>2. Range(contains[o]) = {}
        BY <2>1 DEF Range
      <4> QED BY <4>1, <4>2
    <3>4. {p \in Objects : life'[p] = "live"} = {p \in Objects : life[p] = "live"} \ {o}
      BY <1>1, <2>2, <3>1 DEF TreeTypes
    <3> HIDE DEF o
    <3> QED BY <2>2, <3>1, <3>2, <3>3, <3>4, DestructIsDestroy
  <2> QED BY <2>3, <2>4
<1>8. ASSUME NEW o \in Objects, NEW n \in Objects, Clone(o, n) PROVE [Box!CNext]_(Box!cvars)
  <2>1. life[n] = "none" /\ life' = [life EXCEPT ![n] = "live"] /\ UNCHANGED super
    BY <1>8 DEF Clone
  <2>2. {p \in Objects : life'[p] = "live"} = {p \in Objects : life[p] = "live"} \cup {n}
    BY <1>1, <2>1 DEF TreeTypes
  <2>3. Box!Create(n)
    BY <2>1, <2>2 DEF Box!Create
  <2> QED BY <2>3 DEF Box!CNext
<1>9. ASSUME NEW o \in Objects, Forget(o) PROVE [Box!CNext]_(Box!cvars)
  <2>1. life[o] = "destructed" /\ life' = [life EXCEPT ![o] = "none"] /\ UNCHANGED super
    BY <1>9 DEF Forget
  <2>2. {p \in Objects : life'[p] = "live"} = {p \in Objects : life[p] = "live"}
    BY <1>1, <2>1 DEF TreeTypes
  <2> QED BY <2>1, <2>2 DEF Box!cvars
<1>10. ASSUME NEW o \in Objects, NEW p \in Objects, Destruct(o, p) PROVE [Box!CNext]_(Box!cvars)
  BY <1>10, TreeStutters DEF Destruct, tree
<1>11. CASE PermitDone \/ MasterDone
  BY <1>11, TreeStutters DEF PermitDone, MasterDone, tree
<1>12. ChangingStep => [Box!CNext]_(Box!cvars)
  BY <1>5, <1>6, <1>7, <1>8, <1>9, <1>10, <1>11 DEF ChangingStep
<1> QED BY <1>1, <1>3, <1>4, <1>12, Steps

\* The three C functions, interrupted at every call by LPC code that moves and
\* destructs on its own, move one object at a time and never inside itself, and
\* destruct only what is empty: they implement Containment, as long as nobody
\* moves what is destructed or moves the room away in exit().
THEOREM ForestImplemented ==
  ASSUME Liberties \cap {"move_destructed", "exit_moves_room"} = {}
  PROVE  Spec => ImplementsContainment
<1>1. Init => Box!CInit
  BY ObjectsAssumption DEF Init, NoCycle, WellFormed, Box!CInit, Box!Acyclic
<1>2. Init => Inv
  BY InitInv
<1>3. Inv /\ [Next]_vars => Inv'
  BY StepInv
<1>4. Inv /\ [Next]_vars => [Box!CNext]_(Box!cvars)
  BY StepRefines
<1> QED BY <1>1, <1>2, <1>3, <1>4, PTL DEF Spec, ImplementsContainment, Box!CSpec

(***************************************************************************)
(* The forest that is implemented: what Containment promises, for every    *)
(* number of objects.                                                      *)
(***************************************************************************)

\* A move out of a closed set keeps the graph without a cycle: a set closed
\* after the move would, cut down to what is outside the object, have been
\* closed before it.
LEMMA MoveKeepsAcyclic ==
  ASSUME Box!Placed, Box!Acyclic, NEW o \in Objects, NEW d \in Objects, Box!Move(o, d)
  PROVE  (Box!Acyclic)'
<1>1. PICK U \in SUBSET Objects :
        d \in U /\ o \notin U /\ \A p \in U : super[p] \in U \cup {NoObject}
  BY DEF Box!Move, Box!Outside
<1>2. SUFFICES ASSUME NEW S \in SUBSET Objects, S # {}, \A p \in S : super'[p] \in S
               PROVE  FALSE
  BY DEF Box!Acyclic
<1>3. \A p \in Objects : super'[p] = IF p = o THEN d ELSE super[p]
  BY DEF Box!Move, Box!Placed
<1>4. CASE o \notin S
  <2>1. \A p \in S : super[p] \in S
    BY <1>2, <1>3, <1>4
  <2>2. QED BY <1>2, <2>1 DEF Box!Acyclic
<1>5. CASE o \in S
  <2>1. d \in S \cap U
    BY <1>1, <1>2, <1>3, <1>5
  <2>2. \A p \in S \cap U : super[p] \in S \cap U
    BY <1>1, <1>2, <1>3, ObjectsAssumption
  <2>3. S \cap U \in SUBSET Objects
    OBVIOUS
  <2>4. QED BY <2>1, <2>2, <2>3 DEF Box!Acyclic
<1>6. QED BY <1>4, <1>5

\* What leaves its place only takes an edge away.
LEMMA DestroyKeepsAcyclic ==
  ASSUME Box!Placed, Box!Acyclic, NEW o \in Objects, Box!Destroy(o)
  PROVE  (Box!Acyclic)'
<1>1. SUFFICES ASSUME NEW S \in SUBSET Objects, S # {}, \A p \in S : super'[p] \in S
               PROVE  FALSE
  BY DEF Box!Acyclic
<1>2. \A p \in S : super[p] \in S
  BY <1>1, ObjectsAssumption DEF Box!Destroy, Box!Placed
<1>3. QED BY <1>1, <1>2 DEF Box!Acyclic

LEMMA PlacedInductive ==
  ASSUME Box!Placed, [Box!CNext]_(Box!cvars)
  PROVE  (Box!Placed)'
<1>1. CASE UNCHANGED Box!cvars
  BY <1>1 DEF Box!Placed, Box!cvars
<1>2. ASSUME NEW o \in Objects, Box!Create(o) PROVE (Box!Placed)'
  BY <1>2 DEF Box!Placed, Box!Create
<1>3. ASSUME NEW o \in Objects, Box!Destroy(o) PROVE (Box!Placed)'
  BY <1>3 DEF Box!Placed, Box!Destroy, Box!Contains
<1>4. ASSUME NEW o \in Objects, NEW d \in Objects, Box!Move(o, d) PROVE (Box!Placed)'
  BY <1>4 DEF Box!Placed, Box!Move
<1>5. QED BY <1>1, <1>2, <1>3, <1>4 DEF Box!CNext

\* Nothing is ever inside itself, however deep, whatever is moved, created and
\* destructed (move_object's "Can't move object inside itself").
THEOREM NothingInsideItself ==
  Box!CSpec => [](Box!Placed /\ Box!Acyclic)
<1>1. Box!CInit => Box!Placed /\ Box!Acyclic
  BY DEF Box!CInit, Box!Placed
<1>2. Box!Placed /\ Box!Acyclic /\ [Box!CNext]_(Box!cvars) => (Box!Placed /\ Box!Acyclic)'
  <2> SUFFICES ASSUME Box!Placed, Box!Acyclic, [Box!CNext]_(Box!cvars) PROVE  (Box!Placed)' /\ (Box!Acyclic)'
    OBVIOUS
  <2>1. (Box!Placed)'
    BY PlacedInductive
  <2>2. ASSUME UNCHANGED Box!cvars PROVE (Box!Acyclic)'
    BY <2>2 DEF Box!Acyclic, Box!cvars
  <2>3. ASSUME NEW o \in Objects, Box!Create(o) PROVE (Box!Acyclic)'
    BY <2>3 DEF Box!Acyclic, Box!Create
  <2>4. ASSUME NEW o \in Objects, Box!Destroy(o) PROVE (Box!Acyclic)'
    BY <2>4, DestroyKeepsAcyclic
  <2>5. ASSUME NEW o \in Objects, NEW d \in Objects, Box!Move(o, d) PROVE (Box!Acyclic)'
    BY <2>5, MoveKeepsAcyclic
  <2>6. QED BY <2>1, <2>2, <2>3, <2>4, <2>5 DEF Box!CNext
<1>3. QED BY <1>1, <1>2, PTL DEF Box!CSpec

-----------------------------------------------------------------------------
(* The walk of move_object past the neighbours                             *)

\* Nobody of left comes before n in the inventory; NoObject is its end.
Ahead(left, inv, n) ==
  IF n = NoObject THEN left \cap Range(inv) = {}
  ELSE \A i, j \in 1 .. Len(inv) : inv[i] = n /\ inv[j] \in left => i <= j

\* The walk f can go on at n; u is super and c is contains.
Comes(f, n, u, c) == (n # NoObject => u[n] = f.dest) /\ Ahead(f.left, c[f.dest], n)

WalkSound(f, u, c) ==
  /\ f.at = "loop" => u[f.item] = f.dest /\ Comes(f, f.ob, u, c)
  /\ f.at \in {"item", "ob"} => f.ob \in Objects /\ u[f.ob] = f.dest /\ Comes(f, f.next, u, c)

\* The frame g will not move or destruct what the walk f holds a pointer to.
Spares(g, f) ==
  /\ g.kind = "exit" => g.item \notin {f.ob, f.next}
  /\ g.kind = "destruct" => g.ob \notin {f.ob, f.next}

Walkers(s) == {i \in 1 .. Len(s) : s[i].kind = "init"}

\* A walk reads the next pointer only while it is the last frame.
WalksSound(s, u, c) ==
  \A i \in Walkers(s) :
    /\ WalkSound(s[i], u, c)
    /\ \A j \in i + 1 .. Len(s) : Spares(s[j], s[i])
    /\ i < Len(s) => s[i].at # "loop"

Paused(s) == \A i \in Walkers(s) : s[i].at # "loop"

Polite == taken \cap {"init_moves_other", "move_destructed"} = {}

MeetInv == Inv /\ (Polite => WalksSound(stack, super, contains))

-----------------------------------------------------------------------------
(* Who is ahead                                                            *)

LEMMA AheadFewer ==
  ASSUME NEW left, NEW l \in SUBSET left, NEW inv, NEW n, Ahead(left, inv, n)
  PROVE  Ahead(l, inv, n)
BY DEF Ahead

\* An object leaves the inventory.
LEMMA AheadTaken ==
  ASSUME NEW s \in Seq(Objects), NEW o, NEW left, NEW n, Ahead(left, s, n)
  PROVE  Ahead(left, Without(s, o), n)
<1>1. CASE o \notin Range(s)
  BY <1>1 DEF Without
<1>2. CASE o \in Range(s)
  <2> DEFINE t == Without(s, o)
  <2>1. PICK k \in 1 .. Len(s) :
           /\ s[k] = o /\ t \in Seq(Objects) /\ Len(t) = Len(s) - 1
           /\ \A i \in 1 .. Len(s) - 1 : t[i] = IF i < k THEN s[i] ELSE s[i + 1]
    BY <1>2, TakenAway
  <2> HIDE DEF t
  <2>2. /\ Len(s) \in Nat /\ Range(s) = {s[i] : i \in 1 .. Len(s)}
        /\ Range(t) = {t[i] : i \in 1 .. Len(s) - 1}
    BY <2>1, LenProperties, RangeEquality
  <2> DEFINE m(i) == IF i < k THEN i ELSE i + 1
  <2>3. \A i \in 1 .. Len(s) - 1 : m(i) \in 1 .. Len(s) /\ t[i] = s[m(i)]
    BY <2>1, <2>2
  <2>4. \A i, j \in 1 .. Len(s) - 1 : m(i) <= m(j) => i <= j
    BY <2>1, <2>2
  <2> HIDE DEF m
  <2>5. CASE n = NoObject
    <3>1. Range(t) \subseteq Range(s)
      BY <2>2, <2>3
    <3> QED BY <2>5, <3>1 DEF Ahead, t
  <2>6. CASE n # NoObject
    <3>1. ASSUME NEW i \in 1 .. Len(s) - 1, NEW j \in 1 .. Len(s) - 1, t[i] = n, t[j] \in left
          PROVE  i <= j
      BY <2>3, <2>4, <2>6, <3>1 DEF Ahead
    <3> QED BY <2>1, <2>6, <3>1 DEF Ahead, t
  <2> QED BY <2>5, <2>6
<1> QED BY <1>1, <1>2

\* One enters at the head, and is not waited for.
LEMMA AheadPut ==
  ASSUME NEW s \in Seq(Objects), NEW o \in Objects, NEW left, NEW n, n # o, Ahead(left, s, n)
  PROVE  Ahead(left \ {o}, <<o>> \o s, n)
<1> DEFINE t == <<o>> \o s
<1>1. /\ Len(s) \in Nat /\ Range(s) = {s[i] : i \in 1 .. Len(s)}
  BY LenProperties, RangeEquality
<1>2. <<o>> \in Seq(Objects) /\ Len(<<o>>) = 1 /\ <<o>>[1] = o
  OBVIOUS
<1>3. /\ t \in Seq(Objects) /\ Len(t) = 1 + Len(s)
      /\ \A i \in 1 .. 1 + Len(s) : t[i] = IF i <= 1 THEN o ELSE s[i - 1]
  BY <1>2, ConcatProperties
<1> HIDE DEF t
<1>4. Range(t) = {t[i] : i \in 1 .. 1 + Len(s)}
  BY <1>3, RangeEquality
<1>5. \A i \in 1 .. 1 + Len(s) : t[i] = o \/ (i - 1 \in 1 .. Len(s) /\ t[i] = s[i - 1])
  BY <1>1, <1>3
<1>6. CASE n = NoObject
  <2>1. Range(t) \subseteq Range(s) \cup {o}
    BY <1>1, <1>4, <1>5
  <2> QED BY <1>6, <2>1 DEF Ahead, t
<1>7. CASE n # NoObject
  <2>1. ASSUME NEW i \in 1 .. 1 + Len(s), NEW j \in 1 .. 1 + Len(s), t[i] = n, t[j] \in left \ {o}
        PROVE  i <= j
    <3>1. i - 1 \in 1 .. Len(s) /\ s[i - 1] = n /\ j - 1 \in 1 .. Len(s) /\ s[j - 1] \in left
      BY <1>5, <2>1
    <3>2. i - 1 <= j - 1
      BY <1>7, <3>1 DEF Ahead
    <3> QED BY <1>1, <3>2
  <2> QED BY <1>3, <1>7, <2>1 DEF Ahead, t
<1> QED BY <1>6, <1>7

\* The walk begins at the head.
LEMMA AheadFirst ==
  ASSUME TreeTypes, WellFormed, NEW d \in Objects, NEW left
  PROVE  /\ Ahead(left, contains[d], FirstInv(d))
         /\ FirstInv(d) # NoObject => super[FirstInv(d)] = d
<1> DEFINE inv == contains[d]
<1>1. /\ inv \in Seq(Objects) /\ IsInjective(inv) /\ Range(inv) = {q \in Objects : super[q] = d}
  BY DEF TreeTypes, WellFormed
<1>2. Len(inv) \in Nat /\ DOMAIN inv = 1 .. Len(inv) /\ Range(inv) = {inv[i] : i \in 1 .. Len(inv)}
  BY <1>1, LenProperties, RangeEquality
<1>3. CASE inv = <<>>
  <2>1. FirstInv(d) = NoObject
    BY <1>3 DEF FirstInv, Null
  <2>2. Range(inv) = {}
    BY <1>3 DEF Range
  <2> QED BY <2>1, <2>2 DEF Ahead
<1>4. CASE inv # <<>>
  <2>1. FirstInv(d) = Head(inv)
    BY <1>4 DEF FirstInv, Null
  <2>2. Head(inv) = inv[1] /\ 1 \in 1 .. Len(inv)
    BY <1>1, <1>2, <1>4, HeadTailProperties, EmptySeq
  <2>3. Head(inv) \in Objects /\ super[Head(inv)] = d /\ Head(inv) # NoObject
    BY <1>1, <1>2, <2>2, ObjectsAssumption
  <2> HIDE DEF inv
  <2>4. \A i \in 1 .. Len(inv) : inv[i] = inv[1] => i = 1
    BY <1>1, <1>2, <2>2 DEF IsInjective
  <2>5. \A i, j \in 1 .. Len(inv) : inv[i] = Head(inv) => i <= j
    BY <1>2, <2>2, <2>4
  <2>6. Ahead(left, inv, Head(inv))
    BY <2>3, <2>5 DEF Ahead
  <2> QED BY <2>1, <2>3, <2>6 DEF inv
<1> QED BY <1>3, <1>4

\* It goes on behind the one it has come to.
LEMMA AheadNext ==
  ASSUME TreeTypes, WellFormed, NEW o \in Objects, NEW left,
         super[o] # NoObject, Ahead(left, contains[super[o]], o)
  PROVE  /\ Ahead(left \ {o}, contains[super[o]], NextInv(o))
         /\ NextInv(o) # NoObject => super[NextInv(o)] = super[o]
<1> DEFINE d   == super[o]
           inv == contains[d]
           at  == {i \in 1 .. Len(inv) - 1 : inv[i] = o}
<1>1. d \in Objects
  BY DEF TreeTypes
<1>2. /\ inv \in Seq(Objects) /\ IsInjective(inv) /\ Range(inv) = {q \in Objects : super[q] = d}
  BY <1>1 DEF TreeTypes, WellFormed
<1>3. Len(inv) \in Nat /\ DOMAIN inv = 1 .. Len(inv) /\ Range(inv) = {inv[i] : i \in 1 .. Len(inv)}
  BY <1>2, LenProperties, RangeEquality
<1>4. NextInv(o) = IF at = {} THEN NoObject ELSE inv[Min(at) + 1]
  BY DEF NextInv
<1>5. PICK p \in 1 .. Len(inv) : inv[p] = o
  BY <1>2, <1>3
<1>6. \A i, j \in 1 .. Len(inv) : inv[i] = inv[j] => i = j
  BY <1>2, <1>3 DEF IsInjective
<1>7. \A i, j \in 1 .. Len(inv) : inv[i] = o /\ inv[j] \in left => i <= j
  BY ObjectsAssumption DEF Ahead
<1> HIDE DEF inv
<1>8. \A j \in 1 .. Len(inv) : inv[j] \in left \ {o} => p < j
  BY <1>3, <1>5, <1>7
<1>9. CASE p = Len(inv)
  <2>1. at = {}
    BY <1>3, <1>5, <1>6, <1>9
  <2>2. NextInv(o) = NoObject
    BY <1>4, <2>1
  <2>3. (left \ {o}) \cap Range(inv) = {}
    BY <1>3, <1>8, <1>9
  <2> QED BY <2>2, <2>3 DEF Ahead, inv
<1>10. CASE p < Len(inv)
  <2>1. at = {p}
    BY <1>3, <1>5, <1>6, <1>10
  <2>2. Min(at) = p
    <3>1. at \in SUBSET Nat /\ at # {}
      BY <1>3, <2>1
    <3> HIDE DEF at
    <3> QED BY <2>1, <3>1, LeastNat
  <2>3. NextInv(o) = inv[p + 1] /\ p + 1 \in 1 .. Len(inv)
    <3>1. at # {}
      BY <2>1
    <3> HIDE DEF at
    <3> QED BY <1>3, <1>4, <1>10, <2>2, <3>1
  <2>4. inv[p + 1] \in Objects /\ super[inv[p + 1]] = d /\ inv[p + 1] # NoObject
    BY <1>2, <1>3, <2>3, ObjectsAssumption
  <2>5. \A i, j \in 1 .. Len(inv) : inv[i] = inv[p + 1] /\ inv[j] \in left \ {o} => i <= j
    BY <1>3, <1>6, <1>8, <2>3
  <2>6. Ahead(left \ {o}, inv, inv[p + 1])
    BY <2>4, <2>5 DEF Ahead
  <2> QED BY <2>3, <2>4, <2>6 DEF inv
<1>11. p = Len(inv) \/ p < Len(inv)
  <2>1. Len(inv) \in Nat /\ p \in 1 .. Len(inv)
    BY <1>3, <1>5
  <2> QED BY <2>1
<1> QED BY <1>9, <1>10, <1>11

-----------------------------------------------------------------------------
(* Stacks with walks                                                       *)

Harmless(f) == f \in Frames /\ f.kind \notin {"init", "exit", "destruct"}

LEMMA LpcHarmless ==
  ASSUME NEW k \in {"call", "catch"}, NEW x \in Values, NEW y \in Values
  PROVE  Harmless([kind |-> k, ob |-> x, comgiver |-> y])
BY DEF Harmless, Frames, LpcFrame, Values

LEMMA CutWalks ==
  ASSUME NEW s \in Seq(Frames), NEW n \in 0 .. Len(s), NEW u, NEW c, WalksSound(s, u, c)
  PROVE  /\ WalksSound(SubSeq(s, 1, n), u, c)
         /\ n < Len(s) => Paused(SubSeq(s, 1, n))
<1> DEFINE t == SubSeq(s, 1, n)
<1>1. /\ t \in Seq(Frames) /\ Len(t) = n /\ Len(s) \in Nat /\ n \in Nat
      /\ \A i \in 1 .. n : t[i] = s[i]
  BY KeptCut, LenProperties
<1> HIDE DEF t
<1>2. \A i \in Walkers(t) : i \in Walkers(s) /\ t[i] = s[i] /\ i <= n
  BY <1>1 DEF Walkers
<1>3. ASSUME NEW i \in Walkers(t), NEW j \in i + 1 .. n
      PROVE  j \in 1 .. n /\ j \in i + 1 .. Len(s)
  BY <1>1 DEF Walkers
<1>4. ASSUME NEW i \in Walkers(t)
      PROVE  /\ WalkSound(t[i], u, c)
             /\ \A j \in i + 1 .. Len(t) : Spares(t[j], t[i])
             /\ i < Len(t) => t[i].at # "loop"
  <2>1. i \in Nat /\ i <= n
    BY <1>1 DEF Walkers
  <2> QED BY <1>1, <1>2, <1>3, <2>1 DEF WalksSound
<1>5. n < Len(s) => Paused(t)
  <2>1. ASSUME n < Len(s), NEW i \in Walkers(t) PROVE t[i].at # "loop"
    <3>1. i \in Nat /\ i <= n /\ i \in Walkers(s) /\ t[i] = s[i]
      BY <1>1, <1>2 DEF Walkers
    <3> QED BY <1>1, <2>1, <3>1 DEF WalksSound
  <2> QED BY <2>1 DEF Paused
<1> QED BY <1>4, <1>5 DEF WalksSound, t

\* A frame that is no walk is pushed.
LEMMA PushWalks ==
  ASSUME NEW s \in Seq(Frames), NEW f \in Frames, f.kind # "init", NEW u, NEW c,
         WalksSound(s, u, c), Paused(s), \A i \in Walkers(s) : Spares(f, s[i])
  PROVE  WalksSound(Append(s, f), u, c) /\ Paused(Append(s, f))
<1> DEFINE t == Append(s, f)
<1>1. /\ Len(t) = Len(s) + 1 /\ t[Len(s) + 1] = f /\ Len(s) \in Nat
      /\ \A i \in 1 .. Len(s) : t[i] = s[i]
  BY Pushed
<1> HIDE DEF t
<1>2. Walkers(t) = Walkers(s) /\ \A i \in Walkers(s) : t[i] = s[i]
  BY <1>1 DEF Walkers
<1>3. ASSUME NEW i \in Walkers(s), NEW j \in i + 1 .. Len(t) PROVE Spares(t[j], t[i])
  <2>1. CASE j = Len(s) + 1
    BY <1>1, <1>2, <2>1
  <2>2. CASE j # Len(s) + 1
    <3>1. j \in i + 1 .. Len(s) /\ j \in 1 .. Len(s)
      BY <1>1, <2>2 DEF Walkers
    <3> QED BY <1>1, <1>2, <3>1 DEF WalksSound
  <2> QED BY <2>1, <2>2
<1>4. Paused(t)
  BY <1>2 DEF Paused
<1>5. \A i \in Walkers(t) : WalkSound(t[i], u, c) /\ t[i].at # "loop"
  BY <1>2, <1>4 DEF WalksSound, Paused
<1> QED BY <1>2, <1>3, <1>4, <1>5 DEF WalksSound, t

\* A walk is pushed.
LEMMA PushWalk ==
  ASSUME NEW s \in Seq(Frames), NEW f \in Frames, f.kind = "init", NEW u, NEW c,
         WalksSound(s, u, c), Paused(s), WalkSound(f, u, c)
  PROVE  WalksSound(Append(s, f), u, c)
<1> DEFINE t == Append(s, f)
           n == Len(s) + 1
<1>1. /\ Len(t) = n /\ t[n] = f /\ Len(s) \in Nat
      /\ \A i \in 1 .. Len(s) : t[i] = s[i]
  BY Pushed
<1> HIDE DEF t
<1>2. Walkers(t) = Walkers(s) \cup {n} /\ \A i \in Walkers(s) : t[i] = s[i]
  BY <1>1 DEF Walkers
<1>3. ASSUME NEW i \in Walkers(s), NEW j \in i + 1 .. n PROVE Spares(t[j], t[i])
  <2>1. CASE j = n
    BY <1>1, <1>2, <2>1 DEF Spares
  <2>2. CASE j # n
    <3>1. j \in i + 1 .. Len(s) /\ j \in 1 .. Len(s)
      BY <1>1, <2>2 DEF Walkers
    <3> QED BY <1>1, <1>2, <3>1 DEF WalksSound
  <2> QED BY <2>1, <2>2
<1>4. \A i \in Walkers(s) : WalkSound(t[i], u, c) /\ t[i].at # "loop"
  BY <1>2 DEF WalksSound, Paused
<1>5. \A j \in n + 1 .. n : FALSE
  BY <1>1
<1>6. ~ (n < n)
  BY <1>1
<1> HIDE DEF n
<1>7. ASSUME NEW i \in Walkers(t)
      PROVE  /\ WalkSound(t[i], u, c)
             /\ \A j \in i + 1 .. Len(t) : Spares(t[j], t[i])
             /\ i < Len(t) => t[i].at # "loop"
  <2>1. CASE i = n
    BY <1>1, <1>5, <1>6, <2>1
  <2>2. CASE i \in Walkers(s)
    BY <1>1, <1>3, <1>4, <2>2
  <2> QED BY <1>2, <2>1, <2>2
<1> QED BY <1>7 DEF WalksSound, t

LEMMA SparesSame ==
  ASSUME NEW f, NEW g, NEW w, Spares(f, w), SameTask(f, g)
  PROVE  Spares(g, w)
BY DEF Spares, SameTask

\* No walk changes, and every frame promises the same.
LEMMA SameWalks ==
  ASSUME NEW s, NEW t, Len(t) = Len(s), NEW u, NEW c, WalksSound(s, u, c),
         \A i \in 1 .. Len(s) : SameTask(s[i], t[i]) /\ (s[i].kind = "init" => t[i] = s[i])
  PROVE  WalksSound(t, u, c) /\ (Paused(s) => Paused(t))
<1>1. Walkers(t) = Walkers(s) /\ \A i \in Walkers(s) : t[i] = s[i]
  BY DEF Walkers, SameTask
<1>2. ASSUME NEW i \in Walkers(s), NEW j \in i + 1 .. Len(s), j \in 1 .. Len(s)
      PROVE  Spares(t[j], t[i])
  <2>1. Spares(s[j], s[i]) /\ SameTask(s[j], t[j]) /\ t[i] = s[i]
    BY <1>1, <1>2 DEF WalksSound
  <2> QED BY <2>1, SparesSame
<1>3. \A i \in Walkers(s) : \A j \in i + 1 .. Len(s) : j \in 1 .. Len(s)
  BY DEF Walkers
<1> QED BY <1>1, <1>2, <1>3 DEF WalksSound, Paused

\* Only frames of player_parser are marked.
LEMMA MarkedSame ==
  ASSUME NEW s \in Seq(Frames), NEW new
  PROVE  /\ Marked(s, new) \in Seq(Frames) /\ Len(Marked(s, new)) = Len(s)
         /\ \A i \in 1 .. Len(s) : SameTask(s[i], Marked(s, new)[i])
                                  /\ (s[i].kind = "init" => Marked(s, new)[i] = s[i])
<1>1. /\ Len(Marked(s, new)) = Len(s) /\ Kept(s, Marked(s, new)) /\ Kept(Marked(s, new), s)
      /\ DOMAIN s = 1 .. Len(s)
  BY MarkedKeeps, LenProperties
<1>2. \A i \in 1 .. Len(s) : Marked(s, new)[i] = s[i] \/ s[i].kind = "parse"
  BY <1>1 DEF Marked
<1>3. ASSUME NEW i \in 1 .. Len(s)
      PROVE  SameTask(s[i], Marked(s, new)[i])
             /\ (s[i].kind = "init" => Marked(s, new)[i] = s[i])
  <2>1. CASE Marked(s, new)[i] = s[i]
    BY <2>1 DEF SameTask
  <2>2. CASE s[i].kind = "parse"
    <3>1. Marked(s, new)[i] \in Frames /\ s[i] \in Frames
      BY <1>1, MarkedKeeps, ElementOfSeq
    <3>2. Marked(s, new)[i].kind = "parse"
      <4>1. s[i] \in ParseFrames
        BY <2>2, <3>1, FramesByKind
      <4>2. TRUE \in BOOLEAN
        BY Zenon
      <4>3. [s[i] EXCEPT !.dangling = TRUE] \in ParseFrames
        BY <4>1, <4>2, Flagged, Zenon
      <4>4. Marked(s, new)[i] \in {s[i], [s[i] EXCEPT !.dangling = TRUE]}
        BY <1>1 DEF Marked
      <4> QED BY <2>2, <4>3, <4>4 DEF ParseFrames
    <3> QED BY <2>2, <3>2 DEF SameTask
  <2> QED BY <1>2, <2>1, <2>2
<1> QED BY <1>1, <1>3, MarkedKeeps

-----------------------------------------------------------------------------
(* Stacks that a step returns to before it pushes anything                 *)

\* Each walk of s is one of the stack, and waits for a frame above it.
Ready(s) ==
  /\ s \in Seq(Frames) /\ Len(s) <= Len(stack)
  /\ Len(s) = Len(stack) => s = <<>> \/ s[Len(s)].kind # "init"
  /\ \A i \in Walkers(s) : i \in Walkers(stack) /\ s[i] = stack[i]
  /\ WalksSound(s, super, contains) /\ Paused(s)

\* What a step that leaves the tree alone has to show.
Calm == WalksSound(stack', super, contains) /\ ~ Meets

LEMMA ReadyCalm ==
  ASSUME Typed, Ready(stack')
  PROVE  Calm
<1>1. Len(stack') \in Nat /\ Len(stack) \in Nat /\ Len(stack') <= Len(stack)
  BY LenProperties DEF Ready, Typed
<1>2. ~ Meets
  BY <1>1 DEF Meets
<1> QED BY <1>2 DEF Ready, Calm

LEMMA ReadyStack ==
  ASSUME Typed, WalksSound(stack, super, contains), stack = <<>> \/ Top.kind # "init"
  PROVE  Ready(stack)
<1>1. stack \in Seq(Frames) /\ Len(stack) \in Nat
  BY LenProperties DEF Typed
<1>2. ASSUME NEW i \in Walkers(stack) PROVE stack[i].at # "loop"
  <2>1. i \in 1 .. Len(stack) /\ stack[i].kind = "init"
    BY DEF Walkers
  <2>2. i < Len(stack)
    <3>1. stack # <<>> /\ stack[Len(stack)].kind # "init"
      BY <1>1, <2>1, EmptySeq DEF Top
    <3>2. i # Len(stack)
      BY <2>1, <3>1
    <3> QED BY <1>1, <2>1, <3>2
  <2> QED BY <2>2 DEF WalksSound
<1> QED BY <1>1, <1>2 DEF Ready, Paused, Top

\* The stack, cut.
LEMMA ReadyCut ==
  ASSUME Typed, WalksSound(stack, super, contains), NEW n \in 0 .. Len(stack) - 1
  PROVE  Ready(SubSeq(stack, 1, n))
<1> DEFINE t == SubSeq(stack, 1, n)
<1>1. stack \in Seq(Frames) /\ Len(stack) \in Nat /\ n \in 0 .. Len(stack)
  BY LenProperties DEF Typed
<1>2. n < Len(stack) /\ n \in Nat
  BY <1>1
<1>3. t \in Seq(Frames) /\ Len(t) = n /\ \A i \in 1 .. n : t[i] = stack[i]
  BY <1>1, KeptCut
<1>4. WalksSound(t, super, contains) /\ Paused(t)
  BY <1>1, <1>2, CutWalks
<1> HIDE DEF t
<1>5. \A i \in Walkers(t) : i \in Walkers(stack) /\ t[i] = stack[i]
  BY <1>1, <1>2, <1>3 DEF Walkers
<1>6. Len(t) <= Len(stack) /\ Len(t) # Len(stack)
  BY <1>1, <1>2, <1>3
<1> QED BY <1>3, <1>4, <1>5, <1>6 DEF Ready, t

LEMMA ReadyBelow ==
  ASSUME Typed, WalksSound(stack, super, contains), stack # <<>>
  PROVE  Ready(Below) /\ Len(Below) < Len(stack)
<1>1. Len(stack) \in Nat \ {0} /\ Len(Below) = Len(stack) - 1
  BY TopFrame
<1>2. Len(stack) - 1 \in 0 .. Len(stack) - 1 /\ Len(stack) - 1 < Len(stack)
  BY <1>1
<1> QED BY <1>1, <1>2, ReadyCut DEF Below, Front

\* An error.
LEMMA ErrorCalm ==
  ASSUME Typed, WalksSound(stack, super, contains), stack # <<>>, Error
  PROVE  Calm
<1>1. stack \in Seq(Frames) /\ Len(stack) \in Nat \ {0} /\ DOMAIN stack = 1 .. Len(stack)
  BY EmptySeq, LenProperties DEF Typed
<1> DEFINE catches == {i \in DOMAIN stack : stack[i].kind = "catch"}
<1>2. CASE catches = {}
  <2>1. stack' = <<>>
    BY <1>2 DEF Error
  <2>2. 0 \in 0 .. Len(stack) - 1
    BY <1>1
  <2>3. SubSeq(stack, 1, 0) = <<>>
    <3>1. SubSeq(stack, 1, 0) \in Seq(Frames) /\ Len(SubSeq(stack, 1, 0)) = 0
      BY <1>1, KeptCut
    <3> QED BY <3>1, EmptySeq
  <2> QED BY <2>1, <2>2, <2>3, ReadyCut, ReadyCalm
<1>3. CASE catches # {}
  <2>1. PICK k \in catches : stack' = SubSeq(stack, 1, k - 1)
    BY <1>3 DEF Error
  <2>2. k - 1 \in 0 .. Len(stack) - 1
    BY <1>1
  <2> QED BY <2>1, <2>2, ReadyCut, ReadyCalm
<1> QED BY <1>2, <1>3

\* Frames of player_parser are marked, and one of them gets its answer.
LEMMA ReadySame ==
  ASSUME NEW s, Ready(s), NEW t \in Seq(Frames), Len(t) = Len(s),
         \A i \in 1 .. Len(s) : SameTask(s[i], t[i]) /\ (s[i].kind = "init" => t[i] = s[i])
  PROVE  Ready(t)
<1>1. WalksSound(t, super, contains) /\ Paused(t)
  BY SameWalks DEF Ready
<1>2. Walkers(t) = Walkers(s) /\ \A i \in Walkers(s) : t[i] = s[i]
  BY DEF Walkers, SameTask
<1>3. s = <<>> => t = <<>>
  BY EmptySeq
<1>4. s # <<>> => Len(s) \in 1 .. Len(s)
  <2>1. s # <<>> => Len(s) \in Nat \ {0}
    BY EmptySeq DEF Ready
  <2> QED BY <2>1
<1>5. Len(t) = Len(stack) => t = <<>> \/ t[Len(t)].kind # "init"
  BY <1>3, <1>4 DEF Ready, SameTask
<1> QED BY <1>1, <1>2, <1>5 DEF Ready

-----------------------------------------------------------------------------
(* Frames that are pushed                                                  *)

\* A frame that is no walk, and spares what the walks hold.
Sparing(f, s) == /\ f \in Frames /\ f.kind # "init"
                 /\ \A i \in Walkers(s) : Spares(f, s[i])

LEMMA HarmlessSpares ==
  ASSUME NEW f, Harmless(f), NEW s
  PROVE  Sparing(f, s)
BY DEF Harmless, Sparing, Spares

\* A frame in place of the last one.
LEMMA TaskSpares ==
  ASSUME Typed, WalksSound(stack, super, contains), stack # <<>>,
         NEW f \in Frames, SameTask(Top, f), f.kind # "init"
  PROVE  Sparing(f, Below)
<1>1. /\ Top = stack[Len(stack)] /\ Len(stack) \in Nat \ {0}
      /\ Len(Below) = Len(stack) - 1 /\ \A i \in 1 .. Len(stack) - 1 : Below[i] = stack[i]
  BY TopFrame
<1>2. ASSUME NEW i \in Walkers(Below) PROVE Spares(f, Below[i])
  <2>1. i \in 1 .. Len(stack) - 1 /\ Below[i] = stack[i] /\ stack[i].kind = "init"
    BY <1>1 DEF Walkers
  <2>2. i \in Walkers(stack) /\ Len(stack) \in i + 1 .. Len(stack)
    BY <1>1, <2>1 DEF Walkers
  <2>3. Spares(Top, Below[i])
    BY <1>1, <2>1, <2>2 DEF WalksSound
  <2> QED BY <2>3, SparesSame
<1> QED BY <1>2 DEF Sparing

\* No walk holds a pointer to o.
Free(s, o) == \A i \in Walkers(s) : o \notin {s[i].ob, s[i].next}

LEMMA LeftAlone ==
  ASSUME Typed, NEW o, InitLeavesAlone(o), NEW s, Ready(s)
  PROVE  Free(s, o)
<1>1. DOMAIN stack = 1 .. Len(stack)
  BY LenProperties DEF Typed
<1>2. ASSUME NEW i \in Walkers(s) PROVE o \notin {s[i].ob, s[i].next}
  <2>1. i \in Walkers(stack) /\ s[i] = stack[i]
    BY DEF Ready
  <2>2. stack[i] \in Pending("init")
    BY <1>1, <2>1 DEF Pending, Walkers
  <2> QED BY <2>1, <2>2 DEF InitLeavesAlone
<1> QED BY <1>2 DEF Free

\* An object that no walk holds is moved or destructed.
LEMMA FreeSpares ==
  ASSUME Typed, NEW o, InitLeavesAlone(o), NEW s, Ready(s),
         NEW f \in Frames, f.kind # "init",
         f.kind = "exit" => f.item = o, f.kind = "destruct" => f.ob = o
  PROVE  Sparing(f, s)
BY LeftAlone DEF Free, Sparing, Spares

\* A stack that has grown by one frame
LEMMA PushedWalks ==
  ASSUME Typed, NEW s, Ready(s), NEW f, Sparing(f, s)
  PROVE  LET t == Append(s, f)
         IN /\ WalksSound(t, super, contains) /\ Paused(t) /\ t \in Seq(Frames)
            /\ Len(t) = Len(s) + 1 /\ t[Len(s) + 1] = f
            /\ Walkers(t) = Walkers(s) /\ \A i \in 1 .. Len(s) : t[i] = s[i]
<1> DEFINE t == Append(s, f)
<1>1. /\ s \in Seq(Frames) /\ f \in Frames /\ t \in Seq(Frames)
      /\ Len(t) = Len(s) + 1 /\ t[Len(s) + 1] = f
      /\ Len(s) \in Nat /\ \A i \in 1 .. Len(s) : t[i] = s[i]
  BY Pushed DEF Ready, Sparing
<1>2. WalksSound(t, super, contains) /\ Paused(t)
  BY <1>1, PushWalks DEF Ready, Sparing
<1> HIDE DEF t
<1>3. Walkers(t) = Walkers(s)
  BY <1>1 DEF Walkers, Sparing
<1> QED BY <1>1, <1>2, <1>3 DEF t

\* No function of a walk is called.
LEMMA PushMeetless ==
  ASSUME Typed, NEW s, Ready(s), NEW f \in Frames, stack' = Append(s, f)
  PROVE  ~ Meets
<1>1. /\ Len(s) \in Nat /\ Len(stack) \in Nat /\ Len(s) <= Len(stack)
      /\ Len(stack') = Len(s) + 1 /\ \A i \in 1 .. Len(s) : stack'[i] = s[i]
  BY Pushed, LenProperties DEF Ready, Typed
<1> SUFFICES ASSUME Meets PROVE FALSE
  OBVIOUS
<1>2. Len(s) = Len(stack) /\ Len(s) \in 1 .. Len(s) /\ Len(stack') - 1 = Len(s)
  BY <1>1 DEF Meets
<1>3. s[Len(s)].kind = "init"
  BY <1>1, <1>2 DEF Meets
<1>4. s # <<>>
  BY <1>1, <1>2, EmptySeq
<1> QED BY <1>2, <1>3, <1>4 DEF Ready

LEMMA PushCalm ==
  ASSUME Typed, NEW s, Ready(s), NEW f, Sparing(f, s), stack' = Append(s, f)
  PROVE  Calm
<1>1. WalksSound(stack', super, contains)
  BY PushedWalks
<1>2. ~ Meets
  BY PushMeetless DEF Sparing
<1> QED BY <1>1, <1>2 DEF Calm

LEMMA PushReady ==
  ASSUME Typed, NEW s, Ready(s), Len(s) < Len(stack), NEW f, Sparing(f, s)
  PROVE  Ready(Append(s, f))
<1> DEFINE t == Append(s, f)
<1>1. /\ Len(s) \in Nat /\ Len(stack) \in Nat /\ t \in Seq(Frames)
      /\ Len(t) = Len(s) + 1 /\ t[Len(s) + 1] = f
      /\ \A i \in 1 .. Len(s) : t[i] = s[i]
      /\ WalksSound(t, super, contains) /\ Paused(t) /\ Walkers(t) = Walkers(s)
  BY PushedWalks, LenProperties DEF Ready, Typed
<1> HIDE DEF t
<1>2. Len(t) <= Len(stack)
  BY <1>1
<1>3. \A i \in Walkers(t) : i \in Walkers(stack) /\ t[i] = stack[i]
  BY <1>1 DEF Ready, Walkers
<1>4. t[Len(t)].kind # "init"
  BY <1>1 DEF Sparing
<1> QED BY <1>1, <1>2, <1>3, <1>4 DEF Ready, t

LEMMA CallMeetless ==
  ASSUME Typed, NEW s, Ready(s), NEW f \in Frames, f.kind # "init", NEW o, Call(s, f, o),
         command_giver' \in Values
  PROVE  ~ Meets
<1> DEFINE g == [kind |-> "call", ob |-> current_object, comgiver |-> command_giver']
           t == Append(s, f)
<1>1. stack' = Append(t, g)
  BY DEF Call
<1>2. g \in Frames
  BY LpcHarmless DEF Typed, Harmless
<1> HIDE DEF g
<1>3. t \in Seq(Frames) /\ Len(t) = Len(s) + 1 /\ t[Len(s) + 1] = f /\ Len(s) \in Nat
  BY Pushed DEF Ready
<1> HIDE DEF t
<1>4. /\ Len(stack') = Len(t) + 1 /\ \A i \in 1 .. Len(t) : stack'[i] = t[i]
  BY <1>1, <1>2, <1>3, Pushed
<1>5. Len(stack') - 1 = Len(s) + 1 /\ Len(s) + 1 \in 1 .. Len(t)
  BY <1>3, <1>4
<1>6. stack'[Len(stack') - 1].kind # "init"
  BY <1>3, <1>4, <1>5
<1> QED BY <1>6 DEF Meets

\* The frame of the driver's function, and the one of the function it calls.
LEMMA CallCalm ==
  ASSUME Typed, NEW s, Ready(s), NEW f, Sparing(f, s), NEW o, Call(s, f, o),
         command_giver' \in Values
  PROVE  Calm
<1> DEFINE g == [kind |-> "call", ob |-> current_object, comgiver |-> command_giver']
           t == Append(s, f)
<1>1. stack' = Append(t, g)
  BY DEF Call
<1>2. Harmless(g)
  BY LpcHarmless DEF Typed
<1> HIDE DEF g
<1>3. /\ s \in Seq(Frames) /\ t \in Seq(Frames) /\ Len(t) = Len(s) + 1 /\ t[Len(s) + 1] = f
      /\ Len(s) \in Nat
  BY Pushed DEF Ready, Sparing
<1>4. WalksSound(t, super, contains) /\ Paused(t)
  BY <1>3, PushWalks DEF Ready, Sparing
<1> HIDE DEF t
<1>6. WalksSound(stack', super, contains)
  BY <1>1, <1>2, <1>3, <1>4, PushWalks, HarmlessSpares DEF Harmless, Sparing
<1>7. ~ Meets
  BY CallMeetless DEF Sparing
<1> QED BY <1>6, <1>7 DEF Calm

-----------------------------------------------------------------------------
(* Steps that leave the walks alone                                        *)

Sound == Typed /\ WalksSound(stack, super, contains)

LEMMA RunningReady ==
  ASSUME Sound, Running
  PROVE  Ready(stack) /\ stack # <<>>
BY ReadyStack DEF Running, Sound

LEMMA WaitingReady ==
  ASSUME Sound, NEW k, Waits(k)
  PROVE  /\ Ready(Below) /\ Len(Below) < Len(stack) /\ stack # <<>>
         /\ Top \in Frames /\ Top.kind = k
BY ReadyBelow, WaitsFrame DEF Waits, Sound

LEMMA LpcCalm ==
  ASSUME Sound, NEW o \in Values, NEW p, CallOther(o, p) \/ Catch(o)
  PROVE  Calm
<1>1. Running
  BY DEF CallOther, Catch, Operation
<1>2. \E k \in {"call", "catch"} :
        stack' = Append(stack, [kind |-> k, ob |-> o, comgiver |-> command_giver])
  BY DEF CallOther, Catch
<1>3. command_giver \in Values
  BY DEF Sound, Typed
<1>4. PICK k \in {"call", "catch"} :
        stack' = Append(stack, [kind |-> k, ob |-> o, comgiver |-> command_giver])
  BY <1>2
<1> DEFINE f == [kind |-> k, ob |-> o, comgiver |-> command_giver]
<1>5. Harmless(f)
  BY <1>3, LpcHarmless
<1>6. stack' = Append(stack, f)
  BY <1>4
<1> HIDE DEF f
<1> QED BY <1>1, <1>5, <1>6, RunningReady, HarmlessSpares, PushCalm DEF Sound

LEMMA ReturnCalm ==
  ASSUME Sound, Return
  PROVE  Calm
<1>1. Ready(Below) /\ stack # <<>>
  BY ReadyBelow DEF Return, Running, Sound
<1>2. CASE Caller # "parse"
  <2>1. stack' = Below
    BY <1>2 DEF Return
  <2> QED BY <1>1, <2>1, ReadyCalm DEF Sound
<1>3. CASE Caller = "parse"
  <2>1. PICK answer \in {"zero", "true"} : stack' = [Below EXCEPT ![Len(Below)].answer = answer]
    BY <1>3 DEF Return
  <2>2. Below # <<>> /\ Below[Len(Below)].kind = "parse"
    BY <1>3 DEF Caller, Last
  <2> DEFINE n == Len(Below)
             f == [Below[n] EXCEPT !.answer = answer]
  <2>3. n \in 1 .. n /\ n \in Nat /\ Below \in Seq(Frames)
    BY <1>1, <2>2, EmptySeq DEF Ready
  <2>4. Below[n] \in ParseFrames
    <3>1. Below[n] \in Frames
      BY <2>3, ElementOfSeq
    <3> QED BY <3>1, <2>2, FramesByKind
  <2>5. f \in ParseFrames /\ f.kind = "parse"
    BY <2>4 DEF ParseFrames
  <2>6. f \in Frames
    BY <2>5 DEF Frames
  <2>7. stack' = [Below EXCEPT ![n] = f]
    BY <2>1
  <2> HIDE DEF f
  <2>8. /\ stack' \in Seq(Frames) /\ Len(stack') = n
        /\ \A i \in 1 .. n : stack'[i] = IF i = n THEN f ELSE Below[i]
    BY <2>3, <2>6, <2>7, ExceptSeq
  <2>9. \A i \in 1 .. n : SameTask(Below[i], stack'[i])
                          /\ (Below[i].kind = "init" => stack'[i] = Below[i])
    BY <2>2, <2>5, <2>8 DEF SameTask
  <2>10. Ready(stack')
    BY <1>1, <2>8, <2>9, ReadySame
  <2> QED BY <2>10, ReadyCalm DEF Sound
<1> QED BY <1>2, <1>3

LEMMA ThrowCalm ==
  ASSUME Sound, Throw
  PROVE  Calm
BY ErrorCalm DEF Throw, Running, Sound

\* Nothing is pushed, and at most a parser's frame is marked.
LEMMA MarkingCalm ==
  ASSUME Sound, Running,
         stack' = stack \/ \E new : stack' = Marked(stack, new)
  PROVE  Calm
<1>1. Ready(stack) /\ stack \in Seq(Frames)
  BY RunningReady DEF Ready
<1>2. CASE stack' = stack
  BY <1>1, <1>2, ReadyCalm DEF Sound
<1>3. ASSUME NEW new, stack' = Marked(stack, new) PROVE Calm
  <2>1. Ready(stack')
    BY <1>1, <1>3, MarkedSame, ReadySame
  <2> QED BY <2>1, ReadyCalm DEF Sound
<1> QED BY <1>2, <1>3

LEMMA ThingsCalm ==
  ASSUME Sound, NEW o \in Objects, NEW p \in Objects, NEW pri,
         \/ EnableCommands(o) \/ DisableCommands(o) \/ SetThisPlayer(o, p)
         \/ QueryActions(o, p) \/ Clone(o, p) \/ AddAction(o, pri)
  PROVE  Calm
<1>1. Running
  BY DEF EnableCommands, DisableCommands, SetThisPlayer, QueryActions, Clone, AddAction, Operation
<1>2. Error \/ stack' = stack \/ stack' = Marked(stack, sentences')
  BY DEF EnableCommands, DisableCommands, SetThisPlayer, QueryActions, Clone, AddAction
<1> QED BY <1>1, <1>2, MarkingCalm, ErrorCalm, RunningReady DEF Sound

LEMMA ParseCalm ==
  ASSUME Sound, NEW s, Ready(s), NEW p \in Objects, Parse(s, p)
  PROVE  Calm
<1>1. CASE sentences[p] = Null
  BY <1>1, ReadyCalm DEF Parse, Sound
<1>2. CASE sentences[p] # Null
  <2> DEFINE f == [kind |-> "parse", ob |-> p, e |-> 1, answer |-> "none",
                   save |-> command_giver, dangling |-> FALSE]
  <2>1. FALSE \in BOOLEAN
    BY Zenon
  <2>2. \A b \in BOOLEAN : [kind |-> "parse", ob |-> p, e |-> 1, answer |-> "none",
                            save |-> command_giver, dangling |-> b] \in ParseFrames
    BY DEF ParseFrames, Typed, Sound
  <2>3. f \in ParseFrames
    BY <2>1, <2>2, Zenon
  <2>4. Harmless(f)
    BY <2>3 DEF Frames, ParseFrames, Harmless
  <2>5. stack' = Append(s, f)
    BY <1>2 DEF Parse
  <2> HIDE DEF f
  <2> QED BY <2>4, <2>5, HarmlessSpares, PushCalm DEF Sound
<1> QED BY <1>1, <1>2

LEMMA AskHarmless ==
  ASSUME NEW k \in {"permit", "force"}, NEW p \in Objects
  PROVE  Harmless([kind |-> k, ob |-> p])
BY DEF Harmless, Frames, AskFrames

LEMMA CommandCalm ==
  ASSUME Sound, NEW o \in Objects, NEW p \in Objects, Command(o, p)
  PROVE  Calm
<1>1. Ready(stack) /\ command_giver \in Values
  BY RunningReady DEF Command, Operation, Sound, Typed
<1>2. CASE o = p
  BY <1>1, <1>2, ParseCalm DEF Command
<1>3. CASE o # p
  <2> DEFINE f == [kind |-> "force", ob |-> p]
  <2>1. Harmless(f)
    BY AskHarmless
  <2>2. command_giver' = command_giver /\ Call(stack, f, p)
    BY <1>3 DEF Command
  <2> HIDE DEF f
  <2> QED BY <1>1, <2>1, <2>2, HarmlessSpares, CallCalm DEF Sound
<1> QED BY <1>2, <1>3

LEMMA ForceDoneCalm ==
  ASSUME Sound, ForceDone
  PROVE  Calm
<1>1. Ready(Below) /\ Top \in Frames /\ Top.kind = "force"
  BY WaitingReady DEF ForceDone
<1>2. Top.ob \in Objects
  <2>1. Top \in AskFrames
    BY <1>1, FramesByKind
  <2> QED BY <2>1 DEF AskFrames
<1>3. CASE stack' = Below
  BY <1>1, <1>3, ReadyCalm DEF Sound
<1>4. CASE Parse(Below, Top.ob)
  BY <1>1, <1>2, <1>4, ParseCalm
<1> QED BY <1>3, <1>4 DEF ForceDone

LEMMA ParserHarmless ==
  ASSUME NEW f \in ParseFrames
  PROVE  Harmless(f)
BY DEF Harmless, Frames, ParseFrames

LEMMA ParserCalm ==
  ASSUME Sound, NEW o, NEW e \in Int,
         ParseMatch(o, e) \/ ParseEnd \/ ParseZero \/ ParseTrue
  PROVE  Calm
<1>1. Waits("parse")
  BY DEF ParseMatch, ParseEnd, ParseZero, ParseTrue
<1>2. Ready(Below) /\ stack # <<>> /\ Top \in ParseFrames /\ Top.e + 1 \in Int
  BY <1>1, WaitingReady, ParserFrame DEF Sound
<1>3. CASE ParseMatch(o, e)
  <2> DEFINE f == [Top EXCEPT !.e = e]
  <2>1. Harmless(f)
    BY <1>2, OtherSlot, ParserHarmless
  <2>2. command_giver' = command_giver /\ Call(Below, f, o)
    BY <1>3 DEF ParseMatch
  <2> HIDE DEF f
  <2> QED BY <1>2, <2>1, <2>2, HarmlessSpares, CallCalm DEF Sound, Typed
<1>4. CASE ParseEnd \/ ParseTrue
  <2>1. stack' = Below
    BY <1>4 DEF ParseEnd, ParseTrue
  <2> QED BY <1>2, <2>1, ReadyCalm DEF Sound
<1>5. CASE ParseZero
  <2> DEFINE n == Top.e + 1
             f == [Top EXCEPT !.e = n, !.answer = "none"]
  <2>1. Error \/ stack' = Append(Below, f)
    BY <1>5 DEF ParseZero
  <2> HIDE DEF n
  <2>2. Harmless(f)
    BY <1>2, OtherSlot, ParserHarmless DEF n
  <2> HIDE DEF f
  <2> QED BY <1>2, <2>1, <2>2, ErrorCalm, HarmlessSpares, PushCalm DEF Sound
<1> QED BY <1>3, <1>4, <1>5

LEMMA TurnCalm ==
  ASSUME Sound, NEW o \in Objects, Turn(o)
  PROVE  Calm
<1> DEFINE f == [kind |-> "call", ob |-> NoObject, comgiver |-> NoObject]
<1>1. Harmless(f)
  BY LpcHarmless DEF Values
<1>2. stack = <<>> /\ stack' = <<f>> /\ <<f>> = Append(<<>>, f)
  BY DEF Turn
<1> HIDE DEF f
<1>3. Ready(stack) /\ stack' = Append(stack, f)
  BY <1>2, ReadyStack DEF Sound
<1> QED BY <1>1, <1>3, HarmlessSpares, PushCalm DEF Sound

LEMMA ForgetCalm ==
  ASSUME Sound, NEW o \in Objects, Forget(o)
  PROVE  Calm
<1>1. stack = <<>> /\ stack' = stack
  BY DEF Forget
<1> QED BY <1>1, ReadyStack, ReadyCalm DEF Sound

-----------------------------------------------------------------------------
(* Destructions                                                            *)

LEMMA DestructCalm ==
  ASSUME Sound, NEW o \in Objects, NEW p \in Objects, Destruct(o, p),
         "init_moves_other" \notin taken'
  PROVE  Calm
<1>1. Ready(stack) /\ command_giver \in Values
  BY RunningReady DEF Destruct, Operation, Sound, Typed
<1>2. CASE o = p
  <2>1. Operation(o, DestructMisuse(p)) /\ stack' = Append(stack, DestructFrame(p))
    BY <1>2 DEF Destruct
  <2>2. InitLeavesAlone(p)
    BY <2>1 DEF Operation, DestructMisuse, Misuse
  <2> DEFINE f == DestructFrame(p)
  <2>3. f \in Frames /\ f.kind = "destruct" /\ f.ob = p
    BY DEF DestructFrame, DestructFrames, Frames
  <2> HIDE DEF f
  <2>4. Sparing(f, stack)
    BY <1>1, <2>2, <2>3, FreeSpares DEF Sound
  <2> QED BY <1>1, <2>1, <2>4, PushCalm DEF f, Sound
<1>3. CASE o # p
  <2> DEFINE f == [kind |-> "permit", ob |-> p]
  <2>1. Harmless(f)
    BY AskHarmless
  <2>2. command_giver' = command_giver /\ Call(stack, f, NoObject)
    BY <1>3 DEF Destruct
  <2> HIDE DEF f
  <2> QED BY <1>1, <2>1, <2>2, HarmlessSpares, CallCalm DEF Sound
<1> QED BY <1>2, <1>3

LEMMA PermitDoneCalm ==
  ASSUME Sound, PermitDone, "init_moves_other" \notin taken'
  PROVE  Calm
<1>1. Ready(Below) /\ stack # <<>> /\ Top \in Frames /\ Top.kind = "permit"
  BY WaitingReady DEF PermitDone
<1>2. Top.ob \in Objects
  BY <1>1, FramesByKind DEF AskFrames
<1> DEFINE p == Top.ob
           f == DestructFrame(p)
<1>3. CASE Error
  BY <1>1, <1>3, ErrorCalm DEF Sound
<1>4. CASE stack' = Below
  BY <1>1, <1>4, ReadyCalm DEF Sound
<1>5. CASE life[p] = "live" /\ taken' = taken \cup DestructMisuse(p) /\ stack' = Append(Below, f)
  <2>1. InitLeavesAlone(p)
    BY <1>5 DEF DestructMisuse, Misuse
  <2>2. f \in Frames /\ f.kind = "destruct" /\ f.ob = p
    BY <1>2 DEF DestructFrame, DestructFrames, Frames
  <2> HIDE DEF f, p
  <2>3. Sparing(f, Below)
    BY <1>1, <2>1, <2>2, FreeSpares DEF Sound
  <2> QED BY <1>1, <1>5, <2>3, PushCalm DEF Sound
<1>6. \/ Error \/ stack' = Below
      \/ life[p] = "live" /\ taken' = taken \cup DestructMisuse(p) /\ stack' = Append(Below, f)
  BY DEF PermitDone
<1> QED BY <1>3, <1>4, <1>5, <1>6

\* The frame of a destruction that goes on: it spares what it spared.
LEMMA DestructionSpares ==
  ASSUME Sound, Waits("destruct"), NEW f \in DestructFrames, f.ob = Top.ob
  PROVE  Sparing(f, Below)
<1>1. f \in Frames /\ f.kind = "destruct" /\ stack # <<>> /\ Top.kind = "destruct"
  BY DEF DestructFrames, Frames, Waits
<1>2. SameTask(Top, f)
  BY <1>1 DEF SameTask
<1> QED BY <1>1, <1>2, TaskSpares DEF Sound

LEMMA AskMasterCalm ==
  ASSUME Sound, AskMaster
  PROVE  Calm
<1>1. /\ Waits("destruct") /\ contains[Top.ob] # <<>> /\ command_giver' = command_giver
      /\ Call(Below, [Top EXCEPT !.at = "master", !.inside = Head(contains[Top.ob])], NoObject)
  BY DEF AskMaster, Null
<1>2. Top \in DestructFrames /\ Top.ob \in Objects
  BY <1>1, DestructionFrame DEF Sound
<1> DEFINE h == Head(contains[Top.ob])
           f == [Top EXCEPT !.at = "master", !.inside = h]
<1>3. h \in Objects
  BY <1>1, <1>2, HeadTailProperties DEF Sound, Typed, TreeTypes
<1> HIDE DEF h
<1>4. f \in DestructFrames /\ f.ob = Top.ob
  BY <1>2, <1>3 DEF DestructFrames
<1>5. Call(Below, f, NoObject)
  BY <1>1 DEF h
<1> HIDE DEF f
<1>6. Ready(Below) /\ command_giver' \in Values
  BY <1>1, WaitingReady DEF Sound, Typed
<1> QED BY <1>1, <1>4, <1>5, <1>6, DestructionSpares, CallCalm DEF Sound

LEMMA MasterDoneCalm ==
  ASSUME Sound, MasterDone, "init_moves_other" \notin taken'
  PROVE  Calm
<1>1. Waits("destruct") /\ Top.at = "master"
  BY DEF MasterDone
<1>2. Top \in DestructFrames /\ Ready(Below) /\ Len(Below) < Len(stack)
  BY <1>1, DestructionFrame, WaitingReady DEF Sound
<1>3. Top.inside \in Objects
  BY <1>1, <1>2 DEF DestructFrames
<1> DEFINE p == Top.inside
           f == [Top EXCEPT !.at = "loop", !.inside = NoObject]
           s == Append(Below, f)
           g == DestructFrame(p)
<1>4. f \in DestructFrames /\ f.ob = Top.ob
  BY <1>2 DEF DestructFrames
<1>5. /\ super[p] = Top.ob /\ ~ InitLeavesAlone(p) => "init_moves_other" \in taken'
      /\ IF super[p] = Top.ob
         THEN stack' = s \o (IF life[p] = "destructed" THEN <<>> ELSE <<g>>)
         ELSE stack' = s
  BY DEF MasterDone, Misuse
<1>6. Sparing(f, Below)
  BY <1>1, <1>4, DestructionSpares
<1> HIDE DEF f, g
<1>7. s \in Seq(Frames)
  BY <1>2, <1>6, Pushed DEF Ready, Sparing
<1>8. CASE stack' = s
  BY <1>2, <1>6, <1>8, PushCalm DEF Sound
<1>9. CASE super[p] = Top.ob /\ stack' = s \o <<g>>
  <2>1. InitLeavesAlone(p)
    BY <1>5, <1>9
  <2>2. g \in Frames /\ g.kind = "destruct" /\ g.ob = p
    BY <1>3 DEF DestructFrame, DestructFrames, Frames, g
  <2>3. stack' = Append(s, g)
    BY <1>7, <1>9, <2>2, AppendIsConcat
  <2>4. Ready(s)
    BY <1>2, <1>6, PushReady DEF Sound
  <2> HIDE DEF s, p
  <2>5. Sparing(g, s)
    BY <2>1, <2>2, <2>4, FreeSpares DEF Sound
  <2> QED BY <2>3, <2>4, <2>5, PushCalm DEF Sound
<1>10. stack' = s \/ (super[p] = Top.ob /\ stack' = s \o <<g>>)
  <2>1. s \o <<>> = s
    BY <1>7
  <2> QED BY <1>5, <2>1
<1> QED BY <1>8, <1>9, <1>10

-----------------------------------------------------------------------------
(* The walk of move_object                                                 *)

\* What a step shows: the walks stay sound, and init() is called where the
\* two objects are present to each other.
MeetsOk == Meets => (Present(current_object, command_giver))'

Met == WalksSound(stack', super', contains') /\ MeetsOk

LEMMA CalmMet ==
  ASSUME Calm, UNCHANGED <<super, contains>>
  PROVE  Met
BY DEF Calm, Met, MeetsOk

\* The frame of a walk that goes on
Going(at, ob, next, met) ==
  [Top EXCEPT !.at = at, !.ob = ob, !.next = next, !.left = @ \ {met}]

LEMMA WalkFields ==
  ASSUME Sound, Waits("init"), NEW at \in {"dest", "loop", "item", "ob", "last"},
         NEW ob \in Values, NEW next \in Values, NEW met
  PROVE  LET f == Going(at, ob, next, met)
         IN /\ f \in Frames /\ f.kind = "init" /\ f.item = Top.item /\ f.dest = Top.dest
            /\ f.at = at /\ f.ob = ob /\ f.next = next /\ f.left = Top.left \ {met}
<1>1. Top \in InitFrames
  BY WaitsFrame, FramesByKind DEF Sound
<1> DEFINE left == Top.left \ {met}
           f == [Top EXCEPT !.at = at, !.ob = ob, !.next = next, !.left = left]
<1>2. left \in SUBSET Objects
  BY <1>1 DEF InitFrames
<1> HIDE DEF left
<1>3. /\ f \in InitFrames /\ f.item = Top.item /\ f.dest = Top.dest
      /\ f.at = at /\ f.ob = ob /\ f.next = next /\ f.left = left
  BY <1>1, <1>2 DEF InitFrames
<1>4. f \in Frames /\ f.kind = "init"
  BY <1>3 DEF Frames, InitFrames
<1> HIDE DEF f
<1> QED BY <1>3, <1>4 DEF f, left, Going

\* The walk goes on at ob.
LEMMA WalkMet ==
  ASSUME Sound, Waits("init"), NEW ob \in Values, Walk(ob), UNCHANGED <<super, contains>>,
         super[Top.item] = Top.dest,
         ob # NoObject => super[ob] = Top.dest,
         Ahead(Top.left \ {Top.ob}, contains[Top.dest], ob)
  PROVE  Met
<1> DEFINE f == Going("loop", ob, NoObject, Top.ob)
<1>1. "loop" \in {"dest", "loop", "item", "ob", "last"} /\ NoObject \in Values
  BY DEF Values
<1>2. /\ f \in Frames /\ f.kind = "init" /\ f.item = Top.item /\ f.dest = Top.dest
      /\ f.at = "loop" /\ f.ob = ob /\ f.left = Top.left \ {Top.ob}
  BY <1>1, WalkFields
<1>3. stack' = Append(Below, f)
  BY DEF Walk, Going
<1> HIDE DEF f
<1>4. WalkSound(f, super, contains)
  BY <1>2 DEF WalkSound, Comes
<1>5. /\ Ready(Below) /\ Len(Below) \in Nat /\ Len(stack) \in Nat /\ Len(Below) < Len(stack)
  BY WaitingReady, LenProperties DEF Sound, Typed, Ready
<1>6. WalksSound(stack', super, contains)
  BY <1>2, <1>3, <1>4, <1>5, PushWalk DEF Ready
<1>7. Len(stack') = Len(Below) + 1
  BY <1>2, <1>3, <1>5, Pushed DEF Ready
<1>8. ~ Meets
  BY <1>5, <1>7 DEF Meets
<1> QED BY <1>6, <1>8 DEF Met, MeetsOk

\* init() of o is called for who.
LEMMA CallInitMet ==
  ASSUME Sound, Waits("init"), NEW o \in Values, NEW who \in Values,
         NEW at \in {"item", "ob", "last"}, NEW ob \in Values, NEW next \in Values,
         CallInit(o, who, at, ob, next), UNCHANGED <<super, contains>>,
         Present(o, who),
         at # "last" => /\ ob \in Objects /\ super[ob] = Top.dest
                        /\ next # NoObject => super[next] = Top.dest
                        /\ Ahead(Top.left \ {ob}, contains[Top.dest], next)
  PROVE  Met
<1> DEFINE f == Going(at, ob, next, ob)
           g == [kind |-> "call", ob |-> current_object, comgiver |-> command_giver']
           t == Append(Below, f)
<1>1. at \in {"dest", "loop", "item", "ob", "last"}
  OBVIOUS
<1>2. /\ f \in Frames /\ f.kind = "init" /\ f.item = Top.item /\ f.dest = Top.dest
      /\ f.at = at /\ f.ob = ob /\ f.next = next /\ f.left = Top.left \ {ob}
  BY <1>1, WalkFields
<1>3. stack' = Append(t, g) /\ command_giver' = who /\ current_object' = o
  BY DEF CallInit, Call, Going
<1>4. Harmless(g)
  BY <1>3, LpcHarmless DEF Sound, Typed
<1> HIDE DEF f, g
<1>5. WalkSound(f, super, contains) /\ f.at # "loop"
  BY <1>2 DEF WalkSound, Comes
<1>6. Ready(Below) /\ Below \in Seq(Frames)
  BY WaitingReady DEF Ready
<1>7. WalksSound(t, super, contains) /\ t \in Seq(Frames) /\ Paused(t)
  <2>1. WalksSound(t, super, contains)
    BY <1>2, <1>5, <1>6, PushWalk DEF Ready
  <2>2. /\ t \in Seq(Frames) /\ Len(t) = Len(Below) + 1 /\ t[Len(Below) + 1] = f
        /\ Len(Below) \in Nat /\ \A i \in 1 .. Len(Below) : t[i] = Below[i]
    BY <1>2, <1>6, Pushed
  <2> HIDE DEF t
  <2>3. ASSUME NEW i \in Walkers(t) PROVE t[i].at # "loop"
    <3>1. i = Len(Below) + 1 \/ (i \in Walkers(Below) /\ t[i] = Below[i])
      BY <2>2 DEF Walkers
    <3> QED BY <1>5, <1>6, <2>2, <3>1 DEF Ready, Paused
  <2> QED BY <2>1, <2>2, <2>3 DEF Paused
<1> HIDE DEF t
<1>8. WalksSound(stack', super, contains)
  BY <1>3, <1>4, <1>7, PushWalks, HarmlessSpares DEF Harmless, Sparing
<1>9. (Present(current_object, command_giver))'
  BY <1>3 DEF Present
<1> QED BY <1>8, <1>9 DEF Met, MeetsOk

\* init() of the next neighbour for the object that was moved
LEMMA MeetOtherMet ==
  ASSUME Sound, Waits("init"), NEW next \in Values, MeetOther(Top.ob, next),
         UNCHANGED <<super, contains>>,
         super[Top.item] = Top.dest, Top.ob \in Objects, super[Top.ob] = Top.dest,
         next # NoObject => super[next] = Top.dest,
         Ahead(Top.left \ {Top.ob}, contains[Top.dest], next)
  PROVE  Met
<1>1. Top.item \in Values /\ Top.ob \in Values /\ Top.dest # NoObject
  BY WalkFrame, ObjectsAssumption DEF Sound, Values
<1>2. CASE Top.item \in living
  <2>1. CallInit(Top.ob, Top.item, "ob", Top.ob, next)
    BY <1>2 DEF MeetOther
  <2>2. Present(Top.ob, Top.item)
    BY <1>1 DEF Present
  <2>3. "ob" \in {"item", "ob", "last"}
    OBVIOUS
  <2> QED BY <1>1, <2>1, <2>2, <2>3, CallInitMet
<1>3. CASE Top.item \notin living
  BY <1>3, WalkMet DEF MeetOther
<1> QED BY <1>2, <1>3

LEMMA GiveUpMet ==
  ASSUME Sound, Waits("init"), GiveUpMove, UNCHANGED <<super, contains>>
  PROVE  Met
BY WaitingReady, ReadyCalm, CalmMet DEF GiveUpMove, Sound

LEMMA ErrorMet ==
  ASSUME Sound, stack # <<>>, Error, UNCHANGED <<super, contains>>
  PROVE  Met
BY ErrorCalm, CalmMet DEF Sound

\* What is known of the walk that goes on
LEMMA WalkTop ==
  ASSUME Sound, Waits("init")
  PROVE  /\ WalkSound(Top, super, contains) /\ stack # <<>>
         /\ Top.item \in Objects /\ Top.dest \in Objects /\ Top.dest # NoObject
         /\ Top.ob \in Values /\ Top.next \in Values /\ NoObject \in Values
         /\ Top.item \in Values /\ Top.dest \in Values
<1>1. /\ Top = stack[Len(stack)] /\ Top.kind = "init" /\ stack # <<>>
      /\ Len(stack) \in Nat \ {0}
  BY WaitsFrame DEF Sound
<1>2. Len(stack) \in Walkers(stack)
  BY <1>1 DEF Walkers
<1>3. WalkSound(Top, super, contains)
  BY <1>1, <1>2 DEF Sound, WalksSound
<1> QED BY <1>1, <1>3, WalkFrame, ObjectsAssumption DEF Sound, Values

LEMMA InitMet ==
  ASSUME Sound, WellFormed,
         InitDestDone \/ InitLoop \/ InitItemDone \/ InitOtherDone \/ InitLastDone
  PROVE  Met
<1>1. Waits("init") /\ UNCHANGED <<super, contains>>
  BY DEF InitDestDone, InitLoop, InitItemDone, InitOtherDone, InitLastDone, tree
<1>2. /\ WalkSound(Top, super, contains) /\ stack # <<>>
      /\ Top.item \in Objects /\ Top.dest \in Objects /\ Top.dest # NoObject
      /\ Top.ob \in Values /\ Top.next \in Values /\ NoObject \in Values
      /\ Top.item \in Values /\ Top.dest \in Values
  BY <1>1, WalkTop
<1>3. TreeTypes
  BY DEF Sound, Typed
<1>4. CASE GiveUpMove \/ Error
  BY <1>1, <1>2, <1>4, GiveUpMet, ErrorMet
<1>5. CASE InitDestDone
  <2>1. GiveUpMove \/ (super[Top.item] = Top.dest /\ Walk(FirstInv(Top.dest)))
    BY <1>5 DEF InitDestDone
  <2>2. FirstInv(Top.dest) \in Values
    BY <1>2, <1>3, NeighboursTyped
  <2>3. /\ Ahead(Top.left \ {Top.ob}, contains[Top.dest], FirstInv(Top.dest))
        /\ FirstInv(Top.dest) # NoObject => super[FirstInv(Top.dest)] = Top.dest
    BY <1>2, <1>3, AheadFirst
  <2> QED BY <1>1, <1>4, <2>1, <2>2, <2>3, WalkMet
<1>6. ASSUME super[Top.item] = Top.dest, Top.at \in {"item", "ob"}
      PROVE  /\ Top.ob \in Objects /\ super[Top.ob] = Top.dest
             /\ Top.next # NoObject => super[Top.next] = Top.dest
             /\ Ahead(Top.left \ {Top.ob}, contains[Top.dest], Top.next)
  <2>1. Top.ob \in Objects /\ super[Top.ob] = Top.dest /\ Comes(Top, Top.next, super, contains)
    BY <1>2, <1>6 DEF WalkSound
  <2> QED BY <2>1, AheadFewer DEF Comes
<1>7. CASE InitItemDone
  <2>1. GiveUpMove \/ (super[Top.item] = Top.dest /\ MeetOther(Top.ob, Top.next))
    BY <1>7 DEF InitItemDone
  <2>2. Top.at \in {"item", "ob"}
    BY <1>7 DEF InitItemDone
  <2> QED BY <1>1, <1>2, <1>4, <1>6, <2>1, <2>2, MeetOtherMet
<1>8. CASE InitOtherDone
  <2>1. GiveUpMove \/ (super[Top.item] = Top.dest /\ Walk(Top.next))
    BY <1>8 DEF InitOtherDone
  <2>2. Top.at \in {"item", "ob"}
    BY <1>8 DEF InitOtherDone
  <2> QED BY <1>1, <1>2, <1>4, <1>6, <2>1, <2>2, WalkMet
<1>9. CASE InitLastDone
  BY <1>4, <1>9 DEF InitLastDone
<1>10. CASE InitLoop
  <2>1. super[Top.item] = Top.dest /\ Comes(Top, Top.ob, super, contains)
    BY <1>2, <1>10 DEF InitLoop, WalkSound
  <2>2. \/ Error \/ GiveUpMove
        \/ CallInit(Top.item, Top.dest, "last", NoObject, NoObject)
        \/ /\ Top.ob # NoObject
           /\ \/ Walk(NextInv(Top.ob)) \/ MeetOther(Top.ob, NextInv(Top.ob))
              \/ CallInit(Top.item, Top.ob, "item", Top.ob, NextInv(Top.ob))
    BY <1>10 DEF InitLoop
  <2>3. CASE CallInit(Top.item, Top.dest, "last", NoObject, NoObject)
    <3>1. Present(Top.item, Top.dest)
      BY <2>1 DEF Present
    <3>2. "last" \in {"item", "ob", "last"}
      OBVIOUS
    <3> QED BY <1>1, <1>2, <2>3, <3>1, <3>2, CallInitMet
  <2>4. ASSUME Top.ob # NoObject
        PROVE  /\ Top.ob \in Objects /\ super[Top.ob] = Top.dest
               /\ NextInv(Top.ob) \in Values
               /\ NextInv(Top.ob) # NoObject => super[NextInv(Top.ob)] = Top.dest
               /\ Ahead(Top.left \ {Top.ob}, contains[Top.dest], NextInv(Top.ob))
    <3>1. Top.ob \in Objects /\ super[Top.ob] = Top.dest
      BY <1>2, <2>1, <2>4 DEF Comes, Values
    <3>2. Ahead(Top.left, contains[super[Top.ob]], Top.ob)
      BY <2>1, <3>1 DEF Comes
    <3>3. /\ Ahead(Top.left \ {Top.ob}, contains[super[Top.ob]], NextInv(Top.ob))
          /\ NextInv(Top.ob) # NoObject => super[NextInv(Top.ob)] = super[Top.ob]
      BY <1>2, <1>3, <3>1, <3>2, AheadNext
    <3> QED BY <1>3, <3>1, <3>3, NeighboursTyped
  <2>5. CASE Top.ob # NoObject /\ Walk(NextInv(Top.ob))
    BY <1>1, <2>1, <2>4, <2>5, WalkMet
  <2>6. CASE Top.ob # NoObject /\ MeetOther(Top.ob, NextInv(Top.ob))
    BY <1>1, <2>1, <2>4, <2>6, MeetOtherMet
  <2>7. CASE Top.ob # NoObject /\ CallInit(Top.item, Top.ob, "item", Top.ob, NextInv(Top.ob))
    <3>1. Present(Top.item, Top.ob)
      BY <1>2, <2>1, <2>4, <2>7 DEF Present
    <3>2. "item" \in {"item", "ob", "last"}
      OBVIOUS
    <3> QED BY <1>1, <1>2, <2>4, <2>7, <3>1, <3>2, CallInitMet
  <2> QED BY <1>4, <2>2, <2>3, <2>5, <2>6, <2>7
<1> QED BY <1>5, <1>7, <1>8, <1>9, <1>10

-----------------------------------------------------------------------------
(* Changes of the tree                                                     *)

\* The same frames, where a walk may wait for other neighbours
SameSteps(s, t) ==
  /\ Len(t) = Len(s)
  /\ \A i \in 1 .. Len(s) :
       IF s[i].kind = "init"
       THEN /\ t[i].kind = "init" /\ t[i].at = s[i].at /\ t[i].dest = s[i].dest
            /\ t[i].ob = s[i].ob /\ t[i].next = s[i].next
       ELSE t[i] = s[i]

\* Only o has another environment.
SameBut(o, u, v) == \A q \in Objects : q # o => v[q] = u[q]

\* Whom a walk waits for is still ahead of it.
StillAhead(s, t, c, d) ==
  \A i \in Walkers(s) : Ahead(s[i].left, c[s[i].dest], s[i].next)
                        => Ahead(t[i].left, d[s[i].dest], s[i].next)

\* The walks of s, when an object that none of them holds goes elsewhere
LEMMA TreeWalks ==
  ASSUME NEW s \in Seq(Frames), NEW t, SameSteps(s, t),
         NEW u, NEW c, WalksSound(s, u, c), Paused(s), NEW o, Free(s, o),
         NEW v, SameBut(o, u, v), NEW d, StillAhead(s, t, c, d)
  PROVE  WalksSound(t, v, d) /\ Paused(t)
<1>1. Walkers(t) = Walkers(s) /\ Len(t) = Len(s)
  BY DEF Walkers, SameSteps
<1>2. ASSUME NEW i \in Walkers(s)
      PROVE  /\ t[i].at = s[i].at /\ t[i].dest = s[i].dest /\ t[i].ob = s[i].ob
             /\ t[i].next = s[i].next /\ s[i].at # "loop" /\ s[i].next \in Values
             /\ o # s[i].ob /\ o # s[i].next
  <2>1. i \in 1 .. Len(s) /\ s[i].kind = "init"
    BY DEF Walkers
  <2>2. s[i] \in InitFrames
    BY <2>1, ElementOfSeq, FramesByKind
  <2>3. s[i].next \in Values
    BY <2>2 DEF InitFrames
  <2> QED BY <2>1, <2>3 DEF Paused, SameSteps, Free
<1>3. ASSUME NEW i \in Walkers(s) PROVE WalkSound(t[i], v, d)
  <2>1. SUFFICES ASSUME s[i].at \in {"item", "ob"}
                 PROVE  /\ t[i].ob \in Objects /\ v[t[i].ob] = t[i].dest
                        /\ Comes(t[i], t[i].next, v, d)
    BY <1>2 DEF WalkSound
  <2>2. s[i].ob \in Objects /\ u[s[i].ob] = s[i].dest /\ Comes(s[i], s[i].next, u, c)
    BY <2>1 DEF WalksSound, WalkSound
  <2>3. v[s[i].ob] = s[i].dest
    BY <1>2, <2>2 DEF SameBut
  <2>4. s[i].next # NoObject => v[s[i].next] = s[i].dest
    BY <1>2, <2>2 DEF Comes, Values, SameBut
  <2>5. Ahead(t[i].left, d[s[i].dest], s[i].next)
    BY <2>2 DEF Comes, StillAhead
  <2> QED BY <1>2, <2>2, <2>3, <2>4, <2>5 DEF Comes
<1>4. ASSUME NEW i \in Walkers(s), NEW j \in i + 1 .. Len(s) PROVE Spares(t[j], t[i])
  <2>1. j \in 1 .. Len(s) /\ Spares(s[j], s[i])
    <3>1. i \in 1 .. Len(s) /\ Len(s) \in Nat
      BY LenProperties DEF Walkers
    <3>2. j \in 1 .. Len(s)
      BY <3>1
    <3> QED BY <3>2 DEF WalksSound
  <2>2. CASE s[j].kind = "init"
    BY <2>1, <2>2 DEF Spares, SameSteps
  <2>3. CASE s[j].kind # "init"
    BY <1>2, <2>1, <2>3 DEF Spares, SameSteps
  <2> QED BY <2>2, <2>3
<1> QED BY <1>1, <1>2, <1>3, <1>4 DEF WalksSound, Paused

\* Who has just entered is the first.
LEMMA HeadAhead ==
  ASSUME NEW s \in Seq(Objects), NEW o \in Objects, IsInjective(<<o>> \o s), NEW left
  PROVE  Ahead(left, <<o>> \o s, o)
<1> DEFINE t == <<o>> \o s
<1>1. <<o>> \in Seq(Objects) /\ Len(<<o>>) = 1 /\ <<o>>[1] = o /\ Len(s) \in Nat
  BY LenProperties
<1>2. /\ t \in Seq(Objects) /\ Len(t) = 1 + Len(s)
      /\ \A i \in 1 .. 1 + Len(s) : t[i] = IF i <= 1 THEN o ELSE s[i - 1]
  BY <1>1, ConcatProperties
<1> HIDE DEF t
<1>3. t[1] = o /\ 1 \in 1 .. Len(t) /\ DOMAIN t = 1 .. Len(t)
  BY <1>1, <1>2, LenProperties
<1>4. \A i \in 1 .. Len(t) : t[i] = o => i = 1
  BY <1>3 DEF IsInjective, t
<1>5. \A i, j \in 1 .. Len(t) : t[i] = o => i <= j
  BY <1>1, <1>2, <1>4
<1>6. o # NoObject
  BY ObjectsAssumption
<1> QED BY <1>5, <1>6 DEF Ahead, t

\* The inventories, when an object has left its own
LEMMA TakenAhead ==
  ASSUME TreeTypes, NEW o \in Objects
  PROVE  /\ Taken(o) \in [Objects -> Seq(Objects)]
         /\ \A d \in Objects : \A left, n :
              Ahead(left, contains[d], n) => Ahead(left, Taken(o)[d], n)
<1>1. Taken(o) \in [Objects -> Seq(Objects)]
  BY TakenOut DEF Taken, TreeTypes
<1>2. ASSUME NEW d \in Objects, NEW left, NEW n, Ahead(left, contains[d], n)
      PROVE  Ahead(left, Taken(o)[d], n)
  <2>1. Taken(o)[d] = contains[d] \/ Taken(o)[d] = Without(contains[d], o)
    BY DEF Taken, TreeTypes
  <2>2. contains[d] \in Seq(Objects)
    BY DEF TreeTypes
  <2> HIDE DEF Taken
  <2> QED BY <1>2, <2>1, <2>2, AheadTaken
<1> QED BY <1>1, <1>2

LEMMA LinkWalks ==
  ASSUME Sound, NEW s, Ready(s), NEW o \in Objects, NEW d \in Objects,
         Free(s, o), super' = [super EXCEPT ![o] = d],
         contains' = [Taken(o) EXCEPT ![d] = <<o>> \o @]
  PROVE  LET t == Entered(s, o)
         IN /\ t \in Seq(Frames) /\ Len(t) = Len(s)
            /\ WalksSound(t, super', contains') /\ Paused(t)
            /\ \A i \in 1 .. Len(s) : t[i].kind = s[i].kind
<1> DEFINE t == Entered(s, o)
<1>1. /\ s \in Seq(Frames) /\ DOMAIN s = 1 .. Len(s) /\ TreeTypes
      /\ WalksSound(s, super, contains) /\ Paused(s)
  BY LenProperties DEF Ready, Sound, Typed
<1>2. t \in Seq(Frames) /\ Len(t) = Len(s)
  BY <1>1, EnteredKeeps
<1>3. \A i \in 1 .. Len(s) : t[i] = IF s[i].kind = "init" THEN [s[i] EXCEPT !.left = @ \ {o}] ELSE s[i]
  BY <1>1 DEF Entered
<1> HIDE DEF t
<1>4. ASSUME NEW i \in 1 .. Len(s), s[i].kind = "init"
      PROVE  /\ t[i].kind = "init" /\ t[i].at = s[i].at /\ t[i].dest = s[i].dest
             /\ t[i].ob = s[i].ob /\ t[i].next = s[i].next /\ t[i].left = s[i].left \ {o}
             /\ s[i].dest \in Objects
  <2>1. s[i] \in InitFrames
    BY <1>1, <1>4, ElementOfSeq, FramesByKind
  <2>2. t[i] = [s[i] EXCEPT !.left = @ \ {o}]
    BY <1>3, <1>4
  <2> QED BY <2>1, <2>2 DEF InitFrames
<1>5. SameSteps(s, t)
  BY <1>2, <1>3, <1>4 DEF SameSteps
<1>6. /\ Taken(o) \in [Objects -> Seq(Objects)]
      /\ \A e \in Objects : \A left, n :
           Ahead(left, contains[e], n) => Ahead(left, Taken(o)[e], n)
  BY <1>1, TakenAhead
<1>7. SameBut(o, super, super')
  BY <1>1 DEF TreeTypes, SameBut
<1>8. ASSUME NEW i \in Walkers(s), Ahead(s[i].left, contains[s[i].dest], s[i].next)
      PROVE  Ahead(t[i].left, contains'[s[i].dest], s[i].next)
  <2> DEFINE e == s[i].dest
             n == s[i].next
  <2>1. i \in 1 .. Len(s) /\ s[i].kind = "init" /\ n # o
    BY DEF Walkers, Free
  <2>2. e \in Objects /\ t[i].left = s[i].left \ {o}
    BY <1>4, <2>1
  <2>3. Ahead(s[i].left, Taken(o)[e], n) /\ Taken(o)[e] \in Seq(Objects)
    BY <1>6, <1>8, <2>2
  <2>4. contains'[e] = IF e = d THEN <<o>> \o Taken(o)[e] ELSE Taken(o)[e]
    BY <1>6, <2>2
  <2>5. Ahead(s[i].left \ {o}, <<o>> \o Taken(o)[e], n)
    BY <2>1, <2>3, AheadPut
  <2>6. Ahead(s[i].left \ {o}, Taken(o)[e], n)
    BY <2>3, AheadFewer
  <2> QED BY <2>2, <2>4, <2>5, <2>6
<1>9. WalksSound(t, super', contains') /\ Paused(t)
  <2>1. StillAhead(s, t, contains, contains')
    BY <1>8 DEF StillAhead
  <2> QED BY <1>1, <1>5, <1>7, <2>1, TreeWalks
<1>10. \A i \in 1 .. Len(s) : t[i].kind = s[i].kind
  BY <1>5 DEF SameSteps
<1> QED BY <1>2, <1>9, <1>10 DEF t

LEMMA NewWalk ==
  ASSUME TreeTypes, NEW o \in Objects, NEW d \in Objects, NEW save \in Values,
         NEW at \in {"dest", "loop"}, NEW ob \in Values
  PROVE  LET f == InitFrame(o, d, save, at, ob)
         IN /\ f \in Frames /\ f.kind = "init" /\ f.item = o /\ f.dest = d
            /\ f.at = at /\ f.ob = ob
<1>1. Range(contains[d]) \in SUBSET Objects
  BY RangeOfSeq DEF TreeTypes
<1> DEFINE f == InitFrame(o, d, save, at, ob)
<1>2. f \in InitFrames
  BY <1>1 DEF InitFrames, InitFrame, Values
<1> QED BY <1>2 DEF Frames, InitFrames, InitFrame

\* An object has entered: the walks that wait, and the one that begins
LEMMA EnteredSame ==
  ASSUME NEW s \in Seq(Frames), NEW o
  PROVE  LET e == Entered(s, o)
         IN /\ e \in Seq(Frames) /\ Len(e) = Len(s)
            /\ \A i \in 1 .. Len(s) : e[i].kind = s[i].kind
<1> DEFINE e == Entered(s, o)
<1>1. e \in Seq(Frames) /\ Len(e) = Len(s)
  BY EnteredKeeps
<1>2. ASSUME NEW i \in 1 .. Len(s) PROVE e[i].kind = s[i].kind
  <2>1. e[i] = IF s[i].kind = "init" THEN [s[i] EXCEPT !.left = @ \ {o}] ELSE s[i]
    BY LenProperties DEF Entered
  <2> HIDE DEF e
  <2>2. CASE s[i].kind = "init"
    <3>1. s[i] \in InitFrames
      BY <2>2, ElementOfSeq, FramesByKind
    <3> QED BY <2>1, <2>2, <3>1 DEF InitFrames
  <2>3. CASE s[i].kind # "init"
    BY <2>1, <2>3
  <2> QED BY <2>2, <2>3
<1> QED BY <1>1, <1>2

\* Whose walk begins with init() in the new environment stands in it.
LEMMA LinkMeetsOk ==
  ASSUME Sound, NEW s, Ready(s), NEW o \in Objects, NEW d \in Objects, NEW save \in Values,
         Link(s, o, d, save), ~ LinkFails(o)
  PROVE  MeetsOk
<1> DEFINE e == Entered(s, o)
           m == Marked(e, sentences')
           f(at, ob) == InitFrame(o, d, save, at, ob)
<1>1. /\ super' = [super EXCEPT ![o] = d]
      /\ IF o \in living
         THEN command_giver' = o /\ Call(m, f("dest", NoObject), d)
         ELSE stack' = Append(m, f("loop", o))
  BY DEF Link, LinkFails
<1>2. TreeTypes /\ o \in Values
  BY DEF Sound, Typed, Values
<1>3. e \in Seq(Frames) /\ Len(e) = Len(s) /\ \A i \in 1 .. Len(s) : e[i].kind = s[i].kind
  BY EnteredSame DEF Ready
<1> HIDE DEF e
<1>4. /\ m \in Seq(Frames) /\ Len(m) = Len(s)
      /\ \A i \in 1 .. Len(e) : SameTask(e[i], m[i])
  BY <1>3, MarkedSame
<1> HIDE DEF m
<1>5. f("loop", o) \in Frames
  BY <1>2, NewWalk
<1> HIDE DEF f
<1>6. CASE o \in living
  <2>1. super'[o] = d /\ command_giver' = o /\ current_object' = d
    BY <1>1, <1>2, <1>6 DEF Call, TreeTypes
  <2> QED BY <2>1 DEF Present, MeetsOk
<1>7. CASE o \notin living
  <2> SUFFICES ASSUME Meets PROVE FALSE
    BY DEF MeetsOk
  <2>1. /\ Len(stack') = Len(s) + 1 /\ \A i \in 1 .. Len(s) : stack'[i] = m[i]
        /\ Len(s) \in Nat /\ Len(stack) \in Nat /\ Len(s) <= Len(stack)
    BY <1>1, <1>4, <1>5, <1>7, Pushed, LenProperties DEF Ready, Sound, Typed
  <2>2. Len(s) = Len(stack) /\ Len(s) \in 1 .. Len(s) /\ Len(stack') - 1 = Len(s)
    BY <2>1 DEF Meets
  <2>3. m[Len(s)].kind = "init"
    BY <2>1, <2>2 DEF Meets
  <2>4. s[Len(s)].kind = "init"
    BY <1>3, <1>4, <2>2, <2>3 DEF SameTask
  <2>5. s # <<>>
    BY <2>1, <2>2, EmptySeq
  <2> QED BY <2>2, <2>4, <2>5 DEF Ready
<1> QED BY <1>6, <1>7

LEMMA LinkMet ==
  ASSUME Sound, WellFormed', NEW s, Ready(s), NEW o \in Objects, NEW d \in Objects,
         Free(s, o), NEW save \in Values, Link(s, o, d, save), ~ LinkFails(o)
  PROVE  Met
<1> DEFINE e == Entered(s, o)
           m == Marked(e, sentences')
           f(at, ob) == InitFrame(o, d, save, at, ob)
<1>1. /\ super' = [super EXCEPT ![o] = d]
      /\ contains' = [Taken(o) EXCEPT ![d] = <<o>> \o @]
      /\ IF o \in living
         THEN command_giver' = o /\ Call(m, f("dest", NoObject), d)
         ELSE stack' = Append(m, f("loop", o))
  BY DEF Link, LinkFails, Taken
<1>2. TreeTypes /\ o \in Values /\ NoObject \in Values /\ d # NoObject
  BY ObjectsAssumption DEF Sound, Typed, Values
<1>3. /\ e \in Seq(Frames) /\ Len(e) = Len(s)
      /\ WalksSound(e, super', contains') /\ Paused(e)
      /\ \A i \in 1 .. Len(s) : e[i].kind = s[i].kind
  BY <1>1, LinkWalks
<1> HIDE DEF e
<1>4. /\ m \in Seq(Frames) /\ Len(m) = Len(s)
      /\ \A i \in 1 .. Len(e) : SameTask(e[i], m[i]) /\ (e[i].kind = "init" => m[i] = e[i])
  BY <1>3, MarkedSame
<1> HIDE DEF m
<1>5. WalksSound(m, super', contains') /\ Paused(m)
  BY <1>3, <1>4, SameWalks
<1>6. super'[o] = d
  BY <1>1, <1>2 DEF TreeTypes
<1>7. ASSUME NEW at \in {"dest", "loop"}, NEW ob \in Values
      PROVE  /\ f(at, ob) \in Frames /\ f(at, ob).kind = "init" /\ f(at, ob).item = o
             /\ f(at, ob).dest = d /\ f(at, ob).at = at /\ f(at, ob).ob = ob
  BY <1>2, NewWalk
<1> HIDE DEF f
<1>8. ASSUME o \in living
      PROVE  WalksSound(stack', super', contains')
  <2> DEFINE h == f("dest", NoObject)
             t == Append(m, h)
             g == [kind |-> "call", ob |-> current_object, comgiver |-> command_giver']
  <2>1. command_giver' = o /\ current_object' = d /\ stack' = Append(t, g)
    BY <1>1, <1>8 DEF Call
  <2>2. h \in Frames /\ h.kind = "init" /\ h.at = "dest"
    BY <1>2, <1>7
  <2>3. Harmless(g)
    BY <1>2, <2>1, LpcHarmless DEF Sound, Typed
  <2> HIDE DEF h, g
  <2>4. WalkSound(h, super', contains')
    BY <2>2 DEF WalkSound
  <2>5. WalksSound(t, super', contains')
    BY <1>4, <1>5, <2>2, <2>4, PushWalk
  <2>6. /\ t \in Seq(Frames) /\ Len(t) = Len(m) + 1 /\ t[Len(m) + 1] = h
        /\ Len(m) \in Nat /\ \A i \in 1 .. Len(m) : t[i] = m[i]
    BY <1>4, <2>2, Pushed
  <2> HIDE DEF t
  <2>7. ASSUME NEW i \in Walkers(t) PROVE t[i].at # "loop"
    <3>1. i = Len(m) + 1 \/ (i \in Walkers(m) /\ t[i] = m[i])
      BY <2>6 DEF Walkers
    <3> QED BY <1>5, <2>2, <2>6, <3>1 DEF Paused
  <2>8. WalksSound(stack', super', contains')
    <3>1. Paused(t)
      BY <2>7 DEF Paused
    <3>2. Sparing(g, t)
      BY <2>3, HarmlessSpares
    <3> QED BY <2>1, <2>5, <2>6, <3>1, <3>2, PushWalks DEF Sparing
  <2> QED BY <2>8
<1>9. ASSUME o \notin living
      PROVE  WalksSound(stack', super', contains')
  <2> DEFINE h == f("loop", o)
  <2>1. stack' = Append(m, h)
    BY <1>1, <1>9
  <2>2. /\ h \in Frames /\ h.kind = "init" /\ h.item = o /\ h.dest = d /\ h.at = "loop"
        /\ h.ob = o
    BY <1>2, <1>7
  <2> HIDE DEF h
  <2>3. Ahead(h.left, contains'[d], o)
    <3>1. Taken(o) \in [Objects -> Seq(Objects)]
      BY <1>2, TakenAhead
    <3>2. contains'[d] = <<o>> \o Taken(o)[d] /\ Taken(o)[d] \in Seq(Objects)
      BY <1>1, <3>1
    <3>3. IsInjective(contains'[d])
      BY DEF WellFormed
    <3> QED BY <3>2, <3>3, HeadAhead
  <2>4. WalkSound(h, super', contains')
    BY <1>6, <2>2, <2>3 DEF WalkSound, Comes
  <2>5. WalksSound(stack', super', contains')
    BY <1>4, <1>5, <2>1, <2>2, <2>4, PushWalk
  <2> QED BY <2>5
<1>10. MeetsOk
  BY LinkMeetsOk
<1> QED BY <1>8, <1>9, <1>10 DEF Met

LEMMA MoveObjectMet ==
  ASSUME Sound, WellFormed', NEW o \in Objects, NEW d \in Objects, MoveObject(o, d),
         "init_moves_other" \notin taken'
  PROVE  Met
<1>1. /\ Operation(o, MoveMisuse(o, d)) /\ Ready(stack) /\ stack # <<>> /\ Typed
      /\ command_giver \in Values
  BY RunningReady DEF MoveObject, Operation, Sound, Typed
<1>2. InitLeavesAlone(o)
  BY <1>1 DEF Operation, MoveMisuse, Misuse
<1>3. CASE o \in Outwards(d)
  <2>1. Error /\ UNCHANGED <<super, contains>>
    BY <1>3 DEF MoveObject
  <2> QED BY <1>1, <2>1, ErrorMet
<1>4. CASE o \notin Outwards(d) /\ super[o] # NoObject
  <2> DEFINE x == [kind |-> "exit", item |-> o, dest |-> d, save |-> command_giver]
  <2>1. /\ command_giver' = command_giver /\ UNCHANGED <<super, contains>>
        /\ Call(stack, x, super[o])
    BY <1>4 DEF MoveObject
  <2>2. x \in Frames /\ x.kind = "exit" /\ x.item = o
    BY <1>1 DEF ExitFrames, Frames
  <2> HIDE DEF x
  <2>3. Sparing(x, stack)
    BY <1>1, <1>2, <2>2, FreeSpares
  <2> QED BY <1>1, <2>1, <2>3, CallCalm, CalmMet
<1>5. CASE o \notin Outwards(d) /\ super[o] = NoObject
  <2>1. Link(stack, o, d, command_giver) /\ ~ LinkFails(o)
    BY <1>5 DEF MoveObject, LinkFails
  <2>2. Free(stack, o)
    BY <1>1, <1>2, LeftAlone
  <2> QED BY <1>1, <2>1, <2>2, LinkMet
<1> QED BY <1>3, <1>4, <1>5

\* What the last frame promises to change, no walk holds.
LEMMA TopFree ==
  ASSUME Sound, stack # <<>>, NEW o,
         \/ Top.kind = "exit" /\ Top.item = o
         \/ Top.kind = "destruct" /\ Top.ob = o
  PROVE  Free(Below, o)
<1>1. Top \in Frames
  BY TopFrame DEF Sound
<1>2. SameTask(Top, Top)
  BY DEF SameTask
<1>3. Sparing(Top, Below)
  BY <1>1, <1>2, TaskSpares DEF Sound
<1> QED BY <1>3 DEF Sparing, Spares, Free

LEMMA MoveOnMet ==
  ASSUME Sound, WellFormed, WellFormed', MoveOn
  PROVE  Met
<1> DEFINE o == Top.item
           d == Top.dest
<1>1. Waits("exit") /\ Typed /\ TreeTypes
  BY DEF MoveOn, Sound, Typed
<1>2. o \in Objects /\ d \in Objects /\ Top.save \in Values
  BY <1>1, ExitFrame
<1>3. Ready(Below) /\ Free(Below, o)
  BY <1>1, WaitingReady, TopFree
<1>4. CASE "destructed" \in {life[o], life[d]}
  <2>1. stack' = Below /\ UNCHANGED <<super, contains>>
    BY <1>4 DEF MoveOn
  <2> QED BY <1>1, <1>3, <2>1, ReadyCalm, CalmMet
<1>5. CASE "destructed" \notin {life[o], life[d]}
  <2>1. Link(Below, o, d, Top.save)
    BY <1>5 DEF MoveOn
  <2>2. ~ LinkFails(o)
    BY <1>1, <1>2, LinkSucceeds
  <2> HIDE DEF o, d
  <2> QED BY <1>2, <1>3, <2>1, <2>2, LinkMet
<1> QED BY <1>4, <1>5

LEMMA StillMet ==
  ASSUME Sound, UNCHANGED <<stack, super, contains>>
  PROVE  Met
<1>1. Len(stack) \in Nat
  BY LenProperties DEF Sound, Typed
<1>2. ~ Meets
  BY <1>1 DEF Meets
<1> QED BY <1>2 DEF Met, MeetsOk, Sound

LEMMA DestructDoneMet ==
  ASSUME Sound, DestructDone
  PROVE  Met
<1> DEFINE o == Top.ob
           s == Below
           m == Marked(s, sentences')
<1>1. Waits("destruct") /\ Typed /\ TreeTypes
  BY DEF DestructDone, Sound, Typed
<1>2. o \in Objects
  BY <1>1, DestructionFrame
<1>3. Ready(s) /\ s \in Seq(Frames) /\ Len(s) < Len(stack)
  BY <1>1, WaitingReady DEF Ready
<1>4. Free(s, o)
  BY <1>1, WaitingReady, TopFree
<1>5. CASE life[o] = "destructed"
  <2>1. UNCHANGED <<stack, super, contains>>
    BY <1>5 DEF DestructDone, tree
  <2> QED BY <2>1, StillMet
<1>6. CASE life[o] # "destructed"
  <2>1. /\ super' = [super EXCEPT ![o] = NoObject] /\ contains' = Taken(o) /\ stack' = m
    BY <1>6 DEF DestructDone, Taken
  <2> HIDE DEF o, s
  <2>2. SameBut(o, super, super')
    BY <1>1, <2>1 DEF SameBut, TreeTypes
  <2>3. SameSteps(s, s)
    BY DEF SameSteps
  <2>4. StillAhead(s, s, contains, contains')
    <3>1. ASSUME NEW i \in Walkers(s) PROVE s[i].dest \in Objects
      <4>1. i \in 1 .. Len(s) /\ s[i].kind = "init"
        BY DEF Walkers
      <4>2. s[i] \in InitFrames
        BY <1>3, <4>1, ElementOfSeq, FramesByKind
      <4> QED BY <4>2 DEF InitFrames
    <3>2. \A d \in Objects : \A left, n :
             Ahead(left, contains[d], n) => Ahead(left, contains'[d], n)
      BY <1>1, <1>2, <2>1, TakenAhead
    <3> QED BY <3>1, <3>2 DEF StillAhead
  <2>5. WalksSound(s, super', contains') /\ Paused(s)
    BY <1>3, <1>4, <2>2, <2>3, <2>4, TreeWalks DEF Ready
  <2>6. /\ m \in Seq(Frames) /\ Len(m) = Len(s)
        /\ \A i \in 1 .. Len(s) : SameTask(s[i], m[i]) /\ (s[i].kind = "init" => m[i] = s[i])
    BY <1>3, MarkedSame
  <2> HIDE DEF m
  <2>7. WalksSound(stack', super', contains')
    BY <2>1, <2>5, <2>6, SameWalks
  <2>8. ~ Meets
    <3>1. Len(s) \in Nat /\ Len(stack) \in Nat /\ Len(stack') = Len(s)
      BY <1>1, <1>3, <2>1, <2>6, LenProperties DEF Typed
    <3> QED BY <1>3, <3>1 DEF Meets
  <2> QED BY <2>7, <2>8 DEF Met, MeetsOk
<1> QED BY <1>5, <1>6

-----------------------------------------------------------------------------
(* The invariant of the walks                                              *)

LEMMA MeetInit ==
  ASSUME Init
  PROVE  MeetInv
<1>1. stack = <<>> /\ Len(<<>>) = 0
  BY EmptySeq DEF Init
<1>2. Walkers(stack) = {}
  BY <1>1 DEF Walkers
<1> QED BY <1>2, InitInv DEF MeetInv, WalksSound

\* Liberties are not given back.
LEMMA TakenGrows ==
  ASSUME Typed, [Next]_vars
  PROVE  taken \subseteq taken'
<1>1. CASE UNCHANGED vars
  BY <1>1 DEF vars
<1>2. CASE Quiet
  BY <1>2 DEF Quiet
<1>3. CASE ChangingStep
  BY <1>3 DEF ChangingStep, MoveObject, Destruct, Clone, MoveOn, PermitDone, MasterDone,
              DestructDone, Forget, Operation
<1> QED BY <1>1, <1>2, <1>3, Steps

\* While LPC code is polite, every step keeps the walks sound.
LEMMA StepMet ==
  ASSUME Sound, WellFormed, WellFormed', [Next]_vars, "init_moves_other" \notin taken'
  PROVE  Met
<1>1. CASE UNCHANGED vars
  BY <1>1, StillMet DEF vars, tree
<1>2. CASE Lpc
  <2>1. ASSUME NEW o \in Objects, EnableCommands(o) \/ DisableCommands(o) PROVE Met
    <3>1. UNCHANGED <<super, contains>>
      BY <2>1 DEF EnableCommands, DisableCommands, tree
    <3> QED BY <2>1, <3>1, ThingsCalm, CalmMet
  <2>2. ASSUME NEW o \in Values, Catch(o) PROVE Met
    <3>1. UNCHANGED <<super, contains>>
      BY <2>2 DEF Catch, tree
    <3> QED BY <2>2, <3>1, LpcCalm, CalmMet
  <2>3. ASSUME NEW o \in Objects, NEW pri, AddAction(o, pri) PROVE Met
    <3>1. UNCHANGED <<super, contains>>
      BY <2>3 DEF AddAction, tree
    <3> QED BY <2>3, <3>1, ThingsCalm, CalmMet
  <2>4. ASSUME NEW o \in Values, NEW p \in Objects, CallOther(o, p) PROVE Met
    <3>1. UNCHANGED <<super, contains>>
      BY <2>4 DEF CallOther, tree
    <3> QED BY <2>4, <3>1, LpcCalm, CalmMet
  <2>5. ASSUME NEW o \in Objects, NEW p \in Objects,
               SetThisPlayer(o, p) \/ QueryActions(o, p) \/ Clone(o, p)
        PROVE  Met
    <3>1. UNCHANGED <<super, contains>>
      BY <2>5 DEF SetThisPlayer, QueryActions, Clone, tree
    <3> QED BY <2>5, <3>1, ThingsCalm, CalmMet
  <2>6. ASSUME NEW o \in Objects, NEW p \in Objects, Destruct(o, p) PROVE Met
    <3>1. UNCHANGED <<super, contains>>
      BY <2>6 DEF Destruct, tree
    <3> QED BY <2>6, <3>1, DestructCalm, CalmMet
  <2>7. ASSUME NEW o \in Objects, NEW p \in Objects, Command(o, p) PROVE Met
    <3>1. UNCHANGED <<super, contains>>
      BY <2>7 DEF Command, tree
    <3> QED BY <2>7, <3>1, CommandCalm, CalmMet
  <2>8. ASSUME NEW o \in Objects, NEW p \in Objects, MoveObject(o, p) PROVE Met
    BY <2>8, MoveObjectMet
  <2>9. CASE Return \/ Throw
    <3>1. UNCHANGED <<super, contains>>
      BY <2>9 DEF Return, Throw, tree
    <3> QED BY <2>9, <3>1, ReturnCalm, ThrowCalm, CalmMet
  <2> QED BY <1>2, <2>1, <2>2, <2>3, <2>4, <2>5, <2>6, <2>7, <2>8, <2>9 DEF Lpc, Values
<1>3. CASE Driver
  <2>1. CASE InitDestDone \/ InitLoop \/ InitItemDone \/ InitOtherDone \/ InitLastDone
    BY <2>1, InitMet
  <2>2. CASE MoveOn \/ DestructDone
    BY <2>2, MoveOnMet, DestructDoneMet
  <2>3. CASE PermitDone \/ AskMaster \/ MasterDone
    <3>1. UNCHANGED <<super, contains>>
      BY <2>3 DEF PermitDone, AskMaster, MasterDone, tree
    <3> QED BY <2>3, <3>1, PermitDoneCalm, AskMasterCalm, MasterDoneCalm, CalmMet
  <2>4. ASSUME NEW o, NEW e \in Int, ParseMatch(o, e) \/ ParseEnd \/ ParseZero \/ ParseTrue
        PROVE  Met
    <3>1. UNCHANGED <<super, contains>>
      BY <2>4 DEF ParseMatch, ParseEnd, ParseZero, ParseTrue, tree
    <3> QED BY <2>4, <3>1, ParserCalm, CalmMet
  <2>5. CASE ForceDone
    <3>1. UNCHANGED <<super, contains>>
      BY <2>5 DEF ForceDone, tree
    <3> QED BY <2>5, <3>1, ForceDoneCalm, CalmMet
  <2>6. 1 .. MaxSlots \subseteq Int /\ 0 \in Int
    BY BoundsAssumption
  <2> QED BY <1>3, <2>1, <2>2, <2>3, <2>4, <2>5, <2>6 DEF Driver
<1>4. ASSUME NEW o \in Objects, Turn(o) \/ Forget(o) PROVE Met
  <2>1. UNCHANGED <<super, contains>>
    BY <1>4 DEF Turn, Forget, tree
  <2> QED BY <1>4, <2>1, TurnCalm, ForgetCalm, CalmMet
<1> QED BY <1>1, <1>2, <1>3, <1>4 DEF Next, Idle

\* The steps that may take a liberty
Liberal ==
  \/ \E o, p \in Objects : MoveObject(o, p) \/ Destruct(o, p)
  \/ PermitDone \/ MasterDone

LEMMA PoliteStep ==
  ASSUME Polite, NEW o,
         NEW misuse \in SUBSET {"disable_other", "add_to_disabled", "add_in_void",
                                "caught_command"},
         Operation(o, misuse)
  PROVE  Polite'
BY DEF Operation, Polite

LEMMA OthersPolite ==
  ASSUME Next, Polite
  PROVE  Liberal \/ Polite'
<1>1. CASE Lpc
  <2>1. ASSUME NEW o, EnableCommands(o) \/ Catch(o) PROVE Polite'
    <3>1. Operation(o, {})
      BY <2>1 DEF EnableCommands, Catch
    <3> QED BY <3>1, PoliteStep
  <2>2. ASSUME NEW o, DisableCommands(o) PROVE Polite'
    <3>1. Operation(o, Misuse(o # command_giver, "disable_other"))
      BY <2>2 DEF DisableCommands
    <3> QED BY <3>1, PoliteStep DEF Misuse
  <2>3. ASSUME NEW o, NEW pri, AddAction(o, pri) PROVE Polite'
    <3> DEFINE p == command_giver
               misuse == Misuse(p \notin living, "add_to_disabled") \cup
                         Misuse(~ Present(o, p), "add_in_void")
    <3>1. Operation(o, {}) \/ Operation(o, misuse)
      BY <2>3 DEF AddAction
    <3>2. misuse \subseteq {"add_to_disabled", "add_in_void"}
      BY DEF Misuse
    <3> HIDE DEF misuse
    <3> QED BY <3>1, <3>2, PoliteStep
  <2>4. ASSUME NEW o, NEW p, \/ CallOther(o, p) \/ SetThisPlayer(o, p)
                             \/ QueryActions(o, p) \/ Clone(o, p)
        PROVE  Polite'
    <3>1. Operation(o, {})
      BY <2>4 DEF CallOther, SetThisPlayer, QueryActions, Clone
    <3> QED BY <3>1, PoliteStep
  <2>5. ASSUME NEW o, NEW p, Command(o, p) PROVE Polite'
    <3>1. Operation(o, Misuse(CommandsCaught, "caught_command"))
      BY <2>5 DEF Command
    <3> QED BY <3>1, PoliteStep DEF Misuse
  <2>6. CASE Return \/ Throw
    BY <2>6 DEF Return, Throw, Polite
  <2> QED BY <1>1, <2>1, <2>2, <2>3, <2>4, <2>5, <2>6 DEF Lpc, Liberal
<1>2. CASE Driver
  <2>1. ASSUME NEW o, NEW e, ParseMatch(o, e) PROVE taken' = taken
    BY <2>1 DEF ParseMatch
  <2>2. CASE \/ MoveOn \/ InitDestDone \/ InitLoop \/ InitItemDone \/ InitOtherDone
             \/ InitLastDone \/ AskMaster \/ DestructDone
    BY <2>2 DEF MoveOn, InitDestDone, InitLoop, InitItemDone, InitOtherDone, InitLastDone,
                AskMaster, DestructDone, Polite
  <2>3. CASE ForceDone \/ ParseEnd \/ ParseZero \/ ParseTrue
    BY <2>3 DEF ForceDone, ParseEnd, ParseZero, ParseTrue, Polite
  <2> QED BY <1>2, <2>1, <2>2, <2>3 DEF Driver, Liberal, Polite
<1>3. ASSUME NEW o \in Objects, Turn(o) \/ Forget(o) PROVE Polite'
  BY <1>3 DEF Turn, Forget, Polite
<1>4. CASE Idle
  BY <1>4 DEF Idle, vars, Polite
<1> QED BY <1>1, <1>2, <1>3, <1>4 DEF Next

\* The step that takes a liberty calls no init(), or calls it in the object's
\* new environment.
LEMMA LiberalMeetsOk ==
  ASSUME Sound, Liberal
  PROVE  MeetsOk
<1>1. ASSUME NEW o \in Objects, NEW d \in Objects, MoveObject(o, d) PROVE MeetsOk
  <2>1. Ready(stack) /\ stack # <<>> /\ Typed /\ command_giver \in Values
    BY <1>1, RunningReady DEF MoveObject, Operation, Sound, Typed
  <2>2. CASE o \in Outwards(d)
    <3>1. Error
      BY <1>1, <2>2 DEF MoveObject
    <3> QED BY <2>1, <3>1, ErrorCalm DEF Calm, MeetsOk, Sound
  <2>3. CASE o \notin Outwards(d) /\ super[o] # NoObject
    <3> DEFINE x == [kind |-> "exit", item |-> o, dest |-> d, save |-> command_giver]
    <3>1. command_giver' = command_giver /\ Call(stack, x, super[o])
      BY <1>1, <2>3 DEF MoveObject
    <3>2. x \in Frames /\ x.kind # "init"
      BY <2>1 DEF ExitFrames, Frames
    <3> HIDE DEF x
    <3> QED BY <2>1, <3>1, <3>2, CallMeetless DEF MeetsOk
  <2>4. CASE o \notin Outwards(d) /\ super[o] = NoObject
    <3>1. Link(stack, o, d, command_giver) /\ ~ LinkFails(o)
      BY <1>1, <2>4 DEF MoveObject, LinkFails
    <3> QED BY <2>1, <3>1, LinkMeetsOk
  <2> QED BY <2>2, <2>3, <2>4
<1>2. ASSUME NEW o \in Objects, NEW p \in Objects, Destruct(o, p) PROVE MeetsOk
  <2>1. Ready(stack) /\ Typed /\ command_giver \in Values
    BY <1>2, RunningReady DEF Destruct, Operation, Sound, Typed
  <2>2. CASE o = p
    <3>1. stack' = Append(stack, DestructFrame(p))
      BY <1>2, <2>2 DEF Destruct
    <3>2. DestructFrame(p) \in Frames
      BY DEF DestructFrame, DestructFrames, Frames
    <3> QED BY <2>1, <3>1, <3>2, PushMeetless DEF MeetsOk
  <2>3. CASE o # p
    <3> DEFINE f == [kind |-> "permit", ob |-> p]
    <3>1. f \in Frames /\ f.kind # "init"
      BY AskHarmless DEF Harmless
    <3>2. command_giver' = command_giver /\ Call(stack, f, NoObject)
      BY <1>2, <2>3 DEF Destruct
    <3> HIDE DEF f
    <3> QED BY <2>1, <3>1, <3>2, CallMeetless DEF MeetsOk
  <2> QED BY <2>2, <2>3
<1>3. CASE PermitDone
  <2>1. Ready(Below) /\ stack # <<>> /\ Top \in Frames /\ Top.kind = "permit" /\ Typed
    BY <1>3, WaitingReady DEF PermitDone, Sound
  <2>2. Top.ob \in Objects
    BY <2>1, FramesByKind DEF AskFrames
  <2> DEFINE f == DestructFrame(Top.ob)
  <2>3. f \in Frames
    BY <2>2 DEF DestructFrame, DestructFrames, Frames
  <2>4. Error \/ stack' = Below \/ stack' = Append(Below, f)
    BY <1>3 DEF PermitDone
  <2> HIDE DEF f
  <2> QED BY <2>1, <2>3, <2>4, ErrorCalm, ReadyCalm, PushMeetless DEF Calm, MeetsOk, Sound
<1>4. CASE MasterDone
  <2>1. Waits("destruct") /\ Top.at = "master" /\ Typed
    BY <1>4 DEF MasterDone, Sound
  <2>2. Top \in DestructFrames /\ Ready(Below) /\ Len(Below) < Len(stack)
    BY <2>1, DestructionFrame, WaitingReady
  <2> DEFINE p == Top.inside
             f == [Top EXCEPT !.at = "loop", !.inside = NoObject]
             s == Append(Below, f)
             g == DestructFrame(p)
  <2>3. f \in DestructFrames /\ f.ob = Top.ob /\ p \in Objects
    BY <2>1, <2>2 DEF DestructFrames
  <2>4. stack' = s \/ stack' = s \o <<>> \/ stack' = s \o <<g>>
    BY <1>4 DEF MasterDone
  <2>5. g \in Frames
    BY <2>3 DEF DestructFrame, DestructFrames, Frames
  <2>6. Sparing(f, Below)
    BY <2>1, <2>3, DestructionSpares
  <2> HIDE DEF f, g
  <2>7. Ready(s) /\ s \in Seq(Frames)
    <3>1. Ready(s)
      BY <2>1, <2>2, <2>6, PushReady DEF Sound
    <3> QED BY <3>1 DEF Ready
  <2>8. stack' = s \/ stack' = Append(s, g)
    BY <2>4, <2>5, <2>7, AppendIsConcat
  <2>9. ~ Meets
    BY <2>1, <2>5, <2>7, <2>8, ReadyCalm, PushMeetless DEF Calm
  <2> QED BY <2>9 DEF MeetsOk
<1> QED BY <1>1, <1>2, <1>3, <1>4 DEF Liberal

\* init() is called between objects that are present to each other also in
\* the step in which LPC code ceases to be polite.
LEMMA MeetStep ==
  ASSUME MeetInv, [Next]_vars
  PROVE  MeetInv' /\ (Polite => MeetsOk)
<1>1. Inv /\ Typed /\ Inv' /\ taken \subseteq taken'
  BY StepInv, TakenGrows DEF MeetInv, Inv
<1>2. ASSUME Polite' PROVE Met
  <2>1. /\ Polite /\ "init_moves_other" \notin taken'
        /\ "move_destructed" \notin taken /\ "move_destructed" \notin taken'
    BY <1>1, <1>2 DEF Polite
  <2>2. Sound /\ WellFormed /\ WellFormed'
    BY <1>1, <2>1 DEF MeetInv, Inv, Sound
  <2> QED BY <2>1, <2>2, StepMet
<1>3. ASSUME Polite PROVE MeetsOk
  <2>1. Sound
    BY <1>1, <1>3 DEF MeetInv, Sound
  <2>2. CASE Liberal
    BY <2>1, <2>2, LiberalMeetsOk
  <2>3. CASE Polite'
    BY <1>2, <2>3 DEF Met
  <2>4. Liberal \/ Polite'
    BY <1>3, OthersPolite DEF Polite, vars
  <2> QED BY <2>2, <2>3, <2>4
<1> QED BY <1>1, <1>2, <1>3 DEF MeetInv, Met

\* At the end of the inventory nobody is left.
LEMMA MeetInvSound ==
  ASSUME MeetInv
  PROVE  NobodyPassedOver
<1> SUFFICES ASSUME Polite, Waits("init"), Top.at = "loop", Top.ob = NoObject
             PROVE  Top.left \cap Range(contains[Top.dest]) = {}
  BY DEF NobodyPassedOver, Polite
<1>1. Sound
  BY DEF MeetInv, Inv, Sound
<1>2. WalkSound(Top, super, contains)
  BY <1>1, WalkTop
<1> QED BY <1>2 DEF WalkSound, Comes, Ahead

\* Whatever LPC code does while move_object walks through an inventory and
\* calls init(): the walk comes to every neighbour that stays, and init() is
\* called only between objects that are present to each other, unless an
\* init() moves or destructs whom the walk holds a pointer to.
THEOREM NeighboursMeet == Spec => InitMeetsAll
<1>1. Init => MeetInv
  BY MeetInit
<1>2. MeetInv /\ [Next]_vars => MeetInv'
  BY MeetStep
<1>3. MeetInv => NobodyPassedOver
  BY MeetInvSound
<1>4. MeetInv /\ [Next]_vars
        => [Meets => \/ (Present(current_object, command_giver))'
                     \/ taken \cap {"init_moves_other", "move_destructed"} # {}]_vars
  BY MeetStep DEF MeetsOk, Polite
<1> QED BY <1>1, <1>2, <1>3, <1>4, PTL DEF Spec, InitMeetsAll, InitMeetsPresent

-----------------------------------------------------------------------------
(* Tables of sentences                                                     *)

\* The sentences of a table come in the order of their priorities.
Descending(s) ==
  \A i, j \in 1 .. Len(s) :
    i < j /\ s[i] # Empty /\ s[j] # Empty => s[i].pri >= s[j].pri

IsTable(s) == s \in Seq(Sentence) /\ Descending(s)

\* Every sentence of r is one of s.
Among(r, s) ==
  \A e \in 1 .. Len(r) : r[e] # Empty => \E d \in 1 .. Len(s) : r[e] = s[d]

LEMMA SentenceIs ==
  ASSUME NEW x \in Sentence
  PROVE  /\ x.pri \in Int /\ Empty \in Sentence
         /\ x # Empty => x.function \in Objects
<1>1. Empty \in Sentence
  BY DEF Sentence
<1>2. CASE x = Empty
  BY <1>1, <1>2 DEF Empty
<1>3. CASE x \in [function : Objects, pri : Priorities]
  BY <1>1, <1>3, PriorityAssumption
<1> QED BY <1>2, <1>3 DEF Sentence

LEMMA TableIs ==
  ASSUME NEW s \in Seq(Sentence)
  PROVE  /\ Len(s) \in Nat /\ DOMAIN s = 1 .. Len(s) /\ Empty \in Sentence
         /\ \A e \in 1 .. Len(s) :
              s[e] \in Sentence /\ s[e].pri \in Int /\ (s[e] # Empty => s[e].function \in Objects)
<1>1. Len(s) \in Nat /\ DOMAIN s = 1 .. Len(s) /\ \A e \in 1 .. Len(s) : s[e] \in Sentence
  BY LenProperties, ElementOfSeq
<1>2. Empty \in Sentence
  BY DEF Sentence
<1> QED BY <1>1, <1>2, SentenceIs

LEMMA AmongAll ==
  ASSUME NEW r, NEW s, NEW t, Among(r, s), Among(s, t)
  PROVE  Among(r, t)
BY DEF Among

\* A function on the slots of a table
SlotsOf(r, s) == r = [e \in 1 .. Len(s) |-> r[e]]

LEMMA SlotsAreSentences ==
  ASSUME NEW s \in Seq(Sentence), NEW r, SlotsOf(r, s), \A e \in 1 .. Len(s) : r[e] \in Sentence
  PROVE  r \in Seq(Sentence) /\ Len(r) = Len(s)
<1>1. Len(s) \in Nat
  BY TableIs
<1>2. r \in [1 .. Len(s) -> Sentence]
  BY DEF SlotsOf
<1> QED BY <1>1, <1>2

\* Slots are cleared.
LEMMA ClearedTable ==
  ASSUME NEW s, IsTable(s), NEW r, SlotsOf(r, s),
         \A e \in 1 .. Len(s) : r[e] \in {s[e], Empty}
  PROVE  IsTable(r) /\ Among(r, s) /\ Len(r) = Len(s)
<1>1. s \in Seq(Sentence) /\ \A e \in 1 .. Len(s) : r[e] \in Sentence
  BY TableIs DEF IsTable
<1>2. r \in Seq(Sentence) /\ Len(r) = Len(s)
  BY <1>1, SlotsAreSentences
<1>3. Descending(r) /\ Among(r, s)
  BY <1>2 DEF Descending, IsTable, Among
<1> QED BY <1>2, <1>3 DEF IsTable

LEMMA FirstTable ==
  IsTable(NewTable) /\ Len(NewTable) = FirstSlots /\ \A e \in 1 .. FirstSlots : NewTable[e] = Empty
<1>1. FirstSlots \in Nat /\ Empty \in Sentence
  BY BoundsAssumption DEF Sentence
<1>2. /\ NewTable \in Seq(Sentence) /\ Len(NewTable) = FirstSlots
      /\ \A e \in 1 .. FirstSlots : NewTable[e] = Empty
  BY <1>1 DEF NewTable
<1> QED BY <1>2 DEF IsTable, Descending

\* A table that is not full has a free slot, and one that is full gets some.
LEMMA FreeSlot ==
  ASSUME NEW s \in Seq(Sentence), Used(s) # Len(s)
  PROVE  \E e \in 1 .. Len(s) : s[e] = Empty
<1> SUFFICES ASSUME \A e \in 1 .. Len(s) : s[e] # Empty PROVE Used(s) = Len(s)
  OBVIOUS
<1>1. Len(s) \in Nat
  BY TableIs
<1>2. {e \in 1 .. Len(s) : s[e] # Empty} = 1 .. Len(s)
  OBVIOUS
<1>3. Cardinality(1 .. Len(s)) = Len(s)
  BY <1>1, FS_Interval
<1> QED BY <1>2, <1>3 DEF Used, UsedTo

LEMMA GrownTable ==
  ASSUME NEW s, IsTable(s), Len(s) # 0
  PROVE  /\ IsTable(Grown(s)) /\ Among(Grown(s), s)
         /\ \E e \in 1 .. Len(Grown(s)) : Grown(s)[e] = Empty
<1>1. s \in Seq(Sentence) /\ Len(s) \in Nat /\ DOMAIN s = 1 .. Len(s) /\ Empty \in Sentence
  BY TableIs DEF IsTable
<1>2. CASE Used(s) # Len(s)
  BY <1>1, <1>2, FreeSlot DEF Grown, Among
<1>3. CASE Used(s) = Len(s)
  <2> DEFINE n == Len(s)
             a == [e \in 1 .. n |-> Empty]
             t == s \o a
  <2>1. a \in Seq(Sentence) /\ Len(a) = n /\ \A e \in 1 .. n : a[e] = Empty
    BY <1>1
  <2> HIDE DEF a
  <2>2. /\ t \in Seq(Sentence) /\ Len(t) = n + n
        /\ \A e \in 1 .. n + n : t[e] = IF e <= n THEN s[e] ELSE a[e - n]
    BY <1>1, <2>1, ConcatProperties
  <2>3. Grown(s) = t
    BY <1>1, <1>3 DEF Grown, a
  <2> HIDE DEF t
  <2>4. n \in Nat \ {0} /\ \A e \in 1 .. n + n : e \in 1 .. n \/ (e - n \in 1 .. n /\ ~ (e <= n))
    BY <1>1
  <2>5. \A e \in 1 .. n + n : t[e] # Empty => e \in 1 .. n /\ t[e] = s[e]
    BY <2>1, <2>2, <2>4
  <2>6. n + 1 \in 1 .. n + n /\ n + 1 \notin 1 .. n
    BY <2>4
  <2>7. Descending(t) /\ Among(t, s)
    BY <2>2, <2>5 DEF Descending, Among, IsTable
  <2>8. t[n + 1] = Empty
    BY <2>5, <2>6
  <2> QED BY <2>2, <2>3, <2>6, <2>7, <2>8 DEF IsTable
<1> QED BY <1>2, <1>3

\* One sentence enters at k, the others come from other slots in their order.
LEMMA TableWithOneMore ==
  ASSUME NEW s, IsTable(s), NEW new \in Sentence, NEW k \in 1 .. Len(s),
         NEW r, SlotsOf(r, s), NEW from \in [1 .. Len(s) -> 1 .. Len(s)],
         \A i \in 1 .. Len(s) : r[i] = IF i = k THEN new ELSE s[from[i]],
         \A i, j \in 1 .. Len(s) : i # k /\ j # k /\ i < j => from[i] < from[j],
         \A i \in 1 .. Len(s) : i < k /\ r[i] # Empty => r[i].pri >= new.pri,
         \A i \in 1 .. Len(s) : i > k /\ r[i] # Empty => new.pri >= r[i].pri
  PROVE  /\ IsTable(r) /\ Len(r) = Len(s)
         /\ \A e \in 1 .. Len(r) : r[e] = new \/ \E d \in 1 .. Len(s) : r[e] = s[d]
<1> DEFINE n == Len(s)
<1>1. s \in Seq(Sentence) /\ n \in Nat /\ \A i \in 1 .. n : s[i] \in Sentence
  BY TableIs DEF IsTable
<1>2. \A i \in 1 .. n : r[i] \in Sentence
  BY <1>1
<1>3. r \in Seq(Sentence) /\ Len(r) = n
  BY <1>1, <1>2, SlotsAreSentences
<1>4. ASSUME NEW i \in 1 .. n, NEW j \in 1 .. n, i < j, r[i] # Empty, r[j] # Empty
      PROVE  r[i].pri >= r[j].pri
  <2>1. CASE i = k
    BY <1>4, <2>1
  <2>2. CASE j = k
    BY <1>4, <2>2
  <2>3. CASE i # k /\ j # k
    <3>1. from[i] < from[j] /\ r[i] = s[from[i]] /\ r[j] = s[from[j]]
      BY <1>4, <2>3
    <3> QED BY <1>4, <3>1 DEF IsTable, Descending
  <2> QED BY <2>1, <2>2, <2>3
<1>5. Descending(r)
  BY <1>3, <1>4 DEF Descending
<1> QED BY <1>3, <1>5 DEF IsTable

LEMMA GreatestNat ==
  ASSUME NEW n \in Nat, NEW S \in SUBSET (1 .. n), S # {}
  PROVE  Max(S) \in S /\ \A y \in S : y <= Max(S)
<1> DEFINE T == {n - y : y \in S}
<1>1. T \in SUBSET Nat /\ T # {}
  OBVIOUS
<1>2. Min(T) \in T /\ \A y \in T : Min(T) <= y
  BY <1>1, LeastNat
<1>3. PICK x \in S : n - x = Min(T)
  BY <1>2
<1>4. ASSUME NEW y \in S PROVE y <= x
  <2>1. n - x <= n - y
    BY <1>2, <1>3
  <2> QED BY <2>1
<1> QED BY <1>4 DEF Max

\* Where a sentence with priority pri enters
LEMMA PlaceIs ==
  ASSUME NEW s, IsTable(s), NEW pri \in Int
  PROVE  /\ Place(s, pri) \in 1 .. Len(s) + 1
         /\ \A i \in 1 .. Len(s) : i < Place(s, pri) /\ s[i] # Empty => s[i].pri > pri
         /\ \A i \in 1 .. Len(s) : i >= Place(s, pri) /\ s[i] # Empty => pri >= s[i].pri
<1> DEFINE P == {e \in DOMAIN s : s[e] # Empty /\ s[e].pri <= pri} \cup {Len(s) + 1}
           p == Place(s, pri)
<1>1. /\ Len(s) \in Nat /\ DOMAIN s = 1 .. Len(s)
      /\ \A e \in 1 .. Len(s) : s[e].pri \in Int
  BY TableIs DEF IsTable
<1>2. P \in SUBSET (1 .. Len(s) + 1) /\ P \in SUBSET Nat /\ P # {}
  BY <1>1
<1>3. p = Min(P)
  BY DEF Place
<1>4. p \in P /\ \A y \in P : p <= y
  BY <1>2, <1>3, LeastNat
<1>5. p \in 1 .. Len(s) + 1
  BY <1>2, <1>4
<1>6. ASSUME NEW i \in 1 .. Len(s), i < p, s[i] # Empty PROVE s[i].pri > pri
  <2>1. i \notin P
    BY <1>1, <1>4, <1>5, <1>6
  <2> QED BY <1>1, <1>6, <2>1
<1>7. ASSUME NEW i \in 1 .. Len(s), i >= p, s[i] # Empty PROVE pri >= s[i].pri
  <2>1. p \in 1 .. Len(s) /\ s[p] # Empty /\ s[p].pri <= pri
    BY <1>1, <1>4, <1>5, <1>7
  <2>2. i = p \/ s[p].pri >= s[i].pri
    BY <1>1, <1>5, <1>7, <2>1 DEF IsTable, Descending
  <2> QED BY <1>1, <2>1, <2>2
<1> QED BY <1>5, <1>6, <1>7

\* add_sentence keeps the table in order.
LEMMA AddedTable ==
  ASSUME NEW s, IsTable(s), NEW new \in Sentence, \E e \in 1 .. Len(s) : s[e] = Empty
  PROVE  /\ IsTable(Added(s, new)) /\ Len(Added(s, new)) = Len(s)
         /\ \A e \in 1 .. Len(Added(s, new)) :
              Added(s, new)[e] = new \/ \E d \in 1 .. Len(s) : Added(s, new)[e] = s[d]
<1> DEFINE n == Len(s)
           p == Place(s, new.pri)
           free == {i \in DOMAIN s : s[i] = Empty}
           left == free \cap 1 .. p - 1
<1>1. /\ n \in Nat /\ DOMAIN s = 1 .. n /\ new.pri \in Int
      /\ \A e \in 1 .. n : s[e] \in Sentence /\ s[e].pri \in Int
  BY TableIs, SentenceIs DEF IsTable
<1>2. /\ p \in 1 .. n + 1
      /\ \A i \in 1 .. n : i < p /\ s[i] # Empty => s[i].pri > new.pri
      /\ \A i \in 1 .. n : i >= p /\ s[i] # Empty => new.pri >= s[i].pri
  BY <1>1, PlaceIs
<1>3. CASE left # {}
  <2> DEFINE u == Max(left)
             r == [i \in 1 .. n |-> IF i = p - 1 THEN new
                                     ELSE IF i \in u .. p - 2 THEN s[i + 1] ELSE s[i]]
             from == [i \in 1 .. n |-> IF i \in u .. p - 2 THEN i + 1 ELSE i]
  <2>1. u \in left /\ u \in 1 .. p - 1
    <3>1. p - 1 \in Nat /\ left \in SUBSET (1 .. p - 1)
      BY <1>2
    <3> QED BY <1>3, <3>1, GreatestNat
  <2>2. Added(s, new) = r
    BY <1>1, <1>3 DEF Added
  <2> HIDE DEF u, p, left
  <2> DEFINE k == p - 1
  <2>3. k \in 1 .. n /\ k = p - 1 /\ u \in Int /\ p \in Int
    BY <1>1, <1>2, <2>1
  <2>4. \A i \in 1 .. n : from[i] = IF i \in u .. p - 2 THEN i + 1 ELSE i
    OBVIOUS
  <2>5. from \in [1 .. n -> 1 .. n]
    BY <1>1, <2>3
  <2>6. \A i \in 1 .. n : r[i] = IF i = k THEN new ELSE s[from[i]]
    BY <2>4
  <2>7. SlotsOf(r, s)
    BY DEF SlotsOf
  <2> HIDE DEF r, from, n, k
  <2>8. \A i, j \in 1 .. n : i # k /\ j # k /\ i < j => from[i] < from[j]
    BY <2>1, <2>3, <2>4
  <2>9. \A i \in 1 .. n : (i < k => from[i] < p) /\ (i > k => from[i] >= p)
    BY <2>1, <2>3, <2>4
  <2>10. ASSUME NEW i \in 1 .. n, i < k, r[i] # Empty PROVE r[i].pri >= new.pri
    <3>1. from[i] \in 1 .. n /\ from[i] < p /\ r[i] = s[from[i]]
      BY <2>3, <2>5, <2>6, <2>9, <2>10
    <3> QED BY <1>1, <1>2, <2>10, <3>1
  <2>11. ASSUME NEW i \in 1 .. n, i > k, r[i] # Empty PROVE new.pri >= r[i].pri
    <3>1. from[i] \in 1 .. n /\ from[i] >= p /\ r[i] = s[from[i]]
      BY <2>3, <2>5, <2>6, <2>9, <2>11
    <3> QED BY <1>1, <1>2, <2>11, <3>1
  <2>12. k \in 1 .. n
    BY <2>3
  <2>13. /\ IsTable(r) /\ Len(r) = n
         /\ \A e \in 1 .. Len(r) : r[e] = new \/ \E d \in 1 .. n : r[e] = s[d]
    BY <2>5, <2>6, <2>7, <2>8, <2>10, <2>11, <2>12, TableWithOneMore DEF n
  <2> QED BY <2>2, <2>13 DEF n
<1>4. CASE left = {}
  <2> DEFINE u == Min(free)
             r == [i \in 1 .. n |-> IF i = p THEN new
                                     ELSE IF i \in p + 1 .. u THEN s[i - 1] ELSE s[i]]
             from == [i \in 1 .. n |-> IF i \in p + 1 .. u THEN i - 1 ELSE i]
  <2>1. u \in 1 .. n /\ u >= p
    <3>1. free \in SUBSET Nat /\ free # {} /\ free \in SUBSET (1 .. n)
      BY <1>1
    <3>2. u \in free
      BY <3>1, LeastNat
    <3>3. u \notin 1 .. p - 1
      BY <1>4, <3>2
    <3> QED BY <1>1, <1>2, <3>1, <3>2, <3>3
  <2>2. Added(s, new) = r
    BY <1>1, <1>4 DEF Added
  <2> HIDE DEF u, p, left, free
  <2>3. p \in 1 .. n /\ u \in Int
    BY <1>1, <1>2, <2>1
  <2>4. \A i \in 1 .. n : from[i] = IF i \in p + 1 .. u THEN i - 1 ELSE i
    OBVIOUS
  <2>5. from \in [1 .. n -> 1 .. n]
    BY <1>1, <2>3
  <2>6. \A i \in 1 .. n : r[i] = IF i = p THEN new ELSE s[from[i]]
    BY <2>4
  <2>7. SlotsOf(r, s)
    BY DEF SlotsOf
  <2> HIDE DEF r, from, n
  <2>8. \A i, j \in 1 .. n : i # p /\ j # p /\ i < j => from[i] < from[j]
    BY <2>1, <2>3, <2>4
  <2>9. \A i \in 1 .. n : (i < p => from[i] < p) /\ (i > p => from[i] >= p)
    BY <2>1, <2>3, <2>4
  <2>10. ASSUME NEW i \in 1 .. n, i < p, r[i] # Empty PROVE r[i].pri >= new.pri
    <3>1. from[i] \in 1 .. n /\ from[i] < p /\ r[i] = s[from[i]]
      BY <2>3, <2>5, <2>6, <2>9, <2>10
    <3> QED BY <1>1, <1>2, <2>10, <3>1
  <2>11. ASSUME NEW i \in 1 .. n, i > p, r[i] # Empty PROVE new.pri >= r[i].pri
    <3>1. from[i] \in 1 .. n /\ from[i] >= p /\ r[i] = s[from[i]]
      BY <2>3, <2>5, <2>6, <2>9, <2>11
    <3> QED BY <1>1, <1>2, <2>11, <3>1
  <2> QED BY <2>2, <2>3, <2>5, <2>6, <2>7, <2>8, <2>10, <2>11, TableWithOneMore DEF n
<1> QED BY <1>3, <1>4

LEMMA UsedToGrows ==
  ASSUME NEW s, NEW i \in Nat, NEW j \in Nat, i <= j
  PROVE  UsedTo(s, i) <= UsedTo(s, j) /\ UsedTo(s, i) \in Nat
<1> DEFINE S == {e \in 1 .. i : s[e] # Empty}
           T == {e \in 1 .. j : s[e] # Empty}
<1>1. IsFiniteSet(1 .. j) /\ T \subseteq 1 .. j /\ S \subseteq T
  BY FS_Interval
<1> HIDE DEF S, T
<1>2. IsFiniteSet(T) /\ IsFiniteSet(S)
  BY <1>1, FS_Subset
<1>3. Cardinality(S) <= Cardinality(T) /\ Cardinality(S) \in Nat
  BY <1>1, <1>2, FS_Subset, FS_CardinalityType
<1> QED BY <1>3 DEF UsedTo, S, T

\* cleanup_sentences keeps the order, in the smaller table as well.
LEMMA CleanedTable ==
  ASSUME NEW s, IsTable(s)
  PROVE  IsTable(CleanedUp(s)) /\ Among(CleanedUp(s), s)
<1> DEFINE kept(n) == {e \in DOMAIN s : s[e] # Empty /\ UsedTo(s, e) = n}
           l == Len(s) \div 2
           r == [n \in 1 .. l |-> IF kept(n) = {} THEN Empty ELSE s[Min(kept(n))]]
<1>1. /\ s \in Seq(Sentence) /\ Len(s) \in Nat /\ DOMAIN s = 1 .. Len(s) /\ Empty \in Sentence
      /\ \A e \in 1 .. Len(s) : s[e] \in Sentence /\ s[e].pri \in Int
  BY TableIs DEF IsTable
<1>2. CleanedUp(s) = s \/ CleanedUp(s) = r
  BY DEF CleanedUp
<1>3. ASSUME NEW n \in 1 .. l, kept(n) # {}
      PROVE  /\ Min(kept(n)) \in 1 .. Len(s) /\ UsedTo(s, Min(kept(n))) = n
  <2>1. kept(n) \in SUBSET Nat
    BY <1>1
  <2>2. Min(kept(n)) \in kept(n)
    BY <1>3, <2>1, LeastNat
  <2> QED BY <1>1, <2>2
<1>4. l \in Nat
  BY <1>1
<1> HIDE DEF kept, l
<1>5. \A n \in 1 .. l : (IF kept(n) = {} THEN Empty ELSE s[Min(kept(n))]) \in Sentence
  BY <1>1, <1>3
<1>6. /\ r \in Seq(Sentence) /\ Len(r) = l
      /\ \A n \in 1 .. l : r[n] = IF kept(n) = {} THEN Empty ELSE s[Min(kept(n))]
  BY <1>4, <1>5
<1> HIDE DEF r
<1>7. ASSUME NEW n \in 1 .. l, r[n] # Empty
      PROVE  \E e \in 1 .. Len(s) : r[n] = s[e] /\ UsedTo(s, e) = n
  BY <1>3, <1>6, <1>7
<1>8. ASSUME NEW i \in 1 .. l, NEW j \in 1 .. l, i < j, r[i] # Empty, r[j] # Empty
      PROVE  r[i].pri >= r[j].pri
  <2>1. PICK d \in 1 .. Len(s) : r[i] = s[d] /\ UsedTo(s, d) = i
    BY <1>7, <1>8
  <2>2. PICK e \in 1 .. Len(s) : r[j] = s[e] /\ UsedTo(s, e) = j
    BY <1>7, <1>8
  <2>3. d < e
    <3>1. d \in Nat /\ e \in Nat
      BY <1>1
    <3>2. ~ (e <= d)
      BY <1>8, <2>1, <2>2, <3>1, UsedToGrows
    <3> QED BY <3>1, <3>2
  <2> QED BY <1>8, <2>1, <2>2, <2>3 DEF IsTable, Descending
<1>9. IsTable(r) /\ Among(r, s)
  BY <1>6, <1>7, <1>8 DEF IsTable, Descending, Among
<1>10. Among(s, s)
  BY DEF Among
<1> QED BY <1>2, <1>9, <1>10

\* What remains of the table s, which has no sentence of gone.
Remains(r, s, gone) ==
  /\ IsTable(r) /\ Among(r, s)
  /\ \A e \in 1 .. Len(r) : r[e] # Empty => r[e].function \notin gone

\* remove_sent_for
LEMMA RemovedForRemains ==
  ASSUME NEW s, IsTable(s), NEW o
  PROVE  Remains(RemovedFor(s, o), s, {o})
<1> DEFINE r == [e \in 1 .. Len(s) |->
                   IF s[e].function = o \/ (s[e] # Empty /\ life[s[e].function] = "destructed")
                   THEN Empty ELSE s[e]]
<1>1. DOMAIN s = 1 .. Len(s)
  BY TableIs DEF IsTable
<1>2. SlotsOf(r, s) /\ \A e \in 1 .. Len(s) : r[e] \in {s[e], Empty}
  BY DEF SlotsOf
<1>3. \A e \in 1 .. Len(s) : r[e] # Empty => r[e].function # o
  OBVIOUS
<1>4. RemovedFor(s, o) = CleanedUp(r)
  BY <1>1 DEF RemovedFor
<1> HIDE DEF r
<1>5. IsTable(r) /\ Among(r, s) /\ Len(r) = Len(s)
  BY <1>2, ClearedTable
<1>6. IsTable(CleanedUp(r)) /\ Among(CleanedUp(r), r)
  BY <1>5, CleanedTable
<1> DEFINE t == CleanedUp(r)
<1> HIDE DEF t
<1>7. Among(t, s)
  BY <1>5, <1>6, AmongAll DEF t
<1>8. \A e \in 1 .. Len(t) : t[e] # Empty => t[e].function # o
  BY <1>3, <1>5, <1>6 DEF Among, t
<1> QED BY <1>4, <1>6, <1>7, <1>8 DEF Remains, t

\* What is left when the first n of own have gone: a function that is defined
\* by itself exists.
LEMMA LeavingExists ==
  ASSUME NEW s, NEW own, NEW n \in Nat
  PROVE  \E f : f = [m \in 0 .. n |-> IF m = 0 THEN s ELSE RemovedFor(f[m - 1], own[m])]
<1> DEFINE Good(k) == \E f : f = [m \in 0 .. k |-> IF m = 0 THEN s ELSE RemovedFor(f[m - 1], own[m])]
           Bad == {k \in Nat : ~ Good(k)}
<1>1. ASSUME Bad # {} PROVE FALSE
  <2> DEFINE k == Min(Bad)
  <2>1. k \in Bad /\ \A x \in Bad : k <= x
    BY <1>1, LeastNat
  <2> HIDE DEF k
  <2>2. k \in Nat /\ ~ Good(k)
    BY <2>1
  <2>3. CASE k = 0
    <3> DEFINE f == [m \in 0 .. 0 |-> s]
    <3>1. f = [m \in 0 .. 0 |-> IF m = 0 THEN s ELSE RemovedFor(f[m - 1], own[m])]
      OBVIOUS
    <3> QED BY <2>2, <2>3, <3>1
  <2>4. CASE k # 0
    <3>1. k - 1 \in Nat /\ Good(k - 1)
      <4>1. k - 1 \in Nat /\ ~ (k <= k - 1)
        BY <2>2, <2>4
      <4> HIDE DEF Good
      <4>2. k - 1 \notin Bad
        <5> HIDE DEF Bad
        <5> QED BY <2>1, <4>1
      <4> QED BY <4>1, <4>2
    <3>2. PICK f : f = [m \in 0 .. k - 1 |-> IF m = 0 THEN s ELSE RemovedFor(f[m - 1], own[m])]
      BY <3>1
    <3> DEFINE g == [m \in 0 .. k |-> IF m = k THEN RemovedFor(f[k - 1], own[k]) ELSE f[m]]
    <3>3. \A m \in 0 .. k : g[m] = IF m = 0 THEN s ELSE RemovedFor(g[m - 1], own[m])
      <4>1. ASSUME NEW m \in 0 .. k, m # k
            PROVE  g[m] = IF m = 0 THEN s ELSE RemovedFor(g[m - 1], own[m])
        <5>1. m \in 0 .. k - 1 /\ (m # 0 => m - 1 \in 0 .. k /\ m - 1 # k)
          BY <2>2, <4>1
        <5>2. f[m] = IF m = 0 THEN s ELSE RemovedFor(f[m - 1], own[m])
          BY <3>2, <5>1
        <5>3. g[m] = f[m] /\ (m # 0 => g[m - 1] = f[m - 1])
          BY <4>1, <5>1
        <5> HIDE DEF g
        <5> QED BY <5>2, <5>3
      <4>2. g[k] = RemovedFor(g[k - 1], own[k])
        <5>1. k - 1 \in 0 .. k /\ k - 1 # k /\ k \in 0 .. k
          BY <2>2, <2>4
        <5> QED BY <5>1
      <4> QED BY <2>4, <4>1, <4>2
    <3>4. g = [m \in 0 .. k |-> g[m]]
      OBVIOUS
    <3> HIDE DEF g
    <3>5. g = [m \in 0 .. k |-> IF m = 0 THEN s ELSE RemovedFor(g[m - 1], own[m])]
      BY <3>3, <3>4
    <3> QED BY <2>2, <3>5
  <2> QED BY <2>3, <2>4
<1>2. Good(n)
  BY <1>1
<1> QED BY <1>2

LEMMA RemovedForAllRemains ==
  ASSUME NEW s, IsTable(s), NEW own, Len(own) \in Nat
  PROVE  Remains(RemovedForAll(s, own), s, {own[m] : m \in 1 .. Len(own)})
<1> DEFINE n == Len(own)
           left == CHOOSE f : f = [m \in 0 .. n |-> IF m = 0 THEN s ELSE RemovedFor(f[m - 1], own[m])]
           gone(m) == {own[k] : k \in 1 .. m}
<1>1. left = [m \in 0 .. n |-> IF m = 0 THEN s ELSE RemovedFor(left[m - 1], own[m])]
  BY LeavingExists
<1>2. RemovedForAll(s, own) = left[n]
  BY DEF RemovedForAll
<1> HIDE DEF left, n
<1>3. n \in Nat
  BY DEF n
<1>4. /\ left[0] = s
      /\ \A m \in 1 .. n : left[m] = RemovedFor(left[m - 1], own[m])
  BY <1>1, <1>3
<1> DEFINE Bad == {m \in 0 .. n : ~ Remains(left[m], s, gone(m))}
<1>5. ASSUME Bad # {} PROVE FALSE
  <2> DEFINE k == Min(Bad)
  <2>1. k \in Bad /\ \A x \in Bad : k <= x
    <3>1. Bad \in SUBSET Nat
      BY <1>3
    <3> QED BY <1>5, <3>1, LeastNat
  <2> HIDE DEF k
  <2>2. k \in 0 .. n /\ ~ Remains(left[k], s, gone(k))
    BY <2>1
  <2>3. CASE k = 0
    <3>1. Remains(s, s, gone(0))
      BY DEF Among, Remains
    <3> HIDE DEF gone
    <3>2. left[0] = s /\ ~ Remains(left[0], s, gone(0))
      BY <1>4, <2>2, <2>3
    <3> QED BY <3>1, <3>2
  <2>4. CASE k # 0
    <3>1. k \in 1 .. n /\ k - 1 \in 0 .. n /\ k - 1 \notin Bad
      <4>1. k \in 1 .. n /\ k - 1 \in 0 .. n /\ ~ (k <= k - 1)
        BY <1>3, <2>2, <2>4
      <4> HIDE DEF Bad
      <4> QED BY <2>1, <4>1
    <3>2. Remains(left[k - 1], s, gone(k - 1))
      BY <3>1
    <3> DEFINE q == left[k - 1]
               r == left[k]
    <3>3. Remains(r, q, {own[k]})
      BY <1>4, <3>1, <3>2, RemovedForRemains DEF Remains
    <3> HIDE DEF q, r, gone
    <3>4. Among(r, s)
      BY <3>2, <3>3, AmongAll DEF Remains, q
    <3>5. ASSUME NEW e \in 1 .. Len(r), r[e] # Empty PROVE r[e].function \notin gone(k)
      <4>1. r[e].function # own[k]
        BY <3>3, <3>5 DEF Remains
      <4>2. PICK d \in 1 .. Len(q) : r[e] = q[d]
        BY <3>3, <3>5 DEF Remains, Among
      <4>3. r[e].function \notin gone(k - 1)
        BY <3>2, <3>5, <4>2 DEF Remains, q
      <4>4. \A x \in 1 .. k : x \in 1 .. k - 1 \/ x = k
        BY <3>1
      <4> QED BY <4>1, <4>3, <4>4 DEF gone
    <3>6. Remains(r, s, gone(k))
      BY <3>3, <3>4, <3>5 DEF Remains
    <3> QED BY <2>2, <3>6 DEF r
  <2> QED BY <2>3, <2>4
<1>6. Remains(left[n], s, gone(n))
  <2>1. n \in 0 .. n
    BY <1>3
  <2> HIDE DEF Bad
  <2>2. n \notin Bad
    BY <1>5
  <2> QED BY <2>1, <2>2 DEF Bad
<1> QED BY <1>2, <1>6 DEF n

-----------------------------------------------------------------------------
(* Steps that change the tables                                            *)

Tabled ==
  /\ sentences \in [Objects -> Seq(Sentence)] /\ living \subseteq Objects
  /\ \A p \in Objects : Descending(sentences[p])

\* What a table holds comes from an object that is present to a living one.
Nearby ==
  \A p \in Objects : \A e \in 1 .. Len(sentences[p]) :
    sentences[p][e] # Empty => p \in living /\ Present(sentences[p][e].function, p)

Decent == taken \cap {"add_to_disabled", "add_in_void", "move_destructed"} = {}

\* Sentences go, and none comes.
Fewer ==
  /\ sentences' \in [Objects -> Seq(Sentence)]
  /\ \A p \in Objects : IsTable(sentences'[p]) /\ Among(sentences'[p], sentences[p])

Takes ==
  /\ Fewer /\ living' \subseteq Objects
  /\ super' = super
  /\ \A p \in Objects : p \in living => p \in living' \/ sentences'[p] = Null

LEMMA TabledIs ==
  ASSUME Tabled, NEW p \in Objects
  PROVE  /\ IsTable(sentences[p]) /\ sentences[p] \in Seq(Sentence)
         /\ Among(sentences[p], sentences[p]) /\ Len(sentences[p]) \in Nat
         /\ DOMAIN sentences[p] = 1 .. Len(sentences[p])
<1>1. IsTable(sentences[p]) /\ sentences[p] \in Seq(Sentence)
  BY DEF Tabled, IsTable
<1> QED BY <1>1, TableIs DEF Among

LEMMA NullTable ==
  IsTable(Null) /\ Len(Null) = 0 /\ \A s : Among(Null, s)
<1>1. Null \in Seq(Sentence) /\ Len(Null) = 0
  BY DEF Null
<1> QED BY <1>1 DEF IsTable, Descending, Among

LEMMA TakesKeeps ==
  ASSUME Tabled, Takes
  PROVE  Tabled' /\ (Nearby => Nearby')
<1>1. Tabled'
  BY DEF Tabled, Takes, Fewer, IsTable
<1>2. ASSUME Nearby, NEW p \in Objects, NEW e \in 1 .. Len(sentences'[p]), sentences'[p][e] # Empty
      PROVE  p \in living' /\ (Present(sentences[p][e].function, p))'
  <2>1. PICK d \in 1 .. Len(sentences[p]) : sentences'[p][e] = sentences[p][d]
    BY <1>2 DEF Takes, Fewer, Among
  <2>2. p \in living /\ Present(sentences'[p][e].function, p)
    BY <1>2, <2>1 DEF Nearby
  <2>3. sentences'[p] # Null
    BY <1>2, NullTable
  <2> QED BY <2>2, <2>3 DEF Takes, Present
<1> QED BY <1>1, <1>2 DEF Nearby

\* The table of one object
LEMMA OneTable ==
  ASSUME Tabled, NEW p \in Objects, NEW r, IsTable(r), Among(r, sentences[p]),
         sentences' = [sentences EXCEPT ![p] = r]
  PROVE  Fewer
<1>1. sentences \in [Objects -> Seq(Sentence)] /\ r \in Seq(Sentence)
  BY DEF Tabled, IsTable
<1>2. \A q \in Objects : sentences'[q] = IF q = p THEN r ELSE sentences[q]
  BY <1>1
<1>3. sentences' \in [Objects -> Seq(Sentence)]
  BY <1>1
<1> QED BY <1>2, <1>3, TabledIs DEF Fewer

LEMMA NothingTaken ==
  ASSUME Tabled, UNCHANGED <<sentences, super>>, living' \subseteq Objects, living \subseteq living'
  PROVE  Takes
<1>1. Fewer
  BY TabledIs DEF Fewer, Tabled
<1> QED BY <1>1 DEF Takes

LEMMA CommandsTake ==
  ASSUME Tabled, NEW o \in Objects, EnableCommands(o) \/ DisableCommands(o)
  PROVE  Takes
<1>1. super' = super
  BY DEF EnableCommands, DisableCommands, tree
<1>2. CASE EnableCommands(o)
  BY <1>1, <1>2, NothingTaken DEF EnableCommands, Tabled
<1>3. CASE DisableCommands(o)
  <2>1. living' = living \ {o} /\ sentences' = [sentences EXCEPT ![o] = Null]
    BY <1>3 DEF DisableCommands
  <2>2. Fewer
    BY <2>1, NullTable, OneTable
  <2>3. sentences'[o] = Null
    BY <2>1 DEF Tabled
  <2> QED BY <1>1, <2>1, <2>2, <2>3 DEF Takes, Tabled
<1> QED BY <1>2, <1>3

LEMMA QueryTakes ==
  ASSUME Tabled, NEW o, NEW p \in Objects, QueryActions(o, p)
  PROVE  Takes
<1> DEFINE s == sentences[p]
           r == [e \in 1 .. Len(s) |-> IF s[e] # Empty /\ life[s[e].function] = "destructed"
                                       THEN Empty ELSE s[e]]
<1>1. IsTable(s) /\ DOMAIN s = 1 .. Len(s)
  BY TabledIs
<1>2. sentences' = [sentences EXCEPT ![p] = r] /\ UNCHANGED <<super, living>>
  BY <1>1 DEF QueryActions, tree
<1>3. SlotsOf(r, s) /\ \A e \in 1 .. Len(s) : r[e] \in {s[e], Empty}
  BY DEF SlotsOf
<1> HIDE DEF r
<1>4. IsTable(r) /\ Among(r, s)
  BY <1>1, <1>3, ClearedTable
<1>5. Fewer
  BY <1>2, <1>4, OneTable
<1> QED BY <1>2, <1>5 DEF Takes, Tabled

LEMMA FreedTable ==
  ASSUME NEW s, IsTable(s), NEW first, NEW e
  PROVE  IsTable(Freed(s, first, e)) /\ Among(Freed(s, first, e), s) /\ Len(Freed(s, first, e)) = Len(s)
<1> DEFINE r == Freed(s, first, e)
<1>1. DOMAIN s = 1 .. Len(s)
  BY TableIs DEF IsTable
<1>2. SlotsOf(r, s) /\ \A i \in 1 .. Len(s) : r[i] \in {s[i], Empty}
  BY <1>1 DEF SlotsOf, Freed
<1> QED BY <1>2, ClearedTable

LEMMA ParserTakes ==
  ASSUME Tabled, NEW o, NEW e, ParseMatch(o, e) \/ ParseEnd, Top.ob \in Objects
  PROVE  Takes /\ \A p \in Objects : Len(sentences'[p]) = Len(sentences[p])
<1> DEFINE p == Top.ob
<1>1. PICK x : sentences' = [sentences EXCEPT ![p] = Freed(sentences[p], Top.e, x)]
  BY DEF ParseMatch, ParseEnd
<1> DEFINE r == Freed(sentences[p], Top.e, x)
<1>2. IsTable(r) /\ Among(r, sentences[p]) /\ Len(r) = Len(sentences[p])
  BY TabledIs, FreedTable
<1>3. UNCHANGED <<super, living>>
  BY DEF ParseMatch, ParseEnd, tree
<1> HIDE DEF r, p
<1>4. sentences' = [sentences EXCEPT ![p] = r] /\ p \in Objects
  BY <1>1 DEF p, r
<1>5. Fewer
  BY <1>2, <1>4, OneTable
<1>6. \A q \in Objects : Len(sentences'[q]) = Len(sentences[q])
  BY <1>2, <1>4 DEF Tabled
<1> QED BY <1>3, <1>5, <1>6 DEF Takes, Tabled

LEMMA AddActionTables ==
  ASSUME Typed, Tabled, NEW o \in Objects, NEW pri \in Priorities, AddAction(o, pri)
  PROVE  Tabled' /\ (Nearby /\ Decent' => Nearby')
<1> DEFINE p == command_giver
<1>1. /\ p \in Objects /\ UNCHANGED <<super, living>>
  BY DEF AddAction, Typed, Values, tree
<1>2. CASE UNCHANGED sentences
  <2>1. Takes
    BY <1>1, <1>2, NothingTaken DEF Tabled
  <2> QED BY <2>1, TakesKeeps
<1>3. CASE ~ UNCHANGED sentences
  <2> DEFINE s == IF sentences[p] = Null THEN NewTable ELSE sentences[p]
             new == [function |-> o, pri |-> pri]
             misuse == Misuse(p \notin living, "add_to_disabled") \cup
                       Misuse(~ Present(o, p), "add_in_void")
             r == Added(Grown(s), new)
  <2>1. sentences' = [sentences EXCEPT ![p] = r] /\ Operation(o, misuse)
    BY <1>3 DEF AddAction
  <2>2. Decent' => p \in living /\ Present(o, p)
    BY <2>1 DEF Operation, Misuse, Decent
  <2>3. new \in Sentence /\ new.function = o
    BY DEF Sentence
  <2> HIDE DEF new, misuse
  <2>4. IsTable(s) /\ Len(s) # 0
    <3>1. sentences[p] # Null => Len(sentences[p]) # 0
      <4>1. sentences[p] \in Seq(Sentence)
        BY <1>1, TabledIs
      <4> QED BY <4>1 DEF Null
    <3>2. FirstSlots # 0
      BY BoundsAssumption
    <3> QED BY <1>1, <3>1, <3>2, TabledIs, FirstTable
  <2>5. \A e \in 1 .. Len(s) : s[e] # Empty => \E d \in 1 .. Len(sentences[p]) : s[e] = sentences[p][d]
    BY FirstTable
  <2> HIDE DEF s
  <2> DEFINE g == Grown(s)
  <2>6. IsTable(g) /\ Among(g, s) /\ \E e \in 1 .. Len(g) : g[e] = Empty
    BY <2>4, GrownTable
  <2> HIDE DEF g
  <2>7. IsTable(r) /\ \A e \in 1 .. Len(r) : r[e] = new \/ \E d \in 1 .. Len(g) : r[e] = g[d]
    BY <2>3, <2>6, AddedTable DEF g
  <2> HIDE DEF r
  <2>8. \A e \in 1 .. Len(r) : r[e] # Empty =>
          r[e] = new \/ \E d \in 1 .. Len(sentences[p]) : r[e] = sentences[p][d]
    <3>1. ASSUME NEW e \in 1 .. Len(r), r[e] # Empty, r[e] # new
          PROVE  \E d \in 1 .. Len(sentences[p]) : r[e] = sentences[p][d]
      <4>1. PICK d \in 1 .. Len(g) : r[e] = g[d]
        BY <2>7, <3>1
      <4>2. PICK c \in 1 .. Len(s) : g[d] = s[c]
        BY <2>6, <3>1, <4>1 DEF Among
      <4> QED BY <2>5, <3>1, <4>1, <4>2
    <3> QED BY <3>1
  <2>9. \A q \in Objects : sentences'[q] = IF q = p THEN r ELSE sentences[q]
    BY <1>1, <2>1 DEF Tabled
  <2>10. Tabled'
    <3>1. sentences' \in [Objects -> Seq(Sentence)]
      BY <1>1, <2>1, <2>7 DEF Tabled, IsTable
    <3> QED BY <1>1, <2>7, <2>9, <3>1 DEF Tabled, IsTable
  <2>11. ASSUME Nearby, Decent', NEW q \in Objects, NEW e \in 1 .. Len(sentences'[q]),
                sentences'[q][e] # Empty
         PROVE  q \in living /\ Present(sentences'[q][e].function, q)
    <3>1. CASE q = p
      <4>1. sentences'[q] = r
        BY <2>9, <3>1
      <4>2. CASE r[e] = new
        BY <2>2, <2>3, <2>11, <3>1, <4>1, <4>2
      <4>3. CASE \E d \in 1 .. Len(sentences[p]) : r[e] = sentences[p][d]
        BY <2>11, <3>1, <4>1, <4>3 DEF Nearby
      <4> QED BY <2>8, <2>11, <4>1, <4>2, <4>3
    <3>2. CASE q # p
      BY <2>9, <2>11, <3>2 DEF Nearby
    <3> QED BY <3>1, <3>2
  <2>12. Nearby /\ Decent' => Nearby'
    BY <1>1, <2>11 DEF Nearby, Present
  <2> QED BY <2>10, <2>12
<1> QED BY <1>2, <1>3

\* What leaves the tables when o leaves its environment
Unknown(t, o) ==
  \A p \in Objects \ {o} :
    (p \in living /\ super[o] \in Objects /\ p \in Range(contains[super[o]]) \cup {super[o]})
      => \A e \in 1 .. Len(t[p]) : t[p][e] # Empty => t[p][e].function # o

Shrunk(t) ==
  /\ t \in [Objects -> Seq(Sentence)]
  /\ \A p \in Objects : IsTable(t[p]) /\ Among(t[p], sentences[p])

LEMMA RemovedForFewer ==
  ASSUME Tabled, NEW p \in Objects, NEW o
  PROVE  /\ RemovedFor(sentences[p], o) \in Seq(Sentence) /\ IsTable(RemovedFor(sentences[p], o))
         /\ Among(RemovedFor(sentences[p], o), sentences[p])
         /\ \A e \in 1 .. Len(RemovedFor(sentences[p], o)) :
              RemovedFor(sentences[p], o)[e] # Empty => RemovedFor(sentences[p], o)[e].function # o
<1>1. Remains(RemovedFor(sentences[p], o), sentences[p], {o})
  BY TabledIs, RemovedForRemains
<1> QED BY <1>1 DEF Remains, IsTable

LEMMA LeftByOthers ==
  ASSUME Tabled, NEW o \in Objects
  PROVE  Shrunk(RemovedFromOthers(o)) /\ Unknown(RemovedFromOthers(o), o)
         /\ RemovedFromOthers(o)[o] = Null
<1> DEFINE t == RemovedFromOthers(o)
           near == IF super[o] = NoObject THEN {} ELSE Range(contains[super[o]]) \cup {super[o]}
           r(p) == IF p = o THEN Null
                   ELSE IF p \in near /\ p \in living THEN RemovedFor(sentences[p], o)
                   ELSE sentences[p]
<1>1. t = [p \in Objects |-> r(p)]
  BY DEF RemovedFromOthers
<1>2. ASSUME NEW p \in Objects
      PROVE  /\ r(p) \in Seq(Sentence) /\ IsTable(r(p)) /\ Among(r(p), sentences[p])
             /\ p # o /\ p \in living /\ p \in near =>
                  \A e \in 1 .. Len(r(p)) : r(p)[e] # Empty => r(p)[e].function # o
  BY NullTable, TabledIs, RemovedForFewer DEF IsTable
<1>3. r(o) = Null
  OBVIOUS
<1>4. \A p : super[o] \in Objects /\ p \in Range(contains[super[o]]) \cup {super[o]} => p \in near
  BY ObjectsAssumption
<1> HIDE DEF r, near, t
<1> QED BY <1>1, <1>2, <1>3, <1>4 DEF Shrunk, Unknown, t

LEMMA LeftBothWays ==
  ASSUME Tabled, TreeTypes, NEW o \in Objects, super[o] \in Objects
  PROVE  /\ Shrunk(RemovedBothWays(o)) /\ Unknown(RemovedBothWays(o), o)
         /\ WellFormed => \A e \in 1 .. Len(RemovedBothWays(o)[o]) :
              LET x == RemovedBothWays(o)[o][e]
              IN x # Empty => /\ x.function # super[o]
                              /\ o \in living =>
                                   x.function \notin Range(contains[super[o]]) \ {o}
<1> DEFINE t == RemovedBothWays(o)
           inv == contains[super[o]]
           near == Range(inv) \cup {super[o]}
           rest == IF o \in living THEN Without(inv, o) ELSE <<>>
           own == <<super[o]>> \o rest
           r(p) == IF p = o THEN RemovedForAll(sentences[o], own)
                   ELSE IF p \in near /\ p \in living THEN RemovedFor(sentences[p], o)
                   ELSE sentences[p]
<1>1. t = [p \in Objects |-> r(p)]
  BY DEF RemovedBothWays
<1>2. inv \in Seq(Objects) /\ Without(inv, o) \in Seq(Objects)
  BY TakenOut DEF TreeTypes
<1>3. rest \in Seq(Objects)
  BY <1>2
<1> HIDE DEF rest
<1>4. /\ own \in Seq(Objects) /\ Len(own) = Len(rest) + 1 /\ Len(rest) \in Nat
      /\ own[1] = super[o] /\ \A i \in 1 .. Len(rest) : own[i + 1] = rest[i]
  <2>1. <<super[o]>> \in Seq(Objects) /\ Len(<<super[o]>>) = 1 /\ <<super[o]>>[1] = super[o]
    OBVIOUS
  <2> QED BY <1>3, <2>1, ConcatProperties
<1> HIDE DEF own
<1> DEFINE gone == {own[m] : m \in 1 .. Len(own)}
<1>5. Remains(r(o), sentences[o], gone)
  BY <1>4, TabledIs, RemovedForAllRemains
<1>6. super[o] \in gone /\ Range(rest) \subseteq gone
  <2>1. 1 \in 1 .. Len(own)
    BY <1>4
  <2>2. \A i \in 1 .. Len(rest) : i + 1 \in 1 .. Len(own)
    BY <1>4
  <2>3. \A x \in Range(rest) : \E i \in 1 .. Len(rest) : x = rest[i]
    BY <1>3 DEF Range
  <2> QED BY <1>4, <2>1, <2>2, <2>3
<1>7. ASSUME WellFormed, o \in living PROVE Range(inv) \ {o} \subseteq gone
  <2>1. IsInjective(inv)
    BY <1>7 DEF WellFormed
  <2>2. Range(rest) = Range(inv) \ {o}
    BY <1>2, <1>7, <2>1, TakenOut DEF rest
  <2> QED BY <1>6, <2>2
<1> HIDE DEF gone
<1>8. ASSUME NEW p \in Objects
      PROVE  /\ r(p) \in Seq(Sentence) /\ IsTable(r(p)) /\ Among(r(p), sentences[p])
             /\ p # o /\ p \in living /\ p \in near =>
                  \A e \in 1 .. Len(r(p)) : r(p)[e] # Empty => r(p)[e].function # o
  <2>1. CASE p = o
    BY <1>5, <2>1 DEF Remains, IsTable
  <2>2. CASE p # o
    BY <2>2, TabledIs, RemovedForFewer
  <2> QED BY <2>1, <2>2
<1>9. ASSUME WellFormed, NEW e \in 1 .. Len(t[o]), t[o][e] # Empty
      PROVE  t[o][e].function # super[o] /\ (o \in living => t[o][e].function \notin Range(inv) \ {o})
  <2>1. t[o] = r(o)
    BY <1>1
  <2> HIDE DEF r, t
  <2>2. t[o][e].function \notin gone
    BY <1>5, <1>9, <2>1 DEF Remains
  <2> QED BY <1>6, <1>7, <1>9, <2>2
<1>10. Shrunk(t) /\ Unknown(t, o)
  <2> HIDE DEF r, t
  <2> QED BY <1>1, <1>8 DEF Shrunk, Unknown
<1> QED BY <1>9, <1>10

LEMMA ShrunkTabled ==
  ASSUME Tabled, Shrunk(sentences'), living' \subseteq Objects
  PROVE  Tabled'
BY DEF Tabled, Shrunk, IsTable

\* move_object takes back the commands between an object and what it leaves.
LEMMA LinkTables ==
  ASSUME Typed, Tabled, NEW s, NEW o \in Objects, NEW d \in Objects, NEW save,
         Link(s, o, d, save), living' = living
  PROVE  Tabled' /\ (Nearby /\ WellFormed => Nearby')
<1> TreeTypes
  BY DEF Typed
<1>1. CASE LinkFails(o)
  <2>1. UNCHANGED <<super, sentences>>
    BY <1>1 DEF Link, LinkFails
  <2>2. Takes
    BY <2>1, NothingTaken DEF Tabled
  <2> QED BY <2>2, TakesKeeps
<1>2. CASE ~ LinkFails(o)
  <2>1. /\ super' = [super EXCEPT ![o] = d]
        /\ sentences' = IF super[o] = NoObject THEN sentences ELSE RemovedBothWays(o)
    BY <1>2 DEF Link, LinkFails
  <2>2. super[o] = NoObject \/ super[o] \in Objects
    BY DEF TreeTypes
  <2>3. /\ Shrunk(sentences') /\ Unknown(sentences', o)
        /\ super[o] \in Objects /\ WellFormed => \A e \in 1 .. Len(sentences'[o]) :
              LET x == sentences'[o][e]
              IN x # Empty => /\ x.function # super[o]
                              /\ o \in living =>
                                   x.function \notin Range(contains[super[o]]) \ {o}
    <3>1. CASE super[o] = NoObject
      BY <2>1, <3>1, TabledIs, ObjectsAssumption DEF Shrunk, Unknown, Tabled
    <3>2. CASE super[o] \in Objects
      BY <2>1, <3>2, LeftBothWays, ObjectsAssumption
    <3> QED BY <2>2, <3>1, <3>2
  <2>4. Tabled'
    BY <2>3, ShrunkTabled DEF Tabled
  <2>5. ASSUME Nearby, WellFormed, NEW p \in Objects, NEW e \in 1 .. Len(sentences'[p]),
               sentences'[p][e] # Empty
        PROVE  p \in living /\ (Present(sentences[p][e].function, p))'
    <3> DEFINE f == sentences'[p][e].function
    <3>1. PICK c \in 1 .. Len(sentences[p]) : sentences'[p][e] = sentences[p][c]
      BY <2>3, <2>5 DEF Shrunk, Among
    <3>2. p \in living /\ Present(f, p)
      BY <2>5, <3>1 DEF Nearby
    <3>3. f \in Objects
      BY <2>4, <2>5, TableIs DEF Tabled
    <3> HIDE DEF f
    <3>4. /\ \A q \in Objects : super'[q] = IF q = o THEN d ELSE super[q]
          /\ \A q \in Objects : super[q] \in Objects =>
               Range(contains[super[q]]) = {x \in Objects : super[x] = super[q]}
          /\ NoObject \notin Objects
      BY <2>1, <2>5, ObjectsAssumption DEF TreeTypes, WellFormed
    <3>5. CASE p = o
      <4>1. super[o] \in Objects => f # super[o] /\ f \notin Range(contains[super[o]]) \ {o}
        BY <2>3, <2>5, <3>2, <3>5 DEF f
      <4>2. super[f] = super[o] /\ super[o] \in Objects => f = o
        BY <3>3, <3>4, <4>1
      <4>3. f = o \/ super'[f] = o
        BY <2>2, <3>2, <3>3, <3>4, <3>5, <4>1, <4>2 DEF Present
      <4> QED BY <3>2, <3>5, <4>3 DEF Present, f
    <3>6. CASE p # o /\ f = o
      <4>1. ~ (super[o] \in Objects /\ p \in Range(contains[super[o]]) \cup {super[o]})
        BY <2>3, <2>5, <3>2, <3>6 DEF Unknown, f
      <4>2. super[p] = o
        BY <2>2, <3>2, <3>4, <3>6, <4>1 DEF Present
      <4>3. super'[p] = f
        BY <3>4, <3>6, <4>2
      <4> QED BY <3>2, <4>3 DEF Present, f
    <3>7. CASE p # o /\ f # o
      <4>1. super'[p] = super[p] /\ super'[f] = super[f]
        BY <3>3, <3>4, <3>7
      <4>2. f = p \/ super'[f] = p \/ super'[p] = f \/ (super'[f] = super'[p] /\ super'[f] # NoObject)
        BY <3>2, <4>1 DEF Present
      <4> QED BY <3>2, <4>2 DEF Present, f
    <3> QED BY <3>5, <3>6, <3>7
  <2> QED BY <2>4, <2>5 DEF Nearby
<1> QED BY <1>1, <1>2

LEMMA MoveTables ==
  ASSUME Typed, Tabled, NEW o \in Objects, NEW d \in Objects, MoveObject(o, d)
  PROVE  Tabled' /\ (Nearby /\ WellFormed => Nearby')
<1>1. living' = living
  BY DEF MoveObject
<1>2. CASE UNCHANGED <<super, sentences>>
  <2>1. Takes
    BY <1>1, <1>2, NothingTaken DEF Tabled
  <2> QED BY <2>1, TakesKeeps
<1>3. CASE Link(stack, o, d, command_giver)
  BY <1>1, <1>3, LinkTables
<1> QED BY <1>2, <1>3 DEF MoveObject

LEMMA MoveOnTables ==
  ASSUME Typed, Tabled, MoveOn
  PROVE  Tabled' /\ (Nearby /\ WellFormed => Nearby')
<1>1. living' = living /\ Waits("exit")
  BY DEF MoveOn
<1>2. CASE UNCHANGED <<super, sentences>>
  <2>1. Takes
    BY <1>1, <1>2, NothingTaken DEF Tabled
  <2> QED BY <2>1, TakesKeeps
<1>3. CASE Link(Below, Top.item, Top.dest, Top.save)
  <2>1. Top.item \in Objects /\ Top.dest \in Objects
    BY <1>1, ExitFrame
  <2> QED BY <1>1, <1>3, <2>1, LinkTables
<1> QED BY <1>2, <1>3 DEF MoveOn

LEMMA DestructTables ==
  ASSUME Typed, Tabled, DestructDone
  PROVE  Tabled' /\ (Nearby /\ WellFormed => Nearby')
<1> DEFINE o == Top.ob
<1>1. /\ o \in Objects /\ TreeTypes
      /\ contains[o] = Null
  <2>1. Waits("destruct")
    BY DEF DestructDone
  <2>2. Top \in DestructFrames
    BY <2>1, DestructionFrame
  <2> QED BY <2>2 DEF DestructFrames, DestructDone, Typed
<1>2. CASE life[o] = "destructed"
  <2>1. UNCHANGED <<super, sentences, living>>
    BY <1>2 DEF DestructDone, tree
  <2>2. Takes
    BY <2>1, NothingTaken DEF Tabled
  <2> QED BY <2>2, TakesKeeps
<1>3. CASE life[o] # "destructed"
  <2>1. /\ super' = [super EXCEPT ![o] = NoObject]
        /\ sentences' = RemovedFromOthers(o) /\ living' = living \ {o}
    BY <1>3 DEF DestructDone
  <2> HIDE DEF o
  <2>2. Shrunk(sentences') /\ Unknown(sentences', o) /\ sentences'[o] = Null
    BY <1>1, <2>1, LeftByOthers
  <2>3. Tabled'
    BY <2>1, <2>2, ShrunkTabled DEF Tabled
  <2>4. ASSUME Nearby, WellFormed, NEW p \in Objects, NEW e \in 1 .. Len(sentences'[p]),
               sentences'[p][e] # Empty
        PROVE  p \in living' /\ (Present(sentences[p][e].function, p))'
    <3> DEFINE f == sentences'[p][e].function
    <3>1. PICK c \in 1 .. Len(sentences[p]) : sentences'[p][e] = sentences[p][c]
      BY <2>2, <2>4 DEF Shrunk, Among
    <3>2. p \in living /\ Present(f, p)
      BY <2>4, <3>1 DEF Nearby
    <3>3. f \in Objects
      BY <2>3, <2>4, TableIs DEF Tabled
    <3>4. p # o
      BY <2>2, <2>4, NullTable
    <3>5. p \in living /\ super[o] \in Objects /\ p \in Range(contains[super[o]]) \cup {super[o]}
            => f # o
      BY <1>1, <2>2, <2>4, <3>4 DEF Unknown
    <3> HIDE DEF f
    <3>6. /\ \A q \in Objects : super'[q] = IF q = o THEN NoObject ELSE super[q]
          /\ \A q \in Objects : super[q] \in Objects =>
               Range(contains[super[q]]) = {x \in Objects : super[x] = super[q]}
          /\ Range(contains[o]) = {x \in Objects : super[x] = o}
          /\ NoObject \notin Objects /\ (super[o] = NoObject \/ super[o] \in Objects)
      BY <1>1, <2>1, <2>4, ObjectsAssumption DEF TreeTypes, WellFormed
    <3>7. super[p] # o
      <4>1. Range(contains[o]) = {}
        BY <1>1 DEF Null, Range
      <4> QED BY <3>6, <4>1
    <3>8. f # o
      BY <1>1, <3>2, <3>4, <3>5, <3>6, <3>7 DEF Present
    <3>9. super'[p] = super[p] /\ super'[f] = super[f]
      BY <3>3, <3>4, <3>6, <3>8
    <3>10. f = p \/ super'[f] = p \/ super'[p] = f \/ (super'[f] = super'[p] /\ super'[f] # NoObject)
      BY <3>2, <3>9 DEF Present
    <3> QED BY <2>1, <3>2, <3>4, <3>10 DEF Present, f
  <2> QED BY <2>3, <2>4 DEF Nearby
<1> QED BY <1>2, <1>3

\* The steps that leave tables and environments alone
LEMMA OthersTakeNothing ==
  ASSUME Tabled, UNCHANGED <<super, living, sentences>>
  PROVE  Tabled' /\ (Nearby => Nearby')
<1>1. Takes
  BY NothingTaken DEF Tabled
<1> QED BY <1>1, TakesKeeps

LEMMA TableStep ==
  ASSUME Typed, Tabled, [Next]_vars
  PROVE  Tabled' /\ (Nearby /\ WellFormed /\ Decent' => Nearby')
<1> DEFINE Goal == Tabled' /\ (Nearby /\ WellFormed /\ Decent' => Nearby')
<1>1. CASE UNCHANGED <<super, living, sentences>>
  BY <1>1, OthersTakeNothing
<1>2. CASE Takes
  BY <1>2, TakesKeeps
<1>3. CASE Lpc
  <2>1. ASSUME NEW o \in Objects, EnableCommands(o) \/ DisableCommands(o) PROVE Goal
    BY <2>1, <1>2, CommandsTake
  <2>2. ASSUME NEW o, Catch(o) PROVE UNCHANGED <<super, living, sentences>>
    BY <2>2 DEF Catch, tree
  <2>3. ASSUME NEW o \in Objects, NEW pri \in Priorities, AddAction(o, pri) PROVE Goal
    BY <2>3, AddActionTables
  <2>4. ASSUME NEW o, NEW p, CallOther(o, p) PROVE UNCHANGED <<super, living, sentences>>
    BY <2>4 DEF CallOther, tree
  <2>5. ASSUME NEW o \in Objects, NEW p \in Objects, QueryActions(o, p) PROVE Goal
    BY <2>5, <1>2, QueryTakes
  <2>6. ASSUME NEW o \in Objects, NEW p \in Objects, MoveObject(o, p) PROVE Goal
    BY <2>6, MoveTables
  <2>7. ASSUME NEW o, NEW p, SetThisPlayer(o, p) \/ Destruct(o, p) \/ Command(o, p) \/ Clone(o, p)
        PROVE  UNCHANGED <<super, living, sentences>>
    BY <2>7 DEF SetThisPlayer, Destruct, Command, Clone, tree
  <2>8. CASE Return \/ Throw
    BY <1>1, <2>8 DEF Return, Throw, tree
  <2> QED BY <1>1, <1>3, <2>1, <2>2, <2>3, <2>4, <2>5, <2>6, <2>7, <2>8 DEF Lpc
<1>4. CASE Driver
  <2>1. CASE InitDestDone \/ InitLoop \/ InitItemDone \/ InitOtherDone \/ InitLastDone
    BY <1>1, <2>1 DEF InitDestDone, InitLoop, InitItemDone, InitOtherDone, InitLastDone, tree
  <2>2. CASE MoveOn \/ DestructDone
    BY <2>2, MoveOnTables, DestructTables
  <2>3. CASE PermitDone \/ AskMaster \/ MasterDone
    BY <1>1, <2>3 DEF PermitDone, AskMaster, MasterDone, tree
  <2>4. ASSUME NEW o, NEW e, ParseMatch(o, e) \/ ParseEnd PROVE Goal
    <3>1. Waits("parse")
      BY <2>4 DEF ParseMatch, ParseEnd
    <3>2. Top.ob \in Objects
      BY <3>1, ParserFrame DEF ParseFrames
    <3> QED BY <1>2, <2>4, <3>2, ParserTakes
  <2>5. CASE ForceDone \/ ParseZero \/ ParseTrue
    BY <1>1, <2>5 DEF ForceDone, ParseZero, ParseTrue, tree
  <2> QED BY <1>4, <2>1, <2>2, <2>3, <2>4, <2>5 DEF Driver
<1>5. ASSUME NEW o \in Objects, Turn(o) \/ Forget(o) PROVE UNCHANGED <<super, living, sentences>>
  BY <1>5 DEF Turn, Forget, tree
<1>6. UNCHANGED vars => UNCHANGED <<super, living, sentences>>
  BY DEF vars, tree
<1> QED BY <1>1, <1>3, <1>4, <1>5, <1>6 DEF Next, Idle

-----------------------------------------------------------------------------
(* player_parser while the functions of verbs run                          *)

Parsing(s) == {i \in 1 .. Len(s) : s[i].kind = "parse"}

\* Another command, given by the function of a verb, runs above slot i.
Later(s, i) == \E j \in Parsing(s) : i < j

\* A move or a destruction that was begun above slot i may end any time.
Threatened(s, i) ==
  \/ s[i].dangling
  \/ \E k \in 1 .. Len(s) : i < k /\ s[k].kind \in {"exit", "destruct"}

\* The slot of a walk through a table t
SlotSound(s, t, i) ==
  /\ i < Len(s) => s[i + 1].kind = "call"
  /\ ~ s[i].dangling =>
       /\ s[i].e \in 1 .. Len(t[s[i].ob]) + 1
       /\ i < Len(s) \/ s[i].answer # "none" => s[i].e <= Len(t[s[i].ob])

\* A table that is or may be given up is shown by the flag cm, or will be by
\* the command that runs above: error() cannot end that command alone.
SlotWatched(s, cm, i) ==
  /\ Threatened(s, i) => cm \/ Later(s, i)
  /\ \A j, c \in 1 .. Len(s) :
       i <= c /\ c <= j /\ s[j].kind \in {"parse", "force"} => s[c].kind # "catch"
  /\ i = Len(s) /\ s[i].answer = "none" => ~ s[i].dangling

\* w: LPC code has not taken the liberties that make the flag useless.
Walkable(s, t, cm, w) ==
  /\ s \in Seq(Frames)
  /\ \A i \in Parsing(s) : SlotSound(s, t, i) /\ (w => SlotWatched(s, cm, i))

\* The last frame does not read a table.
Clear(s) == Len(s) \notin Parsing(s)

Warned(s, cm, w) == w => \A i \in Parsing(s) : cm \/ Later(s, i)

LEMMA FlagRaised ==
  ASSUME NEW s, NEW t, NEW cm, NEW w, Walkable(s, t, cm, w)
  PROVE  Walkable(s, t, TRUE, w) /\ Warned(s, TRUE, w)
BY DEF Walkable, SlotWatched, Warned

LEMMA SameLengths ==
  ASSUME NEW s, NEW t, NEW cm, NEW w, Walkable(s, t, cm, w),
         NEW r, \A p \in Objects : Len(r[p]) = Len(t[p])
  PROVE  Walkable(s, r, cm, w)
<1>1. \A i \in Parsing(s) : s[i].ob \in Objects
  <2>1. ASSUME NEW i \in Parsing(s) PROVE s[i].ob \in Objects
    <3>1. s[i] \in Frames /\ s[i].kind = "parse"
      BY LenProperties, ElementOfSeq DEF Walkable, Parsing
    <3> QED BY <3>1, FramesByKind DEF ParseFrames
  <2> QED BY <2>1
<1> QED BY <1>1 DEF Walkable, SlotSound

\* A frame that is no walk of the parser is put on top.
LEMMA PushWalkable ==
  ASSUME NEW s, NEW t, NEW cm, NEW w, Walkable(s, t, cm, w), Clear(s),
         NEW f \in Frames, f.kind \notin {"parse", "force"},
         f.kind \in {"exit", "destruct"} => Warned(s, cm, w)
  PROVE  /\ Walkable(Append(s, f), t, cm, w) /\ Clear(Append(s, f))
         /\ Warned(s, cm, w) => Warned(Append(s, f), cm, w)
<1> DEFINE r == Append(s, f)
           n == Len(s)
<1>1. /\ r \in Seq(Frames) /\ Len(r) = n + 1 /\ n \in Nat
      /\ r[n + 1] = f /\ \A i \in 1 .. n : r[i] = s[i]
  BY Pushed DEF Walkable
<1> HIDE DEF r
<1>2. Parsing(r) = Parsing(s)
  BY <1>1 DEF Parsing
<1>3. ASSUME NEW i \in Parsing(s)
      PROVE  /\ i \in 1 .. n /\ i < n /\ r[i] = s[i] /\ i # Len(r) /\ r[i + 1] = s[i + 1]
             /\ Later(r, i) <=> Later(s, i)
  BY <1>1, <1>2 DEF Parsing, Clear, Later
<1>4. ASSUME NEW i \in Parsing(s) PROVE SlotSound(r, t, i)
  BY <1>1, <1>3, <1>4 DEF Walkable, SlotSound
<1>5. ASSUME w, NEW i \in Parsing(s) PROVE SlotWatched(r, cm, i)
  <2>1. SlotWatched(s, cm, i)
    BY <1>5 DEF Walkable
  <2>2. Threatened(r, i) => cm \/ Later(r, i)
    <3>1. CASE r[i].dangling
      BY <1>3, <1>5, <2>1, <3>1 DEF SlotWatched, Threatened
    <3>2. ASSUME NEW k \in 1 .. Len(r), i < k, r[k].kind \in {"exit", "destruct"}
          PROVE  cm \/ Later(r, i)
      <4>1. CASE k = n + 1
        BY <1>1, <1>3, <1>5, <3>2, <4>1 DEF Warned
      <4>2. CASE k # n + 1
        <5>1. k \in 1 .. n /\ r[k] = s[k]
          BY <1>1, <4>2
        <5> QED BY <1>3, <1>5, <2>1, <3>2, <5>1 DEF SlotWatched, Threatened
      <4> QED BY <4>1, <4>2
    <3> QED BY <3>1, <3>2 DEF Threatened
  <2>3. ASSUME NEW j \in 1 .. Len(r), NEW c \in 1 .. Len(r), i <= c, c <= j,
               r[j].kind \in {"parse", "force"}
        PROVE  r[c].kind # "catch"
    <3>1. j \in 1 .. n /\ c \in 1 .. n
      BY <1>1, <2>3
    <3> QED BY <1>1, <2>1, <2>3, <3>1 DEF SlotWatched
  <2> QED BY <1>3, <1>5, <2>2, <2>3 DEF SlotWatched
<1>6. Clear(r)
  BY <1>1, <1>2 DEF Clear, Parsing
<1>7. Warned(s, cm, w) => Warned(r, cm, w)
  BY <1>2, <1>3 DEF Warned
<1> QED BY <1>1, <1>2, <1>4, <1>5, <1>6, <1>7 DEF Walkable, r

\* The top frame goes.
LEMMA PopWalkable ==
  ASSUME NEW s, NEW t, NEW cm, NEW w, Walkable(s, t, cm, w), s # <<>>, s[Len(s)].kind # "call"
  PROVE  /\ Clear(Front(s)) /\ Front(s) \in Seq(Frames)
         /\ s[Len(s)].kind # "parse" \/ cm => Walkable(Front(s), t, cm, w)
         /\ s[Len(s)].kind \in {"exit", "destruct"} \/ cm => Warned(Front(s), cm, w)
<1> DEFINE r == Front(s)
           n == Len(s)
<1>1. /\ r \in Seq(Frames) /\ Len(r) = n - 1 /\ n \in Nat \ {0}
      /\ \A i \in 1 .. n - 1 : r[i] = s[i]
  BY KeptPop DEF Walkable
<1> HIDE DEF r
<1>2. Clear(r)
  <2>1. ASSUME n - 1 \in 1 .. n - 1, s[n - 1].kind = "parse" PROVE FALSE
    <3>1. n - 1 \in Parsing(s) /\ n - 1 < n /\ n - 1 + 1 = n
      BY <1>1, <2>1 DEF Parsing
    <3> QED BY <3>1 DEF Walkable, SlotSound
  <2> QED BY <1>1, <2>1 DEF Clear, Parsing
<1>3. ASSUME NEW i \in Parsing(r)
      PROVE  /\ i \in Parsing(s) /\ i \in 1 .. n - 1 /\ i < n - 1 /\ r[i] = s[i] /\ r[i + 1] = s[i + 1]
             /\ s[n].kind # "parse" => (Later(r, i) <=> Later(s, i))
  <2>1. i \in Parsing(s) /\ i \in 1 .. n - 1 /\ i < n - 1 /\ r[i] = s[i] /\ r[i + 1] = s[i + 1]
    BY <1>1, <1>2 DEF Parsing, Clear
  <2>2. s[n].kind # "parse" => Parsing(r) = Parsing(s)
    BY <1>1 DEF Parsing
  <2> QED BY <2>1, <2>2 DEF Later
<1>4. ASSUME NEW i \in Parsing(r) PROVE SlotSound(r, t, i)
  BY <1>1, <1>3, <1>4 DEF Walkable, SlotSound
<1>5. ASSUME w, NEW i \in Parsing(r), s[n].kind # "parse" \/ cm PROVE SlotWatched(r, cm, i)
  <2>1. SlotWatched(s, cm, i)
    BY <1>3, <1>5 DEF Walkable
  <2>2. Threatened(r, i) => Threatened(s, i)
    BY <1>1, <1>3, <1>5 DEF Threatened
  <2>3. Threatened(r, i) => cm \/ Later(r, i)
    BY <1>3, <1>5, <2>1, <2>2 DEF SlotWatched
  <2>4. ASSUME NEW j \in 1 .. Len(r), NEW c \in 1 .. Len(r), i <= c, c <= j,
               r[j].kind \in {"parse", "force"}
        PROVE  r[c].kind # "catch"
    <3>1. j \in 1 .. n /\ c \in 1 .. n /\ r[j] = s[j] /\ r[c] = s[c]
      BY <1>1, <2>4
    <3> QED BY <2>1, <2>4, <3>1 DEF SlotWatched
  <2> QED BY <1>1, <1>3, <1>5, <2>3, <2>4 DEF SlotWatched
<1>6. ASSUME w, NEW i \in Parsing(r), s[n].kind \in {"exit", "destruct"} PROVE cm \/ Later(r, i)
  <2>1. SlotWatched(s, cm, i)
    BY <1>3, <1>6 DEF Walkable
  <2>2. Threatened(s, i)
    BY <1>1, <1>3, <1>6 DEF Threatened
  <2> QED BY <1>3, <1>6, <2>1, <2>2 DEF SlotWatched
<1> QED BY <1>1, <1>2, <1>4, <1>5, <1>6 DEF Walkable, Warned, r

\* No walk of the parser is below a catch.
Uncaught(s, w) == w => \A i \in Parsing(s), c \in 1 .. Len(s) : i <= c => s[c].kind # "catch"

\* A command begins, or the object is asked whether it does.
LEMMA PushCommand ==
  ASSUME NEW s, NEW t, NEW cm, NEW w, Walkable(s, t, cm, w), Clear(s), Uncaught(s, w),
         NEW f \in Frames,
         \/ f.kind = "force"
         \/ /\ f.kind = "parse" /\ f.e = 1 /\ f.answer = "none" /\ f.dangling = FALSE
            /\ Len(t[f.ob]) \in Nat \ {0}
  PROVE  Walkable(Append(s, f), t, cm, w) /\ (f.kind = "force" => Clear(Append(s, f)))
<1> DEFINE r == Append(s, f)
           n == Len(s)
<1>1. /\ r \in Seq(Frames) /\ Len(r) = n + 1 /\ n \in Nat
      /\ r[n + 1] = f /\ \A i \in 1 .. n : r[i] = s[i]
  BY Pushed DEF Walkable
<1> HIDE DEF r
<1>2. /\ Parsing(s) \subseteq Parsing(r)
      /\ \A i \in Parsing(r) : i \in Parsing(s) \/ (i = n + 1 /\ f.kind = "parse")
  BY <1>1 DEF Parsing
<1>3. ASSUME NEW i \in Parsing(s)
      PROVE  /\ i \in 1 .. n /\ i < n /\ r[i] = s[i] /\ i # Len(r) /\ r[i + 1] = s[i + 1]
             /\ Later(s, i) => Later(r, i)
  BY <1>1, <1>2 DEF Parsing, Clear, Later
<1>4. ASSUME NEW i \in Parsing(s) PROVE SlotSound(r, t, i)
  BY <1>1, <1>3, <1>4 DEF Walkable, SlotSound
<1>5. ASSUME w, NEW i \in Parsing(s) PROVE SlotWatched(r, cm, i)
  <2>1. SlotWatched(s, cm, i)
    BY <1>5 DEF Walkable
  <2>2. Threatened(r, i) => cm \/ Later(r, i)
    <3>1. CASE r[i].dangling
      BY <1>3, <1>5, <2>1, <3>1 DEF SlotWatched, Threatened
    <3>2. ASSUME NEW k \in 1 .. Len(r), i < k, r[k].kind \in {"exit", "destruct"}
          PROVE  cm \/ Later(r, i)
      <4>1. k \in 1 .. n /\ r[k] = s[k]
        BY <1>1, <3>2
      <4> QED BY <1>3, <1>5, <2>1, <3>2, <4>1 DEF SlotWatched, Threatened
    <3> QED BY <3>1, <3>2 DEF Threatened
  <2>3. ASSUME NEW j \in 1 .. Len(r), NEW c \in 1 .. Len(r), i <= c, c <= j,
               r[j].kind \in {"parse", "force"}
        PROVE  r[c].kind # "catch"
    <3>1. CASE c = n + 1
      BY <1>1, <3>1
    <3>2. CASE c # n + 1
      <4>1. c \in 1 .. n /\ r[c] = s[c]
        BY <1>1, <3>2
      <4> QED BY <1>5, <2>3, <4>1 DEF Uncaught
    <3> QED BY <3>1, <3>2
  <2> QED BY <1>3, <1>5, <2>2, <2>3 DEF SlotWatched
<1>6. ASSUME f.kind = "parse" PROVE SlotSound(r, t, n + 1) /\ SlotWatched(r, cm, n + 1)
  <2>1. f.e \in 1 .. Len(t[f.ob]) + 1 /\ f.answer = "none" /\ ~ f.dangling
    BY <1>6
  <2>2. SlotSound(r, t, n + 1)
    BY <1>1, <2>1 DEF SlotSound
  <2>3. ~ Threatened(r, n + 1)
    BY <1>1, <2>1 DEF Threatened
  <2>4. \A c \in 1 .. Len(r) : n + 1 <= c => r[c].kind # "catch"
    BY <1>1, <1>6
  <2> QED BY <1>1, <2>1, <2>2, <2>3, <2>4 DEF SlotWatched
<1>7. f.kind = "force" => Clear(r)
  BY <1>1 DEF Clear, Parsing
<1> QED BY <1>1, <1>2, <1>4, <1>5, <1>6, <1>7 DEF Walkable, r

\* The object has been asked.
LEMMA ForceUncaught ==
  ASSUME NEW s, NEW t, NEW cm, NEW w, Walkable(s, t, cm, w), s # <<>>, s[Len(s)].kind = "force"
  PROVE  Uncaught(Front(s), w)
<1> DEFINE r == Front(s)
           n == Len(s)
<1>1. /\ r \in Seq(Frames) /\ Len(r) = n - 1 /\ n \in Nat \ {0}
      /\ \A i \in 1 .. n - 1 : r[i] = s[i]
  BY KeptPop DEF Walkable
<1> HIDE DEF r
<1>2. ASSUME w, NEW i \in Parsing(r), NEW c \in 1 .. Len(r), i <= c PROVE r[c].kind # "catch"
  <2>1. i \in Parsing(s) /\ c \in 1 .. n /\ n \in 1 .. n /\ c <= n /\ r[c] = s[c]
    BY <1>1 DEF Parsing
  <2> QED BY <1>2, <2>1 DEF Walkable, SlotWatched
<1> QED BY <1>2 DEF Uncaught, r

\* A walk through a table calls the function of a verb, and lowers the flag.
LEMMA PushVerb ==
  ASSUME NEW s, NEW t, NEW cm, NEW w, Walkable(s, t, cm, w), s # <<>>,
         s[Len(s)].kind = "parse", ~ s[Len(s)].dangling,
         NEW p \in ParseFrames, p.ob = s[Len(s)].ob, ~ p.dangling, p.e \in 1 .. Len(t[p.ob]),
         NEW f \in Frames, f.kind = "call"
  PROVE  Walkable(Append(Append(Front(s), p), f), t, FALSE, w)
<1> DEFINE q == Append(Front(s), p)
           r == Append(q, f)
           n == Len(s)
<1>1. /\ Front(s) \in Seq(Frames) /\ Len(Front(s)) = n - 1 /\ n \in Nat \ {0}
      /\ \A i \in 1 .. n - 1 : Front(s)[i] = s[i]
  BY KeptPop DEF Walkable
<1>2. p \in Frames /\ p.kind = "parse"
  BY DEF Frames, ParseFrames
<1>3. q \in Seq(Frames) /\ Len(q) = n /\ q[n] = p /\ \A i \in 1 .. n - 1 : q[i] = s[i]
  BY <1>1, <1>2, Pushed
<1> HIDE DEF q
<1>4. /\ r \in Seq(Frames) /\ Len(r) = n + 1 /\ r[n + 1] = f /\ r[n] = p
      /\ \A i \in 1 .. n - 1 : r[i] = s[i]
  BY <1>1, <1>3, Pushed
<1> HIDE DEF r
<1>5. \A i \in Parsing(r) : i \in Parsing(s) /\ (i # n => i \in 1 .. n - 1)
  BY <1>1, <1>4 DEF Parsing
<1>6. n \in Parsing(r)
  BY <1>1, <1>2, <1>4 DEF Parsing
<1>7. SlotSound(r, t, n) /\ SlotWatched(r, FALSE, n)
  <2>1. SlotSound(r, t, n)
    BY <1>1, <1>4 DEF SlotSound
  <2>2. ~ Threatened(r, n)
    BY <1>1, <1>4 DEF Threatened
  <2>3. \A j, c \in 1 .. Len(r) : n <= c => c \in {n, n + 1}
    BY <1>1, <1>4
  <2>4. \A c \in {n, n + 1} : r[c].kind # "catch"
    BY <1>2, <1>4
  <2> QED BY <1>1, <1>4, <2>1, <2>2, <2>3, <2>4 DEF SlotWatched
<1>8. ASSUME NEW i \in Parsing(r), i # n PROVE SlotSound(r, t, i) /\ (w => SlotWatched(r, FALSE, i))
  <2>1. i \in Parsing(s) /\ i \in 1 .. n - 1 /\ r[i] = s[i] /\ i < n /\ i # Len(r) /\ i < Len(r)
    BY <1>1, <1>4, <1>5, <1>8
  <2>2. SlotSound(s, t, i)
    BY <2>1 DEF Walkable
  <2>3. i + 1 # n
    BY <2>1, <2>2 DEF SlotSound
  <2>4. r[i + 1] = s[i + 1]
    BY <1>1, <1>4, <2>1, <2>3
  <2>5. SlotSound(r, t, i)
    BY <1>1, <1>4, <2>1, <2>2, <2>4 DEF SlotSound
  <2>6. Later(r, i)
    BY <1>6, <2>1 DEF Later
  <2>7. ASSUME w, NEW j \in 1 .. Len(r), NEW c \in 1 .. Len(r), i <= c
        PROVE  r[c].kind # "catch"
    <3>1. CASE c \in 1 .. n - 1
      <4>1. c \in 1 .. n /\ n \in 1 .. n /\ c <= n
        BY <1>1, <3>1
      <4>2. s[c].kind # "catch"
        BY <2>1, <2>7, <4>1 DEF Walkable, SlotWatched
      <4> QED BY <1>4, <3>1, <4>2
    <3>2. CASE c \notin 1 .. n - 1
      <4>1. c = n \/ c = n + 1
        BY <1>1, <1>4, <3>2
      <4> QED BY <1>2, <1>4, <4>1
    <3> QED BY <3>1, <3>2
  <2> QED BY <2>1, <2>5, <2>6, <2>7 DEF SlotWatched
<1> QED BY <1>4, <1>7, <1>8 DEF Walkable, r, q

\* The frames stay, and walks through tables that were given up are marked; the
\* tables t become u.
Follows(r, s, u, t) ==
  /\ Len(r) = Len(s)
  /\ \A i \in 1 .. Len(s) : r[i].kind = s[i].kind
  /\ \A i \in Parsing(s) :
       r[i].dangling \/ (r[i] = s[i] /\ Len(u[s[i].ob]) = Len(t[s[i].ob]))

LEMMA SlotsKept ==
  ASSUME NEW s, NEW t, NEW cm, NEW w, Walkable(s, t, cm, w), Clear(s),
         NEW r \in Seq(Frames), NEW u, Follows(r, s, u, t),
         (\A i \in Parsing(s) : r[i] = s[i]) \/ Warned(s, cm, w)
  PROVE  /\ Walkable(r, u, cm, w) /\ Clear(r)
         /\ Warned(s, cm, w) => Warned(r, cm, w)
<1> DEFINE n == Len(s)
<1>0. /\ Len(r) = Len(s)
      /\ \A i \in 1 .. Len(s) : r[i].kind = s[i].kind
      /\ \A i \in Parsing(s) :
           r[i].dangling \/ (r[i] = s[i] /\ Len(u[s[i].ob]) = Len(t[s[i].ob]))
  BY DEF Follows
<1>1. n \in Nat /\ Parsing(r) = Parsing(s)
  BY <1>0, LenProperties DEF Parsing, Walkable
<1>2. ASSUME NEW i \in Parsing(s)
      PROVE  i \in 1 .. n /\ i < n /\ i + 1 \in 1 .. n /\ (Later(r, i) <=> Later(s, i))
  BY <1>0, <1>1 DEF Parsing, Clear, Later
<1>3. ASSUME NEW i \in Parsing(s) PROVE SlotSound(r, u, i)
  BY <1>0, <1>1, <1>2, <1>3 DEF Walkable, SlotSound
<1>4. ASSUME w, NEW i \in Parsing(s) PROVE SlotWatched(r, cm, i)
  <2>1. SlotWatched(s, cm, i)
    BY <1>4 DEF Walkable
  <2>2. ASSUME Threatened(r, i) PROVE cm \/ Later(r, i)
    <3>1. CASE Warned(s, cm, w)
      BY <1>2, <1>4, <3>1 DEF Warned
    <3>2. CASE \A k \in Parsing(s) : r[k] = s[k]
      <4>1. Threatened(s, i)
        BY <1>0, <1>4, <2>2, <3>2 DEF Threatened
      <4> QED BY <1>2, <1>4, <2>1, <4>1 DEF SlotWatched
    <3> QED BY <3>1, <3>2
  <2> QED BY <1>0, <1>2, <1>4, <2>1, <2>2 DEF SlotWatched
<1>5. Warned(s, cm, w) => Warned(r, cm, w)
  BY <1>1, <1>2 DEF Warned
<1> QED BY <1>0, <1>1, <1>3, <1>4, <1>5 DEF Walkable, Clear

LEMMA EnteredSlots ==
  ASSUME NEW s, NEW t, NEW cm, NEW w, Walkable(s, t, cm, w), Clear(s), NEW o
  PROVE  /\ Walkable(Entered(s, o), t, cm, w) /\ Clear(Entered(s, o))
         /\ Warned(s, cm, w) => Warned(Entered(s, o), cm, w)
<1> DEFINE r == Entered(s, o)
<1>1. s \in Seq(Frames) /\ DOMAIN s = 1 .. Len(s)
  BY LenProperties DEF Walkable
<1>2. r \in Seq(Frames) /\ Len(r) = Len(s) /\ \A i \in 1 .. Len(s) : r[i].kind = s[i].kind
  BY <1>1, EnteredSame
<1>3. \A i \in Parsing(s) : r[i] = s[i]
  BY <1>1 DEF Entered, Parsing
<1> HIDE DEF r
<1>4. Follows(r, s, t, t)
  BY <1>2, <1>3 DEF Follows
<1>5. Walkable(r, t, cm, w) /\ Clear(r) /\ (Warned(s, cm, w) => Warned(r, cm, w))
  BY <1>2, <1>3, <1>4, SlotsKept
<1> QED BY <1>5 DEF r

LEMMA MarkedSlots ==
  ASSUME NEW s, NEW cm, NEW w, Walkable(s, sentences, cm, w), Clear(s), Warned(s, cm, w), NEW new
  PROVE  /\ Walkable(Marked(s, new), new, cm, w) /\ Clear(Marked(s, new))
         /\ Warned(Marked(s, new), cm, w)
<1> DEFINE r == Marked(s, new)
<1>1. /\ s \in Seq(Frames) /\ DOMAIN s = 1 .. Len(s)
      /\ \A i \in 1 .. Len(s) : s[i] \in Frames
  BY LenProperties, ElementOfSeq DEF Walkable
<1>2. r \in Seq(Frames) /\ Len(r) = Len(s) /\ \A i \in 1 .. Len(s) : r[i].kind = s[i].kind
  BY <1>1, MarkedSame DEF SameTask
<1>3. ASSUME NEW i \in Parsing(s)
      PROVE  r[i].dangling \/ (r[i] = s[i] /\ Len(new[s[i].ob]) = Len(sentences[s[i].ob]))
  <2>1. i \in 1 .. Len(s) /\ s[i].kind = "parse"
    BY DEF Parsing
  <2>2. s[i] \in ParseFrames
    BY <1>1, <2>1, FramesByKind
  <2>3. r[i] = IF Len(new[s[i].ob]) # Len(sentences[s[i].ob])
               THEN [s[i] EXCEPT !.dangling = TRUE] ELSE s[i]
    BY <1>1, <2>1 DEF Marked
  <2> HIDE DEF r
  <2>4. [s[i] EXCEPT !.dangling = TRUE].dangling = TRUE
    BY <2>2 DEF ParseFrames
  <2> QED BY <2>3, <2>4
<1> HIDE DEF r
<1>4. Follows(r, s, new, sentences)
  BY <1>2, <1>3 DEF Follows
<1>5. Walkable(r, new, cm, w) /\ Clear(r) /\ (Warned(s, cm, w) => Warned(r, cm, w))
  BY <1>2, <1>4, SlotsKept
<1> QED BY <1>5 DEF r

\* error(): the catch is above no walk of the parser that could go on unwarned.
LEMMA CutWalkable ==
  ASSUME NEW s, NEW t, NEW cm, NEW w, Walkable(s, t, cm, w),
         NEW c \in 1 .. Len(s), s[c].kind = "catch"
  PROVE  Walkable(SubSeq(s, 1, c - 1), t, cm, w)
<1> DEFINE r == SubSeq(s, 1, c - 1)
           n == Len(s)
<1>1. n \in Nat /\ c - 1 \in 0 .. n /\ s \in Seq(Frames)
  BY LenProperties DEF Walkable
<1>2. r \in Seq(Frames) /\ Len(r) = c - 1 /\ \A i \in 1 .. c - 1 : r[i] = s[i]
  BY <1>1, KeptCut
<1> HIDE DEF r
<1>3. ASSUME NEW i \in Parsing(r)
      PROVE  i \in Parsing(s) /\ i \in 1 .. c - 1 /\ i < c - 1 /\ r[i] = s[i] /\ r[i + 1] = s[i + 1]
  <2>1. i \in Parsing(s) /\ i \in 1 .. c - 1 /\ r[i] = s[i]
    BY <1>1, <1>2 DEF Parsing
  <2>2. i < n => s[i + 1].kind = "call"
    BY <2>1 DEF Walkable, SlotSound
  <2>3. i + 1 # c
    BY <1>1, <2>1, <2>2
  <2> QED BY <1>2, <2>1, <2>3
<1>4. ASSUME NEW i \in Parsing(r) PROVE SlotSound(r, t, i)
  <2>1. SlotSound(s, t, i) /\ i < n /\ i < Len(r)
    BY <1>1, <1>2, <1>3, <1>4 DEF Walkable
  <2> QED BY <1>3, <1>4, <2>1 DEF SlotSound
<1>5. ASSUME w, NEW i \in Parsing(r) PROVE SlotWatched(r, cm, i)
  <2>1. SlotWatched(s, cm, i)
    BY <1>3, <1>5 DEF Walkable
  <2>2. ASSUME Threatened(r, i) PROVE cm \/ Later(r, i)
    <3>1. Threatened(s, i)
      BY <1>1, <1>2, <1>3, <1>5, <2>2 DEF Threatened
    <3>2. CASE cm
      BY <3>2
    <3>3. CASE Later(s, i)
      <4>1. PICK j \in Parsing(s) : i < j
        BY <3>3 DEF Later
      <4>2. ~ (c <= j)
        BY <1>1, <1>3, <1>5, <2>1, <4>1 DEF SlotWatched, Parsing
      <4>3. j \in Parsing(r)
        BY <1>1, <1>2, <4>1, <4>2 DEF Parsing
      <4> QED BY <4>1, <4>3 DEF Later
    <3> QED BY <2>1, <3>1, <3>2, <3>3 DEF SlotWatched
  <2>3. ASSUME NEW j \in 1 .. Len(r), NEW k \in 1 .. Len(r), i <= k, k <= j,
               r[j].kind \in {"parse", "force"}
        PROVE  r[k].kind # "catch"
    <3>1. j \in 1 .. n /\ k \in 1 .. n /\ r[j] = s[j] /\ r[k] = s[k]
      BY <1>1, <1>2, <2>3
    <3> QED BY <2>1, <2>3, <3>1 DEF SlotWatched
  <2> QED BY <1>2, <1>3, <1>5, <2>2, <2>3 DEF SlotWatched
<1> QED BY <1>2, <1>4, <1>5 DEF Walkable, r

LEMMA NoFrames ==
  ASSUME NEW t, NEW cm, NEW w
  PROVE  Walkable(<<>>, t, cm, w)
BY DEF Walkable, Parsing

\* The function of a verb returns, or another one.
LEMMA ReturnWalkable ==
  ASSUME NEW s, NEW t, NEW cm, NEW w, Walkable(s, t, cm, w), s # <<>>,
         s[Len(s)].kind \in {"call", "catch"},
         NEW r \in Seq(Frames), Len(r) = Len(s) - 1,
         \A i \in 1 .. Len(s) - 1 :
           IF i = Len(s) - 1 /\ s[i].kind = "parse"
           THEN /\ r[i].kind = "parse" /\ r[i].dangling = s[i].dangling /\ r[i].ob = s[i].ob
                /\ r[i].e = s[i].e /\ r[i].answer # "none"
           ELSE r[i] = s[i]
  PROVE  Walkable(r, t, cm, w)
<1> DEFINE n == Len(s)
<1>1. n \in Nat \ {0} /\ s \in Seq(Frames)
  BY KeptPop DEF Walkable
<1>2. /\ \A i \in 1 .. n - 1 : r[i].kind = s[i].kind
      /\ Parsing(r) = Parsing(s)
  <2>1. \A i \in 1 .. n - 1 : r[i].kind = s[i].kind
    OBVIOUS
  <2> QED BY <1>1, <2>1 DEF Parsing
<1>3. ASSUME NEW i \in Parsing(s)
      PROVE  /\ i \in 1 .. n - 1 /\ (Later(r, i) <=> Later(s, i))
             /\ i < n /\ r[i].dangling = s[i].dangling /\ r[i].ob = s[i].ob /\ r[i].e = s[i].e
             /\ i < n - 1 \/ r[i].answer # "none"
             /\ i < n - 1 => r[i + 1].kind = s[i + 1].kind
  <2>1. i \in 1 .. n - 1 /\ s[i].kind = "parse"
    BY <1>1 DEF Parsing
  <2> QED BY <1>1, <1>2, <2>1 DEF Later
<1>4. ASSUME NEW i \in Parsing(s) PROVE SlotSound(r, t, i)
  <2>1. SlotSound(s, t, i)
    BY <1>4 DEF Walkable
  <2> QED BY <1>3, <1>4, <2>1 DEF SlotSound
<1>5. ASSUME w, NEW i \in Parsing(s) PROVE SlotWatched(r, cm, i)
  <2>1. SlotWatched(s, cm, i)
    BY <1>5 DEF Walkable
  <2>2. Threatened(r, i) => Threatened(s, i)
    BY <1>1, <1>2, <1>3, <1>5 DEF Threatened
  <2>3. ASSUME NEW j \in 1 .. Len(r), NEW k \in 1 .. Len(r), i <= k, k <= j,
               r[j].kind \in {"parse", "force"}
        PROVE  r[k].kind # "catch"
    <3>1. j \in 1 .. n /\ k \in 1 .. n /\ r[j].kind = s[j].kind /\ r[k].kind = s[k].kind
      BY <1>1, <1>2, <2>3
    <3> QED BY <2>1, <2>3, <3>1 DEF SlotWatched
  <2> QED BY <1>3, <1>5, <2>1, <2>2, <2>3 DEF SlotWatched
<1> QED BY <1>2, <1>4, <1>5 DEF Walkable

-----------------------------------------------------------------------------
(* The walks of the parser through the steps                               *)

Watching(w) == Typed /\ Walkable(stack, sentences, command_modification, w)

Watched(w) == Walkable(stack', sentences', command_modification', w)

LEMMA ErrorWatched ==
  ASSUME NEW w, Watching(w), Error, UNCHANGED sentences,
         command_modification' = command_modification \/ command_modification' = TRUE
  PROVE  Watched(w)
<1>1. DOMAIN stack = 1 .. Len(stack)
  BY LenProperties DEF Watching, Typed
<1>2. CASE stack' = <<>>
  BY <1>2, NoFrames DEF Watched
<1>3. CASE stack' # <<>>
  <2>1. PICK c \in 1 .. Len(stack) : stack[c].kind = "catch" /\ stack' = SubSeq(stack, 1, c - 1)
    BY <1>1, <1>3 DEF Error
  <2>2. Walkable(stack', sentences, command_modification, w)
    BY <2>1, CutWalkable DEF Watching
  <2> QED BY <2>2, FlagRaised DEF Watched
<1> QED BY <1>2, <1>3

LEMMA RunningClear ==
  ASSUME Typed, Running
  PROVE  Clear(stack) /\ stack # <<>> /\ stack \in Seq(Frames) /\ Top = stack[Len(stack)]
BY TopFrame DEF Running, Clear, Parsing, Typed

LEMMA WaitingClear ==
  ASSUME NEW w, Watching(w), NEW k, k # "call", Waits(k)
  PROVE  /\ Clear(Below) /\ Below \in Seq(Frames)
         /\ Walkable(Below, sentences, TRUE, w) /\ Warned(Below, TRUE, w)
         /\ k # "parse" => Walkable(Below, sentences, command_modification, w)
         /\ k \in {"exit", "destruct"} => Warned(Below, command_modification, w)
<1>1. stack # <<>> /\ stack[Len(stack)].kind = k
  BY WaitsFrame DEF Watching
<1>2. /\ Clear(Front(stack)) /\ Front(stack) \in Seq(Frames)
      /\ k # "parse" => Walkable(Front(stack), sentences, command_modification, w)
      /\ k \in {"exit", "destruct"} => Warned(Front(stack), command_modification, w)
  BY <1>1, PopWalkable DEF Watching
<1>3. Walkable(stack, sentences, TRUE, w)
  BY FlagRaised DEF Watching
<1>4. Walkable(Front(stack), sentences, TRUE, w)
  BY <1>1, <1>3, PopWalkable
<1>5. Warned(Front(stack), TRUE, w)
  BY <1>4, FlagRaised
<1> QED BY <1>2, <1>4, <1>5 DEF Below

LEMMA CallWalkable ==
  ASSUME Typed, NEW s, NEW t, NEW cm, NEW w, Walkable(s, t, cm, w), Clear(s),
         NEW f \in Frames, f.kind \notin {"parse", "force"},
         f.kind \in {"exit", "destruct"} => Warned(s, cm, w),
         NEW o, Call(s, f, o), command_giver' \in Values
  PROVE  Walkable(stack', t, cm, w)
<1> DEFINE r == Append(s, f)
           g == [kind |-> "call", ob |-> current_object, comgiver |-> command_giver']
<1>1. Walkable(r, t, cm, w) /\ Clear(r)
  BY PushWalkable
<1>2. stack' = Append(r, g)
  BY DEF Call
<1>3. g \in Frames /\ g.kind = "call"
  BY LpcFrames DEF Typed
<1> HIDE DEF r, g
<1> QED BY <1>1, <1>2, <1>3, PushWalkable

\* LPC code that leaves the tables alone
LEMMA LpcWatched ==
  ASSUME NEW w, Watching(w), NEW o \in Values, NEW p, CallOther(o, p) \/ Catch(o)
  PROVE  Watched(w)
<1>1. /\ Running /\ command_giver \in Values /\ Typed
      /\ UNCHANGED <<sentences, command_modification>>
  BY DEF CallOther, Catch, Operation, Watching, Typed
<1>2. PICK k \in {"call", "catch"} :
        stack' = Append(stack, [kind |-> k, ob |-> o, comgiver |-> command_giver])
  BY DEF CallOther, Catch
<1> DEFINE f == [kind |-> k, ob |-> o, comgiver |-> command_giver]
<1>3. f \in Frames /\ f.kind \in {"call", "catch"}
  BY <1>1, LpcFrames
<1>4. stack' = Append(stack, f)
  BY <1>2
<1> HIDE DEF f
<1>5. Clear(stack)
  BY <1>1, RunningClear
<1> QED BY <1>1, <1>3, <1>4, <1>5, PushWalkable DEF Watching, Watched

LEMMA StillWatched ==
  ASSUME NEW w, Watching(w), UNCHANGED <<stack, command_modification>>,
         \A p \in Objects : Len(sentences'[p]) = Len(sentences[p])
  PROVE  Watched(w)
BY SameLengths DEF Watching, Watched

LEMMA ThrowWatched ==
  ASSUME NEW w, Watching(w), Throw
  PROVE  Watched(w)
BY ErrorWatched DEF Throw

LEMMA QueryWatched ==
  ASSUME NEW w, Watching(w), Tabled, NEW o, NEW p \in Objects, QueryActions(o, p)
  PROVE  Watched(w)
<1> DEFINE s == sentences[p]
           r == [e \in DOMAIN s |-> IF s[e] # Empty /\ life[s[e].function] = "destructed"
                                    THEN Empty ELSE s[e]]
<1>1. DOMAIN s = 1 .. Len(s) /\ Len(s) \in Nat
  BY TabledIs
<1>2. sentences' = [sentences EXCEPT ![p] = r] /\ UNCHANGED <<stack, command_modification>>
  BY DEF QueryActions
<1>3. Len(r) = Len(s)
  BY <1>1
<1> HIDE DEF r
<1>4. \A q \in Objects : Len(sentences'[q]) = Len(sentences[q])
  BY <1>2, <1>3 DEF Tabled
<1> QED BY <1>2, <1>4, StillWatched

\* A table changes while functions of verbs run, and the flag tells it.
LEMMA MarkingWatched ==
  ASSUME NEW w, Watching(w), Running, stack' = Marked(stack, sentences'),
         w => command_modification' = TRUE
  PROVE  Watched(w)
<1>1. Clear(stack)
  BY RunningClear DEF Watching
<1>2. Walkable(stack, sentences, command_modification', w) /\ Warned(stack, command_modification', w)
  BY FlagRaised DEF Watching, Walkable, Warned
<1> QED BY <1>1, <1>2, MarkedSlots DEF Watched

LEMMA DisableWatched ==
  ASSUME NEW w, Watching(w), NEW o, DisableCommands(o), w => "disable_other" \notin taken'
  PROVE  Watched(w)
<1>1. Running /\ stack' = Marked(stack, sentences')
  BY DEF DisableCommands, Operation
<1>2. w => o = command_giver
  BY DEF DisableCommands, Operation, Misuse
<1>3. w => command_modification' = TRUE
  BY <1>2 DEF DisableCommands
<1> QED BY <1>1, <1>3, MarkingWatched

LEMMA AddActionWatched ==
  ASSUME NEW w, Watching(w), NEW o, NEW pri, AddAction(o, pri)
  PROVE  Watched(w)
<1>1. CASE Error /\ UNCHANGED <<sentences, command_modification>>
  BY <1>1, ErrorWatched
<1>2. CASE ~ (Error /\ UNCHANGED <<sentences, command_modification>>)
  <2>1. Running /\ stack' = Marked(stack, sentences') /\ command_modification' = TRUE
    BY <1>2 DEF AddAction, Operation
  <2> QED BY <2>1, MarkingWatched
<1> QED BY <1>1, <1>2

LEMMA ReturnWatched ==
  ASSUME NEW w, Watching(w), Return
  PROVE  Watched(w)
<1> DEFINE n == Len(stack)
<1>1. /\ Typed /\ stack # <<>> /\ Top.kind \in {"call", "catch"} /\ Top = stack[n]
      /\ UNCHANGED <<sentences, command_modification>>
  BY RunningClear DEF Return, Running, Watching
<1>2. /\ Below \in Seq(Frames) /\ Len(Below) = n - 1 /\ n \in Nat \ {0}
      /\ \A i \in 1 .. n - 1 : Below[i] = stack[i]
  BY <1>1, TopFrame
<1>3. stack' \in Seq(Frames)
  BY <1>1, ReturnIsQuiet DEF Quiet
<1>4. Below # <<>> => Caller = stack[n - 1].kind /\ n - 1 \in 1 .. n - 1
  BY <1>2 DEF Caller, Last
<1>5. CASE Below = <<>> \/ Caller # "parse"
  <2>1. stack' = Below
    BY <1>5 DEF Return, Caller
  <2>2. n - 1 \in 1 .. n - 1 => Below # <<>>
    BY <1>2
  <2>3. \A i \in 1 .. n - 1 : ~ (i = n - 1 /\ stack[i].kind = "parse") /\ stack'[i] = stack[i]
    BY <1>2, <1>4, <1>5, <2>1, <2>2
  <2> QED BY <1>1, <1>2, <1>3, <2>1, <2>3, ReturnWalkable DEF Watched, Watching
<1>6. CASE Below # <<>> /\ Caller = "parse"
  <2>1. PICK a \in {"zero", "true"} : stack' = [Below EXCEPT ![n - 1].answer = a]
    BY <1>2, <1>6 DEF Return
  <2>2. /\ Len(stack') = n - 1 /\ stack'[n - 1] = [stack[n - 1] EXCEPT !.answer = a]
        /\ \A i \in 1 .. n - 1 : i # n - 1 => stack'[i] = stack[i]
    <3>1. DOMAIN Below = 1 .. n - 1 /\ n - 1 \in 1 .. n - 1
      BY <1>2, <1>4, <1>6, LenProperties
    <3>2. stack'[n - 1] = [Below[n - 1] EXCEPT !.answer = a]
      BY <2>1, <3>1
    <3>3. \A i \in 1 .. n - 1 : i # n - 1 => stack'[i] = Below[i]
      BY <2>1, <3>1
    <3>4. DOMAIN stack' = 1 .. n - 1
      BY <2>1, <3>1
    <3>5. Len(stack') = n - 1
      BY <1>2, <1>3, <3>4, LenProperties
    <3> QED BY <1>2, <3>1, <3>2, <3>3, <3>5
  <2>3. stack[n - 1] \in ParseFrames /\ n - 1 \in 1 .. n
    <3>1. n - 1 \in 1 .. n /\ stack[n - 1] \in Frames
      BY <1>2, <1>4, <1>6, ElementOfSeq
    <3> QED BY <1>4, <1>6, <3>1, FramesByKind
  <2>4. LET f == stack'[n - 1]
            g == stack[n - 1]
        IN f.kind = "parse" /\ f.dangling = g.dangling /\ f.ob = g.ob /\ f.e = g.e /\ f.answer # "none"
    BY <2>2, <2>3 DEF ParseFrames
  <2>5. \A i \in 1 .. n - 1 :
           IF i = n - 1 /\ stack[i].kind = "parse"
           THEN /\ stack'[i].kind = "parse" /\ stack'[i].dangling = stack[i].dangling
                /\ stack'[i].ob = stack[i].ob
                /\ stack'[i].e = stack[i].e /\ stack'[i].answer # "none"
           ELSE stack'[i] = stack[i]
    BY <1>4, <1>6, <2>2, <2>4
  <2> QED BY <1>1, <1>3, <2>2, <2>5, ReturnWalkable DEF Watched, Watching
<1> QED BY <1>5, <1>6

LEMMA GoingFrame ==
  ASSUME Typed, Waits("init"), NEW at \in {"dest", "loop", "item", "ob", "last"},
         NEW ob \in Values, NEW next \in Values, NEW met
  PROVE  Going(at, ob, next, met) \in Frames /\ Going(at, ob, next, met).kind = "init"
<1>1. Top \in InitFrames
  BY WaitsFrame, FramesByKind
<1> DEFINE left == Top.left \ {met}
           f == [Top EXCEPT !.at = at, !.ob = ob, !.next = next, !.left = left]
<1>2. left \in SUBSET Objects
  BY <1>1 DEF InitFrames
<1> HIDE DEF left
<1>3. f \in InitFrames
  BY <1>1, <1>2 DEF InitFrames
<1>4. f \in Frames /\ f.kind = "init"
  BY <1>3 DEF Frames, InitFrames
<1> HIDE DEF f
<1> QED BY <1>4 DEF f, left, Going

-----------------------------------------------------------------------------
(* Moves and destructions above walks of the parser                        *)

LEMMA LinkWatched ==
  ASSUME Typed, NEW w, NEW s, Walkable(s, sentences, command_modification', w), Clear(s),
         Warned(s, command_modification', w),
         NEW o \in Objects, NEW d \in Objects, NEW save \in Values,
         Link(s, o, d, save), ~ LinkFails(o)
  PROVE  Watched(w)
<1> DEFINE e == Entered(s, o)
           m == Marked(e, sentences')
           f(at, ob) == InitFrame(o, d, save, at, ob)
           cm == command_modification'
<1>1. Walkable(e, sentences, cm, w) /\ Clear(e) /\ Warned(e, cm, w)
  BY EnteredSlots
<1> HIDE DEF e
<1>2. Walkable(m, sentences', cm, w) /\ Clear(m)
  BY <1>1, MarkedSlots
<1>3. ASSUME NEW at \in {"dest", "loop"}, NEW ob \in Values
      PROVE  f(at, ob) \in Frames /\ f(at, ob).kind = "init"
  BY NewWalk DEF Typed
<1>4. IF o \in living
      THEN command_giver' = o /\ Call(m, f("dest", NoObject), d)
      ELSE stack' = Append(m, f("loop", o))
  BY DEF Link, LinkFails, e
<1>5. NoObject \in Values /\ o \in Values
  BY DEF Values
<1>6. f("dest", NoObject) \in Frames /\ f("dest", NoObject).kind = "init"
  BY <1>3, <1>5
<1>7. f("loop", o) \in Frames /\ f("loop", o).kind = "init"
  BY <1>3, <1>5
<1> HIDE DEF m, f, cm
<1>8. CASE o \in living
  <2>1. Walkable(stack', sentences', cm, w)
    BY <1>2, <1>4, <1>5, <1>6, <1>8, CallWalkable
  <2> QED BY <2>1 DEF Watched, cm
<1>9. CASE o \notin living
  <2>1. Walkable(stack', sentences', cm, w)
    BY <1>2, <1>4, <1>7, <1>9, PushWalkable
  <2> QED BY <2>1 DEF Watched, cm
<1> QED BY <1>8, <1>9

LEMMA MoveWatched ==
  ASSUME NEW w, Watching(w), NEW o \in Objects, NEW d \in Objects, MoveObject(o, d)
  PROVE  Watched(w)
<1>1. /\ Typed /\ Running /\ command_modification' = TRUE /\ command_giver \in Values
      /\ Walkable(stack, sentences, TRUE, w) /\ Warned(stack, TRUE, w) /\ Clear(stack)
  BY RunningClear, FlagRaised DEF MoveObject, Operation, Watching, Typed
<1>2. CASE o \in Outwards(d)
  <2>1. Error /\ UNCHANGED sentences
    BY <1>2 DEF MoveObject
  <2> QED BY <1>1, <2>1, ErrorWatched
<1>3. CASE o \notin Outwards(d) /\ super[o] # NoObject
  <2> DEFINE x == [kind |-> "exit", item |-> o, dest |-> d, save |-> command_giver]
  <2>1. command_giver' = command_giver /\ Call(stack, x, super[o]) /\ UNCHANGED sentences
    BY <1>3 DEF MoveObject
  <2>2. x \in Frames /\ x.kind = "exit"
    BY <1>1 DEF ExitFrames, Frames
  <2> HIDE DEF x
  <2>3. Walkable(stack', sentences, TRUE, w)
    BY <1>1, <2>1, <2>2, CallWalkable
  <2> QED BY <1>1, <2>1, <2>3 DEF Watched
<1>4. CASE o \notin Outwards(d) /\ super[o] = NoObject
  <2>1. Link(stack, o, d, command_giver) /\ ~ LinkFails(o)
    BY <1>4 DEF MoveObject, LinkFails
  <2> QED BY <1>1, <2>1, LinkWatched
<1> QED BY <1>2, <1>3, <1>4

LEMMA MoveOnWatched ==
  ASSUME NEW w, Watching(w), MoveOn
  PROVE  Watched(w)
<1>1. Waits("exit") /\ UNCHANGED command_modification
  BY DEF MoveOn
<1>2. /\ Clear(Below) /\ Walkable(Below, sentences, command_modification, w)
      /\ Warned(Below, command_modification, w)
  <2>1. "exit" \notin {"call", "parse"} /\ "exit" \in {"exit", "destruct"}
    OBVIOUS
  <2> QED BY <1>1, <2>1, WaitingClear
<1>3. Typed /\ Top.item \in Objects /\ Top.dest \in Objects /\ Top.save \in Values
  BY <1>1, ExitFrame DEF Watching
<1>4. CASE stack' = Below /\ UNCHANGED sentences
  BY <1>1, <1>2, <1>4 DEF Watched
<1>5. CASE Link(Below, Top.item, Top.dest, Top.save)
  <2>1. CASE LinkFails(Top.item)
    <3>1. UNCHANGED <<stack, sentences>>
      BY <1>5, <2>1 DEF Link, LinkFails
    <3> QED BY <1>1, <3>1, StillWatched
  <2>2. CASE ~ LinkFails(Top.item)
    <3>1. Walkable(Below, sentences, command_modification', w) /\ Warned(Below, command_modification', w)
      BY <1>1, <1>2
    <3> QED BY <1>2, <1>3, <1>5, <2>2, <3>1, LinkWatched
  <2> QED BY <2>1, <2>2
<1> QED BY <1>4, <1>5 DEF MoveOn

\* The walk of move_object
LEMMA InitWatched ==
  ASSUME NEW w, Watching(w),
         InitDestDone \/ InitLoop \/ InitItemDone \/ InitOtherDone \/ InitLastDone
  PROVE  Watched(w)
<1>1. Waits("init") /\ UNCHANGED <<sentences, command_modification>>
  BY DEF InitDestDone, InitLoop, InitItemDone, InitOtherDone, InitLastDone
<1>2. Clear(Below) /\ Walkable(Below, sentences, command_modification, w)
  <2>1. "init" \notin {"call", "parse"}
    OBVIOUS
  <2> QED BY <1>1, <2>1, WaitingClear
<1>3. /\ Top.item \in Values /\ Top.dest \in Values /\ Top.ob \in Values
      /\ Top.next \in Values /\ NoObject \in Values /\ Typed /\ TreeTypes
      /\ Top.dest \in Objects
  BY <1>1, WalkFrame DEF Values, Watching, Typed
<1>4. ASSUME NEW ob \in Values, Walk(ob) PROVE Watched(w)
  <2>1. "loop" \in {"dest", "loop", "item", "ob", "last"}
    OBVIOUS
  <2> DEFINE f == Going("loop", ob, NoObject, Top.ob)
  <2>2. f \in Frames /\ f.kind = "init"
    BY <1>1, <1>3, <2>1, GoingFrame
  <2>3. stack' = Append(Below, f)
    BY <1>4 DEF Walk, Going
  <2> HIDE DEF f
  <2> QED BY <1>1, <1>2, <2>2, <2>3, PushWalkable DEF Watched
<1>5. ASSUME NEW o, NEW who \in Values, NEW at \in {"item", "ob", "last"},
             NEW ob \in Values, NEW next \in Values, CallInit(o, who, at, ob, next)
      PROVE  Watched(w)
  <2>1. at \in {"dest", "loop", "item", "ob", "last"}
    OBVIOUS
  <2> DEFINE f == Going(at, ob, next, ob)
  <2>2. f \in Frames /\ f.kind = "init"
    BY <1>1, <1>3, <2>1, GoingFrame
  <2>3. Call(Below, f, o) /\ command_giver' \in Values
    BY <1>5 DEF CallInit, Going
  <2> HIDE DEF f
  <2>4. Walkable(stack', sentences, command_modification, w)
    BY <1>2, <1>3, <2>2, <2>3, CallWalkable
  <2> QED BY <1>1, <2>4 DEF Watched
<1>6. ASSUME NEW next \in Values, MeetOther(Top.ob, next) PROVE Watched(w)
  <2>1. CallInit(Top.ob, Top.item, "ob", Top.ob, next) \/ Walk(next)
    BY <1>6 DEF MeetOther
  <2>2. "ob" \in {"item", "ob", "last"}
    OBVIOUS
  <2> QED BY <1>3, <1>4, <1>5, <2>1, <2>2
<1>7. CASE GiveUpMove \/ Error
  BY <1>1, <1>2, <1>7, ErrorWatched DEF GiveUpMove, Watched
<1>8. CASE InitDestDone
  <2>1. FirstInv(Top.dest) \in Values
    BY <1>3, NeighboursTyped
  <2> QED BY <1>4, <1>7, <1>8, <2>1 DEF InitDestDone
<1>9. CASE InitItemDone \/ InitOtherDone \/ InitLastDone
  BY <1>3, <1>4, <1>6, <1>7, <1>9 DEF InitItemDone, InitOtherDone, InitLastDone
<1>10. CASE InitLoop
  <2>1. \/ Error \/ GiveUpMove
        \/ CallInit(Top.item, Top.dest, "last", NoObject, NoObject)
        \/ /\ Top.ob # NoObject
           /\ \/ Walk(NextInv(Top.ob)) \/ MeetOther(Top.ob, NextInv(Top.ob))
              \/ CallInit(Top.item, Top.ob, "item", Top.ob, NextInv(Top.ob))
    BY <1>10 DEF InitLoop
  <2>2. Top.ob # NoObject => NextInv(Top.ob) \in Values
    BY <1>3, NeighboursTyped DEF Values
  <2>3. CASE CallInit(Top.item, Top.dest, "last", NoObject, NoObject)
    <3>1. "last" \in {"item", "ob", "last"}
      OBVIOUS
    <3> QED BY <1>3, <1>5, <2>3, <3>1
  <2>4. CASE Top.ob # NoObject /\ CallInit(Top.item, Top.ob, "item", Top.ob, NextInv(Top.ob))
    <3>1. "item" \in {"item", "ob", "last"}
      OBVIOUS
    <3> QED BY <1>3, <1>5, <2>2, <2>4, <3>1
  <2>5. CASE Top.ob # NoObject /\ Walk(NextInv(Top.ob))
    BY <1>4, <2>2, <2>5
  <2>6. CASE Top.ob # NoObject /\ MeetOther(Top.ob, NextInv(Top.ob))
    BY <1>6, <2>2, <2>6
  <2> QED BY <1>7, <2>1, <2>3, <2>4, <2>5, <2>6
<1> QED BY <1>8, <1>9, <1>10

LEMMA DestructionFrames ==
  ASSUME NEW f \in DestructFrames
  PROVE  f \in Frames /\ f.kind = "destruct"
BY DEF DestructFrames, Frames

LEMMA DestructWatched ==
  ASSUME NEW w, Watching(w), NEW o, NEW p \in Objects, Destruct(o, p)
  PROVE  Watched(w)
<1>1. /\ Typed /\ Running /\ command_giver \in Values /\ UNCHANGED sentences
      /\ Walkable(stack, sentences, TRUE, w) /\ Warned(stack, TRUE, w) /\ Clear(stack)
      /\ Walkable(stack, sentences, command_modification, w)
  BY RunningClear, FlagRaised DEF Destruct, Operation, Watching, Typed
<1>2. CASE o = p
  <2> DEFINE f == DestructFrame(p)
  <2>1. command_modification' = TRUE /\ stack' = Append(stack, f)
    BY <1>2 DEF Destruct
  <2>2. f \in Frames /\ f.kind = "destruct"
    BY NewDestruction, DestructionFrames
  <2> HIDE DEF f
  <2>3. Walkable(stack', sentences, TRUE, w)
    BY <1>1, <2>1, <2>2, PushWalkable
  <2> QED BY <1>1, <2>1, <2>3 DEF Watched
<1>3. CASE o # p
  <2> DEFINE f == [kind |-> "permit", ob |-> p]
  <2>1. command_giver' = command_giver /\ Call(stack, f, NoObject) /\ UNCHANGED command_modification
    BY <1>3 DEF Destruct
  <2>2. f \in Frames /\ f.kind = "permit"
    BY DEF Frames, AskFrames
  <2> HIDE DEF f
  <2>3. Walkable(stack', sentences, command_modification, w)
    BY <1>1, <2>1, <2>2, CallWalkable
  <2> QED BY <1>1, <2>1, <2>3 DEF Watched
<1> QED BY <1>2, <1>3

LEMMA PermitDoneWatched ==
  ASSUME NEW w, Watching(w), PermitDone
  PROVE  Watched(w)
<1>1. Waits("permit") /\ UNCHANGED sentences /\ Typed
  BY DEF PermitDone, Watching
<1>2. Clear(Below) /\ Walkable(Below, sentences, TRUE, w) /\ Warned(Below, TRUE, w)
  <2>1. "permit" # "call"
    OBVIOUS
  <2> QED BY <1>1, <2>1, WaitingClear
<1>3. Top.ob \in Objects
  <2>1. Top \in AskFrames
    BY <1>1, WaitsFrame, FramesByKind
  <2> QED BY <2>1 DEF AskFrames
<1> DEFINE f == DestructFrame(Top.ob)
<1>4. f \in Frames /\ f.kind = "destruct"
  BY <1>3, NewDestruction, DestructionFrames
<1>5. \/ Error /\ UNCHANGED command_modification
      \/ command_modification' = TRUE /\ (stack' = Below \/ stack' = Append(Below, f))
  BY DEF PermitDone
<1> HIDE DEF f
<1>6. Walkable(Append(Below, f), sentences, TRUE, w)
  BY <1>2, <1>4, PushWalkable
<1> QED BY <1>1, <1>2, <1>5, <1>6, ErrorWatched DEF Watched

LEMMA DestructionClear ==
  ASSUME NEW w, Watching(w), Waits("destruct")
  PROVE  /\ Clear(Below) /\ Walkable(Below, sentences, command_modification, w)
         /\ Warned(Below, command_modification, w)
<1>1. "destruct" \notin {"call", "parse"} /\ "destruct" \in {"exit", "destruct"}
  OBVIOUS
<1> QED BY <1>1, WaitingClear

LEMMA AskMasterWatched ==
  ASSUME NEW w, Watching(w), AskMaster
  PROVE  Watched(w)
<1>1. /\ Waits("destruct") /\ contains[Top.ob] # <<>> /\ command_giver' = command_giver
      /\ Call(Below, [Top EXCEPT !.at = "master", !.inside = Head(contains[Top.ob])], NoObject)
      /\ UNCHANGED <<sentences, command_modification>> /\ Typed
  BY DEF AskMaster, Null, Watching
<1>2. Top \in DestructFrames /\ Top.ob \in Objects
  BY <1>1, DestructionFrame
<1> DEFINE h == Head(contains[Top.ob])
           f == [Top EXCEPT !.at = "master", !.inside = h]
<1>3. h \in Objects
  BY <1>1, <1>2, HeadTailProperties DEF Typed, TreeTypes
<1> HIDE DEF h
<1>4. f \in DestructFrames
  BY <1>2, <1>3 DEF DestructFrames
<1>5. Call(Below, f, NoObject)
  BY <1>1 DEF h
<1> HIDE DEF f
<1>6. f \in Frames /\ f.kind = "destruct" /\ command_giver' \in Values
  BY <1>1, <1>4, DestructionFrames DEF Typed
<1>7. Walkable(stack', sentences, command_modification, w)
  BY <1>1, <1>5, <1>6, DestructionClear, CallWalkable
<1> QED BY <1>1, <1>7 DEF Watched

LEMMA MasterDoneWatched ==
  ASSUME NEW w, Watching(w), MasterDone
  PROVE  Watched(w)
<1>1. Waits("destruct") /\ Top.at = "master" /\ Typed /\ UNCHANGED sentences
  BY DEF MasterDone, Watching
<1>2. Top \in DestructFrames
  BY <1>1, DestructionFrame
<1>3. Top.inside \in Objects
  BY <1>1, <1>2 DEF DestructFrames
<1> DEFINE f == [Top EXCEPT !.at = "loop", !.inside = NoObject]
           s == Append(Below, f)
           g == DestructFrame(Top.inside)
<1>4. f \in DestructFrames
  BY <1>2 DEF DestructFrames
<1>5. f \in Frames /\ f.kind = "destruct" /\ g \in Frames /\ g.kind = "destruct"
  BY <1>3, <1>4, NewDestruction, DestructionFrames
<1>6. \/ command_modification' = TRUE /\ (stack' = s \o <<>> \/ stack' = s \o <<g>>)
      \/ UNCHANGED command_modification /\ stack' = s
  BY DEF MasterDone
<1> HIDE DEF f, g
<1>7. /\ Clear(Below) /\ Walkable(Below, sentences, command_modification, w)
      /\ Warned(Below, command_modification, w)
  BY <1>1, DestructionClear
<1>8. Walkable(s, sentences, command_modification, w) /\ Clear(s)
  BY <1>5, <1>7, PushWalkable
<1>9. s \in Seq(Frames)
  BY <1>8 DEF Walkable
<1>10. s \o <<>> = s /\ s \o <<g>> = Append(s, g)
  BY <1>5, <1>9, AppendIsConcat
<1> HIDE DEF s
<1>12. Walkable(s, sentences, TRUE, w) /\ Warned(s, TRUE, w)
  BY <1>8, FlagRaised
<1>11. Walkable(Append(s, g), sentences, TRUE, w)
  BY <1>5, <1>8, <1>12, PushWalkable
<1> QED BY <1>1, <1>6, <1>8, <1>10, <1>11, <1>12 DEF Watched

LEMMA DestructDoneWatched ==
  ASSUME NEW w, Watching(w), DestructDone
  PROVE  Watched(w)
<1>1. Waits("destruct") /\ UNCHANGED command_modification
  BY DEF DestructDone
<1>2. UNCHANGED <<stack, sentences>> \/ stack' = Marked(Below, sentences')
  BY DEF DestructDone
<1>3. CASE UNCHANGED <<stack, sentences>>
  BY <1>1, <1>3, StillWatched
<1>4. CASE stack' = Marked(Below, sentences')
  BY <1>1, <1>4, DestructionClear, MarkedSlots DEF Watched
<1> QED BY <1>2, <1>3, <1>4

-----------------------------------------------------------------------------
(* The steps of the parser itself                                          *)

LEMMA ParseWatched ==
  ASSUME Typed, Tabled, NEW w, NEW s, Walkable(s, sentences, command_modification, w), Clear(s),
         Uncaught(s, w), NEW p \in Objects, Parse(s, p),
         UNCHANGED <<sentences, command_modification>>
  PROVE  Watched(w)
<1>1. CASE sentences[p] = Null
  BY <1>1 DEF Parse, Watched
<1>2. CASE sentences[p] # Null
  <2> DEFINE f == [kind |-> "parse", ob |-> p, e |-> 1, answer |-> "none",
                   save |-> command_giver, dangling |-> FALSE]
  <2>1. FALSE \in BOOLEAN
    BY Zenon
  <2>2. \A b \in BOOLEAN : [kind |-> "parse", ob |-> p, e |-> 1, answer |-> "none",
                            save |-> command_giver, dangling |-> b] \in ParseFrames
    BY DEF ParseFrames, Typed
  <2>3. f \in ParseFrames
    BY <2>1, <2>2, Zenon
  <2>4. f \in Frames
    BY <2>3 DEF Frames
  <2>5. f.kind = "parse" /\ f.e = 1 /\ f.answer = "none" /\ f.dangling = FALSE /\ f.ob = p
    OBVIOUS
  <2>6. Len(sentences[p]) \in Nat \ {0}
    <3>1. sentences[p] \in Seq(Sentence)
      BY TabledIs
    <3> QED BY <1>2, <3>1 DEF Null
  <2>7. stack' = Append(s, f)
    BY <1>2 DEF Parse
  <2> HIDE DEF f
  <2> QED BY <2>4, <2>5, <2>6, <2>7, PushCommand DEF Watched
<1> QED BY <1>1, <1>2

LEMMA CommandWatched ==
  ASSUME NEW w, Watching(w), Tabled, NEW o, NEW p \in Objects, Command(o, p),
         w => "caught_command" \notin taken'
  PROVE  Watched(w)
<1>1. /\ Typed /\ Running /\ Clear(stack) /\ command_giver \in Values
      /\ Walkable(stack, sentences, command_modification, w)
      /\ UNCHANGED <<sentences, command_modification>>
  BY RunningClear DEF Command, Operation, Watching, Typed
<1>2. Uncaught(stack, w)
  <2>1. w => ~ CommandsCaught
    BY DEF Command, Operation, Misuse
  <2>2. DOMAIN stack = 1 .. Len(stack)
    BY LenProperties DEF Watching, Typed
  <2>3. ASSUME w, NEW i \in Parsing(stack), NEW c \in 1 .. Len(stack), i <= c
        PROVE  stack[c].kind # "catch"
    <3>1. i \in 1 .. Len(stack) /\ stack[i].kind = "parse" /\ (i = c \/ i < c)
      BY <2>3 DEF Parsing
    <3> QED BY <2>1, <2>2, <2>3, <3>1 DEF CommandsCaught
  <2> QED BY <2>3 DEF Uncaught
<1>3. CASE o = p
  BY <1>1, <1>2, <1>3, ParseWatched DEF Command
<1>4. CASE o # p
  <2> DEFINE f == [kind |-> "force", ob |-> p]
             r == Append(stack, f)
             g == [kind |-> "call", ob |-> current_object, comgiver |-> command_giver']
  <2>1. command_giver' = command_giver /\ stack' = Append(r, g)
    BY <1>4 DEF Command, Call
  <2>2. f \in Frames /\ f.kind = "force"
    BY DEF Frames, AskFrames
  <2>3. g \in Frames /\ g.kind = "call"
    BY <1>1, <2>1, LpcFrames DEF Typed
  <2> HIDE DEF f, g
  <2>4. Walkable(r, sentences, command_modification, w) /\ Clear(r)
    BY <1>1, <1>2, <2>2, PushCommand
  <2> HIDE DEF r
  <2> QED BY <1>1, <2>1, <2>3, <2>4, PushWalkable DEF Watched
<1> QED BY <1>3, <1>4

LEMMA ForceDoneWatched ==
  ASSUME NEW w, Watching(w), Tabled, ForceDone
  PROVE  Watched(w)
<1>1. Waits("force") /\ UNCHANGED <<sentences, command_modification>> /\ Typed
  BY DEF ForceDone, Watching
<1>2. Clear(Below) /\ Walkable(Below, sentences, command_modification, w)
  <2>1. "force" \notin {"call", "parse"}
    OBVIOUS
  <2> QED BY <1>1, <2>1, WaitingClear
<1>3. Uncaught(Below, w)
  <2>1. stack # <<>> /\ stack[Len(stack)].kind = "force"
    BY <1>1, WaitsFrame
  <2> QED BY <2>1, ForceUncaught DEF Watching, Below
<1>4. Top.ob \in Objects
  <2>1. Top \in AskFrames
    BY <1>1, WaitsFrame, FramesByKind
  <2> QED BY <2>1 DEF AskFrames
<1>5. stack' = Below \/ Parse(Below, Top.ob)
  BY DEF ForceDone
<1> QED BY <1>1, <1>2, <1>3, <1>4, <1>5, ParseWatched DEF Watched

LEMMA ParseMatchWatched ==
  ASSUME NEW w, Watching(w), Tabled, NEW o, NEW e \in Int, ParseMatch(o, e)
  PROVE  Watched(w)
<1> DEFINE n == Len(stack)
           f == [Top EXCEPT !.e = e]
           g == [kind |-> "call", ob |-> current_object, comgiver |-> command_giver']
<1>1. /\ Waits("parse") /\ ~ Top.dangling /\ Top.answer = "none" /\ Typed
      /\ e \in Top.e .. Len(sentences[Top.ob])
      /\ command_modification' = FALSE /\ command_giver' = command_giver
      /\ stack' = Append(Append(Below, f), g)
  BY DEF ParseMatch, Call, Watching
<1>2. /\ Top \in ParseFrames /\ Top = stack[n] /\ stack # <<>> /\ Top.e \in Int /\ Top.kind = "parse"
      /\ Top.ob \in Objects /\ n \in Parsing(stack)
  <2>1. /\ Top \in ParseFrames /\ Top = stack[n] /\ stack # <<>> /\ Top.e \in Int
        /\ Top.kind = "parse" /\ n \in Nat \ {0}
    BY <1>1, ParserFrame, WaitsFrame
  <2> QED BY <2>1 DEF ParseFrames, Parsing
<1>3. \A p \in Objects : Len(sentences'[p]) = Len(sentences[p])
  BY <1>2, ParserTakes
<1>4. f \in ParseFrames /\ f.ob = Top.ob /\ f.e = e /\ f.dangling = Top.dangling
  BY <1>2 DEF ParseFrames
<1>5. g \in Frames /\ g.kind = "call"
  BY <1>1, LpcFrames DEF Typed
<1>6. e \in 1 .. Len(sentences[Top.ob])
  <2>1. SlotSound(stack, sentences, n)
    BY <1>2 DEF Watching, Walkable
  <2>2. Top.e \in 1 .. Len(sentences[Top.ob]) + 1 /\ Len(sentences[Top.ob]) \in Nat
    BY <1>1, <1>2, <2>1, TabledIs DEF SlotSound
  <2> QED BY <1>1, <2>2
<1> HIDE DEF f, g
<1>7. Walkable(stack', sentences, FALSE, w)
  <2>1. stack[n].kind = "parse" /\ ~ stack[n].dangling /\ f.ob = stack[n].ob
    BY <1>1, <1>2, <1>4
  <2>2. ~ f.dangling /\ f.e \in 1 .. Len(sentences[f.ob])
    BY <1>1, <1>4, <1>6
  <2>3. Walkable(Append(Append(Front(stack), f), g), sentences, FALSE, w)
    BY <1>2, <1>4, <1>5, <2>1, <2>2, PushVerb DEF Watching
  <2> QED BY <1>1, <2>3 DEF Below
<1>8. Walkable(stack', sentences', FALSE, w)
  BY <1>3, <1>7, SameLengths
<1> QED BY <1>1, <1>8 DEF Watched

LEMMA ParserEndsWatched ==
  ASSUME NEW w, Watching(w), Tabled, ParseEnd \/ ParseTrue
  PROVE  Watched(w)
<1>1. Waits("parse") /\ stack' = Below /\ command_modification' = TRUE /\ Typed
  BY DEF ParseEnd, ParseTrue, Watching
<1>2. Walkable(Below, sentences, TRUE, w)
  <2>1. "parse" # "call"
    OBVIOUS
  <2> QED BY <1>1, <2>1, WaitingClear
<1>3. \A p \in Objects : Len(sentences'[p]) = Len(sentences[p])
  <2>1. Top.ob \in Objects
    BY <1>1, ParserFrame DEF ParseFrames
  <2> QED BY <2>1, ParserTakes DEF ParseTrue
<1> QED BY <1>1, <1>2, <1>3, SameLengths DEF Watched

\* The flag is down: the table is as it was, and the next slot is read.
LEMMA NextSlot ==
  ASSUME NEW s, NEW t, NEW cm, NEW w, Walkable(s, t, cm, w), s # <<>>, ~ cm,
         s[Len(s)].kind = "parse", s[Len(s)].answer # "none",
         Len(t[s[Len(s)].ob]) \in Nat,
         NEW p \in ParseFrames, p.ob = s[Len(s)].ob, p.e = s[Len(s)].e + 1,
         p.dangling = s[Len(s)].dangling, p.answer = "none"
  PROVE  Walkable(Append(Front(s), p), t, cm, w)
<1> DEFINE n == Len(s)
           r == Append(Front(s), p)
<1>1. p \in Frames /\ p.kind = "parse" /\ s \in Seq(Frames) /\ SameTask(s[n], p)
  BY DEF ParseFrames, Frames, Walkable, SameTask
<1>2. /\ r \in Seq(Frames) /\ Len(r) = n /\ r[n] = p /\ n \in Nat \ {0}
      /\ \A i \in 1 .. n - 1 : r[i] = s[i]
  BY <1>1, KeptReplace, KeptPop
<1> HIDE DEF r
<1>3. \A i \in 1 .. n : r[i].kind = s[i].kind /\ r[i].dangling = s[i].dangling
  BY <1>1, <1>2
<1>4. Parsing(r) = Parsing(s) /\ n \in Parsing(s)
  BY <1>1, <1>2, <1>3 DEF Parsing
<1>5. ASSUME NEW i \in Parsing(s)
      PROVE  i \in 1 .. n /\ (Later(r, i) <=> Later(s, i)) /\ (Threatened(r, i) <=> Threatened(s, i))
  <2>1. i \in 1 .. n
    BY DEF Parsing
  <2>2. Later(r, i) <=> Later(s, i)
    BY <1>4 DEF Later
  <2>3. Threatened(r, i) <=> Threatened(s, i)
    BY <1>2, <1>3, <2>1 DEF Threatened
  <2> QED BY <2>1, <2>2, <2>3
<1>6. ASSUME NEW i \in Parsing(s) PROVE SlotSound(r, t, i)
  <2>1. SlotSound(s, t, i)
    BY <1>6 DEF Walkable
  <2>2. CASE i = n
    BY <1>2, <2>1, <2>2 DEF SlotSound
  <2>3. CASE i # n
    <3>1. i \in 1 .. n - 1 /\ i + 1 \in 1 .. n
      BY <1>2, <1>5, <1>6, <2>3
    <3> QED BY <1>2, <1>3, <2>1, <3>1 DEF SlotSound
  <2> QED BY <2>2, <2>3
<1>7. ASSUME w, NEW i \in Parsing(s) PROVE SlotWatched(r, cm, i)
  <2>1. SlotWatched(s, cm, i)
    BY <1>7 DEF Walkable
  <2>2. Threatened(r, i) => cm \/ Later(r, i)
    BY <1>5, <1>7, <2>1 DEF SlotWatched
  <2>3. \A j, c \in 1 .. Len(r) :
          i <= c /\ c <= j /\ r[j].kind \in {"parse", "force"} => r[c].kind # "catch"
    BY <1>2, <1>3, <2>1 DEF SlotWatched
  <2>4. i = Len(r) => ~ r[i].dangling
    <3>1. ~ Later(r, n)
      BY <1>2, <1>4 DEF Later, Parsing
    <3> QED BY <1>2, <2>2, <3>1 DEF Threatened
  <2> QED BY <2>2, <2>3, <2>4 DEF SlotWatched
<1> QED BY <1>2, <1>4, <1>6, <1>7 DEF Walkable, r

LEMMA ParseZeroWatched ==
  ASSUME NEW w, Watching(w), Tabled, ParseZero
  PROVE  Watched(w)
<1> DEFINE n == Len(stack)
<1>1. /\ Waits("parse") /\ Top.answer = "zero" /\ Typed
      /\ UNCHANGED <<sentences, command_modification>>
  BY DEF ParseZero, Watching
<1>2. /\ Top \in ParseFrames /\ Top = stack[n] /\ stack # <<>> /\ Top.e \in Int /\ Top.kind = "parse"
      /\ Top.ob \in Objects
  <2>1. /\ Top \in ParseFrames /\ Top = stack[n] /\ stack # <<>> /\ Top.e \in Int
        /\ Top.kind = "parse"
    BY <1>1, ParserFrame, WaitsFrame
  <2> QED BY <2>1 DEF ParseFrames
<1>3. CASE command_modification
  <2>1. Error
    BY <1>3 DEF ParseZero
  <2> QED BY <1>1, <2>1, ErrorWatched
<1>4. CASE ~ command_modification
  <2> DEFINE e == Top.e + 1
             f == [Top EXCEPT !.e = e, !.answer = "none"]
  <2>1. stack' = Append(Below, f)
    BY <1>4 DEF ParseZero
  <2>2. e \in Int /\ e = Top.e + 1
    BY <1>2
  <2> HIDE DEF e
  <2>3. /\ f \in ParseFrames /\ f.ob = Top.ob /\ f.e = e /\ f.dangling = Top.dangling
        /\ f.answer = "none"
    BY <1>2, <2>2 DEF ParseFrames
  <2> HIDE DEF f
  <2>4. Len(sentences[Top.ob]) \in Nat
    BY <1>2, TabledIs
  <2>5. Walkable(Append(Front(stack), f), sentences, command_modification, w)
    <3>1. /\ stack[n].kind = "parse" /\ stack[n].answer # "none"
          /\ Len(sentences[stack[n].ob]) \in Nat /\ f.ob = stack[n].ob
          /\ f.e = stack[n].e + 1 /\ f.dangling = stack[n].dangling
      BY <1>1, <1>2, <2>2, <2>3, <2>4
    <3> QED BY <1>2, <1>4, <2>3, <3>1, NextSlot DEF Watching
  <2> QED BY <1>1, <2>1, <2>5 DEF Watched, Below
<1> QED BY <1>3, <1>4

LEMMA TurnWatched ==
  ASSUME NEW w, Watching(w), NEW o, Turn(o)
  PROVE  Watched(w)
<1> DEFINE f == [kind |-> "call", ob |-> NoObject, comgiver |-> NoObject]
<1>1. /\ stack = <<>> /\ stack' = <<f>> /\ UNCHANGED <<sentences, command_modification>>
      /\ Walkable(stack, sentences, command_modification, w) /\ stack \in Seq(Frames)
  BY DEF Turn, Watching, Typed
<1>2. f \in Frames /\ f.kind = "call"
  BY LpcFrames DEF Values
<1> HIDE DEF f
<1>3. stack' = Append(stack, f)
  BY <1>1
<1>4. Clear(stack)
  BY <1>1 DEF Clear, Parsing
<1> QED BY <1>1, <1>2, <1>3, <1>4, PushWalkable DEF Watched

-----------------------------------------------------------------------------
(* Every step                                                              *)

\* The liberties that make the flag command_modification useless
Unwatched == {"disable_other", "caught_command"}

\* Every step keeps the walks through the tables sound, and while LPC code has
\* not taken one of these liberties no walk goes on in a table given up.
LEMMA WatchStep ==
  ASSUME NEW w, Watching(w), Tabled, [Next]_vars, w => taken' \cap Unwatched = {}
  PROVE  Watched(w)
<1>1. ASSUME UNCHANGED <<stack, command_modification, sentences>> PROVE Watched(w)
  BY <1>1, StillWatched
<1>2. /\ w => "disable_other" \notin taken'
      /\ w => "caught_command" \notin taken'
  BY DEF Unwatched
<1>3. CASE Lpc
  <2>1. ASSUME NEW o \in Objects, DisableCommands(o) PROVE Watched(w)
    BY <1>2, <2>1, DisableWatched
  <2>2. ASSUME NEW o \in Values, Catch(o) PROVE Watched(w)
    BY <2>2, LpcWatched
  <2>3. ASSUME NEW o \in Objects, NEW pri \in Priorities, AddAction(o, pri) PROVE Watched(w)
    BY <2>3, AddActionWatched
  <2>4. ASSUME NEW o \in Values, NEW p \in Objects, CallOther(o, p) PROVE Watched(w)
    BY <2>4, LpcWatched
  <2>5. ASSUME NEW o \in Objects, NEW p \in Objects, QueryActions(o, p) PROVE Watched(w)
    BY <2>5, QueryWatched
  <2>6. ASSUME NEW o \in Objects, NEW p \in Objects, MoveObject(o, p) PROVE Watched(w)
    BY <2>6, MoveWatched
  <2>7. ASSUME NEW o \in Objects, NEW p \in Objects, Destruct(o, p) PROVE Watched(w)
    BY <2>7, DestructWatched
  <2>8. ASSUME NEW o \in Objects, NEW p \in Objects, Command(o, p) PROVE Watched(w)
    BY <1>2, <2>8, CommandWatched
  <2>9. ASSUME NEW o, NEW p, EnableCommands(o) \/ SetThisPlayer(o, p) \/ Clone(o, p)
        PROVE  UNCHANGED <<stack, command_modification, sentences>>
    BY <2>9 DEF EnableCommands, SetThisPlayer, Clone
  <2>10. CASE Return \/ Throw
    BY <2>10, ReturnWatched, ThrowWatched
  <2> QED BY <1>1, <1>3, <2>1, <2>2, <2>3, <2>4, <2>5, <2>6, <2>7, <2>8, <2>9, <2>10
          DEF Lpc, Values
<1>4. CASE Driver
  <2>1. CASE InitDestDone \/ InitLoop \/ InitItemDone \/ InitOtherDone \/ InitLastDone
    BY <2>1, InitWatched
  <2>2. CASE MoveOn \/ DestructDone
    BY <2>2, MoveOnWatched, DestructDoneWatched
  <2>3. CASE PermitDone \/ AskMaster \/ MasterDone
    BY <2>3, PermitDoneWatched, AskMasterWatched, MasterDoneWatched
  <2>4. ASSUME NEW o, NEW e \in Int, ParseMatch(o, e) PROVE Watched(w)
    BY <2>4, ParseMatchWatched
  <2>5. CASE ForceDone \/ ParseEnd \/ ParseZero \/ ParseTrue
    BY <2>5, ForceDoneWatched, ParserEndsWatched, ParseZeroWatched
  <2>6. 1 .. MaxSlots \subseteq Int
    BY BoundsAssumption
  <2> QED BY <1>4, <2>1, <2>2, <2>3, <2>4, <2>5, <2>6 DEF Driver
<1>5. ASSUME NEW o \in Objects, Turn(o) \/ Forget(o) PROVE Watched(w)
  <2>1. Forget(o) => UNCHANGED <<stack, command_modification, sentences>>
    BY DEF Forget
  <2> QED BY <1>1, <1>5, <2>1, TurnWatched
<1>6. UNCHANGED vars => UNCHANGED <<stack, command_modification, sentences>>
  BY DEF vars
<1> QED BY <1>1, <1>3, <1>4, <1>5, <1>6 DEF Next, Idle

\* The budget of the model and the flag
Counted == calls \in Nat /\ command_modification \in BOOLEAN

LEMMA CountedStep ==
  ASSUME Counted, [Next]_vars
  PROVE  Counted'
<1>1. UNCHANGED vars => Counted'
  BY DEF vars, Counted
<1>2. ASSUME NEW o, NEW m, Operation(o, m) PROVE calls' \in Nat
  BY <1>2 DEF Operation, Counted
<1>3. CASE Lpc
  <2>1. ASSUME NEW o, NEW p, NEW pri,
               \/ EnableCommands(o) \/ Catch(o)
               \/ CallOther(o, p) \/ SetThisPlayer(o, p) \/ QueryActions(o, p) \/ Clone(o, p)
        PROVE  Counted'
    <3>1. Operation(o, {}) /\ UNCHANGED command_modification
      BY <2>1 DEF EnableCommands, Catch, CallOther, SetThisPlayer, QueryActions, Clone
    <3> QED BY <1>2, <3>1 DEF Counted
  <2>2. ASSUME NEW o, DisableCommands(o) PROVE Counted'
    BY <1>2, <2>2 DEF DisableCommands, Counted
  <2>3. ASSUME NEW o, NEW pri, AddAction(o, pri) PROVE Counted'
    BY <1>2, <2>3 DEF AddAction, Counted
  <2>4. ASSUME NEW o, NEW p, MoveObject(o, p) \/ Destruct(o, p) PROVE Counted'
    BY <1>2, <2>4 DEF MoveObject, Destruct, Counted
  <2>5. ASSUME NEW o, NEW p, Command(o, p) PROVE Counted'
    BY <1>2, <2>5 DEF Command, Counted
  <2>6. CASE Return \/ Throw
    BY <2>6 DEF Return, Throw, Counted
  <2> QED BY <1>3, <2>1, <2>2, <2>3, <2>4, <2>5, <2>6 DEF Lpc
<1>4. CASE Driver
  <2>1. CASE InitDestDone \/ InitLoop \/ InitItemDone \/ InitOtherDone \/ InitLastDone
    BY <2>1 DEF InitDestDone, InitLoop, InitItemDone, InitOtherDone, InitLastDone, Counted
  <2>2. CASE MoveOn \/ DestructDone \/ AskMaster \/ ForceDone \/ ParseZero
    BY <2>2 DEF MoveOn, DestructDone, AskMaster, ForceDone, ParseZero, Counted
  <2>3. CASE PermitDone \/ MasterDone
    BY <2>3 DEF PermitDone, MasterDone, Counted
  <2>4. ASSUME NEW o, NEW e, ParseMatch(o, e) \/ ParseEnd \/ ParseTrue PROVE Counted'
    BY <2>4 DEF ParseMatch, ParseEnd, ParseTrue, Counted
  <2> QED BY <1>4, <2>1, <2>2, <2>3, <2>4 DEF Driver
<1>5. ASSUME NEW o, Turn(o) \/ Forget(o) PROVE Counted'
  BY <1>5 DEF Turn, Forget, Counted
<1> QED BY <1>1, <1>3, <1>4, <1>5 DEF Next, Idle

\* The invariant of the tables and of the walks through them
SentInv ==
  /\ Inv /\ Tabled /\ Counted
  /\ Decent => Nearby
  /\ Walkable(stack, sentences, command_modification, taken \cap Unwatched = {})

LEMMA SentInit ==
  ASSUME Init
  PROVE  SentInv
<1>1. Inv
  BY InitInv
<1>2. /\ sentences = [o \in Objects |-> Null] /\ living \subseteq Objects
      /\ \A p \in Objects : sentences[p] = Null
  BY DEF Init
<1>3. Tabled
  BY <1>2, NullTable DEF Tabled, IsTable
<1>4. Nearby
  BY <1>2, NullTable DEF Nearby
<1>5. Counted
  <2> DEFINE S == {o \in Objects : life[o] = "live"}
  <2>1. Cardinality(S) \in 0 .. Cardinality(Objects)
    <3>1. /\ Cardinality(S) \in Nat /\ Cardinality(Objects) \in Nat
          /\ Cardinality(S) <= Cardinality(Objects)
      BY FS_Subset, FS_CardinalityType, ObjectsAssumption
    <3> QED BY <3>1
  <2>2. calls = Budget[Cardinality(S)] /\ command_modification = FALSE
    BY DEF Init
  <2> HIDE DEF S
  <2> QED BY <2>1, <2>2, BoundsAssumption DEF Counted
<1>6. Walkable(stack, sentences, command_modification, taken \cap Unwatched = {})
  <2>1. stack = <<>> /\ stack \in Seq(Frames) /\ Parsing(stack) = {}
    BY EmptySeq DEF Init, Parsing
  <2> QED BY <2>1 DEF Walkable
<1> QED BY <1>1, <1>3, <1>4, <1>5, <1>6 DEF SentInv

LEMMA SentStep ==
  ASSUME SentInv, [Next]_vars
  PROVE  SentInv'
<1>1. Inv /\ Inv' /\ Typed /\ Tabled /\ Counted /\ taken \subseteq taken'
  BY StepInv, TakenGrows DEF SentInv, Inv
<1>2. Tabled' /\ Counted'
  BY <1>1, TableStep, CountedStep
<1>3. ASSUME Decent' PROVE Nearby'
  <2>1. Decent
    BY <1>1, <1>3 DEF Decent
  <2>2. WellFormed
    BY <1>1, <2>1 DEF Inv, Decent
  <2> QED BY <1>1, <1>3, <2>1, <2>2, TableStep DEF SentInv
<1>4. (Walkable(stack, sentences, command_modification, taken \cap Unwatched = {}))'
  <2> DEFINE w == taken' \cap Unwatched = {}
  <2>1. w => taken \cap Unwatched = {}
    BY <1>1
  <2>2. Watching(w)
    BY <1>1, <2>1 DEF SentInv, Walkable, Watching
  <2>3. w => taken' \cap Unwatched = {}
    OBVIOUS
  <2> HIDE DEF w
  <2>4. Watched(w)
    BY <1>1, <2>2, <2>3, WatchStep
  <2> QED BY <2>4 DEF Watched, w, Walkable, SlotSound, SlotWatched, Parsing, Threatened, Later, Unwatched
<1> QED BY <1>1, <1>2, <1>3, <1>4 DEF SentInv

LEMMA SentInvSound ==
  ASSUME SentInv
  PROVE  SentencesSound
<1>1. Typed /\ Tabled /\ Counted /\ DOMAIN stack = 1 .. Len(stack)
  BY LenProperties DEF SentInv, Inv, Typed
<1>2. ASSUME NEW p \in Objects
      PROVE  sentences[p] \in Seq(Sentence) /\ DOMAIN sentences[p] = 1 .. Len(sentences[p])
  BY <1>1, TabledIs
<1>3. ASSUME NEW i \in 1 .. Len(stack)
      PROVE  stack[i] \in Frames /\
             (stack[i].kind = "parse" => \/ stack[i].dangling
                                         \/ stack[i].e \in 1 .. Len(sentences[stack[i].ob]) + 1)
  <2>1. stack[i] \in Frames
    BY <1>1, ElementOfSeq DEF Typed
  <2>2. stack[i].kind = "parse" => SlotSound(stack, sentences, i)
    BY <1>3 DEF SentInv, Walkable, Parsing
  <2> QED BY <2>1, <2>2 DEF SlotSound
<1>4. TypeOK
  <2>1. ASSUME NEW i \in DOMAIN stack
        PROVE  LET f == stack[i]
               IN \/ f \in LpcFrame
                  \/ f.kind = "exit" /\ {f.item, f.dest} \subseteq Objects
                  \/ f.kind = "init" /\ {f.item, f.dest} \subseteq Objects /\ f.left \subseteq Objects
                  \/ f.kind \in {"destruct", "permit", "force"} /\ f.ob \in Objects
                  \/ f.kind = "parse" /\ (f.dangling \/ f.e \in 1 .. Len(sentences[f.ob]) + 1)
    <3>1. i \in 1 .. Len(stack)
      BY <1>1
    <3> DEFINE f == stack[i]
    <3>2. f \in Frames /\ (f.kind = "parse" => \/ f.dangling
                                              \/ f.e \in 1 .. Len(sentences[f.ob]) + 1)
      BY <1>3, <3>1
    <3> HIDE DEF f
    <3>3. CASE f \in LpcFrame \/ f \in ParseFrames
      BY <3>2, <3>3 DEF ParseFrames, f
    <3>4. CASE f \in ExitFrames
      BY <3>4 DEF ExitFrames, f
    <3>5. CASE f \in InitFrames
      BY <3>5 DEF InitFrames, f
    <3>6. CASE f \in DestructFrames \/ f \in AskFrames
      BY <3>6 DEF DestructFrames, AskFrames, f
    <3> QED BY <3>2, <3>3, <3>4, <3>5, <3>6 DEF Frames
  <2>2. /\ living \subseteq Objects /\ \A o \in Objects : sentences[o] \in Seq(Sentence)
        /\ command_giver \in Objects \cup {NoObject}
        /\ current_object \in Objects \cup {NoObject}
        /\ command_modification \in BOOLEAN
        /\ calls \in Nat /\ taken \subseteq Liberties
    BY <1>1, <1>2 DEF Tabled, Typed, Counted, Values
  <2> QED BY <2>1, <2>2 DEF TypeOK
<1>5. SentencesPresent
  <2>1. SUFFICES ASSUME Decent, NEW p \in living, NEW e \in DOMAIN sentences[p],
                        sentences[p][e] # Empty
                 PROVE  Present(sentences[p][e].function, p)
    BY DEF SentencesPresent, Decent
  <2>2. p \in Objects
    BY <1>1 DEF Tabled
  <2> QED BY <1>2, <2>1, <2>2 DEF SentInv, Nearby
<1>6. SentencesSorted
  BY <1>1, <1>2 DEF SentencesSorted, Tabled, Descending
<1>7. WalksLiveTable
  <2>1. SUFFICES ASSUME Waits("parse"), Top.answer = "none", Top.dangling,
                        taken \cap Unwatched = {}
                 PROVE  FALSE
    BY DEF WalksLiveTable, Unwatched
  <2>2. Len(stack) \in Parsing(stack)
    <3>1. Len(stack) \in 1 .. Len(stack)
      BY <1>1, <2>1, EmptySeq DEF Waits, Typed
    <3> QED BY <2>1, <3>1 DEF Waits, Top, Parsing
  <2> QED BY <2>1, <2>2 DEF SentInv, Walkable, SlotWatched, Top
<1> QED BY <1>4, <1>5, <1>6, <1>7 DEF SentencesSound

\* The tables of commands, for any number of objects and commands: they come
\* in the order of their priorities through add_action, holes and halving; they
\* hold only commands of present objects while LPC code uses add_action as it
\* is meant; and player_parser never goes on in a table that was given up,
\* unless commands were disabled for another object or a command was caught.
THEOREM SentencesStaySound == Spec => []SentencesSound
<1>1. Init => SentInv
  BY SentInit
<1>2. SentInv /\ [Next]_vars => SentInv'
  BY SentStep
<1>3. SentInv => SentencesSound
  BY SentInvSound
<1> QED BY <1>1, <1>2, <1>3, PTL DEF Spec
=============================================================================

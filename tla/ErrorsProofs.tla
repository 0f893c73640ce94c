---------------------------- MODULE ErrorsProofs ----------------------------
(***************************************************************************)
(* Error contexts nest, whatever way they are left, for any depth of the   *)
(* control stack, any cost and any number of objects.  The invariant ties  *)
(* the three stacks together: from the frame of handle_error on (h, or 0)  *)
(* a frame has one entry of the control stack, the contexts that were      *)
(* pushed lead one by one to the frames that set their jump buffers, and   *)
(* each remembers how deep the control stack was (Chain).  The lemmas are  *)
(* about any stacks st, cs, ec and any jump buffer b of kind ex.           *)
(***************************************************************************)
EXTENDS Errors, TLAPS, FiniteSetTheorems, SequenceTheorems

Values   == Objects \cup {NoObject}
Frames   == [kind : {"function", "catch", "safe", "eval", "handler"},
             ob : Values, giver : Values, csp : Nat]
Registry == [ob : Values, giver : Values]
Saved    == [buf : Nat, exists : 1 .. 3, csp : Nat]

ContextsOf(st) == {i \in DOMAIN st : IsContext(st[i])}

\* h is the frame of handle_error, 0 if no error is being handled.  Above it
\* every frame has its entry of the control stack, and that of a context holds
\* the registers to go back to.
Depths(st, cs, h) ==
  /\ st \in Seq(Frames) /\ cs \in Seq(Registry) /\ h \in 0 .. Len(st)
  /\ \A i \in 1 .. Len(st) : st[i].kind = "handler" <=> i = h
  /\ Len(cs) = Len(st) - h
  /\ \A i \in h + 1 .. Len(st) : st[i].csp = i - h - 1
  /\ \A i \in ContextsOf(st) : i > h /\ cs[i - h] = [ob |-> st[i].ob, giver |-> st[i].giver]

\* The jump buffer and its kind after the k-th context was pushed
BufAt(k, ec, b)     == IF k = Len(ec) THEN b ELSE ec[k + 1].buf
ExistsAt(k, ec, ex) == IF k = Len(ec) THEN ex ELSE ec[k + 1].exists

Chain(st, ec, b, ex, h) ==
  /\ ec \in Seq(Saved) /\ b \in Nat /\ ex \in 1 .. 3
  /\ BufAt(0, ec, b) = 0 /\ ExistsAt(0, ec, ex) = 1
  /\ \A k \in 1 .. Len(ec) :
       /\ BufAt(k, ec, b) \in ContextsOf(st)
       /\ ExistsAt(k, ec, ex) = Level(st[BufAt(k, ec, b)].kind)
       /\ ec[k].csp = BufAt(k, ec, b) - h
  /\ \A j, k \in 1 .. Len(ec) : j < k => BufAt(j, ec, b) < BufAt(k, ec, b)
  /\ \A i \in ContextsOf(st) : \E k \in 1 .. Len(ec) : i = BufAt(k, ec, b)
  /\ IsFiniteSet(ContextsOf(st)) /\ Cardinality(ContextsOf(st)) = Len(ec)

Nested(st, cs, ec, b, ex, h) == Depths(st, cs, h) /\ Chain(st, ec, b, ex, h)

Scalars ==
  /\ num_error \in 0 .. 1 /\ eval_cost \in 0 .. MaxCost /\ current_heart_beat \in BOOLEAN /\ fatal \in BOOLEAN
  /\ current_object \in Values /\ command_giver \in Values

\* Only one error is handled at a time, and only then can there be an error in
\* an error.
Handling(h, errors, end) == errors = (IF h = 0 THEN 0 ELSE 1) /\ (end => h # 0)

Inv ==
  /\ Scalars
  /\ \E h \in 0 .. Len(stack) :
       Nested(stack, csp, ecsp, buf, exists, h) /\ Handling(h, num_error, fatal)

-----------------------------------------------------------------------------
(* The ways a stack of frames changes                                      *)

\* The kinds of frames and the errors they take (interpret.c, simulate.c).
LEMMA Kinds ==
  ASSUME NEW f \in Frames
  PROVE  /\ IsContext(f) <=> f.kind \in {"catch", "safe", "eval"}
         /\ IsContext(f) => Level(f.kind) \in 2 .. 3
         /\ IsContext(f) <=> f.kind # "function" /\ f.kind # "handler"
  BY DEF IsContext, Level, Frames

\* What is on a stack, and what one more frame adds to it.
LEMMA Pushed ==
  ASSUME NEW S, NEW s \in Seq(S), NEW x \in S
  PROVE  /\ Append(s, x) \in Seq(S) /\ Len(Append(s, x)) = Len(s) + 1
         /\ Append(s, x)[Len(s) + 1] = x
         /\ \A i \in 1 .. Len(s) : Append(s, x)[i] = s[i]
         /\ Len(s) \in Nat /\ DOMAIN s = 1 .. Len(s)
  BY AppendProperties, LenProperties

\* A stack that is cut keeps what is below.
LEMMA Cut ==
  ASSUME NEW S, NEW s \in Seq(S), NEW n \in 0 .. Len(s)
  PROVE  /\ SubSeq(s, 1, n) \in Seq(S) /\ Len(SubSeq(s, 1, n)) = n
         /\ \A i \in 1 .. n : SubSeq(s, 1, n)[i] = s[i]
         /\ Len(s) \in Nat /\ DOMAIN s = 1 .. Len(s)
  BY SubSeqProperties, LenProperties

\* The jump buffer leads to the innermost context; without one it is the main loop's.
LEMMA Innermost ==
  ASSUME NEW st, NEW cs, NEW ec, NEW b, NEW ex, NEW h, Nested(st, cs, ec, b, ex, h)
  PROVE  /\ Len(ec) = 0 => b = 0 /\ ex = 1 /\ ContextsOf(st) = {}
         /\ Len(ec) # 0 => /\ b \in ContextsOf(st) /\ ex = Level(st[b].kind) /\ ex # 1
                           /\ b \in h + 1 .. Len(st) /\ ec[Len(ec)].csp = b - h
                           /\ b # 0 /\ \A i \in ContextsOf(st) : i <= b
         /\ Len(ec) \in Nat /\ Len(st) \in Nat /\ Len(cs) \in Nat /\ h \in 0 .. Len(st)
<1>1. /\ Len(ec) \in Nat /\ Len(st) \in Nat /\ Len(cs) \in Nat /\ h \in 0 .. Len(st)
      /\ DOMAIN st = 1 .. Len(st)
  BY LenProperties DEF Nested, Depths, Chain
<1>2. CASE Len(ec) = 0
  BY <1>1, <1>2 DEF Nested, Chain, BufAt, ExistsAt
<1>3. CASE Len(ec) # 0
  <2>1. Len(ec) \in 1 .. Len(ec) /\ BufAt(Len(ec), ec, b) = b /\ ExistsAt(Len(ec), ec, ex) = ex
    BY <1>1, <1>3 DEF BufAt, ExistsAt
  <2>2. b \in ContextsOf(st) /\ ex = Level(st[b].kind) /\ ec[Len(ec)].csp = b - h
    BY <2>1 DEF Nested, Chain
  <2>3. b \in 1 .. Len(st) /\ b > h /\ IsContext(st[b])
    BY <1>1, <2>2 DEF Nested, Depths, ContextsOf
  <2>4. ex # 1
    BY <2>2, <2>3, Kinds DEF Nested, Depths
  <2>5. ASSUME NEW i \in ContextsOf(st)
        PROVE  i <= b
    <3>1. PICK k \in 1 .. Len(ec) : i = BufAt(k, ec, b)
      BY DEF Nested, Chain
    <3>2. k = Len(ec) \/ k < Len(ec)
      BY <1>1
    <3>3. k < Len(ec) => i < b
      BY <2>1, <3>1 DEF Nested, Chain
    <3>4. i \in Nat
      BY <1>1 DEF ContextsOf
    <3> QED BY <2>1, <2>3, <3>1, <3>2, <3>3, <3>4
  <2> QED BY <1>1, <1>3, <2>2, <2>3, <2>4, <2>5
<1> QED BY <1>1, <1>2, <1>3

\* A function is called (interpret.c, push_control_stack).
LEMMA PushFunction ==
  ASSUME NEW st, NEW cs, NEW ec, NEW b, NEW ex, NEW h, Nested(st, cs, ec, b, ex, h),
         NEW f \in Frames, NEW r \in Registry, f.kind = "function", f.csp = Len(cs)
  PROVE  Nested(Append(st, f), Append(cs, r), ec, b, ex, h)
<1> DEFINE su == Append(st, f)
           cu == Append(cs, r)
<1>1. st \in Seq(Frames) /\ cs \in Seq(Registry) /\ h \in 0 .. Len(st) /\ Len(cs) = Len(st) - h
  BY DEF Nested, Depths
<1>2. /\ su \in Seq(Frames) /\ Len(su) = Len(st) + 1 /\ su[Len(st) + 1] = f
      /\ \A i \in 1 .. Len(st) : su[i] = st[i]
      /\ Len(st) \in Nat /\ DOMAIN st = 1 .. Len(st) /\ DOMAIN su = 1 .. Len(st) + 1
  BY <1>1, Pushed, LenProperties
<1>3. /\ cu \in Seq(Registry) /\ Len(cu) = Len(cs) + 1
      /\ \A i \in 1 .. Len(cs) : cu[i] = cs[i]
      /\ Len(cs) \in Nat
  BY <1>1, Pushed
<1> HIDE DEF su, cu
<1>4. ~ IsContext(f)
  BY Kinds
<1>5. ContextsOf(su) = ContextsOf(st)
  BY <1>2, <1>4 DEF ContextsOf
<1>6. Depths(su, cu, h)
  <2>1. \A i \in 1 .. Len(su) : su[i].kind = "handler" <=> i = h
    BY <1>1, <1>2 DEF Nested, Depths
  <2>2. ASSUME NEW i \in h + 1 .. Len(su)
        PROVE  su[i].csp = i - h - 1
    <3>1. CASE i = Len(st) + 1
      BY <1>1, <1>2, <3>1
    <3>2. CASE i \in h + 1 .. Len(st)
      <4>1. st[i].csp = i - h - 1
        BY <3>2 DEF Nested, Depths
      <4>2. su[i] = st[i]
        BY <1>1, <1>2, <3>2
      <4> QED BY <4>1, <4>2
    <3> QED BY <1>1, <1>2, <3>1, <3>2
  <2>3. ASSUME NEW i \in ContextsOf(su)
        PROVE  i > h /\ cu[i - h] = [ob |-> su[i].ob, giver |-> su[i].giver]
    <3>1. i \in ContextsOf(st) /\ i \in 1 .. Len(st)
      BY <1>2, <1>5 DEF ContextsOf
    <3>2. i > h /\ cs[i - h] = [ob |-> st[i].ob, giver |-> st[i].giver]
      BY <3>1 DEF Nested, Depths
    <3>3. su[i] = st[i] /\ i - h \in 1 .. Len(cs)
      BY <1>1, <1>2, <3>1, <3>2
    <3> QED BY <1>3, <3>2, <3>3
  <2>4. su \in Seq(Frames) /\ cu \in Seq(Registry) /\ h \in 0 .. Len(su) /\ Len(cu) = Len(su) - h
    BY <1>1, <1>2, <1>3
  <2> QED BY <2>1, <2>2, <2>3, <2>4 DEF Depths
<1>7. Chain(su, ec, b, ex, h)
  <2>1. \A i \in ContextsOf(st) : su[i] = st[i]
    BY <1>2 DEF ContextsOf
  <2> QED BY <1>5, <2>1 DEF Nested, Chain
<1> QED BY <1>6, <1>7 DEF Nested, su, cu

\* A context is pushed, with the frame its jump buffer leads to and an entry of
\* the control stack (push_error_context, interpret.c).
LEMMA PushContext ==
  ASSUME NEW st, NEW cs, NEW ec, NEW b, NEW ex, NEW h, Nested(st, cs, ec, b, ex, h),
         NEW f \in Frames, IsContext(f), f.csp = Len(cs)
  PROVE  Nested(Append(st, f), Append(cs, [ob |-> f.ob, giver |-> f.giver]),
                Append(ec, [buf |-> b, exists |-> ex, csp |-> Len(cs) + 1]),
                Len(st) + 1, Level(f.kind), h)
<1> DEFINE su == Append(st, f)
           r  == [ob |-> f.ob, giver |-> f.giver]
           cu == Append(cs, r)
           e  == [buf |-> b, exists |-> ex, csp |-> Len(cs) + 1]
           eu == Append(ec, e)
           n  == Len(ec)
<1>1. /\ st \in Seq(Frames) /\ cs \in Seq(Registry) /\ h \in 0 .. Len(st) /\ Len(cs) = Len(st) - h
      /\ ec \in Seq(Saved) /\ b \in Nat /\ ex \in 1 .. 3 /\ n \in Nat
  BY LenProperties DEF Nested, Depths, Chain
<1>2. /\ su \in Seq(Frames) /\ Len(su) = Len(st) + 1 /\ su[Len(st) + 1] = f
      /\ \A i \in 1 .. Len(st) : su[i] = st[i]
      /\ Len(st) \in Nat /\ DOMAIN st = 1 .. Len(st) /\ DOMAIN su = 1 .. Len(st) + 1
  BY <1>1, Pushed, LenProperties
<1>3. /\ cu \in Seq(Registry) /\ Len(cu) = Len(cs) + 1 /\ cu[Len(cs) + 1] = r
      /\ \A i \in 1 .. Len(cs) : cu[i] = cs[i]
      /\ Len(cs) \in Nat
  <2>1. r \in Registry
    BY DEF Frames, Registry
  <2> QED BY <1>1, <2>1, Pushed
<1>4. /\ eu \in Seq(Saved) /\ Len(eu) = n + 1 /\ eu[n + 1] = e
      /\ \A i \in 1 .. n : eu[i] = ec[i]
  <2>1. e \in Saved
    BY <1>1, <1>3 DEF Saved
  <2> QED BY <1>1, <2>1, Pushed
<1>5. /\ r = [ob |-> f.ob, giver |-> f.giver]
      /\ e.buf = b /\ e.exists = ex /\ e.csp = Len(cs) + 1
  OBVIOUS
<1>0. Level(f.kind) \in 2 .. 3 /\ f.kind # "handler"
  BY Kinds
<1> HIDE DEF su, cu, eu, n, r, e
<1>6. ContextsOf(su) = ContextsOf(st) \cup {Len(st) + 1} /\ Len(st) + 1 \notin ContextsOf(st)
  BY <1>2 DEF ContextsOf
<1>7. Depths(su, cu, h)
  <2>1. ASSUME NEW i \in 1 .. Len(su)
        PROVE  su[i].kind = "handler" <=> i = h
    <3>1. CASE i = Len(st) + 1
      BY <1>0, <1>1, <1>2, <3>1
    <3>2. CASE i \in 1 .. Len(st)
      <4>1. st[i].kind = "handler" <=> i = h
        BY <3>2 DEF Nested, Depths
      <4> QED BY <1>2, <3>2, <4>1
    <3> QED BY <1>2, <3>1, <3>2
  <2>2. ASSUME NEW i \in h + 1 .. Len(su)
        PROVE  su[i].csp = i - h - 1
    <3>1. CASE i = Len(st) + 1
      <4>1. su[i].csp = Len(cs)
        BY <1>2, <3>1
      <4> QED BY <1>1, <1>2, <3>1, <4>1
    <3>2. CASE i \in h + 1 .. Len(st)
      <4>1. st[i].csp = i - h - 1
        BY <3>2 DEF Nested, Depths
      <4> QED BY <1>1, <1>2, <3>2, <4>1
    <3> QED BY <1>1, <1>2, <3>1, <3>2
  <2>3. ASSUME NEW i \in ContextsOf(su)
        PROVE  i > h /\ cu[i - h] = [ob |-> su[i].ob, giver |-> su[i].giver]
    <3>1. CASE i \in ContextsOf(st)
      <4>1. i \in 1 .. Len(st)
        BY <1>2, <3>1 DEF ContextsOf
      <4>2. i > h /\ cs[i - h] = [ob |-> st[i].ob, giver |-> st[i].giver]
        BY <3>1 DEF Nested, Depths
      <4>3. su[i] = st[i] /\ i - h \in 1 .. Len(cs)
        BY <1>1, <1>2, <4>1, <4>2
      <4> QED BY <1>3, <4>2, <4>3
    <3>2. CASE i = Len(st) + 1
      <4>1. i > h /\ i - h = Len(cs) + 1
        BY <1>1, <1>2, <3>2
      <4> QED BY <1>2, <1>3, <1>5, <3>2, <4>1
    <3> QED BY <1>6, <3>1, <3>2
  <2>4. su \in Seq(Frames) /\ cu \in Seq(Registry) /\ h \in 0 .. Len(su) /\ Len(cu) = Len(su) - h
    BY <1>1, <1>2, <1>3
  <2> QED BY <2>1, <2>2, <2>3, <2>4 DEF Depths
<1>8. /\ \A k \in 0 .. n : /\ BufAt(k, eu, Len(st) + 1) = BufAt(k, ec, b)
                           /\ ExistsAt(k, eu, Level(f.kind)) = ExistsAt(k, ec, ex)
      /\ BufAt(n + 1, eu, Len(st) + 1) = Len(st) + 1
      /\ ExistsAt(n + 1, eu, Level(f.kind)) = Level(f.kind)
  <2>1. ASSUME NEW k \in 0 .. n
        PROVE  /\ BufAt(k, eu, Len(st) + 1) = BufAt(k, ec, b)
               /\ ExistsAt(k, eu, Level(f.kind)) = ExistsAt(k, ec, ex)
    <3>1. BufAt(k, eu, Len(st) + 1) = eu[k + 1].buf /\ ExistsAt(k, eu, Level(f.kind)) = eu[k + 1].exists
      BY <1>1, <1>4 DEF BufAt, ExistsAt
    <3>2. CASE k = n
      BY <1>4, <1>5, <3>1, <3>2 DEF BufAt, ExistsAt, n
    <3>3. CASE k # n
      <4>1. k + 1 \in 1 .. n
        BY <1>1, <3>3
      <4>2. eu[k + 1] = ec[k + 1]
        BY <1>4, <4>1
      <4> QED BY <3>1, <3>3, <4>2 DEF BufAt, ExistsAt, n
    <3> QED BY <3>2, <3>3
  <2>2. n + 1 = Len(eu)
    BY <1>4
  <2> QED BY <2>1, <2>2 DEF BufAt, ExistsAt
<1>9. Chain(su, eu, Len(st) + 1, Level(f.kind), h)
  <2>1. BufAt(0, eu, Len(st) + 1) = 0 /\ ExistsAt(0, eu, Level(f.kind)) = 1
    BY <1>1, <1>8 DEF Nested, Chain
  <2>2. ASSUME NEW k \in 1 .. n + 1
        PROVE  /\ BufAt(k, eu, Len(st) + 1) \in ContextsOf(su)
               /\ ExistsAt(k, eu, Level(f.kind)) = Level(su[BufAt(k, eu, Len(st) + 1)].kind)
               /\ eu[k].csp = BufAt(k, eu, Len(st) + 1) - h
    <3>1. CASE k = n + 1
      BY <1>1, <1>2, <1>4, <1>5, <1>6, <1>8, <3>1
    <3>2. CASE k \in 1 .. n
      <4>1. /\ BufAt(k, ec, b) \in ContextsOf(st) /\ ec[k].csp = BufAt(k, ec, b) - h
            /\ ExistsAt(k, ec, ex) = Level(st[BufAt(k, ec, b)].kind)
        BY <3>2 DEF Nested, Chain, n
      <4>2. su[BufAt(k, ec, b)] = st[BufAt(k, ec, b)]
        BY <1>2, <4>1 DEF ContextsOf
      <4> QED BY <1>1, <1>4, <1>6, <1>8, <3>2, <4>1, <4>2
    <3> QED BY <1>1, <3>1, <3>2
  <2>3. ASSUME NEW j \in 1 .. n + 1, NEW k \in 1 .. n + 1, j < k
        PROVE  BufAt(j, eu, Len(st) + 1) < BufAt(k, eu, Len(st) + 1)
    <3>1. j \in 1 .. n
      BY <1>1, <2>3
    <3>2. BufAt(j, ec, b) \in 1 .. Len(st)
      BY <1>2, <3>1 DEF Nested, Chain, ContextsOf, n
    <3>3. CASE k = n + 1
      BY <1>1, <1>2, <1>8, <3>1, <3>2, <3>3
    <3>4. CASE k \in 1 .. n
      <4>1. BufAt(j, ec, b) < BufAt(k, ec, b)
        BY <2>3, <3>1, <3>4 DEF Nested, Chain, n
      <4>2. j \in 0 .. n /\ k \in 0 .. n
        BY <1>1, <3>1, <3>4
      <4> QED BY <1>8, <4>1, <4>2
    <3> QED BY <1>1, <3>3, <3>4
  <2>4. ASSUME NEW i \in ContextsOf(su)
        PROVE  \E k \in 1 .. n + 1 : i = BufAt(k, eu, Len(st) + 1)
    <3>1. CASE i = Len(st) + 1
      BY <1>1, <1>8, <3>1
    <3>2. CASE i \in ContextsOf(st)
      <4>1. PICK k \in 1 .. n : i = BufAt(k, ec, b)
        BY <3>2 DEF Nested, Chain, n
      <4> QED BY <1>1, <1>8, <4>1
    <3> QED BY <1>6, <3>1, <3>2
  <2>5. IsFiniteSet(ContextsOf(su)) /\ Cardinality(ContextsOf(su)) = n + 1
    <3>1. IsFiniteSet(ContextsOf(st)) /\ Cardinality(ContextsOf(st)) = n
      BY DEF Nested, Chain, n
    <3> QED BY <1>6, <3>1, FS_AddElement
  <2> QED BY <1>0, <1>2, <1>4, <2>1, <2>2, <2>3, <2>4, <2>5 DEF Chain
<1> QED BY <1>7, <1>9 DEF Nested, su, cu, eu, r, e

\* A function returns (pop_control_stack).
LEMMA PopFunction ==
  ASSUME NEW st, NEW cs, NEW ec, NEW b, NEW ex, NEW h, Nested(st, cs, ec, b, ex, h),
         Len(st) > h, ~ IsContext(st[Len(st)])
  PROVE  /\ Nested(SubSeq(st, 1, Len(st) - 1), SubSeq(cs, 1, Len(cs) - 1), ec, b, ex, h)
         /\ Len(cs) \in Nat \ {0} /\ h \in 0 .. Len(st) - 1
<1> DEFINE su == SubSeq(st, 1, Len(st) - 1)
           cu == SubSeq(cs, 1, Len(cs) - 1)
<1>1. /\ st \in Seq(Frames) /\ cs \in Seq(Registry) /\ Len(cs) = Len(st) - h
      /\ Len(st) \in Nat /\ h \in 0 .. Len(st) - 1 /\ Len(cs) \in Nat \ {0}
      /\ DOMAIN st = 1 .. Len(st)
  BY LenProperties DEF Nested, Depths
<1>2. /\ su \in Seq(Frames) /\ Len(su) = Len(st) - 1
      /\ \A i \in 1 .. Len(st) - 1 : su[i] = st[i]
      /\ DOMAIN su = 1 .. Len(st) - 1
  BY <1>1, Cut, LenProperties
<1>3. /\ cu \in Seq(Registry) /\ Len(cu) = Len(cs) - 1
      /\ \A i \in 1 .. Len(cs) - 1 : cu[i] = cs[i]
  BY <1>1, Cut
<1> HIDE DEF su, cu
<1>4. ContextsOf(su) = ContextsOf(st)
  <2>1. \A i : i \in ContextsOf(su) <=> i \in ContextsOf(st)
    BY <1>1, <1>2 DEF ContextsOf
  <2> QED BY <2>1, Zenon
<1>5. Depths(su, cu, h)
  <2>1. ASSUME NEW i \in 1 .. Len(su)
        PROVE  su[i].kind = "handler" <=> i = h
    <3>1. i \in 1 .. Len(st) /\ su[i] = st[i]
      BY <1>1, <1>2
    <3> QED BY <3>1 DEF Nested, Depths
  <2>2. \A i \in h + 1 .. Len(su) : su[i].csp = i - h - 1
    BY <1>1, <1>2 DEF Nested, Depths
  <2>3. ASSUME NEW i \in ContextsOf(su)
        PROVE  i > h /\ cu[i - h] = [ob |-> su[i].ob, giver |-> su[i].giver]
    <3>1. i \in ContextsOf(st) /\ i \in 1 .. Len(st) - 1
      BY <1>2, <1>4 DEF ContextsOf
    <3>2. i > h /\ cs[i - h] = [ob |-> st[i].ob, giver |-> st[i].giver]
      BY <3>1 DEF Nested, Depths
    <3>3. su[i] = st[i] /\ i - h \in 1 .. Len(cs) - 1
      BY <1>1, <1>2, <3>1, <3>2
    <3> QED BY <1>3, <3>2, <3>3
  <2>4. su \in Seq(Frames) /\ cu \in Seq(Registry) /\ h \in 0 .. Len(su) /\ Len(cu) = Len(su) - h
    BY <1>1, <1>2, <1>3
  <2> QED BY <2>1, <2>2, <2>3, <2>4 DEF Depths
<1>6. Chain(su, ec, b, ex, h)
  <2>1. \A i \in ContextsOf(st) : su[i] = st[i]
    BY <1>2, <1>4 DEF ContextsOf
  <2> QED BY <1>4, <2>1 DEF Nested, Chain
<1> QED BY <1>1, <1>5, <1>6 DEF Nested, su, cu

\* The innermost context is left, with all frames from its own on: by a jump to
\* it, or when it is on top, by its return (pop_error_context).
LEMMA Unwind ==
  ASSUME NEW st, NEW cs, NEW ec, NEW b, NEW ex, NEW h, Nested(st, cs, ec, b, ex, h), Len(ec) # 0
  PROVE  Nested(SubSeq(st, 1, b - 1), SubSeq(cs, 1, b - h - 1), SubSeq(ec, 1, Len(ec) - 1),
                ec[Len(ec)].buf, ec[Len(ec)].exists, h)
<1> DEFINE n  == Len(ec)
           su == SubSeq(st, 1, b - 1)
           cu == SubSeq(cs, 1, b - h - 1)
           eu == SubSeq(ec, 1, n - 1)
           bu == ec[n].buf
           xu == ec[n].exists
<1>1. /\ st \in Seq(Frames) /\ cs \in Seq(Registry) /\ ec \in Seq(Saved)
      /\ Len(cs) = Len(st) - h /\ Len(st) \in Nat /\ Len(cs) \in Nat /\ n \in Nat \ {0}
      /\ DOMAIN st = 1 .. Len(st)
  BY LenProperties DEF Nested, Depths, Chain
<1>2. b \in h + 1 .. Len(st) /\ b \in ContextsOf(st) /\ h \in 0 .. Len(st)
      /\ \A i \in ContextsOf(st) : i <= b
  BY Innermost
<1>3. /\ su \in Seq(Frames) /\ Len(su) = b - 1
      /\ \A i \in 1 .. b - 1 : su[i] = st[i]
      /\ DOMAIN su = 1 .. b - 1
  BY <1>1, <1>2, Cut, LenProperties
<1>4. /\ cu \in Seq(Registry) /\ Len(cu) = b - h - 1
      /\ \A i \in 1 .. b - h - 1 : cu[i] = cs[i]
  BY <1>1, <1>2, Cut
<1>5. /\ eu \in Seq(Saved) /\ Len(eu) = n - 1
      /\ \A i \in 1 .. n - 1 : eu[i] = ec[i]
  <2>1. n - 1 \in 0 .. Len(ec)
    BY <1>1
  <2> QED BY <1>1, <2>1, Cut
<1>6. bu \in Nat /\ xu \in 1 .. 3
  <2>1. ec[n] \in Saved
    BY <1>1, ElementOfSeq
  <2> QED BY <2>1 DEF Saved
<1> HIDE DEF su, cu, eu, bu, xu
<1>7. ContextsOf(su) = ContextsOf(st) \ {b} /\ \A i \in ContextsOf(su) : i \in 1 .. b - 1
  <2>1. ASSUME NEW i \in ContextsOf(st), i # b
        PROVE  i \in ContextsOf(su)
    <3>1. i \in 1 .. b - 1 /\ IsContext(st[i])
      BY <1>1, <1>2, <2>1 DEF ContextsOf
    <3> QED BY <1>3, <3>1 DEF ContextsOf
  <2>2. ASSUME NEW i \in ContextsOf(su)
        PROVE  i \in ContextsOf(st) /\ i # b /\ i \in 1 .. b - 1
    <3>1. i \in 1 .. b - 1 /\ IsContext(su[i]) /\ i \in 1 .. Len(st)
      BY <1>1, <1>2, <1>3 DEF ContextsOf
    <3> QED BY <1>1, <1>2, <1>3, <3>1 DEF ContextsOf
  <2> QED BY <2>1, <2>2
<1>8. Depths(su, cu, h)
  <2>1. ASSUME NEW i \in 1 .. Len(su)
        PROVE  su[i].kind = "handler" <=> i = h
    <3>1. i \in 1 .. Len(st) /\ su[i] = st[i]
      BY <1>1, <1>2, <1>3
    <3> QED BY <3>1 DEF Nested, Depths
  <2>2. ASSUME NEW i \in h + 1 .. Len(su)
        PROVE  su[i].csp = i - h - 1
    <3>1. i \in h + 1 .. Len(st) /\ su[i] = st[i]
      BY <1>1, <1>2, <1>3
    <3> QED BY <3>1 DEF Nested, Depths
  <2>3. ASSUME NEW i \in ContextsOf(su)
        PROVE  i > h /\ cu[i - h] = [ob |-> su[i].ob, giver |-> su[i].giver]
    <3>1. i \in ContextsOf(st) /\ i \in 1 .. b - 1
      BY <1>7
    <3>2. i > h /\ cs[i - h] = [ob |-> st[i].ob, giver |-> st[i].giver]
      BY <3>1 DEF Nested, Depths
    <3>3. su[i] = st[i] /\ cu[i - h] = cs[i - h]
      BY <1>2, <1>3, <1>4, <3>1, <3>2
    <3> QED BY <3>2, <3>3
  <2>4. su \in Seq(Frames) /\ cu \in Seq(Registry) /\ h \in 0 .. Len(su) /\ Len(cu) = Len(su) - h
    BY <1>1, <1>2, <1>3, <1>4
  <2> QED BY <2>1, <2>2, <2>3, <2>4 DEF Depths
<1>9. ASSUME NEW k \in 0 .. n - 1
      PROVE  BufAt(k, eu, bu) = BufAt(k, ec, b) /\ ExistsAt(k, eu, xu) = ExistsAt(k, ec, ex)
  <2>1. BufAt(k, ec, b) = ec[k + 1].buf /\ ExistsAt(k, ec, ex) = ec[k + 1].exists
    BY <1>1 DEF BufAt, ExistsAt
  <2>2. CASE k = n - 1
    BY <1>1, <1>5, <2>1, <2>2 DEF BufAt, ExistsAt, bu, xu
  <2>3. CASE k # n - 1
    <3>1. eu[k + 1] = ec[k + 1]
      <4>1. n \in Nat /\ k + 1 \in 1 .. n - 1
        BY <1>1, <2>3
      <4> QED BY <1>1, <1>5, <4>1
    <3>2. k # Len(eu)
      BY <1>1, <1>5, <2>3
    <3> QED BY <2>1, <3>1, <3>2 DEF BufAt, ExistsAt
  <2> QED BY <2>2, <2>3
<1>10. BufAt(n, ec, b) = b
  BY DEF BufAt
<1>11. Chain(su, eu, bu, xu, h)
  <2>1. BufAt(0, eu, bu) = 0 /\ ExistsAt(0, eu, xu) = 1
    <3>1. BufAt(0, ec, b) = 0 /\ ExistsAt(0, ec, ex) = 1
      BY DEF Nested, Chain
    <3>2. 0 \in 0 .. n - 1
      BY <1>1
    <3> QED BY <1>9, <3>1, <3>2
  <2>2. ASSUME NEW k \in 1 .. n - 1
        PROVE  /\ BufAt(k, eu, bu) \in ContextsOf(su)
               /\ ExistsAt(k, eu, xu) = Level(su[BufAt(k, eu, bu)].kind)
               /\ eu[k].csp = BufAt(k, eu, bu) - h
    <3>1. k \in 1 .. n /\ k \in 0 .. n - 1 /\ n \in 1 .. n /\ k < n
      BY <1>1
    <3>2. /\ BufAt(k, ec, b) \in ContextsOf(st) /\ ec[k].csp = BufAt(k, ec, b) - h
          /\ ExistsAt(k, ec, ex) = Level(st[BufAt(k, ec, b)].kind)
      BY <3>1 DEF Nested, Chain, n
    <3>3. BufAt(k, ec, b) < BufAt(n, ec, b)
      BY <3>1 DEF Nested, Chain, n
    <3>4. BufAt(k, ec, b) \in ContextsOf(su) /\ BufAt(k, ec, b) # b
      BY <1>2, <1>7, <1>10, <3>2, <3>3
    <3>5. su[BufAt(k, ec, b)] = st[BufAt(k, ec, b)]
      BY <1>3, <1>7, <3>4
    <3> QED BY <1>5, <1>9, <3>1, <3>2, <3>4, <3>5
  <2>3. ASSUME NEW j \in 1 .. n - 1, NEW k \in 1 .. n - 1, j < k
        PROVE  BufAt(j, eu, bu) < BufAt(k, eu, bu)
    <3>1. j \in 1 .. n /\ k \in 1 .. n /\ j \in 0 .. n - 1 /\ k \in 0 .. n - 1
      BY <1>1
    <3>2. BufAt(j, ec, b) < BufAt(k, ec, b)
      BY <2>3, <3>1 DEF Nested, Chain, n
    <3> QED BY <1>9, <3>1, <3>2
  <2>4. ASSUME NEW i \in ContextsOf(su)
        PROVE  \E k \in 1 .. n - 1 : i = BufAt(k, eu, bu)
    <3>1. PICK k \in 1 .. n : i = BufAt(k, ec, b)
      BY <1>7 DEF Nested, Chain, n
    <3>2. k \in 1 .. n - 1 /\ k \in 0 .. n - 1
      BY <1>1, <1>7, <1>10, <3>1
    <3> QED BY <1>9, <3>1, <3>2
  <2>5. IsFiniteSet(ContextsOf(su)) /\ Cardinality(ContextsOf(su)) = n - 1
    <3>1. IsFiniteSet(ContextsOf(st)) /\ Cardinality(ContextsOf(st)) = n
      BY DEF Nested, Chain, n
    <3> QED BY <1>2, <1>7, <3>1, FS_RemoveElement
  <2> QED BY <1>5, <1>6, <2>1, <2>2, <2>3, <2>4, <2>5 DEF Chain
<1> QED BY <1>8, <1>11 DEF Nested, su, cu, eu, bu, xu

\* A stack without contexts needs none pushed.
LEMMA NoChain ==
  ASSUME NEW st, NEW h, ContextsOf(st) = {}
  PROVE  Chain(st, <<>>, 0, 1, h)
<1> DEFINE ec == <<>>
           cx == ContextsOf(st)
<1>1. ec \in Seq(Saved) /\ Len(ec) = 0
  BY EmptySeq
<1>2. cx = {} /\ IsFiniteSet(cx) /\ Cardinality(cx) = 0
  BY FS_EmptySet
<1> HIDE DEF ec, cx
<1>3. BufAt(0, ec, 0) = 0 /\ ExistsAt(0, ec, 1) = 1
  BY <1>1 DEF BufAt, ExistsAt
<1>4. 1 .. Len(ec) = {}
  BY <1>1
<1> QED BY <1>1, <1>2, <1>3, <1>4 DEF Chain, cx, ec

\* No frames: the main loop.
LEMMA NoFrames == Nested(<<>>, <<>>, <<>>, 0, 1, 0)
<1> DEFINE st == <<>>
           cs == <<>>
<1>1. st \in Seq(Frames) /\ cs \in Seq(Registry) /\ Len(st) = 0 /\ Len(cs) = 0 /\ DOMAIN st = {}
  BY EmptySeq
<1> HIDE DEF st, cs
<1>2. ContextsOf(st) = {}
  BY <1>1 DEF ContextsOf
<1>3. Depths(st, cs, 0)
  BY <1>1, <1>2 DEF Depths
<1>4. Chain(st, <<>>, 0, 1, 0)
  BY <1>2, NoChain
<1> QED BY <1>3, <1>4 DEF Nested, st, cs

\* Without a context the jump buffer is the main loop's.
LEMMA Uncaught ==
  ASSUME NEW st, NEW cs, NEW ec, NEW b, NEW ex, NEW h, Nested(st, cs, ec, b, ex, h), Len(ec) = 0
  PROVE  ContextsOf(st) = {} /\ ec = <<>> /\ b = 0 /\ ex = 1
<1>1. ec \in Seq(Saved)
  BY DEF Nested, Chain
<1>2. ec = <<>>
  BY <1>1, EmptySeq
<1> QED BY <1>2, Innermost

\* The frame of an error handler and the master's function in it, in the place
\* of a control stack that va_error has reset (simulate.c).
LEMMA PushHandler ==
  ASSUME NEW st, NEW cs, NEW ec, NEW b, NEW ex, Nested(st, cs, ec, b, ex, 0), Len(ec) = 0,
         NEW f1 \in Frames, NEW f2 \in Frames, NEW r \in Registry,
         f1.kind = "handler", f2.kind = "function", f2.csp = 0
  PROVE  /\ Nested(Append(Append(st, f1), f2), Append(<<>>, r), ec, b, ex, Len(st) + 1)
         /\ Len(Append(Append(st, f1), f2)) >= Len(st)
<1> DEFINE s1 == Append(st, f1)
           su == Append(s1, f2)
           cu == Append(<<>>, r)
           n  == Len(st)
<1>1. /\ st \in Seq(Frames) /\ n \in Nat /\ DOMAIN st = 1 .. n
      /\ \A i \in 1 .. n : st[i].kind # "handler"
  BY LenProperties DEF Nested, Depths
<1>2. /\ s1 \in Seq(Frames) /\ Len(s1) = n + 1 /\ s1[n + 1] = f1
      /\ \A i \in 1 .. n : s1[i] = st[i]
  BY <1>1, Pushed
<1> HIDE DEF s1
<1>3. /\ su \in Seq(Frames) /\ Len(su) = Len(s1) + 1 /\ su[Len(s1) + 1] = f2
      /\ \A i \in 1 .. Len(s1) : su[i] = s1[i]
      /\ DOMAIN su = 1 .. Len(su)
  BY <1>2, Pushed, LenProperties
<1>4. cu \in Seq(Registry) /\ Len(cu) = 1
  <2>1. <<>> \in Seq(Registry) /\ Len(<<>>) = 0
    BY EmptySeq
  <2> QED BY <2>1, Pushed
<1> HIDE DEF su, cu, n
<1>5. /\ Len(su) = n + 2 /\ DOMAIN su = 1 .. n + 2 /\ su[n + 1] = f1 /\ su[n + 2] = f2
      /\ \A i \in 1 .. n : su[i] = st[i]
  BY <1>1, <1>2, <1>3
<1>6. ContextsOf(st) = {} /\ ec = <<>> /\ b = 0 /\ ex = 1
  BY Uncaught
<1>7. ContextsOf(su) = {}
  <2>1. ~ IsContext(f1) /\ ~ IsContext(f2)
    BY Kinds
  <2>2. \A i \in 1 .. n : ~ IsContext(st[i])
    BY <1>1, <1>6 DEF ContextsOf
  <2>3. \A i \in 1 .. n + 2 : i \in 1 .. n \/ i = n + 1 \/ i = n + 2
    BY <1>1
  <2> QED BY <1>5, <2>1, <2>2, <2>3 DEF ContextsOf
<1>8. Depths(su, cu, n + 1)
  <2>1. \A i \in 1 .. n + 2 : su[i].kind = "handler" <=> i = n + 1
    BY <1>1, <1>5
  <2>2. \A i \in (n + 1) + 1 .. n + 2 : su[i].csp = i - (n + 1) - 1
    BY <1>1, <1>5
  <2> QED BY <1>1, <1>3, <1>4, <1>5, <1>7, <2>1, <2>2 DEF Depths
<1>9. Chain(su, ec, b, ex, n + 1)
  BY <1>6, <1>7, NoChain
<1>10. Len(su) >= n
  BY <1>1, <1>5
<1> QED BY <1>8, <1>9, <1>10 DEF Nested, su, s1, cu, n

-----------------------------------------------------------------------------
(* Jumps and errors                                                        *)

\* The frame that is landed on has what it was entered with.
Landed ==
  /\ current_object' = stack[Len(stack') + 1].ob
  /\ command_giver' = stack[Len(stack') + 1].giver
  /\ Len(csp') = stack[Len(stack') + 1].csp

NestedNow(h) == Nested(stack, csp, ecsp, buf, exists, h)

\* longjmp to a context, and what is done there (interpret.c 1295-1330).
LEMMA JumpLands ==
  ASSUME NEW h, NestedNow(h), Len(ecsp) # 0, Jump
  PROVE  /\ Nested(stack', csp', ecsp', buf', exists', h) /\ Landed
         /\ current_object' \in Values /\ command_giver' \in Values
<1>1. /\ stack \in Seq(Frames) /\ csp \in Seq(Registry) /\ ecsp \in Seq(Saved)
      /\ Len(csp) = Len(stack) - h /\ Len(stack) \in Nat /\ h \in 0 .. Len(stack)
      /\ Len(csp) \in Nat /\ Len(ecsp) \in Nat
  BY LenProperties DEF NestedNow, Nested, Depths, Chain
<1>2. /\ buf \in h + 1 .. Len(stack) /\ buf \in ContextsOf(stack) /\ buf # 0
      /\ ecsp[Len(ecsp)].csp = buf - h
  BY Innermost DEF NestedNow
<1>3. /\ csp[buf - h] = [ob |-> stack[buf].ob, giver |-> stack[buf].giver]
      /\ stack[buf].csp = buf - h - 1
  BY <1>1, <1>2 DEF NestedNow, Nested, Depths
<1>4. stack[buf] \in Frames
  BY <1>1, <1>2, ElementOfSeq
<1>5. /\ stack' = SubSeq(stack, 1, buf - 1)
      /\ buf' = ecsp[Len(ecsp)].buf /\ exists' = ecsp[Len(ecsp)].exists
      /\ ecsp' = SubSeq(ecsp, 1, Len(ecsp) - 1)
      /\ csp' = SubSeq(csp, 1, buf - h - 1)
      /\ current_object' = stack[buf].ob /\ command_giver' = stack[buf].giver
  <2>1. PopContext
    BY <1>2 DEF Jump
  <2>2. /\ stack' = SubSeq(stack, 1, buf - 1)
        /\ buf' = ecsp[Len(ecsp)].buf /\ exists' = ecsp[Len(ecsp)].exists
        /\ ecsp' = SubSeq(ecsp, 1, Len(ecsp) - 1)
        /\ Last(ecsp).csp = buf - h
    BY <1>2, <2>1 DEF Jump, PopContext, Last, Front
  <2>3. CASE stack[buf].kind = "eval"
    BY <1>2, <2>2, <2>3 DEF Jump
  <2>4. CASE stack[buf].kind # "eval"
    <3>1. PopTo(buf - h - 1)
      BY <1>2, <2>2, <2>4 DEF Jump
    <3>2. buf - h - 1 < Len(csp) /\ (buf - h - 1) + 1 = buf - h
      BY <1>1, <1>2
    <3> QED BY <1>3, <2>2, <3>1, <3>2 DEF PopTo
  <2> QED BY <2>2, <2>3, <2>4
<1>6. Nested(stack', csp', ecsp', buf', exists', h)
  BY <1>5, Unwind DEF NestedNow
<1>7. Len(stack') = buf - 1 /\ Len(csp') = buf - h - 1
  <2>1. buf - 1 \in 0 .. Len(stack) /\ buf - h - 1 \in 0 .. Len(csp)
    BY <1>1, <1>2
  <2> QED BY <1>1, <1>5, <2>1, Cut
<1>8. Len(stack') + 1 = buf
  BY <1>1, <1>2, <1>7
<1> QED BY <1>3, <1>4, <1>5, <1>6, <1>7, <1>8 DEF Landed, Frames

\* longjmp to the main loop, which clears the state (backend.c, clear_state).
LEMMA JumpsOut ==
  ASSUME NEW h, NestedNow(h), Len(ecsp) = 0, Jump
  PROVE  /\ Nested(stack', csp', ecsp', buf', exists', 0) /\ stack' = <<>>
         /\ current_object' \in Values /\ command_giver' \in Values
<1>1. buf = 0 /\ ecsp = <<>>
  BY Uncaught DEF NestedNow
<1>2. /\ stack' = <<>> /\ csp' = <<>> /\ exists' = 1 /\ ecsp' = <<>> /\ buf' = 0
      /\ current_object' = NoObject /\ command_giver' = NoObject
  BY <1>1 DEF Jump
<1> QED BY <1>2, NoFrames DEF Values

\* Whatever the step, the stacks agree after it, and a step that leaves a
\* context lands on its frame, or in the main loop.
StepSound ==
  /\ Inv'
  /\ \/ Len(stack') >= Len(stack) \/ stack' = <<>>
     \/ ~ IsContext(stack[Len(stack') + 1]) \/ Landed

\* What a step needs to be sound, from the new stacks
LEMMA Concludes ==
  ASSUME NEW h, Nested(stack', csp', ecsp', buf', exists', h), Handling(h, num_error', fatal'), Scalars'
  PROVE  Inv'
<1>1. h \in 0 .. Len(stack')
  BY DEF Nested, Depths
<1> QED BY <1>1 DEF Inv

\* va_error (simulate.c): caught, handled, or fatal because it is an error in
\* an error.
LEMMA ErrorSound ==
  ASSUME Inv, Error, UNCHANGED current_heart_beat
  PROVE  StepSound
<1>1. Scalars /\ MaxCost \in Nat
  BY BoundsAssumption DEF Inv
<1>2. PICK h \in 0 .. Len(stack) : NestedNow(h) /\ Handling(h, num_error, fatal)
  BY DEF Inv, NestedNow
<1>3. Len(stack) \in Nat /\ Len(ecsp) \in Nat /\ exists \in 1 .. 3
      /\ (Len(ecsp) = 0 <=> exists = 1)
  <2>1. ecsp \in Seq(Saved) /\ exists \in 1 .. 3
    BY <1>2 DEF NestedNow, Nested, Chain
  <2>2. Nested(stack, csp, ecsp, buf, exists, h)
    BY <1>2 DEF NestedNow
  <2> QED BY <2>1, <2>2, Innermost
<1>4. CASE /\ Jump /\ exists # 1 /\ eval_cost' \in {0, eval_cost}
           /\ num_error' = num_error /\ fatal' = fatal
  <2>1. Nested(stack', csp', ecsp', buf', exists', h) /\ Landed
        /\ current_object' \in Values /\ command_giver' \in Values
    BY <1>2, <1>3, <1>4, JumpLands
  <2>2. Handling(h, num_error', fatal') /\ Scalars'
    BY <1>1, <1>2, <1>4, <2>1 DEF Handling, Scalars
  <2> QED BY <2>1, <2>2, Concludes DEF StepSound
<1>5. CASE /\ num_error > 0
           /\ fatal' = TRUE /\ num_error' = num_error /\ eval_cost' = eval_cost
           /\ UNCHANGED <<stack, machine, context>>
  <2>1. /\ Nested(stack', csp', ecsp', buf', exists', h) /\ stack' = stack
        /\ current_object' = current_object /\ command_giver' = command_giver
    BY <1>2, <1>5 DEF machine, context, NestedNow
  <2>2. Handling(h, num_error', fatal') /\ Scalars'
    BY <1>1, <1>2, <1>5, <2>1 DEF Handling, Scalars
  <2> QED BY <1>3, <2>1, <2>2, Concludes DEF StepSound
<1>6. CASE /\ exists = 1 /\ num_error = 0 /\ num_error' = 1 /\ eval_cost' = 0
           /\ stack' = stack \o <<Frame("handler"), [Frame("function") EXCEPT !.csp = 0]>>
           /\ csp' = <<[ob |-> NoObject, giver |-> command_giver]>>
           /\ current_object' = NoObject /\ command_giver' = command_giver
           /\ fatal' = fatal /\ UNCHANGED context
  <2>1. h = 0
    BY <1>2, <1>6 DEF Handling
  <2>2. ecsp' = ecsp /\ buf' = buf /\ exists' = exists
    BY <1>6 DEF context
  <2>3. stack \in Seq(Frames) /\ Len(csp) \in Nat
    BY <1>2, LenProperties DEF NestedNow, Nested, Depths
  <2> DEFINE f1 == Frame("handler")
             f2 == [Frame("function") EXCEPT !.csp = 0]
             r  == [ob |-> NoObject, giver |-> command_giver]
  <2>4. f1 \in Frames /\ f2 \in Frames /\ r \in Registry /\ f1.kind = "handler"
        /\ f2.kind = "function" /\ f2.csp = 0
    BY <1>1, <2>3 DEF Frame, Frames, Scalars, Registry, Values
  <2>5. stack' = stack \o <<f1, f2>> /\ csp' = <<r>>
    BY <1>6
  <2> HIDE DEF f1, f2, r
  <2>6. stack' = Append(Append(stack, f1), f2) /\ csp' = Append(<<>>, r)
    BY <2>3, <2>4, <2>5
  <2>7. /\ Nested(stack', csp', ecsp', buf', exists', Len(stack) + 1)
        /\ Len(stack') >= Len(stack)
    BY <1>2, <1>3, <1>6, <2>1, <2>2, <2>4, <2>6, PushHandler DEF NestedNow
  <2>8. Handling(Len(stack) + 1, num_error', fatal') /\ Scalars'
    BY <1>1, <1>3, <1>6 DEF Handling, Scalars, Values
  <2> QED BY <2>7, <2>8, Concludes DEF StepSound
<1>7. num_error = 0 \/ num_error > 0
  BY <1>1 DEF Scalars
<1>8. CASE exists = 2
  BY <1>4, <1>8 DEF Error
<1>9. CASE exists # 2 /\ num_error > 0
  BY <1>5, <1>9 DEF Error
<1>10. CASE exists = 3 /\ num_error = 0
  BY <1>4, <1>10 DEF Error
<1>11. CASE exists = 1 /\ num_error = 0
  <2>1. exists # 2 /\ exists # 3 /\ ~ (num_error > 0)
    BY <1>11
  <2>2. /\ eval_cost' = 0 /\ UNCHANGED fatal /\ num_error' = 1
        /\ stack' = stack \o <<Frame("handler"), [Frame("function") EXCEPT !.csp = 0]>>
        /\ csp' = <<[ob |-> NoObject, giver |-> command_giver]>>
        /\ current_object' = NoObject
        /\ UNCHANGED <<command_giver, context, catch_value>>
    BY <2>1, Zenon DEF Error
  <2> QED BY <1>6, <1>11, <2>2, Zenon
<1> QED BY <1>3, <1>7, <1>8, <1>9, <1>10, <1>11

-----------------------------------------------------------------------------
(* Steps                                                                   *)

\* An operation costs (check_eval_cost) and disturbs no other counter.
LEMMA OperationCosts ==
  ASSUME Inv, Operation, current_object' \in Values, command_giver' \in Values
  PROVE  /\ Scalars'
         /\ \A h : Handling(h, num_error, fatal) => Handling(h, num_error', fatal')
<1>1. /\ eval_cost \in 0 .. MaxCost /\ MaxCost \in Nat /\ eval_cost < MaxCost
      /\ eval_cost' = eval_cost + 1
      /\ num_error' = num_error /\ current_heart_beat' = current_heart_beat /\ fatal' = fatal
  BY BoundsAssumption DEF Inv, Scalars, Operation
<1>2. eval_cost' \in 0 .. MaxCost
  BY <1>1
<1> QED BY <1>1, <1>2 DEF Inv, Scalars

\* What is known of a state in which the invariant holds
LEMMA Unfolded ==
  ASSUME Inv
  PROVE  /\ Scalars
         /\ \E h \in 0 .. Len(stack) : NestedNow(h) /\ Handling(h, num_error, fatal)
         /\ stack \in Seq(Frames) /\ csp \in Seq(Registry) /\ ecsp \in Seq(Saved)
         /\ Len(stack) \in Nat /\ Len(csp) \in Nat /\ Len(ecsp) \in Nat
         /\ DOMAIN stack = 1 .. Len(stack)
         /\ \A k \in {"function", "catch", "safe", "eval"} :
              /\ Frame(k) \in Frames /\ Frame(k).kind = k /\ Frame(k).csp = Len(csp)
              /\ Frame(k).ob = current_object /\ Frame(k).giver = command_giver
         /\ Registers = [ob |-> current_object, giver |-> command_giver]
         /\ Registers \in Registry
<1>1. Scalars /\ \E h \in 0 .. Len(stack) : NestedNow(h) /\ Handling(h, num_error, fatal)
  BY DEF Inv, NestedNow
<1>2. stack \in Seq(Frames) /\ csp \in Seq(Registry) /\ ecsp \in Seq(Saved)
  BY <1>1 DEF NestedNow, Nested, Depths, Chain
<1>3. Len(stack) \in Nat /\ Len(csp) \in Nat /\ Len(ecsp) \in Nat /\ DOMAIN stack = 1 .. Len(stack)
  BY <1>2, LenProperties
<1>4. current_object \in Values /\ command_giver \in Values
  BY <1>1 DEF Scalars
<1>5. Registers \in Registry
  BY <1>4 DEF Registers, Registry
<1>6. ASSUME NEW k \in {"function", "catch", "safe", "eval"}
      PROVE  /\ Frame(k) \in Frames /\ Frame(k).kind = k /\ Frame(k).csp = Len(csp)
             /\ Frame(k).ob = current_object /\ Frame(k).giver = command_giver
  BY <1>3, <1>4 DEF Frame, Frames
<1> QED BY <1>1, <1>2, <1>3, <1>5, <1>6 DEF Registers

\* A function of LPC code is called.
LEMMA ApplySound ==
  ASSUME Inv, NEW o, Apply(stack, o), UNCHANGED context,
         \A h : Handling(h, num_error, fatal) => Handling(h, num_error', fatal'), Scalars'
  PROVE  StepSound
<1>1. PICK h \in 0 .. Len(stack) : NestedNow(h) /\ Handling(h, num_error, fatal)
  BY Unfolded
<1>2. /\ stack' = Append(stack, Frame("function")) /\ csp' = Append(csp, Registers)
      /\ ecsp' = ecsp /\ buf' = buf /\ exists' = exists
  BY DEF Apply, context
<1>3. /\ Frame("function") \in Frames /\ Frame("function").kind = "function"
      /\ Frame("function").csp = Len(csp) /\ Registers \in Registry
      /\ stack \in Seq(Frames) /\ Len(stack) \in Nat
  BY Unfolded
<1> DEFINE f == Frame("function")
<1> HIDE DEF f
<1>4. Nested(Append(stack, f), Append(csp, Registers), ecsp, buf, exists, h)
  BY <1>1, <1>3, PushFunction DEF NestedNow, f
<1>5. Nested(stack', csp', ecsp', buf', exists', h)
  BY <1>2, <1>4 DEF f
<1>6. Len(stack') >= Len(stack)
  <2>1. f \in Frames /\ stack' = Append(stack, f)
    BY <1>2, <1>3 DEF f
  <2>2. Len(Append(stack, f)) = Len(stack) + 1
    BY <1>3, <2>1, Pushed
  <2> QED BY <1>3, <2>1, <2>2
<1> QED BY <1>1, <1>5, <1>6, Concludes DEF StepSound

\* A context is entered: by catch, or by a constant expression.
LEMMA EnterSound ==
  ASSUME Inv, NEW k \in {"catch", "eval"}, Enter(k), Operation, current_object' \in Values
  PROVE  StepSound
<1>1. PICK h \in 0 .. Len(stack) : NestedNow(h) /\ Handling(h, num_error, fatal)
  BY Unfolded
<1> DEFINE f == Frame(k)
<1>2. /\ stack' = Append(stack, f) /\ csp' = Append(csp, Registers)
      /\ ecsp' = Append(ecsp, [buf |-> buf, exists |-> exists, csp |-> Len(csp) + 1])
      /\ exists' = Level(k) /\ buf' = Len(stack) + 1 /\ command_giver' = command_giver
  BY DEF Enter
<1>3. /\ f \in Frames /\ f.kind = k /\ f.csp = Len(csp)
      /\ Registers = [ob |-> f.ob, giver |-> f.giver]
      /\ stack \in Seq(Frames) /\ Len(stack) \in Nat /\ Scalars
  BY Unfolded
<1> HIDE DEF f
<1>4. IsContext(f)
  BY <1>3, Kinds
<1>5. Nested(Append(stack, f), Append(csp, [ob |-> f.ob, giver |-> f.giver]),
             Append(ecsp, [buf |-> buf, exists |-> exists, csp |-> Len(csp) + 1]),
             Len(stack) + 1, Level(f.kind), h)
  BY <1>1, <1>3, <1>4, PushContext DEF NestedNow
<1>6. Nested(stack', csp', ecsp', buf', exists', h)
  BY <1>2, <1>3, <1>5
<1>7. Len(stack') >= Len(stack)
  <2>1. Len(Append(stack, f)) = Len(stack) + 1
    BY <1>3, Pushed
  <2> QED BY <1>2, <1>3, <2>1
<1>8. Scalars' /\ Handling(h, num_error', fatal')
  BY <1>1, <1>2, <1>3, OperationCosts DEF Scalars
<1> QED BY <1>6, <1>7, <1>8, Concludes DEF StepSound

\* socket_release: a context, and the function of the new owner in it.
LEMMA SocketReleaseSound ==
  ASSUME Inv, NEW o \in Objects, SocketRelease(o)
  PROVE  StepSound
<1>1. PICK h \in 0 .. Len(stack) : NestedNow(h) /\ Handling(h, num_error, fatal)
  BY Unfolded
<1> DEFINE f == Frame("safe")
           g == [Frame("function") EXCEPT !.csp = @ + 1]
           e == [buf |-> buf, exists |-> exists, csp |-> Len(csp) + 1]
<1>2. /\ stack' = stack \o <<f, g>> /\ csp' = csp \o <<Registers, Registers>>
      /\ ecsp' = Append(ecsp, e)
      /\ exists' = 3 /\ buf' = Len(stack) + 1 /\ command_giver' = command_giver
      /\ current_object' = o /\ Operation
  BY DEF SocketRelease, Registers
<1>3. /\ f \in Frames /\ f.kind = "safe" /\ f.csp = Len(csp)
      /\ Registers = [ob |-> f.ob, giver |-> f.giver] /\ Registers \in Registry
      /\ stack \in Seq(Frames) /\ Len(stack) \in Nat /\ Scalars
      /\ csp \in Seq(Registry) /\ Len(csp) \in Nat
  BY Unfolded
<1>4. g \in Frames /\ g.kind = "function" /\ g.csp = Len(csp) + 1
  <2>1. Frame("function") \in Frames /\ Frame("function").kind = "function"
        /\ Frame("function").csp = Len(csp)
    BY Unfolded
  <2> DEFINE fr == Frame("function")
  <2> HIDE DEF fr
  <2>2. fr \in Frames /\ fr.kind = "function" /\ fr.csp = Len(csp)
        /\ g = [fr EXCEPT !.csp = @ + 1]
    BY <2>1 DEF fr
  <2>3. g = [fr EXCEPT !.csp = Len(csp) + 1]
    BY <2>2
  <2> HIDE DEF g
  <2>4. g.kind = fr.kind /\ g.csp = Len(csp) + 1
    BY <2>2, <2>3 DEF Frames
  <2>5. g \in Frames
    <3>1. Len(csp) + 1 \in Nat
      BY <1>3
    <3>2. [fr EXCEPT !.csp = Len(csp) + 1]
            = [kind |-> fr.kind, ob |-> fr.ob, giver |-> fr.giver, csp |-> Len(csp) + 1]
      BY <2>2 DEF Frames
    <3>3. fr.kind = "function" /\ fr.ob \in Values /\ fr.giver \in Values
      BY <2>2 DEF Frames
    <3> QED BY <2>3, <3>1, <3>2, <3>3 DEF Frames
  <2> QED BY <2>2, <2>4, <2>5
<1> HIDE DEF f, g, e
<1> DEFINE s1 == Append(stack, f)
           c1 == Append(csp, Registers)
<1>5. IsContext(f) /\ Level(f.kind) = 3
  BY <1>3, Kinds DEF Level
<1>6. Nested(Append(stack, f), Append(csp, [ob |-> f.ob, giver |-> f.giver]),
             Append(ecsp, [buf |-> buf, exists |-> exists, csp |-> Len(csp) + 1]),
             Len(stack) + 1, Level(f.kind), h)
  BY <1>1, <1>3, <1>5, PushContext DEF NestedNow
<1>7. Nested(s1, c1, ecsp', buf', exists', h)
  BY <1>2, <1>3, <1>5, <1>6 DEF e
<1>8. Len(s1) = Len(stack) + 1 /\ s1 \in Seq(Frames) /\ Len(c1) = Len(csp) + 1
  BY <1>3, Pushed
<1>9. stack' = Append(s1, g) /\ csp' = Append(c1, Registers)
  <2>1. stack' = Append(s1, g)
    BY <1>2, <1>3, <1>4
  <2>2. csp' = Append(c1, Registers)
    BY <1>2, <1>3
  <2> QED BY <2>1, <2>2
<1> HIDE DEF s1, c1
<1>10. Nested(Append(s1, g), Append(c1, Registers), ecsp', buf', exists', h)
  BY <1>3, <1>4, <1>7, <1>8, PushFunction
<1>11. Len(Append(s1, g)) = Len(stack) + 2
  <2>1. Len(Append(s1, g)) = Len(s1) + 1
    BY <1>4, <1>8, Pushed
  <2> QED BY <1>3, <1>8, <2>1
<1>12. Scalars' /\ Handling(h, num_error', fatal')
  <2>1. o \in Values /\ command_giver \in Values
    BY <1>3 DEF Scalars, Values
  <2> QED BY <1>1, <1>2, <2>1, OperationCosts
<1>13. Nested(stack', csp', ecsp', buf', exists', h) /\ Len(stack') >= Len(stack)
  BY <1>3, <1>9, <1>10, <1>11
<1> QED BY <1>12, <1>13, Concludes DEF StepSound

\* The frame on top, and whose turn it is
LEMMA OnTop ==
  ASSUME Inv
  PROVE  /\ Kind = "backend" <=> stack = <<>>
         /\ stack # <<>> => /\ Len(stack) \in 1 .. Len(stack) /\ Top = stack[Len(stack)]
                            /\ Top \in Frames /\ Kind = Top.kind
<1>1. stack \in Seq(Frames) /\ Len(stack) \in Nat
  BY Unfolded
<1>2. CASE stack = <<>>
  BY <1>2 DEF Kind
<1>3. CASE stack # <<>>
  <2>1. Len(stack) # 0
    BY <1>1, <1>3, EmptySeq
  <2>2. Len(stack) \in 1 .. Len(stack)
    BY <1>1, <2>1
  <2>3. Top = stack[Len(stack)] /\ stack[Len(stack)] \in Frames
    BY <1>1, <2>2, ElementOfSeq DEF Top, Last
  <2>4. Kind = Top.kind /\ Top.kind # "backend"
    BY <1>3, <2>3 DEF Kind, Frames
  <2> QED BY <1>3, <2>2, <2>3, <2>4
<1> QED BY <1>2, <1>3

\* A function returns, or a context ends without an error.
LEMMA ReturnSound ==
  ASSUME Inv, Return
  PROVE  StepSound
<1>1. PICK h \in 0 .. Len(stack) : NestedNow(h) /\ Handling(h, num_error, fatal)
  BY Unfolded
<1>2. /\ stack \in Seq(Frames) /\ csp \in Seq(Registry) /\ ecsp \in Seq(Saved)
      /\ Len(stack) \in Nat /\ Len(csp) \in Nat /\ Len(ecsp) \in Nat /\ Scalars
      /\ DOMAIN stack = 1 .. Len(stack)
  BY Unfolded
<1>3. Kind \in {"function", "catch", "eval", "calc", "safe"}
  BY DEF Return, Running, Evaluating
<1>4. /\ stack # <<>> /\ Len(stack) \in 1 .. Len(stack) /\ Top = stack[Len(stack)]
      /\ Top \in Frames /\ Top.kind # "handler"
  <2>1. stack # <<>>
    BY <1>3, OnTop
  <2> QED BY <1>3, <2>1, OnTop
<1>5. Len(stack) > h /\ Len(csp) = Len(stack) - h
  <2>1. /\ h \in 0 .. Len(stack) /\ Len(csp) = Len(stack) - h
        /\ \A i \in 1 .. Len(stack) : stack[i].kind = "handler" <=> i = h
    BY <1>1 DEF NestedNow, Nested, Depths
  <2> QED BY <1>2, <1>4, <2>1
<1>6. /\ stack' = SubSeq(stack, 1, Len(stack) - 1)
      /\ csp' = SubSeq(csp, 1, Len(csp) - 1)
      /\ current_object' = csp[Len(csp)].ob /\ command_giver' = csp[Len(csp)].giver
  <2>1. Len(csp) - 1 < Len(csp) /\ (Len(csp) - 1) + 1 = Len(csp)
    BY <1>2
  <2>2. stack' = Front(stack) /\ PopTo(Len(csp) - 1)
    BY DEF Return
  <2> QED BY <2>1, <2>2 DEF PopTo, Front
<1>7. csp[Len(csp)] \in Registry
  <2>1. Len(csp) \in 1 .. Len(csp)
    BY <1>2, <1>5
  <2> QED BY <1>2, <2>1, ElementOfSeq
<1>8. Scalars' /\ Handling(h, num_error', fatal')
  <2>1. /\ num_error' = num_error /\ current_heart_beat' = current_heart_beat
        /\ eval_cost' = eval_cost /\ fatal' = fatal
    BY DEF Return
  <2>2. current_object' \in Values /\ command_giver' \in Values
    BY <1>6, <1>7 DEF Registry
  <2> QED BY <1>1, <1>2, <2>1, <2>2 DEF Scalars
<1>9. Len(stack') = Len(stack) - 1 /\ Len(csp') = Len(csp) - 1
  <2>1. Len(stack) - 1 \in 0 .. Len(stack) /\ Len(csp) - 1 \in 0 .. Len(csp)
    BY <1>2, <1>4, <1>5
  <2> QED BY <1>2, <1>6, <2>1, Cut
<1>10. Len(stack') + 1 = Len(stack)
  BY <1>2, <1>9
<1>11. CASE ~ IsContext(Top)
  <2>1. ecsp' = ecsp /\ buf' = buf /\ exists' = exists
    BY <1>11 DEF Return, context
  <2>2. Nested(SubSeq(stack, 1, Len(stack) - 1), SubSeq(csp, 1, Len(csp) - 1), ecsp, buf, exists, h)
    BY <1>1, <1>4, <1>5, <1>11, PopFunction DEF NestedNow
  <2>3. Nested(stack', csp', ecsp', buf', exists', h)
    BY <1>6, <2>1, <2>2
  <2>4. ~ IsContext(stack[Len(stack') + 1])
    BY <1>4, <1>10, <1>11
  <2> QED BY <1>8, <2>3, <2>4, Concludes DEF StepSound
<1>12. CASE IsContext(Top)
  <2>1. Len(stack) \in ContextsOf(stack)
    BY <1>2, <1>4, <1>12 DEF ContextsOf
  <2>2. Nested(stack, csp, ecsp, buf, exists, h)
    BY <1>1 DEF NestedNow
  <2>3. Len(ecsp) # 0
    BY <2>1, <2>2, Innermost
  <2>4. buf \in h + 1 .. Len(stack) /\ Len(stack) <= buf
    BY <2>1, <2>2, <2>3, Innermost
  <2>5. buf = Len(stack) /\ buf - h - 1 = Len(csp) - 1
    <3>1. Len(stack) \in Nat /\ h \in Nat /\ Len(csp) = Len(stack) - h
      BY <1>1, <1>2, <1>5
    <3>2. buf = Len(stack)
      BY <2>4, <3>1
    <3> QED BY <3>1, <3>2
  <2>6. /\ buf' = ecsp[Len(ecsp)].buf /\ exists' = ecsp[Len(ecsp)].exists
        /\ ecsp' = SubSeq(ecsp, 1, Len(ecsp) - 1)
    BY <1>12 DEF Return, PopContext, Last, Front
  <2>7. Nested(SubSeq(stack, 1, buf - 1), SubSeq(csp, 1, buf - h - 1),
               SubSeq(ecsp, 1, Len(ecsp) - 1), ecsp[Len(ecsp)].buf, ecsp[Len(ecsp)].exists, h)
    BY <2>2, <2>3, Unwind
  <2>8. Nested(stack', csp', ecsp', buf', exists', h)
    BY <1>6, <2>5, <2>6, <2>7
  <2>9. /\ csp[Len(stack) - h]
             = [ob |-> stack[Len(stack)].ob, giver |-> stack[Len(stack)].giver]
        /\ stack[Len(stack)].csp = Len(stack) - h - 1
    <3>1. Len(stack) \in h + 1 .. Len(stack)
      BY <1>2, <1>5
    <3> QED BY <2>1, <2>2, <3>1 DEF Nested, Depths
  <2>10. Landed
    <3>1. csp[Len(csp)] = [ob |-> stack[Len(stack)].ob, giver |-> stack[Len(stack)].giver]
      BY <1>5, <2>9
    <3>2. current_object' = stack[Len(stack)].ob /\ command_giver' = stack[Len(stack)].giver
      BY <1>6, <3>1
    <3>3. Len(csp') = stack[Len(stack)].csp
      BY <1>2, <1>5, <1>9, <2>9
    <3> QED BY <1>10, <3>2, <3>3 DEF Landed
  <2> QED BY <1>8, <2>8, <2>10, Concludes DEF StepSound
<1> QED BY <1>11, <1>12

\* f_throw (efuns.c): to the innermost context of whatever kind, or an error.
LEMMA ThrowSound ==
  ASSUME Inv, NEW v \in {"string", "other"}, Throw(v)
  PROVE  StepSound
<1>1. PICK h \in 0 .. Len(stack) : NestedNow(h) /\ Handling(h, num_error, fatal)
  BY Unfolded
<1>2. /\ Len(ecsp) \in Nat /\ Scalars /\ Len(stack) \in Nat /\ MaxCost \in Nat
  BY Unfolded, BoundsAssumption
<1>3. UNCHANGED current_heart_beat
  BY DEF Throw
<1>4. CASE exists > 1
  <2>1. Jump /\ num_error' = num_error /\ eval_cost' = eval_cost /\ fatal' = fatal
    BY <1>4 DEF Throw
  <2>2. Len(ecsp) # 0
    <3>1. Len(ecsp) = 0 => exists = 1
      BY <1>1, Uncaught DEF NestedNow
    <3> QED BY <1>4, <3>1
  <2>3. Nested(stack', csp', ecsp', buf', exists', h) /\ Landed
        /\ current_object' \in Values /\ command_giver' \in Values
    BY <1>1, <2>1, <2>2, JumpLands
  <2>4. Scalars' /\ Handling(h, num_error', fatal')
    BY <1>1, <1>2, <1>3, <2>1, <2>3 DEF Scalars
  <2> QED BY <2>3, <2>4, Concludes DEF StepSound
<1>5. CASE ~(exists > 1) /\ v = "string"
  <2>1. Error
    BY <1>5 DEF Throw
  <2> QED BY <1>3, <2>1, ErrorSound
<1>6. CASE ~(exists > 1) /\ v # "string"
  <2>1. /\ eval_cost < MaxCost /\ eval_cost' = eval_cost + 1
        /\ UNCHANGED <<stack, machine, context, num_error, fatal>>
    BY <1>6 DEF Throw
  <2>2. /\ Nested(stack', csp', ecsp', buf', exists', h) /\ stack' = stack
        /\ current_object' = current_object /\ command_giver' = command_giver
        /\ num_error' = num_error /\ fatal' = fatal
    BY <1>1, <2>1 DEF machine, context, NestedNow
  <2>3. eval_cost' \in 0 .. MaxCost
    BY <1>2, <2>1 DEF Scalars
  <2>4. Scalars' /\ Handling(h, num_error', fatal')
    BY <1>1, <1>2, <1>3, <2>2, <2>3 DEF Scalars
  <2> QED BY <1>2, <2>2, <2>4, Concludes DEF StepSound
<1> QED BY <1>4, <1>5, <1>6

\* va_error goes on behind the master's handle_error (simulate.c).
LEMMA HandledSound ==
  ASSUME Inv, Handled
  PROVE  StepSound /\ (stack' = <<>> => ~ current_heart_beat')
<1>1. PICK h \in 0 .. Len(stack) : NestedNow(h) /\ Handling(h, num_error, fatal)
  BY Unfolded
<1>2. /\ Len(ecsp) \in Nat /\ Scalars /\ Len(stack) \in Nat /\ stack \in Seq(Frames)
      /\ ~ fatal /\ Kind = "handler"
  BY Unfolded DEF Handled
<1>3. stack # <<>> /\ Len(stack) \in 1 .. Len(stack) /\ stack[Len(stack)].kind = "handler"
  <2>1. stack # <<>>
    BY <1>2, OnTop
  <2> QED BY <1>2, <2>1, OnTop
<1>4. h = Len(stack)
  BY <1>1, <1>3 DEF NestedNow, Nested, Depths
<1>5. Len(ecsp) = 0
  <2>1. Len(ecsp) # 0 => buf \in h + 1 .. Len(stack)
    BY <1>1, Innermost DEF NestedNow
  <2> QED BY <1>2, <1>4, <2>1
<1>6. CASE current_heart_beat
  <2>1. /\ current_heart_beat' = FALSE /\ Apply(stack, NoObject)
        /\ context' = context /\ num_error' = num_error
        /\ eval_cost' = eval_cost /\ fatal' = fatal
    BY <1>6 DEF Handled
  <2>2. Scalars'
    BY <1>2, <2>1 DEF Scalars, Apply, Values
  <2>3. \A g : Handling(g, num_error, fatal) => Handling(g, num_error', fatal')
    BY <2>1
  <2> QED BY <2>1, <2>2, <2>3, ApplySound
<1>7. CASE ~ current_heart_beat
  <2>1. /\ Jump /\ num_error' = 0 /\ current_heart_beat' = current_heart_beat
        /\ eval_cost' = eval_cost /\ fatal' = fatal
    BY <1>7 DEF Handled
  <2>2. /\ Nested(stack', csp', ecsp', buf', exists', 0) /\ stack' = <<>>
        /\ current_object' \in Values /\ command_giver' \in Values
    BY <1>1, <1>5, <2>1, JumpsOut
  <2>3. Scalars' /\ Handling(0, num_error', fatal')
    BY <1>2, <2>1, <2>2 DEF Scalars, Handling
  <2> QED BY <1>7, <2>1, <2>2, <2>3, Concludes DEF StepSound
<1> QED BY <1>6, <1>7

\* The main loop calls a function of an object (backend.c, clear_state).
LEMMA TurnSound ==
  ASSUME Inv, NEW o \in Objects, NEW beat \in BOOLEAN, Turn(o, beat)
  PROVE  StepSound
<1>1. PICK h \in 0 .. Len(stack) : NestedNow(h) /\ Handling(h, num_error, fatal)
  BY Unfolded
<1>2. stack = <<>> /\ Scalars /\ Len(ecsp) \in Nat /\ MaxCost \in Nat /\ csp \in Seq(Registry)
  BY Unfolded, OnTop, BoundsAssumption DEF Turn
<1>3. Len(stack) = 0
  BY <1>2, EmptySeq
<1>4. h = 0 /\ Len(csp) = 0
  <2>1. h \in 0 .. Len(stack) /\ Len(csp) = Len(stack) - h
    BY <1>1 DEF NestedNow, Nested, Depths
  <2>2. h = 0
    BY <1>3, <2>1
  <2> QED BY <1>3, <2>1, <2>2
<1>5. csp = <<>>
  BY <1>2, <1>4, EmptySeq
<1>6. Len(ecsp) = 0 /\ exists = 1
  <2>1. Len(ecsp) # 0 => buf \in h + 1 .. Len(stack)
    BY <1>1, Innermost DEF NestedNow
  <2>2. Len(ecsp) = 0 => exists = 1
    BY <1>1, Innermost DEF NestedNow
  <2> QED BY <1>3, <1>4, <2>1, <2>2
<1> DEFINE f == [kind |-> "function", ob |-> NoObject, giver |-> NoObject, csp |-> 0]
           r == [ob |-> NoObject, giver |-> NoObject]
<1>7. stack' = <<f>> /\ csp' = <<r>> /\ ecsp' = ecsp /\ buf' = buf /\ exists' = exists
  BY <1>6 DEF Turn
<1>8. f \in Frames /\ f.kind = "function" /\ f.csp = 0 /\ r \in Registry
  BY DEF Frames, Registry, Values
<1> HIDE DEF f, r
<1>9. stack' = Append(stack, f) /\ csp' = Append(csp, r)
  BY <1>2, <1>5, <1>7
<1>10. Nested(Append(stack, f), Append(csp, r), ecsp, buf, exists, h)
  BY <1>1, <1>4, <1>8, PushFunction DEF NestedNow
<1>11. Nested(stack', csp', ecsp', buf', exists', h)
  BY <1>7, <1>9, <1>10
<1>12. Scalars' /\ Handling(h, num_error', fatal')
  <2>1. /\ eval_cost' = 0 /\ current_heart_beat' = beat /\ num_error' = num_error
        /\ fatal' = fatal /\ current_object' = o /\ command_giver' \in {o, NoObject}
    BY DEF Turn
  <2> QED BY <1>1, <1>2, <2>1 DEF Scalars, Values
<1>13. Len(stack') >= Len(stack)
  <2>1. Len(stack') \in Nat
    BY <1>11, LenProperties DEF Nested, Depths
  <2> QED BY <1>3, <2>1
<1> QED BY <1>11, <1>12, <1>13, Concludes DEF StepSound

\* Every step is sound; the contexts of #if ("calc") are left out, whose jump
\* buffer is not the one that is jumped to (lex.c 1808).
LEMMA NextSound ==
  ASSUME Inv, [Next]_vars, "calc" \notin Contexts
  PROVE  StepSound
<1>1. PICK h \in 0 .. Len(stack) : NestedNow(h) /\ Handling(h, num_error, fatal)
  BY Unfolded
<1>2. Scalars /\ Len(stack) \in Nat
  BY Unfolded
<1>3. ASSUME UNCHANGED vars
      PROVE  StepSound
  <2>1. /\ Nested(stack', csp', ecsp', buf', exists', h) /\ stack' = stack
        /\ Handling(h, num_error', fatal')
    BY <1>1, <1>3 DEF vars, machine, context, NestedNow
  <2>2. Scalars'
    BY <1>2, <1>3 DEF Scalars, vars, machine
  <2> QED BY <1>2, <2>1, <2>2, Concludes DEF StepSound
<1>4. ASSUME NEW o \in Objects, CallOther(o)
      PROVE  StepSound
  <2>1. Operation /\ Apply(stack, o) /\ UNCHANGED context
    BY <1>4 DEF CallOther
  <2>2. current_object' \in Values /\ command_giver' \in Values
    BY <1>2, <2>1 DEF Apply, Scalars, Values
  <2> QED BY <2>1, <2>2, OperationCosts, ApplySound
<1>5. ASSUME NEW p \in Objects, SetThisPlayer(p)
      PROVE  StepSound
  <2>1. /\ Operation /\ stack' = stack /\ csp' = csp /\ UNCHANGED context
        /\ current_object' = current_object /\ command_giver' = p
    BY <1>5 DEF SetThisPlayer
  <2>2. Scalars' /\ Handling(h, num_error', fatal')
    BY <1>1, <1>2, <2>1, OperationCosts DEF Scalars, Values
  <2>3. Nested(stack', csp', ecsp', buf', exists', h)
    BY <1>1, <2>1 DEF context, NestedNow
  <2> QED BY <1>2, <2>1, <2>2, <2>3, Concludes DEF StepSound
<1>6. ASSUME NEW o \in Objects, SocketRelease(o)
      PROVE  StepSound
  BY <1>6, SocketReleaseSound
<1>7. CASE Catch
  <2>1. Enter("catch") /\ Operation /\ current_object' = current_object
    BY <1>7 DEF Catch
  <2> QED BY <1>2, <2>1, EnterSound DEF Scalars
<1>8. CASE Compile("eval")
  <2>1. Enter("eval") /\ Operation /\ current_object' = NoObject
    BY <1>8 DEF Compile
  <2> QED BY <2>1, EnterSound DEF Values
<1>9. CASE Compile("calc")
  BY <1>9 DEF Compile
<1>10. CASE RuntimeError
  BY <1>10, ErrorSound DEF RuntimeError
<1>11. ASSUME NEW v \in {"string", "other"}, Throw(v)
       PROVE  StepSound
  BY <1>11, ThrowSound
<1>12. CASE Return
  BY <1>12, ReturnSound
<1>13. CASE Handled
  BY <1>13, HandledSound
<1>14. ASSUME NEW o \in Objects, NEW beat \in BOOLEAN, Turn(o, beat)
       PROVE  StepSound
  BY <1>14, TurnSound
<1>15. CASE Idle
  BY <1>3, <1>15 DEF Idle
<1> QED BY <1>3, <1>4, <1>5, <1>6, <1>7, <1>8, <1>9, <1>10, <1>11, <1>12, <1>13, <1>14, <1>15
        DEF Next, Lpc

\* The main loop starts with no contexts.
LEMMA InitInv == Init => Inv
<1> SUFFICES ASSUME Init PROVE Inv
  OBVIOUS
<1>1. Scalars
  <2>1. 0 \in 0 .. MaxCost
    BY BoundsAssumption
  <2>2. num_error = 0 /\ eval_cost = 0 /\ current_object = NoObject /\ command_giver = NoObject
    BY DEF Init
  <2>3. current_heart_beat \in BOOLEAN /\ fatal \in BOOLEAN
    BY Zenon DEF Init
  <2> QED BY <2>1, <2>2, <2>3 DEF Scalars, Values
<1>2. Nested(stack, csp, ecsp, buf, exists, 0) /\ Handling(0, num_error, fatal)
  BY NoFrames DEF Init, Handling
<1>3. 0 \in 0 .. Len(stack)
  BY <1>2 DEF Nested, Depths
<1> QED BY <1>1, <1>2, <1>3 DEF Inv

\* The invariant holds whatever happens.
LEMMA InvHolds ==
  ASSUME "calc" \notin Contexts
  PROVE  Spec => []Inv
<1>1. Inv /\ [Next]_vars => Inv'
  BY NextSound DEF StepSound
<1> QED BY <1>1, InitInv, PTL DEF Spec

-----------------------------------------------------------------------------
(* Theorems                                                                *)

\* The last context is the one the jump buffer leads to.
LEMMA InvNests ==
  ASSUME Inv
  PROVE  ContextsNest
<1>1. PICK h \in 0 .. Len(stack) : NestedNow(h)
  BY Unfolded
<1>2. Len(ecsp) = Cardinality(Ctx) /\ Ctx = ContextsOf(stack)
  BY <1>1 DEF NestedNow, Nested, Chain, Ctx, ContextsOf
<1>3. CASE Len(ecsp) = 0
  <2>1. Ctx = {} /\ buf = 0 /\ exists = 1
    BY <1>1, <1>2, <1>3, Uncaught DEF NestedNow
  <2> QED BY <1>2, <2>1 DEF ContextsNest
<1>4. CASE Len(ecsp) # 0
  <2>1. /\ buf \in Ctx /\ exists = Level(stack[buf].kind) /\ \A i \in Ctx : i <= buf
        /\ buf \in h + 1 .. Len(stack) /\ h \in 0 .. Len(stack) /\ Len(stack) \in Nat
    BY <1>1, <1>2, <1>4, Innermost DEF NestedNow
  <2>2. \A i \in Ctx : i \in Nat
    BY Unfolded DEF Ctx
  <2>3. Max(Ctx) = buf
    <3>1. buf \in Ctx /\ \A i \in Ctx : buf >= i
      BY <2>1, <2>2
    <3>2. \A m \in Ctx : (\A i \in Ctx : m >= i) => m = buf
      BY <2>1, <2>2, <3>1
    <3> QED BY <3>1, <3>2 DEF Max
  <2> QED BY <1>2, <2>1, <2>3 DEF ContextsNest
<1> QED BY <1>3, <1>4

\* Each frame that no reset has cut off has its entry of the control stack.
LEMMA InvDeep ==
  ASSUME Inv
  PROVE  ControlStackDepth
<1>1. PICK h \in 0 .. Len(stack) : NestedNow(h)
  BY Unfolded
<1>2. Len(stack) \in Nat /\ DOMAIN stack = 1 .. Len(stack)
  BY Unfolded
<1>3. SUFFICES ASSUME NEW i \in 1 .. Len(stack),
                      \A j \in i .. Len(stack) : stack[j].kind # "handler"
               PROVE  Len(csp) = stack[i].csp + Cardinality(i .. Len(stack))
  BY <1>2 DEF ControlStackDepth
<1>4. /\ Len(csp) = Len(stack) - h
      /\ \A j \in 1 .. Len(stack) : stack[j].kind = "handler" <=> j = h
      /\ \A j \in h + 1 .. Len(stack) : stack[j].csp = j - h - 1
  BY <1>1 DEF NestedNow, Nested, Depths
<1>5. i \in h + 1 .. Len(stack)
  <2>1. ~ (h \in i .. Len(stack))
    BY <1>2, <1>3, <1>4
  <2> QED BY <1>2, <2>1
<1>6. Cardinality(i .. Len(stack)) = Len(stack) - i + 1
  BY <1>2, FS_Interval
<1> QED BY <1>2, <1>4, <1>5, <1>6

\* One error is handled at a time, and only an error in it is fatal.
LEMMA InvHandles ==
  ASSUME Inv
  PROVE  FatalOnlyInHandler
<1>1. PICK h \in 0 .. Len(stack) : NestedNow(h) /\ Handling(h, num_error, fatal)
  BY Unfolded
<1>2. Len(stack) \in Nat /\ DOMAIN stack = 1 .. Len(stack)
  BY Unfolded
<1> DEFINE H == {i \in DOMAIN stack : stack[i].kind = "handler"}
<1>3. \A i \in 1 .. Len(stack) : stack[i].kind = "handler" <=> i = h
  BY <1>1 DEF NestedNow, Nested, Depths
<1>4. H = IF h = 0 THEN {} ELSE {h}
  BY <1>2, <1>3
<1>5. num_error = Cardinality(H)
  <2>1. Cardinality({}) = 0 /\ Cardinality({h}) = 1
    BY FS_EmptySet, FS_Singleton
  <2> HIDE DEF H
  <2> QED BY <1>1, <1>4, <2>1 DEF Handling
<1>6. fatal => \E i \in DOMAIN stack : stack[i].kind = "handler"
  <2>1. fatal => h # 0
    BY <1>1 DEF Handling
  <2> QED BY <1>2, <1>3, <2>1
<1> QED BY <1>5, <1>6 DEF FatalOnlyInHandler

\* The variables are of their types, the depths of the contexts included.
LEMMA InvTypes ==
  ASSUME Inv
  PROVE  TypeOK
<1>1. PICK h \in 0 .. Len(stack) : NestedNow(h)
  BY Unfolded
<1>2. /\ stack \in Seq(Frames) /\ csp \in Seq(Registry) /\ ecsp \in Seq(Saved)
      /\ Len(stack) \in Nat /\ Len(ecsp) \in Nat /\ Scalars /\ DOMAIN stack = 1 .. Len(stack)
      /\ DOMAIN ecsp = 1 .. Len(ecsp)
  BY Unfolded, LenProperties
<1>3. ASSUME NEW i \in DOMAIN stack
      PROVE  /\ stack[i].kind \in {"function", "catch", "safe", "eval", "calc", "handler"}
             /\ {stack[i].ob, stack[i].giver} \subseteq Objects \cup {NoObject}
  <2>1. stack[i] \in Frames
    BY <1>2, ElementOfSeq
  <2> QED BY <2>1 DEF Frames, Values
<1>4. ASSUME NEW k \in DOMAIN ecsp
      PROVE  ecsp[k].csp \in 1 .. Len(csp)
  <2>1. BufAt(k, ecsp, buf) \in ContextsOf(stack) /\ ecsp[k].csp = BufAt(k, ecsp, buf) - h
        /\ Len(csp) = Len(stack) - h
    BY <1>1, <1>2 DEF NestedNow, Nested, Chain, Depths
  <2>2. BufAt(k, ecsp, buf) > h /\ BufAt(k, ecsp, buf) \in 1 .. Len(stack)
    BY <1>1, <1>2, <2>1 DEF NestedNow, Nested, Depths, ContextsOf
  <2> QED BY <1>2, <2>1, <2>2
<1>5. csp \in Seq([ob : Objects \cup {NoObject}, giver : Objects \cup {NoObject}])
  BY <1>2 DEF Registry, Values
<1>6. exists \in 1 .. 3
  BY <1>1 DEF NestedNow, Nested, Chain
<1>7. /\ num_error \in 0 .. 1 /\ eval_cost \in 0 .. MaxCost
      /\ {current_object, command_giver} \subseteq Objects \cup {NoObject}
  BY <1>2 DEF Scalars, Values
<1> QED BY <1>3, <1>4, <1>5, <1>6, <1>7 DEF TypeOK

\* The contexts that are pushed are those of the frames that wait, the jump
\* buffer leads to the innermost, the control stack is as deep as the frames,
\* and the driver ends only by an error in handle_error (interpret.c:705-768,
\* 1272-1330, 2232-2269; simulate.c:1691-1821): for any depth and cost.  The
\* context of #if is left out: its jump buffer shadows the global one.
THEOREM ContextsStaySound ==
  ASSUME "calc" \notin Contexts
  PROVE  Spec => []ContextsSound
<1>1. Inv => ContextsSound
  BY InvTypes, InvNests, InvDeep, InvHandles DEF ContextsSound
<1> QED BY <1>1, InvHolds, PTL

\* Who catches an error, or returns from a catch, a safe_apply or a constant
\* expression, has the object, the command giver and the depth of the control
\* stack it was entered with (interpret.c:1302-1330).
THEOREM CatchesRestore ==
  ASSUME "calc" \notin Contexts
  PROVE  Spec => CatchRestores
<1>1. ASSUME Inv, [Next]_vars
      PROVE  [RestoresRegisters]_vars
  <2>1. \/ Len(stack') >= Len(stack) \/ stack' = <<>>
        \/ ~ IsContext(stack[Len(stack') + 1]) \/ Landed
    BY <1>1, NextSound DEF StepSound
  <2>2. Len(stack) \in Nat /\ Len(stack') \in Nat
    <3>1. Inv'
      BY <1>1, NextSound DEF StepSound
    <3>2. PICK h \in 0 .. Len(stack') : Nested(stack', csp', ecsp', buf', exists', h)
      BY <3>1 DEF Inv
    <3> QED BY <1>1, <3>2, Unfolded, LenProperties DEF Nested, Depths
  <2> QED BY <2>1, <2>2 DEF RestoresRegisters, Landed, IsContext
<1> QED BY <1>1, InvHolds, PTL DEF CatchRestores, Spec

\* Once an error that nothing caught has been handled, the heart beat it came
\* out of does not go on (simulate.c:1764-1821).
THEOREM BeatsStopAfterErrors ==
  ASSUME "calc" \notin Contexts
  PROVE  Spec => BeatStopsAfterError
<1>1. ASSUME Inv, [Next]_vars
      PROVE  [(Kind = "handler" /\ stack' = <<>>) => ~ current_heart_beat']_vars
  <2> SUFFICES ASSUME Kind = "handler", stack' = <<>>, ~ UNCHANGED vars
               PROVE  ~ current_heart_beat'
    OBVIOUS
  <2>1. ~ Running /\ ~ Evaluating
    BY DEF Running, Evaluating
  <2>2. Handled
    BY <1>1, <2>1 DEF Next, Lpc, CallOther, SetThisPlayer, SocketRelease, Catch, Compile,
      Operation, RuntimeError, Throw, Return, Turn, Idle
  <2> QED BY <1>1, <2>2, HandledSound
<1> QED BY <1>1, InvHolds, PTL DEF BeatStopsAfterError, Spec
=============================================================================

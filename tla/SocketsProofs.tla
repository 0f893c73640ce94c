--------------------------- MODULE SocketsProofs ---------------------------
(* Proofs about Sockets: who comes to own a socket, that no output is      *)
(* thrown away by a close, and that both buffers stay in order and whole.  *)
EXTENDS Sockets, SequenceTheorems, TLAPS

-----------------------------------------------------------------------------
(* The inductive invariant.                                                *)

SlotTypes ==
  /\ state \in [Slots -> {"CLOSED", "UNBOUND", "BOUND", "LISTEN", "DATA_XFER"}]
  /\ owner_ob \in [Slots -> Objects \cup {Null}]
  /\ release_ob \in [Slots -> Objects \cup {Null}]
  /\ flags \in [Slots -> SUBSET {"RELEASE", "BLOCKED", "CONNECTING", "WACCEPT",
                                 "MORE_LINES", "CLOSING"}]
  /\ w_buf = [s \in Slots |-> w_buf[s]]
  /\ writemask \subseteq Slots /\ releasing \in Seq(Slots)

\* A socket is on offer only while the socket_release that offers it runs.
OfferStands ==
  \A s \in Slots : "RELEASE" \in flags[s] => \E i \in DOMAIN releasing : releasing[i] = s

\* Only a blocked socket has output to send: socket_close looks at the flag, not
\* at the buffer.
OutputBlocks == \A s \in Slots : w_buf[s] # Null => "BLOCKED" \in flags[s]

\* Between the end of the buffer and the end of the handler nothing is left.
SentAll == pc = "sent" => at \in Slots /\ w_buf[at] = Null

SockInv == SlotTypes /\ OfferStands /\ OutputBlocks /\ SentAll

-----------------------------------------------------------------------------
(* What each step does, as in HandedOver, OwnersFlagged and NothingCut.    *)

HandsOver ==
  \A s \in Slots :
    Open(s) /\ owner_ob'[s] # owner_ob[s] => \E i \in DOMAIN releasing : releasing[i] = s

FlagsOwner ==
  \A s \in Slots :
    state'[s] # "CLOSED" /\ owner_ob'[s] \notin flagged'
    => /\ Open(s)
       /\ \/ owner_ob[s] = owner_ob'[s] /\ owner_ob[s] \notin flagged
          \/ release_ob[s] = owner_ob'[s]

CutsNothing ==
  \A s \in Slots :
    Open(s) /\ state'[s] = "CLOSED" /\ ~(ctx = "broken" /\ ctx' # ctx /\ s = at)
    => w_buf[s] = Null

StepSound == HandsOver /\ FlagsOwner /\ CutsNothing

\* The table is as it was but for flags and buffers: nothing can have gone wrong.
LEMMA QuietStep ==
  ASSUME SockInv, UNCHANGED <<slots, flagged>>
  PROVE  StepSound
BY DEF SockInv, SlotTypes, StepSound, HandsOver, FlagsOwner, CutsNothing, Open, slots

\* What closing a set of sockets may do: a blocked one is closed only by force.
LEMMA CloseFacts ==
  ASSUME SockInv, NEW socks, NEW force, SocketClose(socks, force)
  PROVE  /\ UNCHANGED <<owner_ob, mode, release_ob>>
         /\ state' = [s \in Slots |-> state'[s]]
         /\ flags' = [s \in Slots |-> flags'[s]]
         /\ w_buf' = [s \in Slots |-> w_buf'[s]]
         /\ \A s \in Slots :
              /\ state'[s] \in {state[s], "CLOSED"}
              /\ flags'[s] \in {flags[s], flags[s] \cup {"CLOSING"}}
              /\ w_buf'[s] \in {w_buf[s], Null}
              /\ Open(s) /\ state'[s] = "CLOSED"
                 => s \in socks /\ ("BLOCKED" \notin flags[s] \/ force = 2)
<1> DEFINE open == {s \in socks : Open(s)}
           now  == {s \in open : ~Is(s, "BLOCKED") \/ force = 2}
<1>1. Closing(open, now)
  BY DEF SocketClose
<1> HIDE DEF open, now
<1>2. /\ UNCHANGED <<owner_ob, mode, release_ob>>
      /\ state' = [s \in Slots |-> IF s \in now THEN "CLOSED" ELSE state[s]]
      /\ flags' = [s \in Slots |-> IF s \in open THEN flags[s] \cup {"CLOSING"} ELSE flags[s]]
      /\ w_buf' = [s \in Slots |-> IF s \in now THEN Null ELSE w_buf[s]]
  BY <1>1 DEF Closing
<1>3. \A s \in Slots : s \in now => s \in socks /\ ("BLOCKED" \notin flags[s] \/ force = 2)
  BY DEF now, open, Is
<1> QED
  BY <1>2, <1>3 DEF Open

\* So a close that is not forced to the end is a sound step, and any close keeps
\* the parts of the invariant that are about the table.
LEMMA CloseSound ==
  ASSUME SockInv, NEW socks, NEW force, SocketClose(socks, force),
         UNCHANGED <<flagged, releasing>>, writemask' \subseteq Slots, pc' # "sent",
         \/ force # 2
         \/ \A s \in socks \cap Slots :
              w_buf[s] = Null \/ (ctx = "broken" /\ ctx' # ctx /\ s = at)
  PROVE  SockInv' /\ StepSound
<1>1. /\ UNCHANGED <<owner_ob, mode, release_ob>>
      /\ state' = [s \in Slots |-> state'[s]]
      /\ flags' = [s \in Slots |-> flags'[s]]
      /\ w_buf' = [s \in Slots |-> w_buf'[s]]
      /\ \A s \in Slots :
           /\ state'[s] \in {state[s], "CLOSED"}
           /\ flags'[s] \in {flags[s], flags[s] \cup {"CLOSING"}}
           /\ w_buf'[s] \in {w_buf[s], Null}
           /\ Open(s) /\ state'[s] = "CLOSED"
              => s \in socks /\ ("BLOCKED" \notin flags[s] \/ force = 2)
  BY CloseFacts
<1>2. SlotTypes'
  <2>1. state' \in [Slots -> {"CLOSED", "UNBOUND", "BOUND", "LISTEN", "DATA_XFER"}]
    BY <1>1 DEF SockInv, SlotTypes
  <2>2. flags' \in [Slots -> SUBSET {"RELEASE", "BLOCKED", "CONNECTING", "WACCEPT",
                                     "MORE_LINES", "CLOSING"}]
    <3>1. \A s \in Slots : flags'[s] \in SUBSET {"RELEASE", "BLOCKED", "CONNECTING",
                                                "WACCEPT", "MORE_LINES", "CLOSING"}
      BY <1>1 DEF SockInv, SlotTypes
    <3> QED
      BY <1>1, <3>1
  <2> QED
    BY <1>1, <2>1, <2>2 DEF SockInv, SlotTypes, Slots
<1>3. OfferStands' /\ OutputBlocks'
  BY <1>1 DEF SockInv, OfferStands, OutputBlocks, Slots
<1>4. SentAll'
  BY DEF SentAll
<1>5. HandsOver
  BY <1>1 DEF HandsOver
<1>6. FlagsOwner
  BY <1>1 DEF FlagsOwner, Open
<1>7. CutsNothing
  BY <1>1 DEF CutsNothing, SockInv, OutputBlocks
<1> QED
  BY <1>2, <1>3, <1>4, <1>5, <1>6, <1>7 DEF SockInv, StepSound

\* Filling in a closed slot: the one that does so is flagged, and finds neither
\* an offer nor output there.
LEMMA OccupySound ==
  ASSUME SockInv, NEW t \in Slots, ~Open(t), NEW o \in Objects, NEW m,
         NEW st \in {"UNBOUND", "DATA_XFER"}, Occupy(t, st, o, m),
         flags' \in [Slots -> SUBSET {"RELEASE", "BLOCKED", "CONNECTING", "WACCEPT",
                                      "MORE_LINES", "CLOSING"}],
         flags'[t] = {},
         \A s \in Slots \ {t} : flags'[s] \in {flags[s], flags[s] \ {"WACCEPT"}},
         UNCHANGED <<pc, at, writemask, releasing>>
  PROVE  SockInv' /\ StepSound
<1>1. /\ state' = [state EXCEPT ![t] = st] /\ owner_ob' = [owner_ob EXCEPT ![t] = o]
      /\ release_ob' = [release_ob EXCEPT ![t] = Null]
      /\ w_buf' = [w_buf EXCEPT ![t] = Null]
      /\ flagged' = flagged \cup {o}
  BY DEF Occupy, Flag
<1>2. SlotTypes'
  <2>1. /\ state' \in [Slots -> {"CLOSED", "UNBOUND", "BOUND", "LISTEN", "DATA_XFER"}]
        /\ owner_ob' \in [Slots -> Objects \cup {Null}]
        /\ release_ob' \in [Slots -> Objects \cup {Null}]
    BY <1>1 DEF SockInv, SlotTypes
  <2>2. w_buf' = [s \in Slots |-> w_buf'[s]]
    BY <1>1 DEF SockInv, SlotTypes
  <2> QED
    BY <2>1, <2>2 DEF SockInv, SlotTypes, Slots
<1>3. OfferStands' /\ OutputBlocks'
  BY <1>1 DEF SockInv, SlotTypes, OfferStands, OutputBlocks, Slots
<1>4. SentAll'
  BY <1>1 DEF SockInv, SlotTypes, SentAll, Slots
<1>5. \A s \in Slots \ {t} : state'[s] = state[s] /\ owner_ob'[s] = owner_ob[s]
  BY <1>1 DEF SockInv, SlotTypes
<1>6. HandsOver /\ CutsNothing
  BY <1>1, <1>5 DEF HandsOver, CutsNothing, Open, SockInv, SlotTypes
<1>7. FlagsOwner
  <2> SUFFICES ASSUME NEW s \in Slots, state'[s] # "CLOSED", owner_ob'[s] \notin flagged'
               PROVE  Open(s) /\ owner_ob[s] = owner_ob'[s] /\ owner_ob[s] \notin flagged
    BY DEF FlagsOwner
  <2>1. s # t
    BY <1>1 DEF SockInv, SlotTypes
  <2> QED
    BY <1>1, <1>5, <2>1 DEF Open
<1> QED
  BY <1>2, <1>3, <1>4, <1>6, <1>7 DEF SockInv, StepSound

\* A step on an open socket that keeps its owner, its offer and its buffer.
LEMMA StaysSound ==
  ASSUME SockInv, NEW t \in Slots, Open(t), NEW st \in {"BOUND", "LISTEN", "DATA_XFER"},
         state' = [state EXCEPT ![t] = st],
         flags' \in [Slots -> SUBSET {"RELEASE", "BLOCKED", "CONNECTING", "WACCEPT",
                                      "MORE_LINES", "CLOSING"}],
         \A s \in Slots : flags[s] \subseteq flags'[s] /\ ("RELEASE" \in flags'[s] => "RELEASE" \in flags[s]),
         flagged \subseteq flagged',
         UNCHANGED <<owner_ob, release_ob, w_buf, pc, at, writemask, releasing>>
  PROVE  SockInv' /\ StepSound
<1>1. state' \in [Slots -> {"CLOSED", "UNBOUND", "BOUND", "LISTEN", "DATA_XFER"}]
  BY DEF SockInv, SlotTypes
<1>2. SockInv'
  BY <1>1 DEF SockInv, SlotTypes, OfferStands, OutputBlocks, SentAll, Slots
<1>3. \A s \in Slots : state'[s] = "CLOSED" <=> state[s] = "CLOSED"
  BY DEF SockInv, SlotTypes, Open
<1> QED
  BY <1>2, <1>3 DEF StepSound, HandsOver, FlagsOwner, CutsNothing, Open

\* A step that leaves the table alone, of a handler or of the backend loop.
LEMMA HandlerSound ==
  ASSUME SockInv, UNCHANGED <<slots, flagged, releasing>>, writemask' \subseteq Slots,
         flags' \in [Slots -> SUBSET {"RELEASE", "BLOCKED", "CONNECTING", "WACCEPT",
                                      "MORE_LINES", "CLOSING"}],
         \A s \in Slots : "RELEASE" \in flags'[s] => "RELEASE" \in flags[s],
         w_buf' = [s \in Slots |-> w_buf'[s]],
         \A s \in Slots : w_buf'[s] # Null => "BLOCKED" \in flags'[s],
         pc' = "sent" => at' \in Slots /\ w_buf'[at'] = Null
  PROVE  SockInv' /\ StepSound
<1>1. UNCHANGED <<state, owner_ob, release_ob>>
  BY DEF slots
<1>2. SlotTypes'
  BY <1>1 DEF SockInv, SlotTypes, Slots
<1>3. OfferStands' /\ OutputBlocks' /\ SentAll'
  BY DEF SockInv, OfferStands, OutputBlocks, SentAll, Slots
<1> QED
  BY <1>2, <1>3, QuietStep DEF SockInv

-----------------------------------------------------------------------------
(* The efuns.                                                              *)

LEMMA EfunSound ==
  ASSUME SocketsAssumption, SockInv, Efun
  PROVE  SockInv' /\ StepSound
<1>1. PICK o \in Objects :
        \/ Destruct(o)
        \/ \E s \in Slots :
             \/ \E m \in Modes[s] : SocketCreate(o, s, m)
             \/ SocketBind(o, s) \/ SocketListen(o, s)
             \/ AcceptFails(o, s) \/ SocketAccept(o, s) \/ SocketConnect(o, s)
             \/ \E n \in 1 .. MaxOut[s] :
                  \/ WriteBuffered(o, s, n) \/ WriteThrough(o, s, n)
                  \/ \E off \in -1 .. n : WriteBlocks(o, s, n, off)
             \/ CloseSocket(o, s) \/ SocketAcquire(o, s)
             \/ \E to \in Objects : SocketRelease(o, s, to)
  BY DEF Efun
<1>2. CASE Destruct(o)
  <2> DEFINE socks == IF o \in flagged THEN {s \in Slots : owner_ob[s] = o} ELSE {}
  <2>1. /\ SocketClose(socks, 1)
        /\ UNCHANGED <<flagged, pc, releasing, writemask>> /\ pc = "lpc"
    BY <1>2 DEF Destruct, loop
  <2> HIDE DEF socks
  <2>2. writemask' \subseteq Slots /\ pc' # "sent"
    BY <2>1 DEF SockInv, SlotTypes
  <2> QED
    BY <2>1, <2>2, CloseSound
<1>3. ASSUME NEW s \in Slots, NEW m \in Modes[s], SocketCreate(o, s, m)
      PROVE  SockInv' /\ StepSound
  <2>1. /\ ~Open(s) /\ Occupy(s, "UNBOUND", o, m) /\ flags' = [flags EXCEPT ![s] = {}]
        /\ UNCHANGED <<pc, at, writemask, releasing>>
    BY <1>3 DEF SocketCreate, FirstClosed, loop
  <2>2. /\ flags' \in [Slots -> SUBSET {"RELEASE", "BLOCKED", "CONNECTING", "WACCEPT",
                                        "MORE_LINES", "CLOSING"}]
        /\ flags'[s] = {} /\ \A t \in Slots \ {s} : flags'[t] = flags[t]
    BY <2>1 DEF SockInv, SlotTypes
  <2> QED
    BY <2>1, <2>2, OccupySound
<1>4. ASSUME NEW s \in Slots, SocketBind(o, s)
      PROVE  SockInv' /\ StepSound
  <2>1. /\ Open(s) /\ state' = [state EXCEPT ![s] = "BOUND"]
        /\ UNCHANGED <<flags, flagged, owner_ob, release_ob, w_buf, pc, at, writemask, releasing>>
    BY <1>4 DEF SocketBind, Owns, output, objs, loop
  <2> QED
    BY <2>1, StaysSound DEF SockInv, SlotTypes
<1>5. ASSUME NEW s \in Slots, SocketListen(o, s)
      PROVE  SockInv' /\ StepSound
  <2>1. /\ Open(s) /\ state' = [state EXCEPT ![s] = "LISTEN"] /\ flagged \subseteq flagged'
        /\ UNCHANGED <<flags, owner_ob, release_ob, w_buf, pc, at, writemask, releasing>>
    BY <1>5 DEF SocketListen, Owns, Flag, output, loop
  <2> QED
    BY <2>1, StaysSound DEF SockInv, SlotTypes
<1>6. ASSUME NEW s \in Slots, AcceptFails(o, s)
      PROVE  SockInv' /\ StepSound
  <2>1. /\ flags' = [flags EXCEPT ![s] = @ \ {"WACCEPT"}] /\ pc = "lpc"
        /\ UNCHANGED <<slots, flagged, w_buf, pc, at, writemask, releasing>>
    BY <1>6 DEF AcceptFails, Owns, Runs, output, objs, loop
  <2>2. /\ flags' \in [Slots -> SUBSET {"RELEASE", "BLOCKED", "CONNECTING", "WACCEPT",
                                        "MORE_LINES", "CLOSING"}]
        /\ \A t \in Slots : /\ "RELEASE" \in flags'[t] => "RELEASE" \in flags[t]
                            /\ "BLOCKED" \in flags[t] => "BLOCKED" \in flags'[t]
    BY <2>1 DEF SockInv, SlotTypes
  <2> QED
    BY <2>1, <2>2, HandlerSound DEF SockInv, SlotTypes, OutputBlocks
<1>7. ASSUME NEW s \in Slots, SocketAccept(o, s)
      PROVE  SockInv' /\ StepSound
  <2>1. PICK t \in Slots :
          /\ ~Open(t) /\ Occupy(t, "DATA_XFER", o, mode[s])
          /\ flags' = [flags EXCEPT ![s] = @ \ {"WACCEPT"}, ![t] = {}]
    BY <1>7 DEF SocketAccept, FirstClosed
  <2>2. UNCHANGED <<pc, at, writemask, releasing>>
    BY <1>7 DEF SocketAccept, loop
  <2>3. /\ flags' \in [Slots -> SUBSET {"RELEASE", "BLOCKED", "CONNECTING", "WACCEPT",
                                        "MORE_LINES", "CLOSING"}]
        /\ flags'[t] = {}
        /\ \A u \in Slots \ {t} : flags'[u] \in {flags[u], flags[u] \ {"WACCEPT"}}
    BY <2>1 DEF SockInv, SlotTypes
  <2> QED
    BY <2>1, <2>2, <2>3, OccupySound
<1>8. ASSUME NEW s \in Slots, SocketConnect(o, s)
      PROVE  SockInv' /\ StepSound
  <2>1. /\ Open(s) /\ state' = [state EXCEPT ![s] = "DATA_XFER"] /\ flagged \subseteq flagged'
        /\ flags' = [flags EXCEPT ![s] = @ \cup {"BLOCKED", "CONNECTING"}]
        /\ UNCHANGED <<owner_ob, release_ob, w_buf, pc, at, writemask, releasing>>
    BY <1>8 DEF SocketConnect, Owns, Flag, output, loop
  <2>2. /\ flags' \in [Slots -> SUBSET {"RELEASE", "BLOCKED", "CONNECTING", "WACCEPT",
                                        "MORE_LINES", "CLOSING"}]
        /\ \A t \in Slots : /\ flags[t] \subseteq flags'[t]
                            /\ "RELEASE" \in flags'[t] => "RELEASE" \in flags[t]
    BY <2>1 DEF SockInv, SlotTypes
  <2> QED
    BY <2>1, <2>2, StaysSound
<1>9. ASSUME NEW s \in Slots, NEW n \in 1 .. MaxOut[s],
             WriteBuffered(o, s, n) \/ WriteThrough(o, s, n)
      PROVE  SockInv' /\ StepSound
  <2>1. /\ UNCHANGED <<slots, flags, flagged, pc, at, writemask, releasing>> /\ pc = "lpc"
        /\ \/ UNCHANGED w_buf
           \/ /\ w_buf' = [w_buf EXCEPT ![s] = Unsent(s) \o Numbers(accepted[s], n)]
              /\ "BLOCKED" \in flags[s]
    BY <1>9 DEF WriteBuffered, WriteThrough, Accepts, Owns, Runs, Is, objs, loop
  <2>2. /\ w_buf' = [t \in Slots |-> w_buf'[t]]
        /\ \A t \in Slots : w_buf'[t] # Null => "BLOCKED" \in flags'[t]
    BY <2>1 DEF SockInv, SlotTypes, OutputBlocks
  <2> QED
    BY <2>1, <2>2, HandlerSound DEF SockInv, SlotTypes
<1>10. ASSUME NEW s \in Slots, NEW n \in 1 .. MaxOut[s], NEW off \in -1 .. n,
              WriteBlocks(o, s, n, off)
       PROVE  SockInv' /\ StepSound
  <2>1. /\ UNCHANGED <<slots, flagged, pc, at, writemask, releasing>> /\ pc = "lpc"
        /\ flags' = [flags EXCEPT ![s] = @ \cup {"BLOCKED"}]
        /\ w_buf' = [w_buf EXCEPT ![s] = Numbers(accepted[s], n)]
    BY <1>10 DEF WriteBlocks, Accepts, Owns, Runs, objs, loop
  <2>2. /\ flags' \in [Slots -> SUBSET {"RELEASE", "BLOCKED", "CONNECTING", "WACCEPT",
                                        "MORE_LINES", "CLOSING"}]
        /\ \A t \in Slots : "RELEASE" \in flags'[t] => "RELEASE" \in flags[t]
    BY <2>1 DEF SockInv, SlotTypes
  <2>3. /\ w_buf' = [t \in Slots |-> w_buf'[t]]
        /\ \A t \in Slots : w_buf'[t] # Null => "BLOCKED" \in flags'[t]
    BY <2>1 DEF SockInv, SlotTypes, OutputBlocks
  <2> QED
    BY <2>1, <2>2, <2>3, HandlerSound DEF SockInv, SlotTypes
<1>11. ASSUME NEW s \in Slots, CloseSocket(o, s)
       PROVE  SockInv' /\ StepSound
  <2>1. /\ SocketClose({s}, 0)
        /\ UNCHANGED <<flagged, pc, releasing, writemask>> /\ pc = "lpc"
    BY <1>11 DEF CloseSocket, Owns, Runs, objs, loop
  <2> QED
    BY <2>1, CloseSound DEF SockInv, SlotTypes
<1>12. ASSUME NEW s \in Slots, SocketAcquire(o, s)
       PROVE  SockInv' /\ StepSound
  <2>1. /\ Open(s) /\ "RELEASE" \in flags[s] /\ release_ob[s] = o
        /\ flags' = [flags EXCEPT ![s] = @ \ {"RELEASE"}]
        /\ owner_ob' = [owner_ob EXCEPT ![s] = o]
        /\ release_ob' = [release_ob EXCEPT ![s] = Null]
        /\ pc = "lpc" /\ UNCHANGED <<state, flagged, w_buf, pc, at, writemask, releasing>>
    BY <1>12 DEF SocketAcquire, Runs, Is, output, objs, loop
  <2>2. SlotTypes'
    BY <2>1 DEF SockInv, SlotTypes, Slots
  <2>3. \A t \in Slots : /\ "RELEASE" \in flags'[t] => "RELEASE" \in flags[t]
                         /\ "BLOCKED" \in flags[t] => "BLOCKED" \in flags'[t]
                         /\ t # s => owner_ob'[t] = owner_ob[t]
    BY <2>1 DEF SockInv, SlotTypes
  <2>4. OfferStands' /\ OutputBlocks' /\ SentAll'
    BY <2>1, <2>3 DEF SockInv, OfferStands, OutputBlocks, SentAll, Slots
  <2>5. HandsOver
    BY <2>1, <2>3 DEF HandsOver, SockInv, OfferStands
  <2>6. FlagsOwner
    BY <2>1, <2>3 DEF FlagsOwner, SockInv, SlotTypes, Open
  <2>7. CutsNothing
    BY <2>1 DEF CutsNothing, Open
  <2> QED
    BY <2>2, <2>4, <2>5, <2>6, <2>7 DEF SockInv, StepSound
<1>13. ASSUME NEW s \in Slots, NEW to \in Objects, SocketRelease(o, s, to)
       PROVE  SockInv' /\ StepSound
  <2>1. /\ flags' = [flags EXCEPT ![s] = @ \cup {"RELEASE"}]
        /\ release_ob' = [release_ob EXCEPT ![s] = to]
        /\ releasing' = <<s>> \o releasing
        /\ pc = "lpc" /\ UNCHANGED <<state, owner_ob, flagged, w_buf, pc, at, writemask>>
    BY <1>13 DEF SocketRelease, Owns, Runs, output, objs, loop
  <2>2. releasing \in Seq(Slots) /\ <<s>> \in Seq(Slots)
    BY DEF SockInv, SlotTypes
  <2>3. /\ releasing' \in Seq(Slots) /\ Len(releasing') = 1 + Len(releasing)
        /\ \A i \in 1 .. Len(releasing') :
             releasing'[i] = IF i <= 1 THEN <<s>>[i] ELSE releasing[i - 1]
    BY <2>1, <2>2, ConcatProperties
  <2>4. /\ releasing'[1] = s /\ 1 \in DOMAIN releasing'
        /\ \A i \in DOMAIN releasing : /\ i + 1 \in DOMAIN releasing'
                                       /\ releasing'[i + 1] = releasing[i]
    <3>1. DOMAIN releasing = 1 .. Len(releasing) /\ Len(releasing) \in Nat
      BY <2>2
    <3>2. DOMAIN releasing' = 1 .. 1 + Len(releasing)
      BY <2>3
    <3> DEFINE n == Len(releasing)
    <3>3. \A i \in 1 .. 1 + n : releasing'[i] = IF i <= 1 THEN <<s>>[i] ELSE releasing[i - 1]
      BY <2>3
    <3> HIDE DEF n
    <3>4. \A i \in 1 .. n : i + 1 \in 1 .. 1 + n /\ ~ (i + 1 <= 1) /\ (i + 1) - 1 = i
      BY <3>1 DEF n
    <3> QED BY <3>1, <3>2, <3>3, <3>4 DEF n
  <2>5. SlotTypes'
    BY <2>1, <2>3 DEF SockInv, SlotTypes, Slots
  <2>6. OfferStands'
    <3> SUFFICES ASSUME NEW t \in Slots, "RELEASE" \in flags'[t]
                 PROVE  \E i \in DOMAIN releasing' : releasing'[i] = t
      BY DEF OfferStands, Slots
    <3>1. CASE t = s
      BY <2>4, <3>1
    <3>2. CASE t # s
      <4>1. "RELEASE" \in flags[t]
        BY <2>1, <3>2 DEF SockInv, SlotTypes
      <4> QED
        BY <2>4, <4>1 DEF SockInv, OfferStands
    <3> QED
      BY <3>1, <3>2
  <2>7. OutputBlocks' /\ SentAll'
    BY <2>1 DEF SockInv, SlotTypes, OutputBlocks, SentAll, Slots
  <2>8. HandsOver /\ FlagsOwner /\ CutsNothing
    BY <2>1 DEF HandsOver, FlagsOwner, CutsNothing, Open
  <2> QED
    BY <2>5, <2>6, <2>7, <2>8 DEF SockInv, StepSound
<1> QED
  BY <1>1, <1>2, <1>3, <1>4, <1>5, <1>6, <1>7, <1>8, <1>9, <1>10, <1>11, <1>12, <1>13

-----------------------------------------------------------------------------
(* The handlers.                                                           *)

\* Steps of process_io and handle_line_sockets after which neither a flag that
\* matters nor the output has changed.
LEMMA IdleHandlerSound ==
  ASSUME SockInv, UNCHANGED <<slots, flagged, releasing, w_buf>>,
         writemask' \subseteq Slots, pc' # "sent",
         \/ UNCHANGED flags
         \/ \E f \in {"WACCEPT", "MORE_LINES"} :
              \/ flags' = [flags EXCEPT ![at] = @ \cup {f}]
              \/ flags' = [flags EXCEPT ![at] = @ \ {f}]
  PROVE  SockInv' /\ StepSound
<1>1. /\ flags' \in [Slots -> SUBSET {"RELEASE", "BLOCKED", "CONNECTING", "WACCEPT",
                                      "MORE_LINES", "CLOSING"}]
      /\ \A s \in Slots : /\ "RELEASE" \in flags'[s] => "RELEASE" \in flags[s]
                          /\ "BLOCKED" \in flags[s] => "BLOCKED" \in flags'[s]
  BY DEF SockInv, SlotTypes
<1> QED
  BY <1>1, HandlerSound DEF SockInv, SlotTypes, OutputBlocks

LEMMA HandlersSound ==
  ASSUME SockInv, Handler
  PROVE  SockInv' /\ StepSound
<1> USE DEF loop, objs, output, ReadDone, WriteDone, NextSlot, Callback
<1>t. writemask \subseteq Slots
  BY DEF SockInv, SlotTypes
<1>1. CASE NoRead
  BY <1>1, <1>t, IdleHandlerSound DEF NoRead
<1>2. CASE ReadListen
  BY <1>2, <1>t, IdleHandlerSound DEF ReadListen
<1>3. CASE ReadData
  BY <1>3, <1>t, IdleHandlerSound DEF ReadData
<1>4. CASE ReadEnds
  BY <1>4, <1>t, IdleHandlerSound DEF ReadEnds
<1>5. ASSUME NEW n, ReadBuffered(n)
      PROVE  SockInv' /\ StepSound
  BY <1>5, <1>t, IdleHandlerSound DEF ReadBuffered
<1>6. ASSUME NEW n, Line(n)
      PROVE  SockInv' /\ StepSound
  BY <1>6, <1>t, IdleHandlerSound DEF Line
<1>7. ASSUME NEW n, SendSome(n)
      PROVE  SockInv' /\ StepSound
  <2>1. /\ UNCHANGED <<slots, flagged, releasing, w_buf>> /\ writemask' \subseteq Slots
        /\ pc' # "sent" /\ flags' = [flags EXCEPT ![at] = @ \ {"CONNECTING"}]
    BY <1>7, <1>t DEF SendSome
  <2>2. /\ flags' \in [Slots -> SUBSET {"RELEASE", "BLOCKED", "CONNECTING", "WACCEPT",
                                        "MORE_LINES", "CLOSING"}]
        /\ \A s \in Slots : /\ "RELEASE" \in flags'[s] => "RELEASE" \in flags[s]
                            /\ "BLOCKED" \in flags[s] => "BLOCKED" \in flags'[s]
    BY <2>1 DEF SockInv, SlotTypes
  <2> QED
    BY <2>1, <2>2, HandlerSound DEF SockInv, SlotTypes, OutputBlocks
<1>8. CASE NoWrite
  BY <1>8, <1>t, IdleHandlerSound DEF NoWrite
<1>9. CASE SendRest
  <2>1. /\ UNCHANGED <<slots, flags, flagged, releasing, at>> /\ writemask' \subseteq Slots
        /\ at \in Slots /\ w_buf' = [w_buf EXCEPT ![at] = Null]
    BY <1>9, <1>t DEF SendRest, WriteReady
  <2>2. /\ w_buf' = [s \in Slots |-> w_buf'[s]] /\ w_buf'[at'] = Null
        /\ \A s \in Slots : w_buf'[s] # Null => "BLOCKED" \in flags'[s]
    BY <2>1 DEF SockInv, SlotTypes, OutputBlocks
  <2> QED
    BY <2>1, <2>2, HandlerSound DEF SockInv, SlotTypes
<1>10. CASE Unblock
  <2>1. /\ UNCHANGED <<slots, flagged, releasing, w_buf, writemask>>
        /\ pc' # "sent" /\ flags' = [flags EXCEPT ![at] = @ \ {"BLOCKED", "CONNECTING"}]
        /\ at \in Slots /\ w_buf[at] = Null
    BY <1>10 DEF Unblock, SockInv, SentAll
  <2>2. /\ flags' \in [Slots -> SUBSET {"RELEASE", "BLOCKED", "CONNECTING", "WACCEPT",
                                        "MORE_LINES", "CLOSING"}]
        /\ \A s \in Slots : /\ "RELEASE" \in flags'[s] => "RELEASE" \in flags[s]
                            /\ w_buf'[s] # Null => "BLOCKED" \in flags'[s]
    BY <2>1 DEF SockInv, SlotTypes, OutputBlocks
  <2> QED
    BY <2>1, <2>2, <1>t, HandlerSound DEF SockInv, SlotTypes
<1>11. CASE CloseSent
  <2>1. /\ SocketClose({at}, 2) /\ w_buf[at] = Null /\ pc' # "sent"
        /\ UNCHANGED <<flagged, releasing, writemask>>
    BY <1>11 DEF CloseSent, SockInv, SentAll
  <2>2. \A s \in {at} \cap Slots : w_buf[s] = Null
    BY <2>1
  <2> QED
    BY <2>1, <2>2, <1>t, CloseSound
<1>12. CASE SendFails
  BY <1>12, <1>t, IdleHandlerSound DEF SendFails
<1>13. CASE IoDone
  BY <1>13, <1>t, IdleHandlerSound DEF IoDone
<1>14. CASE NoLines
  BY <1>14, <1>t, IdleHandlerSound DEF NoLines
<1>15. CASE NoBuffer
  BY <1>15, <1>t, IdleHandlerSound DEF NoBuffer, HasLines
<1>16. CASE NoLine
  BY <1>16, <1>t, IdleHandlerSound DEF NoLine, LineEnd
<1>17. CASE LinesAgain
  BY <1>17, <1>t, IdleHandlerSound DEF LinesAgain
<1> QED
  BY <1>1, <1>2, <1>3, <1>4, <1>5, <1>6, <1>7, <1>8, <1>9, <1>10, <1>11, <1>12, <1>13,
     <1>14, <1>15, <1>16, <1>17 DEF Handler

-----------------------------------------------------------------------------
(* The backend loop and the end of an evaluation.                          *)

LEMMA ReleaseReturnsSound ==
  ASSUME SockInv, ReleaseReturns
  PROVE  SockInv' /\ StepSound
<1> DEFINE s == Head(releasing)
<1>1. /\ flags' = [flags EXCEPT ![s] = @ \ {"RELEASE"}]
      /\ release_ob' \in {[release_ob EXCEPT ![s] = Null], release_ob}
      /\ releasing' = Tail(releasing) /\ releasing # <<>>
      /\ pc = "lpc" /\ UNCHANGED <<state, owner_ob, flagged, w_buf, pc, at, writemask>>
  BY DEF ReleaseReturns, output, objs, loop
<1>2. /\ releasing \in Seq(Slots) /\ s \in Slots /\ s = releasing[1]
      /\ releasing' \in Seq(Slots) /\ DOMAIN releasing' = 1 .. Len(releasing) - 1
      /\ \A i \in DOMAIN releasing : i # 1 => /\ i - 1 \in DOMAIN releasing'
                                             /\ releasing'[i - 1] = releasing[i]
  BY <1>1 DEF SockInv, SlotTypes
<1> HIDE DEF s
<1>3. SlotTypes'
  BY <1>1, <1>2 DEF SockInv, SlotTypes, Slots
<1>4. OfferStands'
  <2> SUFFICES ASSUME NEW t \in Slots, "RELEASE" \in flags'[t]
               PROVE  \E i \in DOMAIN releasing' : releasing'[i] = t
    BY DEF OfferStands, Slots
  <2>1. t # s /\ "RELEASE" \in flags[t]
    BY <1>1, <1>2 DEF SockInv, SlotTypes
  <2>2. PICK i \in DOMAIN releasing : releasing[i] = t
    BY <2>1 DEF SockInv, OfferStands
  <2> QED
    BY <1>2, <2>1, <2>2
<1>5. OutputBlocks' /\ SentAll'
  BY <1>1, <1>2 DEF SockInv, SlotTypes, OutputBlocks, SentAll, Slots
<1>6. HandsOver /\ FlagsOwner /\ CutsNothing
  BY <1>1 DEF HandsOver, FlagsOwner, CutsNothing, Open
<1> QED
  BY <1>3, <1>4, <1>5, <1>6 DEF SockInv, StepSound

LEMMA EvaluationEndsSound ==
  ASSUME SockInv, EvaluationEnds
  PROVE  SockInv' /\ StepSound
<1> USE DEF loop, objs, output, NextSlot
<1>t. writemask \subseteq Slots
  BY DEF SockInv, SlotTypes
<1>1. CASE ReleaseReturns
  BY <1>1, ReleaseReturnsSound
<1>2. CASE Returns
  <2>1. CASE Ends("line") /\ LineEnd /\ UNCHANGED more
    BY <2>1, <1>t, IdleHandlerSound DEF Ends, LineEnd
  <2> QED
    BY <1>2, <2>1, <1>t, IdleHandlerSound DEF Returns, Ends
<1>3. CASE ClosedReturns
  BY <1>3, <1>t, CloseSound DEF ClosedReturns
<1>4. CASE BrokenReturns
  <2>1. /\ SocketClose({at}, 2) /\ ctx = "broken" /\ ctx' # ctx /\ pc' # "sent"
        /\ UNCHANGED <<flagged, releasing, writemask>>
    BY <1>4 DEF BrokenReturns, Ends
  <2> QED
    BY <2>1, <1>t, CloseSound
<1>5. CASE Throw
  BY <1>5, IdleHandlerSound DEF Throw, Ends
<1> QED
  BY <1>1, <1>2, <1>3, <1>4, <1>5 DEF EvaluationEnds

LEMMA NextSound ==
  ASSUME SocketsAssumption, SockInv, [Next]_vars
  PROVE  SockInv' /\ StepSound
<1>1. CASE Select
  BY <1>1, IdleHandlerSound DEF Select, output
<1>2. CASE Evaluate
  BY <1>2, IdleHandlerSound DEF Evaluate, output, loop, SockInv, SlotTypes
<1>3. CASE Efun
  BY <1>3, EfunSound
<1>4. CASE Handler
  BY <1>4, HandlersSound
<1>5. CASE EvaluationEnds
  BY <1>5, EvaluationEndsSound
<1>6. CASE UNCHANGED vars
  <2>1. SockInv'
    BY <1>6 DEF vars, slots, output, input, objs, loop, SockInv, SlotTypes, OfferStands,
                OutputBlocks, SentAll, Slots
  <2> QED
    BY <1>6, <2>1, QuietStep DEF vars, objs
<1> QED
  BY <1>1, <1>2, <1>3, <1>4, <1>5, <1>6 DEF Next

LEMMA InitSound == Init => SockInv
BY DEF Init, SockInv, SlotTypes, OfferStands, OutputBlocks, SentAll

LEMMA SockInvHolds ==
  ASSUME SocketsAssumption
  PROVE  Spec => []SockInv
BY InitSound, NextSound, PTL DEF Spec

-----------------------------------------------------------------------------
(* The buffers.                                                            *)

\* What is still to be sent of a buffer b of which len bytes from off on count,
\* as Unsent reads it.
Rest(b, off, len) == [i \in 1 .. len |-> IF off + i - 1 < 0 THEN 0 ELSE b[off + i]]

\* The unsent bytes, when w of a bytes have come through: all the others, and
\* perhaps the byte in front of the buffer.
Ordered(u, a, w) == u = Numbers(w, a - w) \/ u = <<0>> \o Numbers(w, a - w)

OutSound(b, off, len, a, w) ==
  /\ a \in Nat /\ w \in Nat /\ w <= a /\ off \in {-1} \cup Nat /\ len \in Nat
  /\ b = Null => len = 0
  /\ b # Null => b \in Seq(Nat) /\ len > 0 /\ off + len = Len(b)
  /\ Ordered(Rest(b, off, len), a, w)

OutputSound ==
  /\ w_buf \in [Slots -> Seq(Nat) \cup {Null}] /\ w_off \in [Slots -> {-1} \cup Nat]
  /\ w_len \in [Slots -> Nat] /\ accepted \in [Slots -> Nat] /\ wire \in [Slots -> Nat]
  /\ \A s \in Slots : OutSound(w_buf[s], w_off[s], w_len[s], accepted[s], wire[s])

InSound(r, g, t) ==
  /\ g \in Nat /\ t \in Nat /\ t <= g
  /\ (IF r = Null THEN <<>> ELSE r) = Numbers(t, g - t)

InputSound ==
  /\ r_buf \in [Slots -> Seq(Nat) \cup {Null}]
  /\ got \in [Slots -> Nat] /\ told \in [Slots -> Nat]
  /\ \A s \in Slots : InSound(r_buf[s], got[s], told[s])

\* A closed slot has no buffers, so that socket_create need not free any.
ClosedEmpty == \A s \in Slots : ~Open(s) => r_buf[s] = Null /\ w_buf[s] = Null

ModesTyped ==
  /\ mode \in [Slots -> SUBSET {"BUFFERED_OUTPUT", "BUFFERED_INPUT"}]
  /\ life \in [Objects -> {"live", "destructed", "gone"}] /\ flagged \subseteq Objects

\* The loops are at a slot whenever a handler or one of its callbacks runs.
LoopSound ==
  /\ ModesTyped
  /\ pc \in {"select", "read", "write", "sent", "lines", "lpc"}
  /\ ctx \in {"none", "backend", "read", "closed", "write", "broken", "line"}
  /\ pc = "lpc" <=> ctx # "none"
  /\ at \in 0 .. NumSocks /\ more \in BOOLEAN /\ readmask \subseteq Slots
  /\ pc \in {"write", "sent"} \/ ctx \notin {"none", "backend"} => at \in Slots

BufSound == OutputSound /\ InputSound /\ ClosedEmpty /\ LinesFlagged
BufInv   == BufSound /\ LoopSound

LEMMA NumbersTyped ==
  ASSUME NEW a \in Nat, NEW n \in Nat
  PROVE  /\ Numbers(a, n) \in Seq(Nat) /\ Len(Numbers(a, n)) = n
         /\ \A i \in 1 .. n : Numbers(a, n)[i] = a + i
<1>1. Numbers(a, n) = [i \in 1 .. n |-> a + i]
  BY DEF Numbers
<1>2. \A i \in 1 .. n : a + i \in Nat
  OBVIOUS
<1> QED BY <1>1, <1>2

\* What is written after what was written before continues the numbers.
LEMMA NumbersConcat ==
  ASSUME NEW a \in Nat, NEW m \in Nat, NEW n \in Nat
  PROVE  Numbers(a, m) \o Numbers(a + m, n) = Numbers(a, m + n)
<1> DEFINE p == Numbers(a, m)
           q == Numbers(a + m, n)
           r == Numbers(a, m + n)
<1>1. /\ p \in Seq(Nat) /\ Len(p) = m /\ \A i \in 1 .. m : p[i] = a + i
      /\ q \in Seq(Nat) /\ Len(q) = n /\ \A i \in 1 .. n : q[i] = a + m + i
      /\ r \in Seq(Nat) /\ Len(r) = m + n /\ \A i \in 1 .. m + n : r[i] = a + i
  <2>1. a + m \in Nat /\ m + n \in Nat
    OBVIOUS
  <2>2. p \in Seq(Nat) /\ Len(p) = m /\ \A i \in 1 .. m : p[i] = a + i
    BY NumbersTyped
  <2>3. q \in Seq(Nat) /\ Len(q) = n /\ \A i \in 1 .. n : q[i] = a + m + i
    BY <2>1, NumbersTyped
  <2>4. r \in Seq(Nat) /\ Len(r) = m + n /\ \A i \in 1 .. m + n : r[i] = a + i
    BY <2>1, NumbersTyped
  <2> QED BY <2>2, <2>3, <2>4
<1> HIDE DEF p, q, r
<1>2. /\ p \o q \in Seq(Nat) /\ Len(p \o q) = m + n
      /\ \A i \in 1 .. m + n : (p \o q)[i] = IF i <= m THEN p[i] ELSE q[i - m]
  BY <1>1, ConcatProperties, ZenonT(30)
<1>3. \A i \in 1 .. m + n : (p \o q)[i] = r[i]
  <2> TAKE i \in 1 .. m + n
  <2>1. CASE i <= m
    BY <1>1, <1>2, <2>1
  <2>2. CASE i > m
    <3>1. i - m \in 1 .. n /\ a + m + (i - m) = a + i /\ ~ (i <= m)
      BY <2>2
    <3>2. q[i - m] = a + i
      BY <1>1, <3>1
    <3>3. (p \o q)[i] = q[i - m]
      BY <1>2, <3>1
    <3>4. r[i] = a + i
      BY <1>1
    <3> QED BY <3>2, <3>3, <3>4
  <2>3. i <= m \/ i > m
    OBVIOUS
  <2> QED BY <2>1, <2>2, <2>3
<1>4. p \o q = r
  BY <1>1, <1>2, <1>3, SeqEqual
<1> QED BY <1>4 DEF p, q, r

LEMMA NumbersSub ==
  ASSUME NEW a \in Nat, NEW n \in Nat, NEW k \in 0 .. n
  PROVE  /\ SubSeq(Numbers(a, n), 1, k) = Numbers(a, k)
         /\ SubSeq(Numbers(a, n), k + 1, n) = Numbers(a + k, n - k)
<1> DEFINE q == Numbers(a, n)
           u == Numbers(a, k)
           v == Numbers(a + k, n - k)
<1>1. q \in Seq(Nat) /\ Len(q) = n /\ \A i \in 1 .. n : q[i] = a + i
  BY NumbersTyped
<1>2. u \in Seq(Nat) /\ Len(u) = k /\ \A i \in 1 .. k : u[i] = a + i
  <2>1. k \in Nat
    OBVIOUS
  <2> QED BY <2>1, NumbersTyped
<1>3. v \in Seq(Nat) /\ Len(v) = n - k /\ \A i \in 1 .. n - k : v[i] = a + k + i
  <2>1. a + k \in Nat /\ n - k \in Nat
    OBVIOUS
  <2> QED BY <2>1, NumbersTyped
<1> HIDE DEF q, u, v
<1>4. /\ SubSeq(q, 1, k) \in Seq(Nat) /\ Len(SubSeq(q, 1, k)) = k
      /\ \A i \in 1 .. k : SubSeq(q, 1, k)[i] = q[i]
  <2>1. \A i \in 1 .. k : q[i] \in Nat
    BY <1>1
  <2>2. /\ SubSeq(q, 1, k) \in Seq(Nat)
        /\ Len(SubSeq(q, 1, k)) = IF 1 <= k THEN k - 1 + 1 ELSE 0
        /\ \A i \in 1 .. k - 1 + 1 : SubSeq(q, 1, k)[i] = q[1 + i - 1]
    BY <2>1, SubSeqProperties
  <2> QED BY <2>2
<1>5. /\ SubSeq(q, k + 1, n) \in Seq(Nat) /\ Len(SubSeq(q, k + 1, n)) = n - k
      /\ \A i \in 1 .. n - k : SubSeq(q, k + 1, n)[i] = q[k + i]
  <2>1. \A i \in k + 1 .. n : q[i] \in Nat
    BY <1>1
  <2>2. k + 1 \in Int /\ n \in Int
    OBVIOUS
  <2>3. /\ SubSeq(q, k + 1, n) \in Seq(Nat)
        /\ Len(SubSeq(q, k + 1, n)) = IF k + 1 <= n THEN n - (k + 1) + 1 ELSE 0
        /\ \A i \in 1 .. n - (k + 1) + 1 : SubSeq(q, k + 1, n)[i] = q[k + 1 + i - 1]
    BY <2>1, <2>2, SubSeqProperties
  <2>4. n - (k + 1) + 1 = n - k /\ \A i \in 1 .. n - k : k + 1 + i - 1 = k + i
    OBVIOUS
  <2>5. \A i \in 1 .. n - k : SubSeq(q, k + 1, n)[i] = q[k + i]
    BY <2>3, <2>4
  <2> QED BY <2>3, <2>5
<1>6. SubSeq(q, 1, k) = u
  <2>1. \A i \in 1 .. k : SubSeq(q, 1, k)[i] = u[i]
    BY <1>1, <1>2, <1>4
  <2> QED BY <1>2, <1>4, <2>1, SeqEqual
<1>7. SubSeq(q, k + 1, n) = v
  <2>1. \A i \in 1 .. n - k : k + i \in 1 .. n /\ a + (k + i) = a + k + i
    OBVIOUS
  <2>2. \A i \in 1 .. n - k : SubSeq(q, k + 1, n)[i] = v[i]
    BY <1>1, <1>3, <1>5, <2>1
  <2> QED BY <1>3, <1>5, <2>2, SeqEqual
<1> QED BY <1>6, <1>7 DEF q, u, v

LEMMA ThroughNumbers ==
  ASSUME NEW a \in Nat, NEW n \in Nat
  PROVE  Through(a, Numbers(a, n)) = a + n
BY NumbersTyped DEF Through

\* The byte in front of the buffer is not one that was written.
LEMMA WrittenOrdered ==
  ASSUME NEW w \in Nat, NEW n \in Nat
  PROVE  /\ Written(Numbers(w, n)) = Numbers(w, n)
         /\ Written(<<0>> \o Numbers(w, n)) = Numbers(w, n)
<1> DEFINE q == Numbers(w, n)
<1>1. q \in Seq(Nat) /\ Len(q) = n /\ \A i \in 1 .. n : q[i] = w + i
  BY NumbersTyped
<1> HIDE DEF q
<1>2. Written(q) = q
  <2>1. q # <<>> => q[1] = w + 1
    BY <1>1
  <2> QED BY <2>1 DEF Written
<1>3. Written(<<0>> \o q) = q
  <2> DEFINE z == <<0>> \o q
  <2>1. <<0>> \in Seq(Nat) /\ Len(<<0>>) = 1 /\ <<0>>[1] = 0
    OBVIOUS
  <2>2. z \in Seq(Nat) /\ Len(z) = 1 + n /\ z[1] = 0
        /\ \A i \in 1 .. 1 + n : z[i] = IF i <= 1 THEN <<0>>[i] ELSE q[i - 1]
    BY <1>1, <2>1, ConcatProperties
  <2> HIDE DEF z
  <2>3. z # <<>>
    BY <2>2
  <2>4. Tail(z) \in Seq(Nat) /\ Len(Tail(z)) = n /\ \A i \in 1 .. n : Tail(z)[i] = z[i + 1]
    BY <2>2, <2>3
  <2>5. \A i \in 1 .. n : z[i + 1] = q[i]
    <3> TAKE i \in 1 .. n
    <3>1. i + 1 \in 1 .. 1 + n /\ ~ (i + 1 <= 1) /\ (i + 1) - 1 = i
      OBVIOUS
    <3> QED BY <2>2, <3>1
  <2>6. Tail(z) = q
    BY <1>1, <2>4, <2>5, SeqEqual
  <2> QED BY <2>2, <2>3, <2>6 DEF Written, z
<1> QED BY <1>2, <1>3 DEF q

-----------------------------------------------------------------------------
(* What the steps do with one buffer.                                      *)

LEMMA RestTyped ==
  ASSUME NEW b, NEW off, NEW len, NEW a, NEW w, OutSound(b, off, len, a, w)
  PROVE  /\ Rest(b, off, len) \in Seq(Nat) /\ Len(Rest(b, off, len)) = len
         /\ len = a - w \/ len = a - w + 1
<1> DEFINE u == Rest(b, off, len)
           q == Numbers(w, a - w)
<1>1. len \in Nat /\ w \in Nat /\ a - w \in Nat /\ (u = q \/ u = <<0>> \o q)
  BY DEF OutSound, Ordered
<1>2. q \in Seq(Nat) /\ Len(q) = a - w
  BY <1>1, NumbersTyped
<1>3. u = [i \in 1 .. len |-> u[i]]
  BY DEF Rest
<1> HIDE DEF q, u
<1>4. <<0>> \o q \in Seq(Nat) /\ Len(<<0>> \o q) = a - w + 1
  <2>1. <<0>> \in Seq(Nat) /\ Len(<<0>>) = 1
    OBVIOUS
  <2>2. <<0>> \o q \in Seq(Nat) /\ Len(<<0>> \o q) = 1 + (a - w)
    BY <1>2, <2>1, ConcatProperties
  <2> QED BY <1>1, <2>2
<1>5. u \in Seq(Nat) /\ (Len(u) = a - w \/ Len(u) = a - w + 1)
  BY <1>1, <1>2, <1>4
<1>6. Len(u) = len
  <2>1. DOMAIN u = 1 .. len
    BY <1>3
  <2>2. DOMAIN u = 1 .. Len(u) /\ Len(u) \in Nat
    BY <1>5
  <2> QED BY <1>1, <2>1, <2>2
<1> QED BY <1>5, <1>6 DEF u

\* Read from its beginning, a buffer is itself.
LEMMA RestWhole ==
  ASSUME NEW b \in Seq(Nat)
  PROVE  Rest(b, 0, Len(b)) = b
<1>1. \A i \in 1 .. Len(b) : ~ (0 + i - 1 < 0) /\ 0 + i = i
  OBVIOUS
<1>2. b = [i \in 1 .. Len(b) |-> b[i]]
  OBVIOUS
<1> QED BY <1>1, <1>2 DEF Rest

\* A socket that is not blocked has no buffer: all has been sent.
LEMMA OutIdle ==
  ASSUME NEW off, NEW len, NEW a, NEW w, OutSound(Null, off, len, a, w)
  PROVE  len = 0 /\ w = a /\ a \in Nat /\ Ordered(<<>>, a, a)
<1>1. len = 0 /\ a \in Nat /\ w \in Nat /\ w <= a /\ (len = a - w \/ len = a - w + 1)
  BY RestTyped DEF OutSound
<1>2. w = a
  BY <1>1
<1>3. Numbers(a, a - a) = <<>>
  <2>1. a - a = 0
    BY <1>1
  <2>2. Numbers(a, 0) \in Seq(Nat) /\ Len(Numbers(a, 0)) = 0
    BY <1>1, NumbersTyped
  <2> QED BY <2>1, <2>2
<1> QED BY <1>1, <1>2, <1>3 DEF Ordered

\* The buffer is gone when all has been sent.
LEMMA OutEmpty ==
  ASSUME NEW a \in Nat, NEW off \in {-1} \cup Nat
  PROVE  OutSound(Null, off, 0, a, a)
<1>1. Numbers(a, a - a) = <<>>
  <2>1. a - a = 0
    OBVIOUS
  <2>2. Numbers(a, 0) \in Seq(Nat) /\ Len(Numbers(a, 0)) = 0
    BY NumbersTyped
  <2> QED BY <2>1, <2>2
<1>2. Rest(Null, off, 0) = <<>>
  BY DEF Rest
<1> QED BY <1>1, <1>2 DEF OutSound, Ordered

\* WriteBuffered: the new bytes come behind the unsent ones, in a new buffer.
LEMMA OutAppend ==
  ASSUME Null \notin Seq(Nat), NEW b, NEW off, NEW len, NEW a, NEW w, NEW n \in Nat \ {0},
         OutSound(b, off, len, a, w)
  PROVE  /\ Rest(b, off, len) \o Numbers(a, n) \in Seq(Nat)
         /\ OutSound(Rest(b, off, len) \o Numbers(a, n), 0, len + n, a + n, w)
<1> DEFINE u == Rest(b, off, len)
           q == Numbers(a, n)
           z == u \o q
<1>1. a \in Nat /\ w \in Nat /\ w <= a /\ len \in Nat /\ Ordered(u, a, w)
  BY DEF OutSound
<1>2. u \in Seq(Nat) /\ Len(u) = len
  BY RestTyped
<1>3. q \in Seq(Nat) /\ Len(q) = n
  BY <1>1, NumbersTyped
<1>4. Ordered(z, a + n, w)
  <2> DEFINE p == Numbers(w, a - w)
  <2>1. a - w \in Nat /\ a = w + (a - w) /\ (a - w) + n = (a + n) - w
    BY <1>1
  <2>2. p \o q = Numbers(w, (a + n) - w)
    <3>1. Numbers(w, a - w) \o Numbers(w + (a - w), n) = Numbers(w, (a - w) + n)
      BY <1>1, <2>1, NumbersConcat, ZenonT(30)
    <3> QED BY <2>1, <3>1
  <2>3. p \in Seq(Nat)
    BY <1>1, <2>1, NumbersTyped
  <2>4. CASE u = p
    BY <2>2, <2>4 DEF Ordered
  <2>5. CASE u = <<0>> \o p
    <3>1. <<0>> \in Seq(Nat)
      OBVIOUS
    <3> HIDE DEF p, q
    <3>2. (<<0>> \o p) \o q = <<0>> \o (p \o q)
      BY <1>3, <2>3, <3>1, ConcatAssociative
    <3> QED BY <2>2, <2>5, <3>2 DEF Ordered
  <2> QED BY <1>1, <2>4, <2>5 DEF Ordered
<1> HIDE DEF u, q
<1>5. z \in Seq(Nat) /\ Len(z) = len + n
  BY <1>2, <1>3, ConcatProperties
<1> HIDE DEF z
<1>6. Rest(z, 0, len + n) = z
  BY <1>5, RestWhole
<1>7. /\ a + n \in Nat /\ w <= a + n /\ len + n \in Nat /\ len + n > 0
      /\ 0 + (len + n) = len + n /\ z # Null
  BY <1>1, <1>5
<1>8. OutSound(z, 0, len + n, a + n, w)
  BY <1>1, <1>4, <1>5, <1>6, <1>7 DEF OutSound
<1> QED BY <1>5, <1>8 DEF z, u, q

\* WriteBlocks: the kernel has taken off bytes of a new buffer, or none, and then
\* the byte in front counts as unsent.
LEMMA OutStops ==
  ASSUME Null \notin Seq(Nat), NEW a \in Nat, NEW n \in Nat \ {0}, NEW off \in {-1} \cup 1 .. n - 1
  PROVE  /\ Numbers(a, n) \in Seq(Nat)
         /\ OutSound(Numbers(a, n), off, n - off, a + n,
                     IF off < 0 THEN a ELSE Through(a, Numbers(a, off)))
<1> DEFINE q == Numbers(a, n)
           w == IF off < 0 THEN a ELSE Through(a, Numbers(a, off))
           r == Rest(q, off, n - off)
<1>1. q \in Seq(Nat) /\ Len(q) = n /\ \A i \in 1 .. n : q[i] = a + i
  BY NumbersTyped
<1>2. /\ off \in {-1} \cup Nat /\ n - off \in Nat /\ n - off > 0 /\ off + (n - off) = n
      /\ a + n \in Nat
  OBVIOUS
<1>3. q # Null
  BY <1>1
<1>4. w \in Nat /\ w <= a + n /\ Ordered(r, a + n, w)
  <2>1. CASE off = -1
    <3>1. w = a /\ (a + n) - a = n /\ n - off = n + 1
      BY <2>1
    <3>2. r = [i \in 1 .. n + 1 |-> IF i = 1 THEN 0 ELSE q[i - 1]]
      <4>1. \A i \in 1 .. n + 1 : (off + i - 1 < 0 <=> i = 1) /\ off + i = i - 1
        BY <2>1
      <4> QED BY <3>1, <4>1 DEF Rest
    <3>3. <<0>> \o q \in Seq(Nat) /\ Len(<<0>> \o q) = n + 1
          /\ \A i \in 1 .. n + 1 : (<<0>> \o q)[i] = IF i = 1 THEN 0 ELSE q[i - 1]
      <4>1. <<0>> \in Seq(Nat) /\ Len(<<0>>) = 1 /\ <<0>>[1] = 0
        OBVIOUS
      <4> HIDE DEF q
      <4>2. <<0>> \o q \in Seq(Nat) /\ Len(<<0>> \o q) = 1 + n
            /\ \A i \in 1 .. 1 + n : (<<0>> \o q)[i] = IF i <= 1 THEN <<0>>[i] ELSE q[i - 1]
        BY <1>1, <4>1, ConcatProperties
      <4>3. 1 + n = n + 1 /\ \A i \in 1 .. n + 1 : i <= 1 <=> i = 1
        OBVIOUS
      <4> QED BY <4>1, <4>2, <4>3
    <3> DEFINE z == <<0>> \o q
    <3>4. z = [i \in 1 .. n + 1 |-> z[i]]
      BY <3>3
    <3> HIDE DEF q, r, z
    <3>5. r = z
      BY <3>2, <3>3, <3>4 DEF z
    <3> QED BY <3>1, <3>5 DEF Ordered, z, q
  <2>2. CASE off \in 1 .. n - 1
    <3>1. ~ (off < 0) /\ off \in Nat /\ a + off \in Nat /\ n - off \in Nat
      BY <2>2
    <3>2. w = a + off
      BY <3>1, ThroughNumbers
    <3>3. w \in Nat /\ w <= a + n /\ (a + n) - w = n - off
      BY <2>2, <3>1, <3>2
    <3>4. r = [i \in 1 .. n - off |-> a + off + i]
      <4>1. \A i \in 1 .. n - off : ~ (off + i - 1 < 0) /\ off + i \in 1 .. n
                                    /\ a + (off + i) = a + off + i
        BY <2>2
      <4>2. \A i \in 1 .. n - off : q[off + i] = a + off + i
        BY <1>1, <4>1
      <4> QED BY <4>1, <4>2 DEF Rest
    <3> QED BY <3>2, <3>3, <3>4 DEF Ordered, Numbers
  <2> QED BY <2>1, <2>2
<1> HIDE DEF q, w
<1>5. OutSound(q, off, n - off, a + n, w)
  BY <1>1, <1>2, <1>3, <1>4 DEF OutSound
<1> QED BY <1>1, <1>5 DEF q, w

\* A byte in front moves the others back by one.
LEMMA FrontByte ==
  ASSUME NEW q \in Seq(Nat), NEW m \in Nat, Len(q) = m, NEW n \in 1 .. m + 1
  PROVE  /\ SubSeq(<<0>> \o q, 1, n) = <<0>> \o SubSeq(q, 1, n - 1)
         /\ SubSeq(<<0>> \o q, n + 1, m + 1) = SubSeq(q, n, m)
<1> DEFINE z == <<0>> \o q
           x == SubSeq(q, 1, n - 1)
<1>1. <<0>> \in Seq(Nat) /\ Len(<<0>>) = 1 /\ <<0>>[1] = 0
  OBVIOUS
<1>2. z \in Seq(Nat) /\ Len(z) = 1 + m
      /\ \A i \in 1 .. 1 + m : z[i] = IF i <= 1 THEN <<0>>[i] ELSE q[i - 1]
  BY <1>1, ConcatProperties
<1>3. n \in Int /\ n - 1 \in Int /\ n + 1 \in Int /\ m + 1 \in Int
  OBVIOUS
<1>4. x \in Seq(Nat) /\ Len(x) = n - 1 /\ \A i \in 1 .. n - 1 : x[i] = q[i]
  <2>1. \A i \in 1 .. n - 1 : q[i] \in Nat
    OBVIOUS
  <2>2. x \in Seq(Nat) /\ Len(x) = (IF 1 <= n - 1 THEN (n - 1) - 1 + 1 ELSE 0)
        /\ \A i \in 1 .. (n - 1) - 1 + 1 : x[i] = q[1 + i - 1]
    BY <1>3, <2>1, SubSeqProperties
  <2> HIDE DEF x
  <2> QED BY <2>2
<1> DEFINE y == <<0>> \o x
<1> HIDE DEF x, z
<1>5. y \in Seq(Nat) /\ Len(y) = 1 + (n - 1)
      /\ \A i \in 1 .. 1 + (n - 1) : y[i] = IF i <= 1 THEN <<0>>[i] ELSE x[i - 1]
  BY <1>1, <1>4, ConcatProperties
<1> HIDE DEF y
<1>6. SubSeq(z, 1, n) = y
  <2> DEFINE s == SubSeq(z, 1, n)
  <2>1. \A i \in 1 .. n : z[i] \in Nat
    <3>1. z \in Seq(Nat) /\ Len(z) = 1 + m
      BY <1>2
    <3>2. \A i \in 1 .. n : i \in 1 .. Len(z)
      BY <3>1
    <3> QED BY <3>1, <3>2, ElementOfSeq
  <2>2. s \in Seq(Nat) /\ Len(s) = (IF 1 <= n THEN n - 1 + 1 ELSE 0)
        /\ \A i \in 1 .. n - 1 + 1 : s[i] = z[1 + i - 1]
    BY <1>3, <2>1, SubSeqProperties
  <2> HIDE DEF s
  <2>3. Len(s) = n /\ \A i \in 1 .. n : s[i] = z[i]
    BY <2>2
  <2>4. \A i \in 1 .. n : s[i] = y[i]
    <3> TAKE i \in 1 .. n
    <3>1. i \in 1 .. 1 + m /\ i \in 1 .. 1 + (n - 1)
      OBVIOUS
    <3>2. CASE i <= 1
      BY <1>2, <1>5, <2>3, <3>1, <3>2
    <3>3. CASE ~ (i <= 1)
      <4>1. i - 1 \in 1 .. n - 1
        BY <3>3
      <4>2. s[i] = q[i - 1]
        BY <1>2, <2>3, <3>1, <3>3
      <4>3. y[i] = x[i - 1]
        BY <1>5, <3>1, <3>3
      <4> QED BY <1>4, <4>1, <4>2, <4>3
    <3> QED BY <3>2, <3>3
  <2>5. Len(y) = n
    BY <1>5
  <2>6. s = y
    <3>1. y \in Seq(Nat) /\ s \in Seq(Nat) /\ Len(s) = Len(y) /\ \A i \in 1 .. Len(s) : s[i] = y[i]
      BY <1>5, <2>2, <2>3, <2>4, <2>5
    <3> QED BY <3>1, SeqEqual
  <2> QED BY <2>6 DEF s
<1>7. SubSeq(z, n + 1, m + 1) = SubSeq(q, n, m)
  <2> DEFINE s == SubSeq(z, n + 1, m + 1)
             r == SubSeq(q, n, m)
  <2>1. \A i \in n + 1 .. m + 1 : z[i] \in Nat
    BY <1>2
  <2>2. s \in Seq(Nat) /\ Len(s) = (IF n + 1 <= m + 1 THEN (m + 1) - (n + 1) + 1 ELSE 0)
        /\ \A i \in 1 .. (m + 1) - (n + 1) + 1 : s[i] = z[(n + 1) + i - 1]
    BY <1>3, <2>1, SubSeqProperties
  <2>3. \A i \in n .. m : q[i] \in Nat
    OBVIOUS
  <2>4. r \in Seq(Nat) /\ Len(r) = (IF n <= m THEN m - n + 1 ELSE 0)
        /\ \A i \in 1 .. m - n + 1 : r[i] = q[n + i - 1]
    BY <1>3, <2>3, SubSeqProperties, SMTT(30)
  <2> HIDE DEF s, r
  <2>5. Len(s) = m - n + 1 /\ Len(r) = m - n + 1
    BY <2>2, <2>4
  <2>6. \A i \in 1 .. m - n + 1 : s[i] = r[i]
    <3> TAKE i \in 1 .. m - n + 1
    <3>1. /\ (n + 1) + i - 1 \in 1 .. 1 + m /\ ~ ((n + 1) + i - 1 <= 1)
          /\ ((n + 1) + i - 1) - 1 = n + i - 1 /\ (m + 1) - (n + 1) + 1 = m - n + 1
      OBVIOUS
    <3>2. s[i] = z[(n + 1) + i - 1]
      BY <2>2, <3>1
    <3>3. z[(n + 1) + i - 1] = q[n + i - 1]
      BY <1>2, <3>1
    <3> QED BY <2>4, <3>2, <3>3
  <2>7. s = r
    BY <2>2, <2>4, <2>5, <2>6, SeqEqual
  <2> QED BY <2>7 DEF s, r
<1> QED BY <1>6, <1>7 DEF x, y, z

\* SendSome and SendRest: the bytes that go out next follow those that went
\* before, whether the one in front of the buffer is among them or not.
LEMMA OutSend ==
  ASSUME NEW b, NEW off, NEW len, NEW a, NEW w, OutSound(b, off, len, a, w),
         b # Null, NEW n \in 1 .. len
  PROVE  LET v == Through(w, Written(SubSeq(Rest(b, off, len), 1, n)))
         IN  /\ v \in Nat /\ v <= a /\ off + n \in Nat
             /\ n = len => v = a
             /\ n < len => OutSound(b, off + n, len - n, a, v)
<1> DEFINE u == Rest(b, off, len)
           N == a - w
           p == Numbers(w, N)
           q == <<0>> \o p
           v == Through(w, Written(SubSeq(u, 1, n)))
           r == Rest(b, off + n, len - n)
<1>1. /\ a \in Nat /\ w \in Nat /\ w <= a /\ off \in {-1} \cup Nat /\ len \in Nat
      /\ b \in Seq(Nat) /\ off + len = Len(b) /\ (u = p \/ u = <<0>> \o p)
  BY DEF OutSound, Ordered
<1>2. N \in Nat /\ off + n \in Nat /\ w + N = a /\ off + n \in {-1} \cup Nat
  BY <1>1
<1>3. u \in Seq(Nat) /\ Len(u) = len
  BY RestTyped
<1>4. p \in Seq(Nat) /\ Len(p) = N
  BY <1>1, <1>2, NumbersTyped
<1>5. r = SubSeq(u, n + 1, len)
  <2> DEFINE s == SubSeq(u, n + 1, len)
  <2>1. \A i \in n + 1 .. len : u[i] \in Nat
    BY <1>1, <1>3
  <2>2. n + 1 \in Int /\ len \in Int /\ len - (n + 1) + 1 = len - n /\ len - n \in Nat
    BY <1>1
  <2> HIDE DEF u
  <2>3. s \in Seq(Nat) /\ Len(s) = (IF n + 1 <= len THEN len - (n + 1) + 1 ELSE 0)
        /\ \A i \in 1 .. len - (n + 1) + 1 : s[i] = u[(n + 1) + i - 1]
    BY <2>1, <2>2, SubSeqProperties
  <2> HIDE DEF s
  <2>4. Len(s) = len - n /\ \A i \in 1 .. len - n : s[i] = u[n + i]
    <3>1. \A i \in 1 .. len - n : (n + 1) + i - 1 = n + i
      OBVIOUS
    <3> QED BY <2>2, <2>3, <3>1
  <2>5. \A i \in 1 .. len - n : u[n + i] = (IF off + n + i - 1 < 0 THEN 0 ELSE b[off + n + i])
    <3>1. \A i \in 1 .. len - n : /\ n + i \in 1 .. len /\ off + (n + i) = off + n + i
                                  /\ off + (n + i) - 1 = off + n + i - 1
      BY <1>1
    <3> QED BY <3>1 DEF u, Rest
  <2>6. s = [i \in 1 .. len - n |-> s[i]]
    BY <2>3, <2>4
  <2>7. r = [i \in 1 .. len - n |-> IF off + n + i - 1 < 0 THEN 0 ELSE b[off + n + i]]
    BY DEF Rest
  <2>8. r = [i \in 1 .. len - n |-> s[i]]
    BY <2>4, <2>5, <2>7
  <2> QED BY <2>6, <2>8 DEF s, u
<1>6. ASSUME u = p
      PROVE  v \in Nat /\ v <= a /\ (n = len => v = a) /\ Ordered(r, a, v)
  <2>1. len = N
    BY <1>3, <1>4, <1>6
  <2>2. n \in 0 .. N /\ n \in Nat
    BY <2>1
  <2>3. SubSeq(p, 1, n) = Numbers(w, n) /\ SubSeq(p, n + 1, N) = Numbers(w + n, N - n)
    BY <1>1, <1>2, <2>2, NumbersSub
  <2>4. v = w + n
    <3>1. SubSeq(u, 1, n) = Numbers(w, n)
      BY <1>6, <2>3
    <3> HIDE DEF u
    <3>2. Written(Numbers(w, n)) = Numbers(w, n)
      BY <1>1, <2>2, WrittenOrdered
    <3>3. Through(w, Numbers(w, n)) = w + n
      BY <1>1, <2>2, ThroughNumbers
    <3> QED BY <3>1, <3>2, <3>3
  <2>5. r = Numbers(v, N - n)
    BY <1>5, <1>6, <2>1, <2>3, <2>4
  <2>6. v \in Nat /\ v <= a /\ a - v = N - n /\ (n = len => v = a)
    <3> HIDE DEF v, N
    <3> QED BY <1>1, <1>2, <2>1, <2>2, <2>4
  <2> QED BY <2>5, <2>6 DEF Ordered
<1>7. ASSUME u = q
      PROVE  v \in Nat /\ v <= a /\ (n = len => v = a) /\ Ordered(r, a, v)
  <2>1. len = N + 1
    <3>1. <<0>> \in Seq(Nat) /\ Len(<<0>>) = 1
      OBVIOUS
    <3> HIDE DEF p
    <3>2. Len(<<0>> \o p) = 1 + N
      BY <1>4, <3>1, ConcatProperties, SMTT(30)
    <3> HIDE DEF u
    <3>3. len = 1 + N
      BY <1>3, <1>7, <3>2
    <3> QED BY <1>2, <3>3
  <2>2. n \in 1 .. N + 1 /\ n - 1 \in 0 .. N /\ n - 1 \in Nat /\ (n - 1) + 1 = n
    <3> HIDE DEF N
    <3> QED BY <1>2, <2>1
  <2>3. SubSeq(p, 1, n - 1) = Numbers(w, n - 1)
        /\ SubSeq(p, n, N) = Numbers(w + (n - 1), N - (n - 1))
    <3>1. SubSeq(p, 1, n - 1) = Numbers(w, n - 1)
          /\ SubSeq(p, (n - 1) + 1, N) = Numbers(w + (n - 1), N - (n - 1))
      BY <1>1, <1>2, <2>2, NumbersSub
    <3> QED BY <2>2, <3>1
  <2>4. SubSeq(u, 1, n) = <<0>> \o Numbers(w, n - 1) /\ r = SubSeq(p, n, N)
    <3> HIDE DEF p
    <3>1. SubSeq(<<0>> \o p, 1, n) = <<0>> \o SubSeq(p, 1, n - 1)
          /\ SubSeq(<<0>> \o p, n + 1, N + 1) = SubSeq(p, n, N)
      BY <1>2, <1>4, <2>2, FrontByte
    <3> HIDE DEF u, r
    <3> QED BY <1>5, <1>7, <2>1, <2>3, <3>1
  <2>5. v = w + (n - 1)
    <3>1. Written(<<0>> \o Numbers(w, n - 1)) = Numbers(w, n - 1)
      BY <1>1, <2>2, WrittenOrdered
    <3>2. Through(w, Numbers(w, n - 1)) = w + (n - 1)
      BY <1>1, <2>2, ThroughNumbers
    <3> HIDE DEF u
    <3> QED BY <2>4, <3>1, <3>2
  <2>6. r = Numbers(v, N - (n - 1))
    BY <2>3, <2>4, <2>5
  <2>7. v \in Nat /\ v <= a /\ a - v = N - (n - 1) /\ (n = len => v = a)
    <3> HIDE DEF v, N
    <3> QED BY <1>1, <1>2, <2>1, <2>2, <2>5
  <2> QED BY <2>6, <2>7 DEF Ordered
<1>8. v \in Nat /\ v <= a /\ (n = len => v = a) /\ Ordered(r, a, v)
  BY <1>1, <1>6, <1>7
<1> HIDE DEF v, r
<1>9. ASSUME n < len PROVE OutSound(b, off + n, len - n, a, v)
  <2>1. len - n \in Nat /\ len - n > 0 /\ (off + n) + (len - n) = off + len
    BY <1>1, <1>9
  <2> QED BY <1>1, <1>2, <1>8, <2>1 DEF OutSound, r
<1> QED BY <1>2, <1>8, <1>9 DEF v, u

LEMMA OutFlush ==
  ASSUME NEW b, NEW off, NEW len, NEW a, NEW w, OutSound(b, off, len, a, w)
  PROVE  Through(w, Written(Rest(b, off, len))) = a
<1> DEFINE u == Rest(b, off, len)
<1>1. /\ a \in Nat /\ w \in Nat /\ w <= a /\ len \in Nat /\ (b # Null => len > 0)
      /\ (b = Null => len = 0)
  BY DEF OutSound
<1>2. u \in Seq(Nat) /\ Len(u) = len
  BY RestTyped
<1>3. CASE b # Null
  <2>1. len \in 1 .. len
    BY <1>1, <1>3
  <2>2. Through(w, Written(SubSeq(u, 1, len))) = a
    BY <1>3, <2>1, OutSend
  <2>3. SubSeq(u, 1, len) = u
    <3> HIDE DEF u
    <3> QED BY <1>2, SubSeqFull
  <2> QED BY <2>2, <2>3
<1>4. CASE b = Null
  <2>1. w = a
    BY <1>4, OutIdle
  <2>2. u = <<>>
    BY <1>1, <1>2, <1>4
  <2>3. Numbers(a, 0) = <<>>
    <3>1. Numbers(a, 0) \in Seq(Nat) /\ Len(Numbers(a, 0)) = 0
      BY <1>1, NumbersTyped
    <3> QED BY <3>1
  <2>4. Written(Numbers(a, 0)) = Numbers(a, 0) /\ Through(a, Numbers(a, 0)) = a + 0
    BY <1>1, WrittenOrdered, ThroughNumbers
  <2> HIDE DEF u
  <2>5. Through(w, Written(u)) = a + 0
    BY <2>1, <2>2, <2>3, <2>4
  <2> QED BY <1>1, <2>5 DEF u
<1> QED BY <1>3, <1>4

LEMMA InRead ==
  ASSUME Null \notin Seq(Nat), NEW r, NEW g, NEW t, NEW n \in Nat, InSound(r, g, t)
  PROVE  LET z == (IF r = Null THEN <<>> ELSE r) \o Numbers(g, n)
         IN  z \in Seq(Nat) /\ z # Null /\ InSound(z, g + n, t)
<1> DEFINE z == (IF r = Null THEN <<>> ELSE r) \o Numbers(g, n)
<1>1. /\ g \in Nat /\ t \in Nat /\ t <= g
      /\ (IF r = Null THEN <<>> ELSE r) = Numbers(t, g - t)
  BY DEF InSound
<1>2. g - t \in Nat /\ t + (g - t) = g /\ (g - t) + n = (g + n) - t
  BY <1>1
<1>3. z = Numbers(t, (g + n) - t)
  <2>1. Numbers(t, g - t) \o Numbers(t + (g - t), n) = Numbers(t, (g - t) + n)
    BY <1>1, <1>2, NumbersConcat
  <2>2. z = Numbers(t, g - t) \o Numbers(g, n)
    BY <1>1
  <2> QED BY <1>2, <2>1, <2>2
<1>4. z \in Seq(Nat)
  <2>1. (g + n) - t \in Nat
    BY <1>1
  <2> QED BY <1>1, <1>3, <2>1, NumbersTyped
<1> HIDE DEF z
<1>5. z # Null /\ g + n \in Nat /\ t <= g + n
  BY <1>1, <1>4
<1>6. InSound(z, g + n, t)
  BY <1>1, <1>3, <1>5 DEF InSound
<1> QED BY <1>4, <1>5, <1>6 DEF z

LEMMA InLine ==
  ASSUME Null \notin Seq(Nat), NEW r \in Seq(Nat), NEW g, NEW t, NEW n \in 1 .. Len(r),
         InSound(r, g, t)
  PROVE  LET rest == SubSeq(r, n + 1, Len(r))
             v    == Through(t, SubSeq(r, 1, n))
         IN  rest \in Seq(Nat) /\ v \in Nat /\ InSound(rest, g, v)
<1> DEFINE rest == SubSeq(r, n + 1, Len(r))
           v    == Through(t, SubSeq(r, 1, n))
           N    == g - t
<1>1. /\ g \in Nat /\ t \in Nat /\ t <= g /\ r = Numbers(t, N)
  BY DEF InSound
<1>2. N \in Nat /\ Len(r) = N
  <2>1. N \in Nat
    BY <1>1
  <2>2. Len(Numbers(t, N)) = N
    BY <1>1, <2>1, NumbersTyped
  <2> QED BY <1>1, <2>1, <2>2
<1>3. n \in 0 .. N /\ n \in Nat /\ t + n \in Nat /\ N - n \in Nat /\ t + n <= g /\ g - (t + n) = N - n
  BY <1>1, <1>2
<1>4. SubSeq(r, 1, n) = Numbers(t, n) /\ rest = Numbers(t + n, N - n)
  <2>1. /\ SubSeq(Numbers(t, N), 1, n) = Numbers(t, n)
        /\ SubSeq(Numbers(t, N), n + 1, N) = Numbers(t + n, N - n)
    BY <1>1, <1>2, <1>3, NumbersSub
  <2> QED BY <1>1, <1>2, <2>1
<1>5. v = t + n
  BY <1>1, <1>3, <1>4, ThroughNumbers
<1>6. rest \in Seq(Nat)
  BY <1>3, <1>4, NumbersTyped
<1> HIDE DEF rest, v
<1>7. rest # Null
  BY <1>6
<1>8. InSound(rest, g, v)
  BY <1>1, <1>3, <1>4, <1>5, <1>7 DEF InSound
<1> QED BY <1>3, <1>5, <1>6, <1>8 DEF rest, v

-----------------------------------------------------------------------------
(* What the steps do with the buffers.                                     *)

LEMMA NullIsNoBuffer ==
  ASSUME SocketsAssumption
  PROVE  Null \notin Seq(Nat)
BY DEF SocketsAssumption

LEMMA OneOutput ==
  ASSUME OutputSound, NEW s \in Slots,
         w_buf' \in {w_buf, [w_buf EXCEPT ![s] = w_buf'[s]]},
         w_off' \in {w_off, [w_off EXCEPT ![s] = w_off'[s]]},
         w_len' \in {w_len, [w_len EXCEPT ![s] = w_len'[s]]},
         accepted' \in {accepted, [accepted EXCEPT ![s] = accepted'[s]]},
         wire' \in {wire, [wire EXCEPT ![s] = wire'[s]]},
         OutSound(w_buf'[s], w_off'[s], w_len'[s], accepted'[s], wire'[s])
  PROVE  OutputSound'
<1>1. /\ w_buf'[s] \in Seq(Nat) \cup {Null} /\ w_off'[s] \in {-1} \cup Nat
      /\ w_len'[s] \in Nat /\ accepted'[s] \in Nat /\ wire'[s] \in Nat
  BY DEF OutSound
<1>2. w_buf' \in [Slots -> Seq(Nat) \cup {Null}]
  BY <1>1 DEF OutputSound
<1>3. w_off' \in [Slots -> {-1} \cup Nat]
  BY <1>1 DEF OutputSound
<1>4. w_len' \in [Slots -> Nat] /\ accepted' \in [Slots -> Nat] /\ wire' \in [Slots -> Nat]
  BY <1>1 DEF OutputSound
<1>5. \A q \in Slots : OutSound(w_buf'[q], w_off'[q], w_len'[q], accepted'[q], wire'[q])
  <2> TAKE q \in Slots
  <2>1. CASE q = s
    BY <2>1
  <2>2. CASE q # s
    <3>1. /\ w_buf'[q] = w_buf[q] /\ w_off'[q] = w_off[q] /\ w_len'[q] = w_len[q]
          /\ accepted'[q] = accepted[q] /\ wire'[q] = wire[q]
      BY <2>2 DEF OutputSound
    <3>2. OutSound(w_buf[q], w_off[q], w_len[q], accepted[q], wire[q])
      BY DEF OutputSound
    <3> QED BY <3>1, <3>2
  <2> QED BY <2>1, <2>2
<1> QED BY <1>2, <1>3, <1>4, <1>5 DEF OutputSound, Slots

LEMMA OneInput ==
  ASSUME InputSound, NEW s \in Slots,
         r_buf' \in {r_buf, [r_buf EXCEPT ![s] = r_buf'[s]]},
         got' \in {got, [got EXCEPT ![s] = got'[s]]},
         told' \in {told, [told EXCEPT ![s] = told'[s]]},
         r_buf'[s] \in Seq(Nat) \cup {Null}, InSound(r_buf'[s], got'[s], told'[s])
  PROVE  InputSound'
<1>1. got'[s] \in Nat /\ told'[s] \in Nat
  BY DEF InSound
<1>2. r_buf' \in [Slots -> Seq(Nat) \cup {Null}]
  BY DEF InputSound
<1>3. got' \in [Slots -> Nat] /\ told' \in [Slots -> Nat]
  BY <1>1 DEF InputSound
<1>4. \A q \in Slots : InSound(r_buf'[q], got'[q], told'[q])
  <2> TAKE q \in Slots
  <2>1. CASE q = s
    BY <2>1
  <2>2. CASE q # s
    <3>1. r_buf'[q] = r_buf[q] /\ got'[q] = got[q] /\ told'[q] = told[q]
      BY <2>2 DEF InputSound
    <3>2. InSound(r_buf[q], got[q], told[q])
      BY DEF InputSound
    <3> QED BY <3>1, <3>2
  <2> QED BY <2>1, <2>2
<1> QED BY <1>2, <1>3, <1>4 DEF InputSound, Slots

\* Steps that leave the buffers alone, close nothing and keep the flag of lines.
LEMMA BuffersStay ==
  ASSUME BufSound, UNCHANGED <<output, input>>,
         \A s \in Slots : state'[s] # "CLOSED" \/ state'[s] = state[s],
         \A s \in Slots : "MORE_LINES" \in flags[s] => "MORE_LINES" \in flags'[s]
  PROVE  BufSound'
<1>1. UNCHANGED <<w_buf, w_off, w_len, accepted, wire, r_buf, got, told>>
  BY DEF output, input
<1>2. OutputSound'
  BY <1>1 DEF BufSound, OutputSound, Slots
<1>3. InputSound'
  BY <1>1 DEF BufSound, InputSound, Slots
<1>4. ClosedEmpty'
  BY <1>1 DEF BufSound, ClosedEmpty, Open, Slots
<1>5. LinesFlagged'
  BY <1>1 DEF BufSound, LinesFlagged, Is, Slots
<1> QED BY <1>2, <1>3, <1>4, <1>5 DEF BufSound

\* Steps on the output of one open socket.
LEMMA OutputStep ==
  ASSUME BufSound, OutputSound', UNCHANGED <<state, input>>, NEW t \in Slots, Open(t),
         w_buf' \in {w_buf, [w_buf EXCEPT ![t] = w_buf'[t]]},
         \A s \in Slots : "MORE_LINES" \in flags[s] => "MORE_LINES" \in flags'[s]
  PROVE  BufSound'
<1>1. UNCHANGED <<r_buf, got, told>>
  BY DEF input
<1>2. InputSound'
  BY <1>1 DEF BufSound, InputSound, Slots
<1>3. \A s \in Slots : s # t => w_buf'[s] = w_buf[s]
  BY DEF BufSound, OutputSound
<1>4. ClosedEmpty'
  BY <1>1, <1>3 DEF BufSound, ClosedEmpty, Open, Slots
<1>5. LinesFlagged'
  BY <1>1 DEF BufSound, LinesFlagged, Is, Slots
<1> QED BY <1>2, <1>4, <1>5 DEF BufSound

\* A closed slot loses its buffers and what they are compared with.
LEMMA CloseBuffers ==
  ASSUME BufSound, NEW socks, NEW force, SocketClose(socks, force)
  PROVE  BufSound' /\ UNCHANGED mode
<1> DEFINE open == {s \in socks : Open(s)}
           now  == {s \in open : ~Is(s, "BLOCKED") \/ force = 2}
<1>1. Closing(open, now)
  BY DEF SocketClose
<1> HIDE DEF open, now
<1>2. /\ state' = [s \in Slots |-> IF s \in now THEN "CLOSED" ELSE state[s]]
      /\ flags' = [s \in Slots |-> IF s \in open THEN flags[s] \cup {"CLOSING"} ELSE flags[s]]
      /\ r_buf' = [s \in Slots |-> IF s \in now THEN Null ELSE r_buf[s]]
      /\ w_buf' = [s \in Slots |-> IF s \in now THEN Null ELSE w_buf[s]]
      /\ w_off' = [s \in Slots |-> IF s \in now THEN 0 ELSE w_off[s]]
      /\ w_len' = [s \in Slots |-> IF s \in now THEN 0 ELSE w_len[s]]
      /\ accepted' = [s \in Slots |-> IF s \in now THEN 0 ELSE accepted[s]]
      /\ wire' = [s \in Slots |-> IF s \in now THEN 0 ELSE wire[s]]
      /\ got' = [s \in Slots |-> IF s \in now THEN 0 ELSE got[s]]
      /\ told' = [s \in Slots |-> IF s \in now THEN 0 ELSE told[s]]
      /\ UNCHANGED mode
  BY <1>1 DEF Closing
<1>3. OutputSound'
  <2>1. \A s \in Slots : OutSound(w_buf'[s], w_off'[s], w_len'[s], accepted'[s], wire'[s])
    <3> TAKE s \in Slots
    <3>1. CASE s \in now
      BY <1>2, <3>1, OutEmpty
    <3>2. CASE s \notin now
      <4>1. OutSound(w_buf[s], w_off[s], w_len[s], accepted[s], wire[s])
        BY DEF BufSound, OutputSound
      <4> QED BY <1>2, <3>2, <4>1
    <3> QED BY <3>1, <3>2
  <2>2. w_buf' \in [Slots -> Seq(Nat) \cup {Null}]
    BY <1>2 DEF BufSound, OutputSound
  <2>3. w_off' \in [Slots -> {-1} \cup Nat]
    BY <1>2 DEF BufSound, OutputSound
  <2>4. w_len' \in [Slots -> Nat] /\ accepted' \in [Slots -> Nat] /\ wire' \in [Slots -> Nat]
    BY <1>2 DEF BufSound, OutputSound
  <2> QED BY <2>1, <2>2, <2>3, <2>4 DEF OutputSound, Slots
<1>4. InputSound'
  <2>1. InSound(Null, 0, 0)
    <3>1. Numbers(0, 0) \in Seq(Nat) /\ Len(Numbers(0, 0)) = 0
      BY NumbersTyped
    <3>2. Numbers(0, 0 - 0) = <<>>
      BY <3>1
    <3> QED BY <3>2 DEF InSound
  <2>2. \A s \in Slots : InSound(r_buf'[s], got'[s], told'[s])
    <3> TAKE s \in Slots
    <3>1. CASE s \in now
      BY <1>2, <2>1, <3>1
    <3>2. CASE s \notin now
      <4>1. InSound(r_buf[s], got[s], told[s])
        BY DEF BufSound, InputSound
      <4> QED BY <1>2, <3>2, <4>1
    <3> QED BY <3>1, <3>2
  <2>3. r_buf' \in [Slots -> Seq(Nat) \cup {Null}]
    BY <1>2 DEF BufSound, InputSound
  <2>4. got' \in [Slots -> Nat] /\ told' \in [Slots -> Nat]
    BY <1>2 DEF BufSound, InputSound
  <2> QED BY <2>2, <2>3, <2>4 DEF InputSound, Slots
<1>5. ClosedEmpty'
  BY <1>2 DEF BufSound, ClosedEmpty, Open, Slots
<1>6. LinesFlagged'
  BY <1>2 DEF BufSound, LinesFlagged, Is, Slots
<1> QED BY <1>2, <1>3, <1>4, <1>5, <1>6 DEF BufSound

LEMMA OccupyBuffers ==
  ASSUME BufSound, NEW t \in Slots, ~Open(t), NEW o, NEW m, NEW st, Occupy(t, st, o, m),
         st # "CLOSED", DOMAIN state = Slots,
         \A s \in Slots \ {t} : "MORE_LINES" \in flags[s] => "MORE_LINES" \in flags'[s]
  PROVE  BufSound'
<1>1. /\ state' = [state EXCEPT ![t] = st]
      /\ r_buf' = [r_buf EXCEPT ![t] = Null] /\ w_buf' = [w_buf EXCEPT ![t] = Null]
      /\ w_off' = [w_off EXCEPT ![t] = 0] /\ w_len' = [w_len EXCEPT ![t] = 0]
      /\ UNCHANGED <<accepted, wire, got, told>>
  BY DEF Occupy
<1>2. w_buf[t] = Null /\ r_buf[t] = Null
  BY DEF BufSound, ClosedEmpty
<1>3. w_buf'[t] = Null /\ r_buf'[t] = Null /\ w_off'[t] = 0 /\ w_len'[t] = 0
  BY <1>1 DEF BufSound, OutputSound, InputSound
<1>4. OutputSound'
  <2>1. OutSound(Null, w_off[t], w_len[t], accepted[t], wire[t])
    BY <1>2 DEF BufSound, OutputSound
  <2>2. wire[t] = accepted[t] /\ accepted[t] \in Nat
    BY <2>1, OutIdle
  <2>3. OutSound(Null, 0, 0, accepted[t], accepted[t])
    BY <2>2, OutEmpty
  <2>4. OutSound(w_buf'[t], w_off'[t], w_len'[t], accepted'[t], wire'[t])
    BY <1>1, <1>3, <2>2, <2>3
  <2> QED BY <1>1, <1>3, <2>4, OneOutput DEF BufSound
<1>5. InputSound'
  <2>1. InSound(r_buf[t], got[t], told[t])
    BY DEF BufSound, InputSound
  <2>2. InSound(r_buf'[t], got'[t], told'[t])
    BY <1>1, <1>2, <1>3, <2>1
  <2> QED BY <1>1, <1>3, <2>2, OneInput DEF BufSound
<1>6. \A s \in Slots : s # t => state'[s] = state[s] /\ w_buf'[s] = w_buf[s] /\ r_buf'[s] = r_buf[s]
  BY <1>1 DEF BufSound, OutputSound, InputSound
<1>7. ClosedEmpty'
  BY <1>3, <1>6 DEF BufSound, ClosedEmpty, Open, Slots
<1>8. LinesFlagged'
  BY <1>3, <1>6 DEF BufSound, LinesFlagged, Is, Slots
<1> QED BY <1>4, <1>5, <1>7, <1>8 DEF BufSound

\* socket_write while the socket is blocked, and while it is not.
LEMMA WriteBufferedKeeps ==
  ASSUME SocketsAssumption, BufSound, NEW o, NEW s \in Slots, NEW n \in Nat \ {0}, WriteBuffered(o, s, n)
  PROVE  BufSound'
<1>1. /\ Open(s) /\ UNCHANGED <<state, flags, input, wire>>
      /\ accepted' = [accepted EXCEPT ![s] = @ + n]
      /\ w_buf' = [w_buf EXCEPT ![s] = Unsent(s) \o Numbers(accepted[s], n)]
      /\ w_off' = [w_off EXCEPT ![s] = 0] /\ w_len' = [w_len EXCEPT ![s] = @ + n]
  BY DEF WriteBuffered, Accepts, Owns, slots
<1>2. OutSound(w_buf[s], w_off[s], w_len[s], accepted[s], wire[s])
  BY DEF BufSound, OutputSound
<1>3. Unsent(s) = Rest(w_buf[s], w_off[s], w_len[s])
  <2>1. w_off[s] \in Int /\ w_len[s] \in Nat
    BY <1>2 DEF OutSound
  <2>2. \A i \in 1 .. w_len[s] : w_off[s] + i - 1 + 1 = w_off[s] + i
    BY <2>1
  <2> QED BY <2>2 DEF Unsent, Rest, Byte
<1>4. /\ w_buf'[s] = Rest(w_buf[s], w_off[s], w_len[s]) \o Numbers(accepted[s], n)
      /\ w_off'[s] = 0 /\ w_len'[s] = w_len[s] + n /\ accepted'[s] = accepted[s] + n
      /\ wire'[s] = wire[s]
  BY <1>1, <1>3 DEF BufSound, OutputSound
<1>5. OutSound(w_buf'[s], w_off'[s], w_len'[s], accepted'[s], wire'[s])
  BY <1>2, <1>4, OutAppend, NullIsNoBuffer
<1>6. OutputSound'
  BY <1>1, <1>3, <1>4, <1>5, OneOutput DEF BufSound
<1> QED BY <1>1, <1>3, <1>4, <1>6, OutputStep

LEMMA WriteThroughKeeps ==
  ASSUME BufSound, OutputBlocks, NEW o, NEW s \in Slots, NEW n \in Nat \ {0}, WriteThrough(o, s, n)
  PROVE  BufSound'
<1>1. /\ Open(s) /\ UNCHANGED <<state, flags, input, w_buf, w_off, w_len>>
      /\ accepted' = [accepted EXCEPT ![s] = @ + n]
      /\ wire' = [wire EXCEPT ![s] = Through(@, Numbers(accepted[s], n))]
      /\ w_buf[s] = Null
  BY DEF WriteThrough, Accepts, Owns, slots, OutputBlocks, Is
<1>2. OutSound(Null, w_off[s], w_len[s], accepted[s], wire[s])
  BY <1>1 DEF BufSound, OutputSound
<1>3. w_len[s] = 0 /\ wire[s] = accepted[s] /\ accepted[s] \in Nat /\ w_off[s] \in {-1} \cup Nat
  BY <1>2, OutIdle DEF OutSound
<1>4. accepted'[s] = accepted[s] + n /\ wire'[s] = Through(wire[s], Numbers(accepted[s], n))
  BY <1>1 DEF BufSound, OutputSound
<1>5. wire'[s] = accepted[s] + n /\ accepted[s] + n \in Nat
  BY <1>3, <1>4, ThroughNumbers
<1>6. OutSound(Null, w_off[s], 0, accepted[s] + n, accepted[s] + n)
  BY <1>3, <1>5, OutEmpty
<1>7. OutSound(w_buf'[s], w_off'[s], w_len'[s], accepted'[s], wire'[s])
  BY <1>1, <1>3, <1>4, <1>5, <1>6
<1>8. OutputSound'
  BY <1>1, <1>4, <1>7, OneOutput DEF BufSound
<1> QED BY <1>1, <1>8, OutputStep

LEMMA WriteBlocksKeeps ==
  ASSUME SocketsAssumption, BufSound, OutputBlocks, NEW o, NEW s \in Slots, NEW n \in Nat \ {0}, NEW off,
         WriteBlocks(o, s, n, off), flags \in [Slots -> SUBSET {"RELEASE", "BLOCKED", "CONNECTING",
                                                   "WACCEPT", "MORE_LINES", "CLOSING"}]
  PROVE  BufSound'
<1>1. /\ Open(s) /\ UNCHANGED <<state, input>> /\ off \in {-1} \cup 1 .. n - 1
      /\ flags' = [flags EXCEPT ![s] = @ \cup {"BLOCKED"}]
      /\ accepted' = [accepted EXCEPT ![s] = @ + n]
      /\ w_buf' = [w_buf EXCEPT ![s] = Numbers(accepted[s], n)]
      /\ w_off' = [w_off EXCEPT ![s] = off] /\ w_len' = [w_len EXCEPT ![s] = n - off]
      /\ wire' = [wire EXCEPT ![s] = IF off < 0 THEN @ ELSE Through(@, Numbers(accepted[s], off))]
      /\ w_buf[s] = Null
  BY DEF WriteBlocks, Accepts, Owns, slots, OutputBlocks, Is
<1>2. OutSound(Null, w_off[s], w_len[s], accepted[s], wire[s])
  BY <1>1 DEF BufSound, OutputSound
<1>3. wire[s] = accepted[s] /\ accepted[s] \in Nat
  BY <1>2, OutIdle
<1>4. /\ w_buf'[s] = Numbers(accepted[s], n) /\ w_off'[s] = off /\ w_len'[s] = n - off
      /\ accepted'[s] = accepted[s] + n
      /\ wire'[s] = IF off < 0 THEN wire[s] ELSE Through(wire[s], Numbers(accepted[s], off))
  BY <1>1 DEF BufSound, OutputSound
<1>5. OutSound(Numbers(accepted[s], n), off, n - off, accepted[s] + n,
               IF off < 0 THEN accepted[s] ELSE Through(accepted[s], Numbers(accepted[s], off)))
  BY <1>1, <1>3, OutStops, NullIsNoBuffer
<1>6. OutSound(w_buf'[s], w_off'[s], w_len'[s], accepted'[s], wire'[s])
  BY <1>3, <1>4, <1>5
<1>7. OutputSound'
  <2>1. /\ w_buf' = [w_buf EXCEPT ![s] = w_buf'[s]] /\ w_off' = [w_off EXCEPT ![s] = w_off'[s]]
        /\ w_len' = [w_len EXCEPT ![s] = w_len'[s]]
        /\ accepted' = [accepted EXCEPT ![s] = accepted'[s]]
    BY <1>1, <1>4
  <2>2. wire' = [wire EXCEPT ![s] = wire'[s]]
    BY <1>1, <1>4
  <2> QED BY <1>6, <2>1, <2>2, OneOutput DEF BufSound
<1>8. \A q \in Slots : "MORE_LINES" \in flags[q] => "MORE_LINES" \in flags'[q]
  BY <1>1
<1> QED BY <1>1, <1>4, <1>7, <1>8, OutputStep

LEMMA SendSomeKeeps ==
  ASSUME BufSound, NEW n \in Nat \ {0}, SendSome(n), at \in Slots,
         flags \in [Slots -> SUBSET {"RELEASE", "BLOCKED", "CONNECTING", "WACCEPT",
                                     "MORE_LINES", "CLOSING"}]
  PROVE  BufSound'
<1> DEFINE s == at
<1>1. /\ Open(s) /\ UNCHANGED <<state, input, w_buf, accepted>> /\ w_buf[s] # Null /\ n < w_len[s]
      /\ flags' = [flags EXCEPT ![s] = @ \ {"CONNECTING"}]
      /\ wire' = [wire EXCEPT ![s] = Through(@, Written(SubSeq(Unsent(s), 1, n)))]
      /\ w_off' = [w_off EXCEPT ![s] = @ + n] /\ w_len' = [w_len EXCEPT ![s] = @ - n]
      /\ s \in Slots
  BY DEF SendSome, WriteReady, slots
<1> HIDE DEF s
<1>2. OutSound(w_buf[s], w_off[s], w_len[s], accepted[s], wire[s]) /\ w_len[s] \in Nat
  BY <1>1 DEF BufSound, OutputSound
<1>3. Unsent(s) = Rest(w_buf[s], w_off[s], w_len[s])
  <2>1. \A i \in 1 .. w_len[s] : w_off[s] + i - 1 + 1 = w_off[s] + i
    BY <1>2 DEF OutSound
  <2> QED BY <2>1 DEF Unsent, Rest, Byte
<1>4. /\ w_buf'[s] = w_buf[s] /\ w_off'[s] = w_off[s] + n /\ w_len'[s] = w_len[s] - n
      /\ accepted'[s] = accepted[s]
      /\ wire'[s] = Through(wire[s], Written(SubSeq(Rest(w_buf[s], w_off[s], w_len[s]), 1, n)))
  BY <1>1, <1>3 DEF BufSound, OutputSound
<1>5. n \in 1 .. w_len[s] /\ n < w_len[s]
  BY <1>1, <1>2
<1>6. OutSound(w_buf[s], w_off[s] + n, w_len[s] - n, accepted[s],
               Through(wire[s], Written(SubSeq(Rest(w_buf[s], w_off[s], w_len[s]), 1, n))))
  BY <1>1, <1>2, <1>5, OutSend
<1>7. OutSound(w_buf'[s], w_off'[s], w_len'[s], accepted'[s], wire'[s])
  BY <1>4, <1>6
<1>8. OutputSound'
  <2>1. /\ w_off' = [w_off EXCEPT ![s] = w_off'[s]] /\ w_len' = [w_len EXCEPT ![s] = w_len'[s]]
        /\ wire' = [wire EXCEPT ![s] = wire'[s]]
    BY <1>1, <1>3, <1>4
  <2> QED BY <1>1, <1>7, <2>1, OneOutput DEF BufSound
<1>9. \A q \in Slots : "MORE_LINES" \in flags[q] => "MORE_LINES" \in flags'[q]
  BY <1>1
<1> QED BY <1>1, <1>8, <1>9, OutputStep

LEMMA SendRestKeeps ==
  ASSUME BufSound, SendRest, at \in Slots
  PROVE  BufSound'
<1> DEFINE s == at
<1>1. /\ Open(s) /\ UNCHANGED <<state, flags, input, accepted>>
      /\ wire' = [wire EXCEPT ![s] = Through(@, Written(Unsent(s)))]
      /\ w_buf' = [w_buf EXCEPT ![s] = Null]
      /\ w_off' = [w_off EXCEPT ![s] = 0] /\ w_len' = [w_len EXCEPT ![s] = 0]
      /\ s \in Slots
  BY DEF SendRest, WriteReady, slots
<1> HIDE DEF s
<1>2. OutSound(w_buf[s], w_off[s], w_len[s], accepted[s], wire[s])
  BY <1>1 DEF BufSound, OutputSound
<1>3. Unsent(s) = Rest(w_buf[s], w_off[s], w_len[s])
  <2>1. \A i \in 1 .. w_len[s] : w_off[s] + i - 1 + 1 = w_off[s] + i
    BY <1>2 DEF OutSound
  <2> QED BY <2>1 DEF Unsent, Rest, Byte
<1>4. /\ w_buf'[s] = Null /\ w_off'[s] = 0 /\ w_len'[s] = 0 /\ accepted'[s] = accepted[s]
      /\ wire'[s] = Through(wire[s], Written(Rest(w_buf[s], w_off[s], w_len[s])))
  BY <1>1, <1>3 DEF BufSound, OutputSound
<1>5. wire'[s] = accepted[s] /\ accepted[s] \in Nat
  BY <1>2, <1>4, OutFlush DEF OutSound
<1>6. OutSound(w_buf'[s], w_off'[s], w_len'[s], accepted'[s], wire'[s])
  BY <1>4, <1>5, OutEmpty
<1>7. OutputSound'
  <2>1. /\ w_buf' = [w_buf EXCEPT ![s] = w_buf'[s]] /\ w_off' = [w_off EXCEPT ![s] = w_off'[s]]
        /\ w_len' = [w_len EXCEPT ![s] = w_len'[s]] /\ wire' = [wire EXCEPT ![s] = wire'[s]]
    BY <1>1, <1>3, <1>4
  <2> QED BY <1>1, <1>6, <2>1, OneOutput DEF BufSound
<1> QED BY <1>1, <1>4, <1>7, OutputStep

\* Steps on the input of one open socket that leave it flagged or its input read.
LEMMA InputStep ==
  ASSUME BufSound, InputSound', UNCHANGED <<state, output>>, NEW t \in Slots,
         Open(t) \/ r_buf'[t] = Null,
         r_buf' \in {r_buf, [r_buf EXCEPT ![t] = r_buf'[t]]},
         \A s \in Slots : s # t /\ "MORE_LINES" \in flags[s] => "MORE_LINES" \in flags'[s],
         "MORE_LINES" \in flags'[t] \/ r_buf'[t] = Null
  PROVE  BufSound'
<1>1. UNCHANGED <<w_buf, w_off, w_len, accepted, wire>>
  BY DEF output
<1>2. OutputSound'
  BY <1>1 DEF BufSound, OutputSound, Slots
<1>3. \A s \in Slots : s # t => r_buf'[s] = r_buf[s]
  BY DEF BufSound, InputSound
<1>4. ClosedEmpty'
  BY <1>1, <1>3 DEF BufSound, ClosedEmpty, Open, Slots
<1>5. LinesFlagged'
  BY <1>3 DEF BufSound, LinesFlagged, Is, Slots
<1> QED BY <1>2, <1>4, <1>5 DEF BufSound

LEMMA ReadBufferedKeeps ==
  ASSUME SocketsAssumption, BufSound, NEW n \in Nat \ {0}, ReadBuffered(n), at \in Slots,
         flags \in [Slots -> SUBSET {"RELEASE", "BLOCKED", "CONNECTING", "WACCEPT",
                                     "MORE_LINES", "CLOSING"}]
  PROVE  BufSound'
<1> DEFINE s == at
<1>1. /\ Open(s) /\ UNCHANGED <<state, output, told>> /\ s \in Slots
      /\ got' = [got EXCEPT ![s] = @ + n]
      /\ r_buf' = [r_buf EXCEPT ![s] = Unread(s) \o Numbers(got[s], n)]
      /\ flags' = [flags EXCEPT ![s] = @ \cup {"MORE_LINES"}]
  BY DEF ReadBuffered, ReadReady, slots
<1> HIDE DEF s
<1>2. InSound(r_buf[s], got[s], told[s])
  BY <1>1 DEF BufSound, InputSound
<1>3. /\ r_buf'[s] = (IF r_buf[s] = Null THEN <<>> ELSE r_buf[s]) \o Numbers(got[s], n)
      /\ got'[s] = got[s] + n /\ told'[s] = told[s]
  BY <1>1 DEF BufSound, InputSound, Unread
<1>4. r_buf'[s] \in Seq(Nat) /\ InSound(r_buf'[s], got'[s], told'[s])
  BY <1>2, <1>3, InRead, NullIsNoBuffer
<1>5. r_buf' = [r_buf EXCEPT ![s] = r_buf'[s]] /\ got' = [got EXCEPT ![s] = got'[s]]
  <2>1. r_buf'[s] = Unread(s) \o Numbers(got[s], n)
    BY <1>3 DEF Unread
  <2> QED BY <1>1, <1>3, <2>1
<1>6. InputSound'
  BY <1>1, <1>4, <1>5, OneInput DEF BufSound
<1>7. /\ "MORE_LINES" \in flags'[s]
      /\ \A q \in Slots : "MORE_LINES" \in flags[q] => "MORE_LINES" \in flags'[q]
  BY <1>1
<1> QED BY <1>1, <1>5, <1>6, <1>7, InputStep

LEMMA LineKeeps ==
  ASSUME SocketsAssumption, BufSound, NEW n, Line(n), at \in Slots
  PROVE  BufSound'
<1> DEFINE s == at
<1>1. /\ UNCHANGED <<state, output, flags, got>> /\ s \in Slots /\ Is(s, "MORE_LINES")
      /\ r_buf[s] # Null /\ n \in 1 .. Len(r_buf[s])
      /\ told' = [told EXCEPT ![s] = Through(@, SubSeq(r_buf[s], 1, n))]
      /\ r_buf' = [r_buf EXCEPT ![s] = SubSeq(@, n + 1, Len(@))]
  BY DEF Line, HasLines, slots
<1> HIDE DEF s
<1>2. InSound(r_buf[s], got[s], told[s]) /\ r_buf[s] \in Seq(Nat) /\ Open(s)
  BY <1>1 DEF BufSound, InputSound, ClosedEmpty
<1>3. /\ r_buf'[s] = SubSeq(r_buf[s], n + 1, Len(r_buf[s])) /\ got'[s] = got[s]
      /\ told'[s] = Through(told[s], SubSeq(r_buf[s], 1, n))
  BY <1>1 DEF BufSound, InputSound
<1>4. r_buf'[s] \in Seq(Nat) /\ InSound(r_buf'[s], got'[s], told'[s])
  <2> DEFINE r == r_buf[s]
             g == got[s]
             d == told[s]
  <2>1. r \in Seq(Nat) /\ n \in 1 .. Len(r) /\ InSound(r, g, d) /\ Null \notin Seq(Nat)
    BY <1>1, <1>2, NullIsNoBuffer
  <2> HIDE DEF r, g, d
  <2>2. /\ SubSeq(r, n + 1, Len(r)) \in Seq(Nat)
        /\ InSound(SubSeq(r, n + 1, Len(r)), g, Through(d, SubSeq(r, 1, n)))
    BY <2>1, InLine
  <2> QED BY <1>3, <2>2 DEF r, g, d
<1>5. r_buf' = [r_buf EXCEPT ![s] = r_buf'[s]] /\ told' = [told EXCEPT ![s] = told'[s]]
  BY <1>1, <1>3
<1>6. InputSound'
  BY <1>1, <1>4, <1>5, OneInput DEF BufSound
<1> QED BY <1>1, <1>2, <1>5, <1>6, InputStep DEF Is

LEMMA LineEndKeeps ==
  ASSUME BufSound, LineEnd, at \in Slots,
         flags \in [Slots -> SUBSET {"RELEASE", "BLOCKED", "CONNECTING", "WACCEPT",
                                     "MORE_LINES", "CLOSING"}]
  PROVE  BufSound'
<1> DEFINE s == at
<1>1. UNCHANGED <<state, output, got, told>> /\ s \in Slots
  BY DEF LineEnd, slots
<1>2. CASE Open(s) /\ ~Is(s, "CLOSING") /\ Unread(s) = <<>>
  <2>1. /\ flags' = [flags EXCEPT ![s] = @ \ {"MORE_LINES"}] /\ r_buf' = [r_buf EXCEPT ![s] = Null]
    BY <1>2 DEF LineEnd
  <2> HIDE DEF s
  <2>2. InSound(r_buf[s], got[s], told[s])
    BY <1>1 DEF BufSound, InputSound
  <2>3. InSound(Null, got[s], told[s])
    BY <1>2, <2>2 DEF InSound, Unread
  <2>4. r_buf'[s] = Null /\ got'[s] = got[s] /\ told'[s] = told[s]
    BY <1>1, <2>1 DEF BufSound, InputSound
  <2>5. InputSound'
    BY <1>1, <2>1, <2>3, <2>4, OneInput DEF BufSound
  <2>6. \A q \in Slots : q # s /\ "MORE_LINES" \in flags[q] => "MORE_LINES" \in flags'[q]
    BY <2>1
  <2> QED BY <1>1, <2>1, <2>4, <2>5, <2>6, InputStep
<1>3. CASE ~(Open(s) /\ ~Is(s, "CLOSING") /\ Unread(s) = <<>>)
  <2>1. UNCHANGED <<flags, r_buf>>
    BY <1>3 DEF LineEnd
  <2> QED BY <1>1, <2>1, BuffersStay DEF input
<1> QED BY <1>2, <1>3

LEMMA ConstantsTyped ==
  ASSUME SocketsAssumption, NEW s \in Slots
  PROVE  /\ Modes[s] \in SUBSET SUBSET {"BUFFERED_OUTPUT", "BUFFERED_INPUT"}
         /\ MaxOut[s] \in Nat /\ MaxIn[s] \in Nat
BY DEF SocketsAssumption, Slots

\* The loops do not move while LPC code runs.
LEMMA EfunKeepsLoop ==
  ASSUME SocketsAssumption, LoopSound, Efun
  PROVE  LoopSound'
<1>1. PICK o \in Objects :
        \/ Destruct(o)
        \/ \E s \in Slots :
             \/ \E m \in Modes[s] : SocketCreate(o, s, m)
             \/ SocketBind(o, s) \/ SocketListen(o, s)
             \/ AcceptFails(o, s) \/ SocketAccept(o, s) \/ SocketConnect(o, s)
             \/ \E n \in 1 .. MaxOut[s] :
                  \/ WriteBuffered(o, s, n) \/ WriteThrough(o, s, n)
                  \/ \E off \in -1 .. n : WriteBlocks(o, s, n, off)
             \/ CloseSocket(o, s) \/ SocketAcquire(o, s)
             \/ \E to \in Objects : SocketRelease(o, s, to)
  BY DEF Efun
<1>2. CASE Destruct(o)
  <2>1. life' = [life EXCEPT ![o] = "destructed"] /\ UNCHANGED <<mode, flagged, pc, ctx, loop>>
    BY <1>2 DEF Destruct, SocketClose, Closing
  <2> QED BY <2>1 DEF LoopSound, ModesTyped, loop, Slots
<1>3. ASSUME NEW s \in Slots, NEW m \in Modes[s], SocketCreate(o, s, m)
      PROVE  LoopSound'
  <2>1. /\ mode' = [mode EXCEPT ![s] = m] /\ flagged' = flagged \cup {o}
        /\ UNCHANGED <<life, pc, ctx, loop>>
    BY <1>3 DEF SocketCreate, Occupy, Flag
  <2>2. m \in SUBSET {"BUFFERED_OUTPUT", "BUFFERED_INPUT"}
    BY ConstantsTyped
  <2> QED BY <2>1, <2>2 DEF LoopSound, ModesTyped, loop, Slots
<1>4. ASSUME NEW s \in Slots, SocketAccept(o, s)
      PROVE  LoopSound'
  <2>1. PICK t \in Slots : mode' = [mode EXCEPT ![t] = mode[s]] /\ flagged' = flagged \cup {o}
    BY <1>4 DEF SocketAccept, Occupy, Flag
  <2>2. UNCHANGED <<life, pc, ctx, loop>>
    BY <1>4 DEF SocketAccept
  <2> QED BY <2>1, <2>2 DEF LoopSound, ModesTyped, loop, Slots
<1>5. ASSUME NEW s \in Slots, SocketListen(o, s) \/ SocketConnect(o, s)
      PROVE  LoopSound'
  <2>1. flagged' = flagged \cup {o} /\ UNCHANGED <<mode, life, pc, ctx, loop>>
    BY <1>5 DEF SocketListen, SocketConnect, Flag
  <2> QED BY <2>1 DEF LoopSound, ModesTyped, loop, Slots
<1>6. ASSUME NEW s \in Slots, SocketBind(o, s) \/ AcceptFails(o, s) \/ SocketAcquire(o, s)
                             \/ CloseSocket(o, s) \/ \E to \in Objects : SocketRelease(o, s, to)
      PROVE  LoopSound'
  <2>1. UNCHANGED <<mode, life, flagged, pc, ctx, loop>>
    BY <1>6 DEF SocketBind, AcceptFails, SocketAcquire, CloseSocket, SocketClose, Closing,
         SocketRelease, objs, slots
  <2> QED BY <2>1 DEF LoopSound, ModesTyped, loop, Slots
<1>7. ASSUME NEW s \in Slots, NEW n,
             \/ WriteBuffered(o, s, n) \/ WriteThrough(o, s, n)
             \/ \E off \in -1 .. n : WriteBlocks(o, s, n, off)
      PROVE  LoopSound'
  <2>1. UNCHANGED <<mode, life, flagged, pc, ctx, loop>>
    BY <1>7 DEF WriteBuffered, WriteThrough, WriteBlocks, Accepts, objs, slots
  <2> QED BY <2>1 DEF LoopSound, ModesTyped, loop, Slots
<1> QED BY <1>1, <1>2, <1>3, <1>4, <1>5, <1>6, <1>7

LEMMA EfunKeepsBuffers ==
  ASSUME SocketsAssumption, SockInv, BufSound, Efun
  PROVE  BufSound'
<1>1. PICK o \in Objects :
        \/ Destruct(o)
        \/ \E s \in Slots :
             \/ \E m \in Modes[s] : SocketCreate(o, s, m)
             \/ SocketBind(o, s) \/ SocketListen(o, s)
             \/ AcceptFails(o, s) \/ SocketAccept(o, s) \/ SocketConnect(o, s)
             \/ \E n \in 1 .. MaxOut[s] :
                  \/ WriteBuffered(o, s, n) \/ WriteThrough(o, s, n)
                  \/ \E off \in -1 .. n : WriteBlocks(o, s, n, off)
             \/ CloseSocket(o, s) \/ SocketAcquire(o, s)
             \/ \E to \in Objects : SocketRelease(o, s, to)
  BY DEF Efun
<1>2. DOMAIN state = Slots /\ OutputBlocks
      /\ flags \in [Slots -> SUBSET {"RELEASE", "BLOCKED", "CONNECTING", "WACCEPT",
                                     "MORE_LINES", "CLOSING"}]
  BY DEF SockInv, SlotTypes
<1>3. CASE Destruct(o)
  <2> DEFINE socks == IF o \in flagged THEN {s \in Slots : owner_ob[s] = o} ELSE {}
  <2>1. SocketClose(socks, 1)
    BY <1>3 DEF Destruct
  <2> HIDE DEF socks
  <2> QED BY <2>1, CloseBuffers
<1>4. ASSUME NEW s \in Slots, NEW m \in Modes[s], SocketCreate(o, s, m)
      PROVE  BufSound'
  <2>1. ~Open(s) /\ Occupy(s, "UNBOUND", o, m) /\ flags' = [flags EXCEPT ![s] = {}]
    BY <1>4 DEF SocketCreate, FirstClosed
  <2>2. \A q \in Slots \ {s} : flags'[q] = flags[q]
    BY <1>2, <2>1
  <2> QED BY <1>2, <2>1, <2>2, OccupyBuffers
<1>5. ASSUME NEW s \in Slots, SocketAccept(o, s)
      PROVE  BufSound'
  <2>1. PICK t \in Slots :
          /\ ~Open(t) /\ Occupy(t, "DATA_XFER", o, mode[s])
          /\ flags' = [flags EXCEPT ![s] = @ \ {"WACCEPT"}, ![t] = {}]
    BY <1>5 DEF SocketAccept, FirstClosed
  <2>2. \A q \in Slots \ {t} : "MORE_LINES" \in flags[q] => "MORE_LINES" \in flags'[q]
    BY <1>2, <2>1
  <2> QED BY <1>2, <2>1, <2>2, OccupyBuffers
<1>6. ASSUME NEW s \in Slots, SocketBind(o, s) \/ SocketListen(o, s) \/ SocketConnect(o, s)
      PROVE  BufSound'
  <2>1. /\ \E st \in {"BOUND", "LISTEN", "DATA_XFER"} : state' = [state EXCEPT ![s] = st]
        /\ \/ flags' = flags
           \/ flags' = [flags EXCEPT ![s] = flags[s] \cup {"BLOCKED", "CONNECTING"}]
        /\ UNCHANGED <<output, input>>
    BY <1>6 DEF SocketBind, SocketListen, SocketConnect
  <2>2. \A q \in Slots : state'[q] # "CLOSED" \/ state'[q] = state[q]
    BY <1>2, <2>1
  <2>3. \A q \in Slots : flags[q] \subseteq flags'[q]
    <3>1. CASE flags' = [flags EXCEPT ![s] = flags[s] \cup {"BLOCKED", "CONNECTING"}]
      BY <1>2, <3>1
    <3> QED BY <2>1, <3>1
  <2> QED BY <2>1, <2>2, <2>3, BuffersStay
<1>7. ASSUME NEW s \in Slots,
             AcceptFails(o, s) \/ SocketAcquire(o, s) \/ \E to \in Objects : SocketRelease(o, s, to)
      PROVE  BufSound'
  <2>1. /\ UNCHANGED <<state, output, input>>
        /\ \/ flags' = [flags EXCEPT ![s] = @ \ {"WACCEPT"}]
           \/ flags' = [flags EXCEPT ![s] = @ \ {"RELEASE"}]
           \/ flags' = [flags EXCEPT ![s] = @ \cup {"RELEASE"}]
    BY <1>7 DEF AcceptFails, SocketAcquire, SocketRelease, slots
  <2>2. \A q \in Slots : "MORE_LINES" \in flags[q] => "MORE_LINES" \in flags'[q]
    <3>1. CASE flags' = [flags EXCEPT ![s] = @ \ {"WACCEPT"}]
      BY <1>2, <3>1
    <3>2. CASE flags' = [flags EXCEPT ![s] = @ \ {"RELEASE"}]
      BY <1>2, <3>2
    <3>3. CASE flags' = [flags EXCEPT ![s] = @ \cup {"RELEASE"}]
      BY <1>2, <3>3
    <3> QED BY <2>1, <3>1, <3>2, <3>3
  <2> QED BY <2>1, <2>2, BuffersStay
<1>8. ASSUME NEW s \in Slots, CloseSocket(o, s)
      PROVE  BufSound'
  <2>1. SocketClose({s}, 0)
    BY <1>8 DEF CloseSocket
  <2> QED BY <2>1, CloseBuffers
<1>9. ASSUME NEW s \in Slots, NEW n \in 1 .. MaxOut[s],
             \/ WriteBuffered(o, s, n) \/ WriteThrough(o, s, n)
             \/ \E off \in -1 .. n : WriteBlocks(o, s, n, off)
      PROVE  BufSound'
  <2>1. n \in Nat \ {0}
    BY ConstantsTyped
  <2> QED BY <1>2, <1>9, <2>1, WriteBufferedKeeps, WriteThroughKeeps, WriteBlocksKeeps
<1> QED BY <1>1, <1>3, <1>4, <1>5, <1>6, <1>7, <1>8, <1>9

\* Of the handlers these touch no buffer, and no flag that matters to one.
LEMMA IdleHandlerKeeps ==
  ASSUME SockInv, BufSound, UNCHANGED <<slots, output, input>>, at \in Slots \/ UNCHANGED flags,
         \/ UNCHANGED flags
         \/ flags' = [flags EXCEPT ![at] = @ \cup {"WACCEPT"}]
         \/ flags' = [flags EXCEPT ![at] = @ \ {"BLOCKED", "CONNECTING"}]
  PROVE  BufSound'
<1>1. UNCHANGED state
  BY DEF slots
<1>2. flags \in [Slots -> SUBSET {"RELEASE", "BLOCKED", "CONNECTING", "WACCEPT",
                                  "MORE_LINES", "CLOSING"}]
  BY DEF SockInv, SlotTypes
<1>3. \A s \in Slots : "MORE_LINES" \in flags[s] => "MORE_LINES" \in flags'[s]
  <2>1. CASE UNCHANGED flags
    BY <2>1
  <2>2. CASE flags' = [flags EXCEPT ![at] = @ \cup {"WACCEPT"}]
    BY <1>2, <2>2
  <2>3. CASE flags' = [flags EXCEPT ![at] = @ \ {"BLOCKED", "CONNECTING"}]
    BY <1>2, <2>3
  <2> QED BY <2>1, <2>2, <2>3
<1> QED BY <1>1, <1>3, BuffersStay

LEMMA HandlerKeepsBuffers ==
  ASSUME SocketsAssumption, SockInv, BufInv, Handler
  PROVE  BufSound'
<1>1. /\ flags \in [Slots -> SUBSET {"RELEASE", "BLOCKED", "CONNECTING", "WACCEPT",
                                     "MORE_LINES", "CLOSING"}]
      /\ BufSound /\ (pc \in {"write", "sent"} => at \in Slots)
      /\ at \in 0 .. NumSocks /\ NumSocks \in Nat \ {0}
  BY DEF SockInv, SlotTypes, BufInv, LoopSound, SocketsAssumption
<1>2. at < NumSocks => at \in Slots
  BY <1>1 DEF Slots
<1>3. CASE NoRead \/ ReadData \/ ReadEnds \/ NoWrite \/ SendFails \/ IoDone \/ NoLines \/ LinesAgain
  BY <1>1, <1>3, IdleHandlerKeeps
     DEF NoRead, ReadData, ReadEnds, NoWrite, SendFails, IoDone, NoLines, LinesAgain
<1>4. CASE ReadListen
  BY <1>1, <1>2, <1>4, IdleHandlerKeeps DEF ReadListen, ReadReady
<1>5. CASE Unblock
  BY <1>1, <1>5, IdleHandlerKeeps DEF Unblock
<1>6. CASE at \in Slots /\ \E n \in 1 .. MaxIn[at] : ReadBuffered(n) \/ Line(n)
  <2>1. PICK n \in 1 .. MaxIn[at] : ReadBuffered(n) \/ Line(n)
    BY <1>6
  <2>2. n \in Nat \ {0}
    OBVIOUS
  <2> QED BY <1>1, <1>6, <2>1, <2>2, ReadBufferedKeeps, LineKeeps
<1>7. CASE at \in Slots /\ \E n \in 1 .. MaxOut[at] : SendSome(n)
  <2>1. PICK n \in 1 .. MaxOut[at] : SendSome(n)
    BY <1>7
  <2>2. n \in Nat \ {0}
    OBVIOUS
  <2> QED BY <1>1, <1>7, <2>1, <2>2, SendSomeKeeps
<1>8. CASE SendRest
  BY <1>1, <1>8, SendRestKeeps DEF SendRest, WriteReady
<1>9. CASE CloseSent
  BY <1>1, <1>9, CloseBuffers DEF CloseSent
<1>10. CASE NoBuffer
  <2>1. /\ UNCHANGED <<state, output, input, r_buf>> /\ at \in Slots /\ r_buf[at] = Null
        /\ flags' = [flags EXCEPT ![at] = @ \ {"MORE_LINES"}]
    BY <1>2, <1>10 DEF NoBuffer, HasLines, slots, input
  <2>2. \A s \in Slots : s # at /\ "MORE_LINES" \in flags[s] => "MORE_LINES" \in flags'[s]
    BY <1>1, <2>1
  <2>3. InputSound'
    BY <1>1, <2>1 DEF BufSound, InputSound, input, Slots
  <2> QED BY <1>1, <2>1, <2>2, <2>3, InputStep
<1>11. CASE NoLine
  BY <1>1, <1>2, <1>11, LineEndKeeps DEF NoLine, HasLines
<1> QED BY <1>3, <1>4, <1>5, <1>6, <1>7, <1>8, <1>9, <1>10, <1>11 DEF Handler

LEMMA HandlerKeepsLoop ==
  ASSUME SocketsAssumption, BufInv, Handler
  PROVE  LoopSound'
<1> USE DEF loop, objs, ReadDone, WriteDone, NextSlot, Callback
<1>1. /\ LoopSound /\ (pc \in {"write", "sent"} => at \in Slots)
      /\ at \in 0 .. NumSocks /\ NumSocks \in Nat \ {0} /\ Slots = 0 .. NumSocks - 1
  BY DEF BufInv, LoopSound, SocketsAssumption, Slots
<1>2. /\ at < NumSocks => at \in Slots
      /\ at \in Slots => at + 1 \in 0 .. NumSocks
      /\ 0 \in 0 .. NumSocks
  BY <1>1
<1>3. UNCHANGED <<mode, life, flagged>> => ModesTyped'
  BY <1>1 DEF LoopSound, ModesTyped, Slots
<1>4. /\ readmask \ {at} \subseteq Slots /\ TRUE \in BOOLEAN /\ FALSE \in BOOLEAN
      /\ more \in BOOLEAN /\ readmask \subseteq Slots
  BY <1>1 DEF LoopSound
<1>5. CASE NoRead
  BY <1>1, <1>2, <1>3, <1>4, <1>5 DEF NoRead, slots, LoopSound, Slots
<1>6. CASE ReadListen \/ ReadData \/ ReadEnds
  BY <1>1, <1>2, <1>3, <1>4, <1>6 DEF ReadListen, ReadData, ReadEnds, ReadReady, slots, LoopSound, Slots
<1>7. ASSUME NEW n, ReadBuffered(n) PROVE LoopSound'
  BY <1>1, <1>2, <1>3, <1>4, <1>7 DEF ReadBuffered, ReadReady, slots, LoopSound, Slots
<1>8. ASSUME NEW n, Line(n) PROVE LoopSound'
  BY <1>1, <1>2, <1>3, <1>4, <1>8 DEF Line, HasLines, slots, LoopSound, Slots
<1>9. ASSUME NEW n, SendSome(n) PROVE LoopSound'
  BY <1>1, <1>2, <1>3, <1>4, <1>9 DEF SendSome, WriteReady, slots, LoopSound, Slots
<1>10. CASE NoWrite
  BY <1>1, <1>2, <1>3, <1>4, <1>10 DEF NoWrite, slots, LoopSound, Slots
<1>11. CASE SendRest
  BY <1>1, <1>2, <1>3, <1>4, <1>11 DEF SendRest, WriteReady, slots, LoopSound, Slots
<1>12. CASE Unblock
  BY <1>1, <1>2, <1>3, <1>4, <1>12 DEF Unblock, slots, LoopSound, Slots
<1>13. CASE CloseSent
  <2>1. UNCHANGED mode
    BY <1>13, CloseBuffers DEF CloseSent, BufInv
  <2> QED BY <1>1, <1>2, <1>3, <1>4, <1>13, <2>1 DEF CloseSent, LoopSound, Slots
<1>14. CASE SendFails
  BY <1>1, <1>2, <1>3, <1>4, <1>14 DEF SendFails, WriteReady, slots, LoopSound, Slots
<1>15. CASE IoDone
  BY <1>1, <1>2, <1>3, <1>4, <1>15 DEF IoDone, slots, LoopSound, Slots
<1>16. CASE NoLines
  BY <1>1, <1>2, <1>3, <1>4, <1>16 DEF NoLines, slots, LoopSound, Slots
<1>17. CASE NoBuffer
  BY <1>1, <1>2, <1>3, <1>4, <1>17 DEF NoBuffer, HasLines, slots, LoopSound, Slots
<1>18. CASE NoLine
  BY <1>1, <1>2, <1>3, <1>4, <1>18 DEF NoLine, LineEnd, HasLines, slots, LoopSound, Slots
<1>19. CASE LinesAgain
  BY <1>1, <1>2, <1>3, <1>4, <1>19 DEF LinesAgain, slots, LoopSound, Slots
<1> QED BY <1>5, <1>6, <1>7, <1>8, <1>9, <1>10, <1>11, <1>12, <1>13, <1>14, <1>15, <1>16,
           <1>17, <1>18, <1>19 DEF Handler

LEMMA EndKeepsBuffers ==
  ASSUME SocketsAssumption, SockInv, BufInv, EvaluationEnds
  PROVE  BufInv'
<1> USE DEF loop, objs, NextSlot
<1>1. /\ flags \in [Slots -> SUBSET {"RELEASE", "BLOCKED", "CONNECTING", "WACCEPT",
                                     "MORE_LINES", "CLOSING"}]
      /\ BufSound /\ LoopSound /\ (ctx \notin {"none", "backend"} => at \in Slots)
      /\ at \in 0 .. NumSocks /\ NumSocks \in Nat \ {0}
  BY DEF SockInv, SlotTypes, BufInv, LoopSound, SocketsAssumption
<1>2. at \in Slots => at + 1 \in 0 .. NumSocks
  BY <1>1 DEF Slots
<1>3. UNCHANGED <<mode, life, flagged>> => ModesTyped'
  BY <1>1 DEF LoopSound, ModesTyped, Slots
<1>4. CASE ReleaseReturns
  <2>1. /\ UNCHANGED <<state, output, input, mode, objs, pc, ctx, loop>>
        /\ flags' = [flags EXCEPT ![Head(releasing)] = @ \ {"RELEASE"}]
    BY <1>4 DEF ReleaseReturns
  <2>2. \A s \in Slots : "MORE_LINES" \in flags[s] => "MORE_LINES" \in flags'[s]
    BY <1>1, <2>1
  <2>3. BufSound'
    BY <1>1, <2>1, <2>2, BuffersStay
  <2> QED BY <1>1, <1>3, <2>1, <2>3 DEF BufInv, LoopSound, Slots
<1>5. CASE Returns
  <2>1. CASE Ends("line") /\ LineEnd /\ UNCHANGED more
    <3>1. at \in Slots
      BY <1>1, <2>1 DEF Ends
    <3>2. BufSound'
      BY <1>1, <2>1, <3>1, LineEndKeeps
    <3>3. LoopSound'
      BY <1>1, <1>2, <1>3, <2>1, <3>1 DEF LineEnd, Ends, slots, LoopSound, Slots
    <3> QED BY <3>2, <3>3 DEF BufInv
  <2>2. CASE ~(Ends("line") /\ LineEnd /\ UNCHANGED more)
    <3>1. UNCHANGED <<slots, flags, output, input>>
      BY <1>5, <2>2 DEF Returns
    <3>2. BufSound'
      BY <1>1, <3>1, IdleHandlerKeeps
    <3>3. LoopSound'
      BY <1>1, <1>2, <1>3, <1>5, <2>2 DEF Returns, Ends, slots, LoopSound, Slots
    <3> QED BY <3>2, <3>3 DEF BufInv
  <2> QED BY <2>1, <2>2
<1>6. CASE ClosedReturns
  <2>1. SocketClose({at}, 1)
    BY <1>6 DEF ClosedReturns
  <2>2. BufSound' /\ UNCHANGED mode
    BY <1>1, <2>1, CloseBuffers
  <2>3. LoopSound'
    BY <1>1, <1>3, <1>6, <2>2 DEF ClosedReturns, Ends, LoopSound, Slots
  <2> QED BY <2>2, <2>3 DEF BufInv
<1>7. CASE BrokenReturns
  <2>1. SocketClose({at}, 2)
    BY <1>7 DEF BrokenReturns
  <2>2. BufSound' /\ UNCHANGED mode
    BY <1>1, <2>1, CloseBuffers
  <2>3. LoopSound'
    BY <1>1, <1>2, <1>3, <1>7, <2>2 DEF BrokenReturns, Ends, LoopSound, Slots
  <2> QED BY <2>2, <2>3 DEF BufInv
<1>8. CASE Throw
  <2>1. UNCHANGED <<slots, flags, output, input>>
    BY <1>8 DEF Throw
  <2>2. BufSound'
    BY <1>1, <2>1, IdleHandlerKeeps
  <2>3. LoopSound'
    <3>1. 0 \in 0 .. NumSocks /\ FALSE \in BOOLEAN
      BY <1>1
    <3> QED BY <1>1, <1>3, <1>8, <3>1 DEF Throw, Ends, slots, LoopSound, Slots
  <2> QED BY <2>2, <2>3 DEF BufInv
<1> QED BY <1>4, <1>5, <1>6, <1>7, <1>8 DEF EvaluationEnds

LEMMA BufNext ==
  ASSUME SocketsAssumption, SockInv, BufInv, [Next]_vars
  PROVE  BufInv'
<1>1. BufSound /\ LoopSound
  BY DEF BufInv
<1>2. ASSUME UNCHANGED <<slots, flags, output, input, flagged>>,
             life' \in [Objects -> {"live", "destructed", "gone"}]
      PROVE  BufSound' /\ ModesTyped'
  <2>1. BufSound'
    BY <1>1, <1>2, IdleHandlerKeeps
  <2>2. ModesTyped'
    BY <1>1, <1>2 DEF LoopSound, ModesTyped, slots, Slots
  <2> QED BY <2>1, <2>2
<1>3. CASE Select
  <2>1. life' \in [Objects -> {"live", "destructed", "gone"}]
    BY <1>3 DEF Select
  <2>2. readmask' \subseteq Slots /\ 0 \in 0 .. NumSocks
    BY <1>1, <1>3 DEF Select, LoopSound
  <2>3. LoopSound'
    BY <1>1, <1>2, <1>3, <2>1, <2>2 DEF Select, LoopSound, Slots
  <2> QED BY <1>2, <1>3, <2>1, <2>3 DEF Select, BufInv
<1>4. CASE Evaluate
  <2>1. life' \in [Objects -> {"live", "destructed", "gone"}]
    BY <1>4 DEF Evaluate
  <2>2. LoopSound'
    BY <1>1, <1>2, <1>4, <2>1 DEF Evaluate, loop, LoopSound, Slots
  <2> QED BY <1>2, <1>4, <2>1, <2>2 DEF Evaluate, BufInv
<1>5. CASE Efun
  BY <1>1, <1>5, EfunKeepsBuffers, EfunKeepsLoop DEF BufInv
<1>6. CASE Handler
  BY <1>6, HandlerKeepsBuffers, HandlerKeepsLoop DEF BufInv
<1>7. CASE EvaluationEnds
  BY <1>7, EndKeepsBuffers
<1>8. CASE UNCHANGED vars
  <2>1. UNCHANGED <<slots, flags, output, input, objs, pc, ctx, loop, releasing>>
    BY <1>8 DEF vars
  <2>2. BufSound' /\ ModesTyped'
    BY <1>1, <1>2, <2>1 DEF objs, LoopSound, ModesTyped
  <2> QED BY <1>1, <2>1, <2>2 DEF BufInv, LoopSound, loop, Slots
<1> QED BY <1>3, <1>4, <1>5, <1>6, <1>7, <1>8 DEF Next

LEMMA BufInit ==
  ASSUME SocketsAssumption, Init
  PROVE  BufInv
<1>1. Numbers(0, 0 - 0) = <<>>
  <2>1. Numbers(0, 0) \in Seq(Nat) /\ Len(Numbers(0, 0)) = 0
    BY NumbersTyped
  <2> QED BY <2>1
<1>2. OutSound(Null, 0, 0, 0, 0)
  BY OutEmpty
<1>3. InSound(Null, 0, 0)
  BY <1>1 DEF InSound
<1>4. OutputSound
  BY <1>2 DEF Init, OutputSound
<1>5. InputSound
  BY <1>3 DEF Init, InputSound
<1>6. ClosedEmpty /\ LinesFlagged
  BY DEF Init, ClosedEmpty, LinesFlagged
<1>7. LoopSound
  <2>1. 0 \in 0 .. NumSocks /\ FALSE \in BOOLEAN
    BY DEF SocketsAssumption
  <2> QED BY <2>1 DEF Init, LoopSound, ModesTyped
<1> QED BY <1>4, <1>5, <1>6, <1>7 DEF BufInv, BufSound

LEMMA BufInvExact ==
  ASSUME SockInv, BufInv
  PROVE  BuffersExact
<1>1. ASSUME NEW s \in Slots PROVE OutSound(w_buf[s], w_off[s], w_len[s], accepted[s], wire[s])
  BY DEF BufInv, BufSound, OutputSound
<1>2. TypeOK
  <2>1. \A s \in Slots :
          /\ r_buf[s] # Null => r_buf[s] \in Seq(Nat)
          /\ w_buf[s] # Null => w_buf[s] \in Seq(Nat)
          /\ w_off[s] \in {-1} \cup Nat /\ w_len[s] \in Nat
          /\ w_len[s] > 0 <=> w_buf[s] # Null
          /\ w_buf[s] # Null => w_off[s] + w_len[s] = Len(w_buf[s]) /\ Is(s, "BLOCKED")
          /\ ~Open(s) => r_buf[s] = Null /\ w_buf[s] = Null
    <3> TAKE s \in Slots
    <3>1. r_buf[s] # Null => r_buf[s] \in Seq(Nat)
      BY DEF BufInv, BufSound, InputSound
    <3>2. ~Open(s) => r_buf[s] = Null /\ w_buf[s] = Null
      BY DEF BufInv, BufSound, ClosedEmpty
    <3>3. w_buf[s] # Null => Is(s, "BLOCKED")
      BY DEF SockInv, OutputBlocks, Is
    <3> QED BY <1>1, <3>1, <3>2, <3>3 DEF OutSound
  <2>2. ModesTyped /\ LoopSound /\ SlotTypes
    BY DEF BufInv, LoopSound, SockInv
  <2> QED BY <2>1, <2>2 DEF TypeOK, ModesTyped, LoopSound, SlotTypes
<1>3. OutputInOrder
  <2> SUFFICES ASSUME NEW s \in Slots
               PROVE  Written(Unsent(s)) = Numbers(wire[s], accepted[s] - wire[s])
    BY DEF OutputInOrder
  <2>1. Unsent(s) = Rest(w_buf[s], w_off[s], w_len[s])
    <3>1. w_off[s] \in Int
      BY <1>1 DEF OutSound
    <3>2. \A i \in 1 .. w_len[s] : w_off[s] + i - 1 + 1 = w_off[s] + i
      BY <3>1
    <3> QED BY <3>2 DEF Unsent, Rest, Byte
  <2>2. /\ wire[s] \in Nat /\ accepted[s] - wire[s] \in Nat
        /\ Ordered(Rest(w_buf[s], w_off[s], w_len[s]), accepted[s], wire[s])
    BY <1>1 DEF OutSound
  <2> QED BY <2>1, <2>2, WrittenOrdered DEF Ordered
<1>4. InputInOrder /\ LinesFlagged
  BY DEF BufInv, BufSound, InputSound, InSound, InputInOrder, Unread
<1> QED BY <1>2, <1>3, <1>4 DEF BuffersExact

-----------------------------------------------------------------------------
(* The theorems.                                                           *)

\* A socket changes hands only in a release that offers it, and who comes to own
\* one otherwise is flagged, so that destruct_object closes what it owns.
THEOREM OwnersAccountedFor == Spec => OwnershipSound
<1>1. SockInv /\ [Next]_vars => [HandsOver]_vars /\ [FlagsOwner]_vars
  BY NextSound, SocketsAssumption DEF StepSound
<1>2. Spec => [][HandsOver]_vars /\ [][FlagsOwner]_vars
  BY <1>1, SockInvHolds, SocketsAssumption, PTL DEF Spec
<1> QED
  BY <1>2 DEF OwnershipSound, HandedOver, OwnersFlagged, HandsOver, FlagsOwner

\* No socket_close, end of input or destruct_object throws away output that a
\* socket_write has accepted: only a send that failed does.
THEOREM OutputSurvivesClose == Spec => NothingCut
<1>1. SockInv /\ [Next]_vars => [CutsNothing]_vars
  BY NextSound, SocketsAssumption DEF StepSound
<1>2. Spec => [][CutsNothing]_vars
  BY <1>1, SockInvHolds, SocketsAssumption, PTL DEF Spec
<1> QED
  BY <1>2 DEF NothingCut, CutsNothing

\* Whatever LPC code does in the callbacks and however the kernel cuts, refuses
\* and delivers: every byte accepted is sent or in the buffer, once and in order,
\* offset and length are those of the buffer, every byte received is delivered or
\* in the buffer, in order, and a socket with undelivered input is flagged.
THEOREM BuffersStayExact == Spec => []BuffersExact
<1>1. Init => BufInv
  BY BufInit, SocketsAssumption
<1>2. SockInv /\ BufInv /\ [Next]_vars => BufInv'
  BY BufNext, SocketsAssumption
<1>3. SockInv /\ BufInv => BuffersExact
  BY BufInvExact
<1>4. Spec => []SockInv
  BY SockInvHolds, SocketsAssumption
<1> QED BY <1>1, <1>2, <1>3, <1>4, PTL DEF Spec
=============================================================================

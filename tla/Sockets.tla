------------------------------ MODULE Sockets ------------------------------
(***************************************************************************)
(* The stream sockets of LPC code (src/src/socket_efuns.c): a table of     *)
(* slots, the efuns that work on them, the handlers process_io             *)
(* (src/src/comm.c) calls for what select found, and the delivery of       *)
(* buffered input line by line.  Every callback is LPC code that may call  *)
(* any of the efuns.  Slots and descriptors are both given out lowest      *)
(* first, so that a slot stands for its descriptor too.                    *)
(***************************************************************************)
EXTENDS Integers, Sequences, FiniteSets

CONSTANTS
  NumSocks,   \* MAX_EFUN_SOCKS, 80 in the code
  Objects,    \* LPC objects
  Modes,      \* the modes a socket in slot s is created in: sets of sub-modes
  MaxOut,     \* bytes a socket in slot s is given to write
  MaxIn,      \* bytes a socket in slot s receives, if its input is buffered
  MaxNested,  \* calls of socket_release for slot s that wait for their callback
  Null        \* the null pointer

ASSUME SocketsAssumption ==
  /\ NumSocks \in Nat \ {0} /\ MaxNested \in [0 .. NumSocks - 1 -> Nat]
  /\ MaxOut \in [0 .. NumSocks - 1 -> Nat] /\ MaxIn \in [0 .. NumSocks - 1 -> Nat]
  /\ Modes \in [0 .. NumSocks - 1 -> SUBSET SUBSET {"BUFFERED_OUTPUT", "BUFFERED_INPUT"}]
  /\ Null \notin Objects /\ Null \notin Seq(Nat)

VARIABLES
  state, owner_ob, mode, flags, release_ob,   \* fields of lpc_socks[s]
  r_buf,                \* unread input, from r_off on for r_len bytes, or Null
  w_buf, w_off, w_len,  \* output: w_len bytes from w_off on are to be sent
  life,                 \* objects: live, destructed in this evaluation, or gone
  flagged,              \* objects with O_EFUN_SOCKET
  pc, ctx, at, more,    \* control point, the callback that runs, i and s of the loops
  readmask, writemask,  \* what select was asked about and is still to be handled
  releasing,            \* calls of socket_release that wait for their callback
  accepted, wire,       \* history: bytes taken from LPC code, bytes sent in order
  got, told             \* history: bytes received, bytes given to LPC code in order

slots   == <<state, owner_ob, mode, release_ob>>
output  == <<w_buf, w_off, w_len, accepted, wire>>
input   == <<r_buf, got, told>>
objs    == <<life, flagged>>
loop    == <<at, more, readmask, writemask>>
vars    == <<slots, flags, output, input, objs, pc, ctx, loop, releasing>>

Slots   == 0 .. NumSocks - 1
Open(s) == state[s] # "CLOSED"
Is(s, flag) == flag \in flags[s]
Garbled == -1

\* Byte i of the output buffer of s.  Bytes are numbered in the order LPC code
\* writes them, from 1 on; 0 is what happens to lie in front of the buffer, so it
\* can only be the first of the unsent ones.
Byte(s, i) == IF i < 0 THEN 0 ELSE w_buf[s][i + 1]
Unsent(s)  == [i \in 1 .. w_len[s] |-> Byte(s, w_off[s] + i - 1)]
Written(q) == IF q # <<>> /\ q[1] = 0 THEN Tail(q) ELSE q
Numbers(a, n) == [i \in 1 .. n |-> a + i]

\* The number of bytes that have come through in order when q follows a.
Through(a, q) == IF q = Numbers(a, Len(q)) THEN a + Len(q) ELSE Garbled

Init ==
  /\ state = [s \in Slots |-> "CLOSED"] /\ owner_ob = [s \in Slots |-> Null]
  /\ mode = [s \in Slots |-> {}] /\ flags = [s \in Slots |-> {}]
  /\ release_ob = [s \in Slots |-> Null]
  /\ r_buf = [s \in Slots |-> Null] /\ w_buf = [s \in Slots |-> Null]
  /\ w_off = [s \in Slots |-> 0] /\ w_len = [s \in Slots |-> 0]
  /\ life = [o \in Objects |-> "live"] /\ flagged = {}
  /\ pc = "select" /\ ctx = "none" /\ at = 0 /\ more = FALSE
  /\ readmask = {} /\ writemask = {} /\ releasing = <<>>
  /\ accepted = [s \in Slots |-> 0] /\ wire = [s \in Slots |-> 0]
  /\ got = [s \in Slots |-> 0] /\ told = [s \in Slots |-> 0]

-----------------------------------------------------------------------------
(* The efuns.  An object that destructed itself runs on to its end.        *)

Runs(o) == pc = "lpc" /\ life[o] # "gone"

\* The checks with which every efun on a socket begins.
Owns(o, s) == Runs(o) /\ Open(s) /\ owner_ob[s] = o

FirstClosed(s) == ~Open(s) /\ \A t \in Slots : t < s => Open(t)

\* Mutant: the object is not flagged.
FlagNobody(o) == UNCHANGED flagged

\* O_EFUN_SOCKET: destruct_object has sockets to close
Flag(o) == flagged' = flagged \cup {o}

\* Fill in slot s for o; its old buffers are not freed.
Occupy(s, st, o, m) ==
  /\ state' = [state EXCEPT ![s] = st] /\ owner_ob' = [owner_ob EXCEPT ![s] = o]
  /\ mode' = [mode EXCEPT ![s] = m] /\ release_ob' = [release_ob EXCEPT ![s] = Null]
  /\ r_buf' = [r_buf EXCEPT ![s] = Null] /\ w_buf' = [w_buf EXCEPT ![s] = Null]
  /\ w_off' = [w_off EXCEPT ![s] = 0] /\ w_len' = [w_len EXCEPT ![s] = 0]
  /\ Flag(o)
  /\ UNCHANGED <<accepted, wire, got, told>>

SocketCreate(o, s, m) ==
  /\ Runs(o) /\ FirstClosed(s)
  /\ Occupy(s, "UNBOUND", o, m)
  /\ flags' = [flags EXCEPT ![s] = {}]
  /\ UNCHANGED <<life, pc, ctx, loop, releasing>>

SocketBind(o, s) ==
  /\ Owns(o, s) /\ state[s] = "UNBOUND"
  /\ state' = [state EXCEPT ![s] = "BOUND"]
  /\ UNCHANGED <<owner_ob, mode, flags, release_ob, output, input, objs, pc, ctx, loop, releasing>>

SocketListen(o, s) ==
  /\ Owns(o, s) /\ state[s] = "BOUND"
  /\ state' = [state EXCEPT ![s] = "LISTEN"]
  /\ Flag(o)
  /\ UNCHANGED <<owner_ob, mode, flags, release_ob, output, input, life, pc, ctx, loop, releasing>>

\* No connection is there, or no slot for it: it is closed at once.
AcceptFails(o, s) ==
  /\ Owns(o, s) /\ state[s] = "LISTEN"
  /\ flags' = [flags EXCEPT ![s] = @ \ {"WACCEPT"}]
  /\ UNCHANGED <<slots, output, input, objs, pc, ctx, loop, releasing>>

SocketAccept(o, s) ==
  /\ Owns(o, s) /\ state[s] = "LISTEN"
  /\ \E t \in Slots : /\ FirstClosed(t)
                      /\ Occupy(t, "DATA_XFER", o, mode[s])
                      /\ flags' = [flags EXCEPT ![s] = @ \ {"WACCEPT"}, ![t] = {}]
  /\ UNCHANGED <<life, pc, ctx, loop, releasing>>

\* The connection is under way: select will tell when it is there.  (CONNECTING
\* is not a flag of the driver but what the kernel knows.)
SocketConnect(o, s) ==
  /\ Owns(o, s) /\ state[s] \in {"UNBOUND", "BOUND"}
  /\ state' = [state EXCEPT ![s] = "DATA_XFER"]
  /\ flags' = [flags EXCEPT ![s] = @ \cup {"BLOCKED", "CONNECTING"}]
  /\ Flag(o)
  /\ UNCHANGED <<owner_ob, mode, release_ob, output, input, life, pc, ctx, loop, releasing>>

Accepts(o, s, n) ==
  /\ Owns(o, s) /\ state[s] = "DATA_XFER"
  /\ accepted[s] + n <= MaxOut[s]
  /\ accepted' = [accepted EXCEPT ![s] = @ + n]
  /\ UNCHANGED <<slots, input, objs, pc, ctx, loop, releasing>>

\* Mutant: w_off is not reset for the new buffer.
WriteBufferedKeepingOffset(o, s, n) ==
  /\ Accepts(o, s, n)
  /\ Is(s, "BLOCKED") /\ "BUFFERED_OUTPUT" \in mode[s]
  /\ w_buf' = [w_buf EXCEPT ![s] = Unsent(s) \o Numbers(accepted[s], n)]
  /\ w_len' = [w_len EXCEPT ![s] = @ + n]
  /\ UNCHANGED <<flags, wire, w_off>>

\* socket_write of n bytes while the socket is blocked: BUFFERED_OUTPUT appends
\* them, other sockets refuse them.
WriteBuffered(o, s, n) ==
  /\ Accepts(o, s, n)
  /\ Is(s, "BLOCKED") /\ "BUFFERED_OUTPUT" \in mode[s]
  /\ w_buf' = [w_buf EXCEPT ![s] = Unsent(s) \o Numbers(accepted[s], n)]
  /\ w_off' = [w_off EXCEPT ![s] = 0]
  /\ w_len' = [w_len EXCEPT ![s] = @ + n]
  /\ UNCHANGED <<flags, wire>>

\* The kernel takes everything.
WriteThrough(o, s, n) ==
  /\ Accepts(o, s, n)
  /\ ~Is(s, "BLOCKED")
  /\ wire' = [wire EXCEPT ![s] = Through(@, Numbers(accepted[s], n))]
  /\ UNCHANGED <<flags, w_buf, w_off, w_len>>

\* send() takes off bytes, or returns -1 for EWOULDBLOCK: either way that is
\* where the rest of the buffer is taken to begin.
WriteBlocks(o, s, n, off) ==
  /\ Accepts(o, s, n)
  /\ ~Is(s, "BLOCKED") /\ off \in {-1} \cup 1 .. n - 1
  /\ flags' = [flags EXCEPT ![s] = @ \cup {"BLOCKED"}]
  /\ w_buf' = [w_buf EXCEPT ![s] = Numbers(accepted[s], n)]
  /\ w_off' = [w_off EXCEPT ![s] = off]
  /\ w_len' = [w_len EXCEPT ![s] = n - off]
  /\ wire' = [wire EXCEPT ![s] = IF off < 0 THEN @ ELSE Through(@, Numbers(accepted[s], off))]

\* All of socks are marked closing; those that can be closed now give up their
\* buffers and their slot.
Closing(socks, now) ==
  LET Reset(f, v) == [s \in Slots |-> IF s \in now THEN v ELSE f[s]]
  IN  /\ flags' = [s \in Slots |-> IF s \in socks THEN flags[s] \cup {"CLOSING"} ELSE flags[s]]
      /\ state' = Reset(state, "CLOSED")
      /\ r_buf' = Reset(r_buf, Null) /\ w_buf' = Reset(w_buf, Null)
      /\ w_off' = Reset(w_off, 0) /\ w_len' = Reset(w_len, 0)
      /\ accepted' = Reset(accepted, 0) /\ wire' = Reset(wire, 0)
      /\ got' = Reset(got, 0) /\ told' = Reset(told, 0)
      /\ UNCHANGED <<owner_ob, mode, release_ob>>

\* Mutant: a force of 1 closes at once.
SocketCloseForced(socks, force) ==
  LET open == {s \in socks : Open(s)}
  IN  Closing(open, {s \in open : ~Is(s, "BLOCKED") \/ force >= 1})

\* socket_close(s, force) for every s of a set: while output is blocked it is
\* put off, unless forced.
SocketClose(socks, force) ==
  LET open == {s \in socks : Open(s)}
  IN  Closing(open, {s \in open : ~Is(s, "BLOCKED") \/ force = 2})

CloseSocket(o, s) ==
  /\ Owns(o, s)
  /\ SocketClose({s}, 0)
  /\ UNCHANGED <<objs, pc, ctx, loop, releasing>>

\* The release callback is LPC code that runs before socket_release returns.
SocketRelease(o, s, to) ==
  /\ Owns(o, s) /\ ~Is(s, "RELEASE") /\ life[to] = "live"
  /\ Cardinality({i \in DOMAIN releasing : releasing[i] = s}) < MaxNested[s]
  /\ flags' = [flags EXCEPT ![s] = @ \cup {"RELEASE"}]
  /\ release_ob' = [release_ob EXCEPT ![s] = to]
  /\ releasing' = <<s>> \o releasing
  /\ UNCHANGED <<state, owner_ob, mode, output, input, objs, pc, ctx, loop>>

\* Mutant: the offer is not withdrawn.
ReleaseReturnsOffering ==
  /\ pc = "lpc" /\ releasing # <<>>
  /\ releasing' = Tail(releasing)
  /\ UNCHANGED <<slots, flags, output, input, objs, pc, ctx, loop>>

\* It returns or throws, which safe_apply catches.  The socket may have been
\* closed, and its slot used again.
ReleaseReturns ==
  /\ pc = "lpc" /\ releasing # <<>>
  /\ flags' = [flags EXCEPT ![Head(releasing)] = @ \ {"RELEASE"}]
  /\ release_ob' = IF Is(Head(releasing), "RELEASE")
                   THEN [release_ob EXCEPT ![Head(releasing)] = Null] ELSE release_ob
  /\ releasing' = Tail(releasing)
  /\ UNCHANGED <<state, owner_ob, mode, output, input, objs, pc, ctx, loop>>

\* O_EFUN_SOCKET is not set in the new owner.
SocketAcquire(o, s) ==
  /\ Runs(o) /\ Open(s) /\ Is(s, "RELEASE") /\ release_ob[s] = o
  /\ flags' = [flags EXCEPT ![s] = @ \ {"RELEASE"}]
  /\ owner_ob' = [owner_ob EXCEPT ![s] = o]
  /\ release_ob' = [release_ob EXCEPT ![s] = Null]
  /\ UNCHANGED <<state, mode, output, input, objs, pc, ctx, loop, releasing>>

\* destruct_object: close_referencing_sockets, if the object is flagged
Destruct(o) ==
  /\ pc = "lpc" /\ life[o] = "live"
  /\ life' = [life EXCEPT ![o] = "destructed"]
  /\ SocketClose(IF o \in flagged THEN {s \in Slots : owner_ob[s] = o} ELSE {}, 1)
  /\ UNCHANGED <<flagged, pc, ctx, loop, releasing>>

Efun ==
  \E o \in Objects :
    \/ Destruct(o)
    \/ \E s \in Slots :
         \/ \E m \in Modes[s] : SocketCreate(o, s, m)
         \/ SocketBind(o, s) \/ SocketListen(o, s)
         \/ AcceptFails(o, s) \/ SocketAccept(o, s) \/ SocketConnect(o, s)
         \/ \E n \in 1 .. MaxOut[s] :
              \/ WriteBuffered(o, s, n) \/ WriteThrough(o, s, n)
              \/ \E off \in -1 .. n : WriteBlocks(o, s, n, off)
         \/ CloseSocket(o, s) \/ SocketAcquire(o, s)
         \/ \E to \in Objects : SocketRelease(o, s, to)

-----------------------------------------------------------------------------
(* The backend loop.                                                       *)

\* make_selectmasks and select.  Which of the descriptors it asks about were
\* ready, perhaps only standard input, is chosen where the loop comes to them.
Select ==
  /\ pc = "select"
  /\ readmask' = {s \in Slots : Open(s) /\ flags[s] \cap {"WACCEPT", "CLOSING"} = {}}
  /\ writemask' = {s \in Slots : Open(s) /\ Is(s, "BLOCKED")}
  /\ pc' = "read" /\ at' = 0
  /\ life' = [o \in Objects |-> IF life[o] = "live" THEN "live" ELSE "gone"]
  /\ UNCHANGED <<slots, flags, output, input, flagged, ctx, more, releasing>>

\* Other LPC code: heart beats, call outs.
Evaluate ==
  /\ pc = "select"
  /\ pc' = "lpc" /\ ctx' = "backend"
  /\ life' = [o \in Objects |-> IF life[o] = "live" THEN "live" ELSE "gone"]
  /\ UNCHANGED <<slots, flags, output, input, flagged, loop, releasing>>

Callback(c) == pc' = "lpc" /\ ctx' = c
NextSlot == at' = at + 1 /\ pc' = "read"

ReadReady == pc = "read" /\ at < NumSocks /\ Open(at) /\ at \in readmask
ReadDone  == readmask' = readmask \ {at} /\ UNCHANGED <<at, more, writemask>>

\* Nothing to read, or recv() says EWOULDBLOCK.
NoRead ==
  /\ pc = "read" /\ at < NumSocks
  /\ pc' = "write" /\ ReadDone
  /\ UNCHANGED <<slots, flags, output, input, objs, ctx, releasing>>

ReadListen ==
  /\ ReadReady /\ state[at] = "LISTEN"
  /\ flags' = [flags EXCEPT ![at] = @ \cup {"WACCEPT"}]
  /\ Callback("read") /\ ReadDone
  /\ UNCHANGED <<slots, output, input, objs, releasing>>

ReadData ==
  /\ ReadReady /\ state[at] = "DATA_XFER" /\ "BUFFERED_INPUT" \notin mode[at]
  /\ Callback("read") /\ ReadDone
  /\ UNCHANGED <<slots, flags, output, input, objs, releasing>>

Unread(s) == IF r_buf[s] = Null THEN <<>> ELSE r_buf[s]

\* Mutant: what is still to be delivered is lost.
ReadBufferedAnew(n) ==
  /\ ReadReady /\ state[at] = "DATA_XFER" /\ "BUFFERED_INPUT" \in mode[at]
  /\ got[at] + n <= MaxIn[at]
  /\ got' = [got EXCEPT ![at] = @ + n]
  /\ r_buf' = [r_buf EXCEPT ![at] = Numbers(got[at], n)]
  /\ flags' = [flags EXCEPT ![at] = @ \cup {"MORE_LINES"}]
  /\ pc' = "write" /\ ReadDone
  /\ UNCHANGED <<slots, output, told, objs, ctx, releasing>>

\* BUFFERED_INPUT: n bytes are put behind what is still to be delivered.
ReadBuffered(n) ==
  /\ ReadReady /\ state[at] = "DATA_XFER" /\ "BUFFERED_INPUT" \in mode[at]
  /\ got[at] + n <= MaxIn[at]
  /\ got' = [got EXCEPT ![at] = @ + n]
  /\ r_buf' = [r_buf EXCEPT ![at] = Unread(at) \o Numbers(got[at], n)]
  /\ flags' = [flags EXCEPT ![at] = @ \cup {"MORE_LINES"}]
  /\ pc' = "write" /\ ReadDone
  /\ UNCHANGED <<slots, output, told, objs, ctx, releasing>>

\* End of file or an error; for a bound socket, which is not read, errno is
\* what the last system call left there.
ReadEnds ==
  /\ ReadReady /\ state[at] \in {"BOUND", "DATA_XFER"}
  /\ Callback("closed") /\ ReadDone
  /\ UNCHANGED <<slots, flags, output, input, objs, releasing>>

WriteReady == pc = "write" /\ Open(at) /\ at \in writemask /\ Is(at, "BLOCKED")
WriteDone  == writemask' = writemask \ {at} /\ UNCHANGED <<more, readmask>>

\* Nothing to write, or send() says EWOULDBLOCK.  A new connection on which
\* something has been received can be written to.
NoWrite ==
  /\ pc = "write"
  /\ ~(WriteReady /\ Is(at, "CONNECTING") /\ got[at] > 0)
  /\ NextSlot /\ WriteDone
  /\ UNCHANGED <<slots, flags, output, input, objs, ctx, releasing>>

\* send() takes n bytes, not all of them.
SendSome(n) ==
  /\ WriteReady /\ w_buf[at] # Null
  /\ n < w_len[at]
  /\ wire' = [wire EXCEPT ![at] = Through(@, Written(SubSeq(Unsent(at), 1, n)))]
  /\ w_off' = [w_off EXCEPT ![at] = @ + n]
  /\ w_len' = [w_len EXCEPT ![at] = @ - n]
  /\ flags' = [flags EXCEPT ![at] = @ \ {"CONNECTING"}]
  /\ NextSlot /\ WriteDone
  /\ UNCHANGED <<slots, w_buf, accepted, input, objs, ctx, releasing>>

\* Mutant: the buffer is freed but its length stays.
SendRestKeepingLength ==
  /\ WriteReady
  /\ wire' = [wire EXCEPT ![at] = Through(@, Written(Unsent(at)))]
  /\ w_buf' = [w_buf EXCEPT ![at] = Null] /\ w_off' = [w_off EXCEPT ![at] = 0]
  /\ pc' = "sent" /\ WriteDone
  /\ UNCHANGED <<slots, flags, w_len, accepted, input, objs, ctx, at, releasing>>

\* send() takes the rest, or there is none: a connection has been made.
SendRest ==
  /\ WriteReady
  /\ wire' = [wire EXCEPT ![at] = Through(@, Written(Unsent(at)))]
  /\ w_buf' = [w_buf EXCEPT ![at] = Null]
  /\ w_off' = [w_off EXCEPT ![at] = 0] /\ w_len' = [w_len EXCEPT ![at] = 0]
  /\ pc' = "sent" /\ WriteDone
  /\ UNCHANGED <<slots, flags, accepted, input, objs, ctx, at, releasing>>

Unblock ==
  /\ pc = "sent" /\ ~Is(at, "CLOSING")
  /\ flags' = [flags EXCEPT ![at] = @ \ {"BLOCKED", "CONNECTING"}]
  /\ Callback("write")
  /\ UNCHANGED <<slots, output, input, objs, loop, releasing>>

\* A close that was put off
CloseSent ==
  /\ pc = "sent" /\ Is(at, "CLOSING")
  /\ SocketClose({at}, 2)
  /\ NextSlot
  /\ UNCHANGED <<objs, ctx, more, readmask, writemask, releasing>>

SendFails ==
  /\ WriteReady /\ w_buf[at] # Null
  /\ Callback("broken") /\ WriteDone
  /\ UNCHANGED <<slots, flags, output, input, objs, at, releasing>>

IoDone ==
  /\ pc = "read" /\ at = NumSocks
  /\ pc' = "lines" /\ at' = 0 /\ more' = FALSE
  /\ UNCHANGED <<slots, flags, output, input, objs, ctx, readmask, writemask, releasing>>

-----------------------------------------------------------------------------
(* handle_line_sockets: round after round until nobody has another line.   *)

HasLines == pc = "lines" /\ at < NumSocks
            /\ "BUFFERED_INPUT" \in mode[at] /\ Is(at, "MORE_LINES")

NoLines ==
  /\ pc = "lines" /\ at < NumSocks /\ ~HasLines
  /\ at' = at + 1
  /\ UNCHANGED <<slots, flags, output, input, objs, pc, ctx, more, readmask, writemask, releasing>>

\* parse_one_line hands out the n bytes of the next line, or all there is.
Line(n) ==
  /\ HasLines /\ r_buf[at] # Null
  /\ n \in 1 .. Len(r_buf[at])
  /\ told' = [told EXCEPT ![at] = Through(@, SubSeq(r_buf[at], 1, n))]
  /\ r_buf' = [r_buf EXCEPT ![at] = SubSeq(@, n + 1, Len(@))]
  /\ Callback("line") /\ more' = TRUE
  /\ UNCHANGED <<slots, flags, output, got, objs, at, readmask, writemask, releasing>>

\* Mutant: the flag is cleared before the buffer is empty.
LineEndEarly ==
  /\ IF Open(at) /\ ~Is(at, "CLOSING")
     THEN flags' = [flags EXCEPT ![at] = @ \ {"MORE_LINES"}] /\ UNCHANGED r_buf
     ELSE UNCHANGED <<flags, r_buf>>
  /\ at' = at + 1 /\ pc' = "lines"
  /\ UNCHANGED <<slots, output, got, told, objs, readmask, writemask, releasing>>

\* The end of parse_one_line, which it leaves before for a closing socket
LineEnd ==
  /\ IF Open(at) /\ ~Is(at, "CLOSING") /\ Unread(at) = <<>>
     THEN /\ flags' = [flags EXCEPT ![at] = @ \ {"MORE_LINES"}]
          /\ r_buf' = [r_buf EXCEPT ![at] = Null]
     ELSE UNCHANGED <<flags, r_buf>>
  /\ at' = at + 1 /\ pc' = "lines"
  /\ UNCHANGED <<slots, output, got, told, objs, readmask, writemask, releasing>>

NoBuffer ==
  /\ HasLines /\ r_buf[at] = Null
  /\ flags' = [flags EXCEPT ![at] = @ \ {"MORE_LINES"}]
  /\ more' = TRUE /\ at' = at + 1
  /\ UNCHANGED <<slots, output, input, objs, pc, ctx, readmask, writemask, releasing>>

NoLine ==
  /\ HasLines /\ r_buf[at] = <<>>
  /\ LineEnd
  /\ more' = TRUE /\ UNCHANGED ctx

LinesAgain ==
  /\ pc = "lines" /\ at = NumSocks
  /\ IF more THEN at' = 0 /\ UNCHANGED pc ELSE pc' = "select" /\ at' = 0
  /\ more' = FALSE
  /\ UNCHANGED <<slots, flags, output, input, objs, ctx, readmask, writemask, releasing>>

-----------------------------------------------------------------------------
(* The end of an evaluation.                                               *)

Ends(c) == pc = "lpc" /\ ctx = c /\ releasing = <<>> /\ ctx' = "none"

Returns ==
  \/ /\ Ends("backend") /\ pc' = "select"
     /\ UNCHANGED <<slots, flags, output, input, objs, loop, releasing>>
  \/ /\ Ends("read") /\ pc' = "write"
     /\ UNCHANGED <<slots, flags, output, input, objs, loop, releasing>>
  \/ /\ Ends("write") /\ NextSlot
     /\ UNCHANGED <<slots, flags, output, input, objs, more, readmask, writemask, releasing>>
  \/ Ends("line") /\ LineEnd /\ UNCHANGED more

\* After close_callback, also if it threw, slot i is closed: whatever socket it
\* holds by then.
ClosedReturns ==
  /\ Ends("closed") /\ SocketClose({at}, 1)
  /\ pc' = "write" /\ UNCHANGED <<loop, objs, releasing>>

BrokenReturns ==
  /\ Ends("broken") /\ SocketClose({at}, 2)
  /\ NextSlot /\ UNCHANGED <<more, readmask, writemask, objs, releasing>>

\* error() outside of safe_apply gives up process_io.
Throw ==
  /\ \E c \in {"backend", "read", "write", "line"} : Ends(c)
  /\ pc' = "select"
  /\ at' = 0 /\ more' = FALSE /\ readmask' = {} /\ writemask' = {}
  /\ UNCHANGED <<slots, flags, output, input, objs, releasing>>

-----------------------------------------------------------------------------
EvaluationEnds == ReleaseReturns \/ Returns \/ ClosedReturns \/ BrokenReturns \/ Throw

Handler ==
  \/ NoRead \/ ReadListen \/ ReadData \/ ReadEnds
  \/ at \in Slots /\ \E n \in 1 .. MaxIn[at] : ReadBuffered(n) \/ Line(n)
  \/ at \in Slots /\ \E n \in 1 .. MaxOut[at] : SendSome(n)
  \/ NoWrite \/ SendRest \/ Unblock \/ CloseSent \/ SendFails \/ IoDone
  \/ NoLines \/ NoBuffer \/ NoLine \/ LinesAgain

Next ==
  \/ Select \/ Evaluate \/ Efun \/ Handler \/ EvaluationEnds

Spec == Init /\ [][Next]_vars

-----------------------------------------------------------------------------
(* What the sockets promise.                                               *)

TypeOK ==
  /\ state \in [Slots -> {"CLOSED", "UNBOUND", "BOUND", "LISTEN", "DATA_XFER"}]
  /\ owner_ob \in [Slots -> Objects \cup {Null}] /\ release_ob \in [Slots -> Objects \cup {Null}]
  /\ mode \in [Slots -> SUBSET {"BUFFERED_OUTPUT", "BUFFERED_INPUT"}]
  /\ flags \in [Slots -> SUBSET {"RELEASE", "BLOCKED", "CONNECTING", "WACCEPT",
                              "MORE_LINES", "CLOSING"}]
  /\ \A s \in Slots :
       /\ r_buf[s] # Null => r_buf[s] \in Seq(Nat)
       /\ w_buf[s] # Null => w_buf[s] \in Seq(Nat)
       /\ w_off[s] \in {-1} \cup Nat /\ w_len[s] \in Nat
       /\ w_len[s] > 0 <=> w_buf[s] # Null
       /\ w_buf[s] # Null => w_off[s] + w_len[s] = Len(w_buf[s]) /\ Is(s, "BLOCKED")
       /\ ~Open(s) => r_buf[s] = Null /\ w_buf[s] = Null
  /\ life \in [Objects -> {"live", "destructed", "gone"}] /\ flagged \subseteq Objects
  /\ pc \in {"select", "read", "write", "sent", "lines", "lpc"}
  /\ ctx \in {"none", "backend", "read", "closed", "write", "broken", "line"}
  /\ pc = "lpc" <=> ctx # "none"
  /\ at \in 0 .. NumSocks /\ more \in BOOLEAN
  /\ readmask \subseteq Slots /\ writemask \subseteq Slots
  /\ releasing \in Seq(Slots)

\* What LPC code was told is taken has been sent or is in the buffer, once and
\* in the order in which it was written, through partial sends, refusals of the
\* kernel at any byte and appending to a buffer that is half sent.
OutputInOrder ==
  \A s \in Slots : Open(s) =>
    Written(Unsent(s)) = Numbers(wire[s], accepted[s] - wire[s])

\* What was received on a buffered socket has been given to LPC code or is in
\* the buffer, in order, although lines are read on while others are delivered.
InputInOrder ==
  \A s \in Slots : Open(s) => Unread(s) = Numbers(told[s], got[s] - told[s])

\* A socket with undelivered input is flagged for handle_line_sockets, also
\* after an error in a read callback or when its slot changed hands in one.
LinesFlagged == \A s \in Slots : r_buf[s] # Null => Is(s, "MORE_LINES")

\* No output is thrown away when a socket is closed, by its owner, at the end
\* of its input or because its owner is destructed, unless send() failed.
NothingCut ==
  [][\A s \in Slots :
       Open(s) /\ state'[s] = "CLOSED" /\ ~(ctx = "broken" /\ ctx' # ctx /\ s = at)
       => w_buf[s] = Null]_vars

\* socket_acquire(3): a socket comes to another object only "within the
\* context of the release callback".
HandedOver ==
  [][\A s \in Slots :
       Open(s) /\ owner_ob'[s] # owner_ob[s] => \E i \in DOMAIN releasing : releasing[i] = s]_vars

\* destruct_object closes the sockets of a flagged object only: every object
\* that comes to own a socket is flagged, but for those that acquire one.
OwnersFlagged ==
  [][\A s \in Slots :
       state'[s] # "CLOSED" /\ owner_ob'[s] \notin flagged'
       => /\ Open(s)
          /\ \/ owner_ob[s] = owner_ob'[s] /\ owner_ob[s] \notin flagged
             \/ release_ob[s] = owner_ob'[s]]_vars

\* Both buffers of a socket, their offsets and the flag that keeps input moving.
BuffersExact == TypeOK /\ OutputInOrder /\ InputInOrder /\ LinesFlagged

\* Who owns a socket came to it by socket_acquire in a release, or is flagged for
\* destruct_object.
OwnershipSound == HandedOver /\ OwnersFlagged

\* socket_close(3): "socket_close() closes socket s. This frees a socket efun
\* slot for use.": a close that is put off takes place.
CloseTakesPlace == \A s \in Slots : Is(s, "CLOSING") ~> ~Open(s)

-----------------------------------------------------------------------------
(* Fairness.  The driver goes on executing, every evaluation ends, and the *)
(* peer of a blocked socket reads: again and again select finds that it    *)
(* can be written to, and send() takes the rest.                           *)
FairSpec ==
  /\ Spec
  /\ WF_vars(Handler)
  /\ WF_vars(ReleaseReturns)
  /\ SF_vars(Returns \/ ClosedReturns \/ BrokenReturns \/ Throw)
  /\ SF_vars(Select)
  /\ \A s \in Slots : SF_vars(at = s /\ SendRest)
=============================================================================

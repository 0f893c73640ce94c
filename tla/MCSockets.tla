----------------------------- MODULE MCSockets -----------------------------
(* Instances of Sockets for TLC.                                           *)
EXTENDS Sockets, TLC

CONSTANTS o1, o2

\* Bounds of the data: the socket in slot 0 is written to, that in slot 1
\* receives; a single one does both.
MCMaxOut == [s \in 0 .. NumSocks - 1 |-> IF s = 0 THEN 2 ELSE 0]
MCMaxIn  == [s \in 0 .. NumSocks - 1 |-> IF s = 0 /\ NumSocks > 1 THEN 0 ELSE 2]
\* The socket in slot 1, or a single one, buffers its input, unless it was
\* accepted on one that does not.
MCModes  == [s \in 0 .. NumSocks - 1 |->
               IF s = 0 /\ NumSocks > 1 THEN {{"BUFFERED_OUTPUT"}}
               ELSE {{"BUFFERED_OUTPUT", "BUFFERED_INPUT"}}]
\* One socket_release at a time, of the socket in slot 0.
MCNested == [s \in 0 .. NumSocks - 1 |-> IF s = 0 THEN 1 ELSE 0]
\* Of a closed slot only this is ever read: whether handle_line_sockets comes
\* to it.  Its owner, the offer and its other flags and modes are dead until
\* socket_create or socket_accept sets them anew.
Seen(s, field) == IF Open(s) THEN field[s] ELSE Null
MCView ==
  <<state, [s \in Slots |-> <<Seen(s, owner_ob), Seen(s, release_ob), Seen(s, mode), Seen(s, flags),
                             Is(s, "MORE_LINES") /\ "BUFFERED_INPUT" \in mode[s]>>],
    output, input, objs, pc, ctx, loop, releasing>>
MCSymmetry == Permutations(Objects)
=============================================================================

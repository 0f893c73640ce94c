----------------------------- MODULE MCCallOut -----------------------------
(* Instances of CallOut for TLC.                                           *)
EXTENDS CallOut, TLC

CONSTANTS c1, c2, c3, c4, o1, o2, f1, f2

\* f1 and f2 belong to different objects
MCOwner == f1 :> o1 @@ f2 :> o2
\* every function belongs to o1
MCOneOwner == [f \in {f1, f2} \cap Functions |-> o1]
=============================================================================

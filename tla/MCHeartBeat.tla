---------------------------- MODULE MCHeartBeat ----------------------------
(* Instances of HeartBeat for TLC.                                         *)
EXTENDS HeartBeat

CONSTANTS o1, o2, o3
=============================================================================

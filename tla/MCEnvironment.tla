---------------------------- MODULE MCEnvironment ----------------------------
(* Instances of Environment for TLC.                                       *)
EXTENDS Environment

CONSTANTS o1, o2, o3

Few == <<0, 4, 3>>
Calls == [n \in 0 .. 3 |-> IF n = 0 THEN 0 ELSE Few[n]]
Symmetric == Permutations(Objects)
=============================================================================

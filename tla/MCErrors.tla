------------------------------ MODULE MCErrors ------------------------------
(* Instances of Errors for TLC.                                            *)
EXTENDS Errors

CONSTANTS o1, o2
=============================================================================

---------------------------- MODULE MCObjectList ----------------------------
(* Instances of ObjectList for TLC.                                        *)
EXTENDS ObjectList

CONSTANTS o1, o2, o3
=============================================================================

---------------------------- MODULE Containment ----------------------------
(***************************************************************************)
(* What move_object and destruct_object (src/src/simulate.c 1455 and 928)  *)
(* promise: objects inside objects, where a move changes the place of one  *)
(* object and never takes a thing inside itself, and only what is empty is *)
(* destructed.  Acyclic says that no set of objects is closed under going  *)
(* one step out, which needs no recursion.                                 *)
(***************************************************************************)
CONSTANTS Objects, NoObject   \* NoObject is none of Objects

VARIABLES exists, place
cvars == <<exists, place>>

Contains(o) == {p \in Objects : place[p] = o}

\* A set that is closed outwards, with the destination and without the object,
\* shows that the destination is not inside the object.
Outside(o, d) ==
  \E U \in SUBSET Objects :
    /\ d \in U /\ o \notin U
    /\ \A p \in U : place[p] \in U \cup {NoObject}

Acyclic ==
  \A S \in SUBSET Objects : S # {} => \E o \in S : place[o] \notin S

CInit ==
  /\ exists \in SUBSET Objects
  /\ place \in [Objects -> Objects \cup {NoObject}]
  /\ \A o \in Objects : place[o] # NoObject => {o, place[o]} \subseteq exists
  /\ Acyclic

Create(o) == o \notin exists /\ exists' = exists \cup {o} /\ UNCHANGED place

Move(o, d) ==
  /\ {o, d} \subseteq exists /\ Outside(o, d)
  /\ place' = [place EXCEPT ![o] = d] /\ UNCHANGED exists

Destroy(o) ==
  /\ o \in exists /\ Contains(o) = {}
  /\ exists' = exists \ {o} /\ place' = [place EXCEPT ![o] = NoObject]

CNext == \E o \in Objects : Create(o) \/ Destroy(o) \/ \E d \in Objects : Move(o, d)

CSpec == CInit /\ [][CNext]_cvars

\* A place is taken and given only by what exists, and nothing is inside itself.
Placed ==
  /\ exists \in SUBSET Objects
  /\ place \in [Objects -> Objects \cup {NoObject}]
  /\ \A o \in Objects : place[o] # NoObject => {o, place[o]} \subseteq exists
=============================================================================

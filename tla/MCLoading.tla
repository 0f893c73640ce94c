----------------------------- MODULE MCLoading ------------------------------
(* Instances of Loading for TLC.                                           *)
EXTENDS Loading

CONSTANTS n1, n2, n3, p1, p2, p3, p4, o1, o2

File(inherits, broken) == [inherits |-> inherits, broken |-> broken, exists |-> TRUE]
Missing == [inherits |-> <<>>, broken |-> FALSE, exists |-> FALSE]

Three(x, y, z) == (n1 :> x) @@ (n2 :> y) @@ (n3 :> z)
Base == File(<<>>, FALSE)
Addresses == Permutations(Progs) \cup Permutations(Objs)

\* a chain in a diamond, circles, errors and missing files
Shelves ==
  { Three(File(<<n2, n3>>, FALSE), File(<<n3>>, FALSE), Base),
    Three(File(<<n2>>, FALSE), File(<<n1>>, FALSE), Missing),
    Three(File(<<n2>>, TRUE), File(<<n3>>, FALSE), File(<<n1>>, FALSE)),
    Three(File(<<n2>>, TRUE), File(<<>>, TRUE), File(<<n3>>, FALSE)),
    Three(File(<<n2, n3>>, TRUE), Base, Missing) }
=============================================================================

----------------------------- MODULE MCDatabase -----------------------------
EXTENDS Database
\* Two keys that collide and one that follows them; a key and a value that fill two blocks.
MCHash == [k \in Keys |-> IF k = "c" THEN 1 ELSE 2]
MCLength == [x \in Keys \cup Values |-> IF x \in {"a", "long"} THEN 2 ELSE 1]
=============================================================================

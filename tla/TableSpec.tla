------------------------------ MODULE TableSpec ------------------------------
(***************************************************************************)
(* What LPC is promised of its mappings, without columns, orders and       *)
(* searches: each holds a bag of entries <<key, value>> and a default.  A  *)
(* key that stands once is a function's argument; where it stands several  *)
(* times an operation may meet any of its entries.  Whatever belongs to a  *)
(* destructed object is gone at once: its entries leave, its values are 0. *)
(***************************************************************************)
EXTENDS Integers, FiniteSets

CONSTANTS Names, Keys, Values, Nought,
          Owner(_),   \* the object a key or value is, or none
          Passes(_),  \* what filter_mapping keeps
          Mapped(_)   \* what map_mapping makes of a value
VARIABLES bag, default, gone, call

vars == <<bag, default, gone, call>>
Pairs == Keys \X Values

RECURSIVE Total(_, _, _)
Total(b, k, vs) == IF vs = {} THEN 0
                   ELSE LET v == CHOOSE x \in vs : TRUE IN b[<<k, v>>] + Total(b, k, vs \ {v})
CountOf(b, k) == Total(b, k, Values)
Plus(b, k, v) == [b EXCEPT ![<<k, v>>] = @ + 1]
Minus(b, k, v) == [b EXCEPT ![<<k, v>>] = @ - 1]
SubBag(b, c) == \A p \in Pairs : b[p] <= c[p]

\* An assignment overwrites one entry of the key or makes the first.
Set(n, k, v) ==
  /\ IF CountOf(bag[n], k) = 0 THEN bag' = [bag EXCEPT ![n] = Plus(@, k, v)]
     ELSE \E w \in Values : /\ bag[n][<<k, w>>] > 0
                            /\ bag' = [bag EXCEPT ![n] = Plus(Minus(@, k, w), k, v)]
  /\ UNCHANGED <<default, gone>>
\* m[k] as an lvalue makes the entry it does not find.
Touch(n, k) == CountOf(bag[n], k) = 0 /\ Set(n, k, default[n])
Delete(n, k) ==
  /\ IF CountOf(bag[n], k) = 0 THEN bag' = bag
     ELSE \E w \in Values : bag[n][<<k, w>>] > 0 /\ bag' = [bag EXCEPT ![n] = Minus(@, k, w)]
  /\ UNCHANGED <<default, gone>>
SetDefault(n, v) == default' = [default EXCEPT ![n] = v] /\ UNCHANGED <<bag, gone>>

Destruct(o) ==
  /\ gone' = gone \cup {o}
  /\ bag' = [n \in Names |-> [p \in Pairs |->
       IF Owner(p[1]) = o \/ Owner(p[2]) = o THEN 0
       ELSE IF p[2] # Nought THEN bag[n][p]
       ELSE bag[n][p] + CountOf([q \in Pairs |-> IF Owner(q[2]) = o THEN bag[n][q] ELSE 0], p[1])]]
  /\ default' = [n \in Names |-> IF Owner(default[n]) = o THEN Nought ELSE default[n]]

\* The new mapping keeps at least what differs from the default, which both lose.
Cleanup(n, r) ==
  /\ SubBag(bag'[r], bag[n])
  /\ \A p \in Pairs : p[2] # default[n] => bag'[r][p] = bag[n][p]
  /\ \A q \in Names \ {r} : bag'[q] = bag[q]
  /\ default' = [default EXCEPT ![n] = Nought, ![r] = Nought]
  /\ UNCHANGED gone

\* b holds of each key what the operator takes of the entries of x and y.
Larger(i, j) == IF i > j THEN i ELSE j
Smaller(i, j) == IF i < j THEN i ELSE j
Joins(op, x, y, b, k) ==
  LET i == CountOf(x, k) j == CountOf(y, k) c == CountOf(b, k)
      OfBoth == \A v \in Values : b[<<k, v>>] <= x[<<k, v>>] + y[<<k, v>>]
      OfX == \A v \in Values : b[<<k, v>>] <= x[<<k, v>>]
      AllY == \A v \in Values : y[<<k, v>>] <= b[<<k, v>>]
  IN CASE op = "or" -> c = Larger(i, j) /\ AllY /\ OfBoth
       [] op = "and" -> c = Smaller(i, j) /\ \A v \in Values : b[<<k, v>>] <= y[<<k, v>>]
       [] op = "xor" -> c = Larger(i, j) - Smaller(i, j) /\ OfBoth
       [] op = "sub" -> c = (IF j = 0 THEN i ELSE 0) /\ OfX
       [] op = "add" -> \A v \in Values : b[<<k, v>>] = x[<<k, v>>] + y[<<k, v>>]
Combine(op, n, m, r) ==
  /\ \A k \in Keys : Joins(op, bag[n], bag[m], bag'[r], k)
  /\ \A q \in Names \ {r} : bag'[q] = bag[q]
  /\ default' = [default EXCEPT ![r] = Nought]
  /\ UNCHANGED gone

\* The values of the entries that pass.
Filter(n, r) ==
  /\ bag' = [bag EXCEPT ![r] = [p \in Pairs |-> IF Passes(p[2]) THEN bag[n][p] ELSE 0]]
  /\ default' = [default EXCEPT ![r] = Nought]
  /\ UNCHANGED gone
\* The same keys, and a value of the function for each.
Map(n, r) ==
  /\ bag' = [bag EXCEPT ![r] = [p \in Pairs |->
               CountOf([q \in Pairs |-> IF Mapped(q[2]) = p[2] THEN bag[n][q] ELSE 0], p[1])]]
  /\ default' = [default EXCEPT ![r] = Nought]
  /\ UNCHANGED gone

\* A step does what the call asks for.
Next ==
  LET c == call'
  IN CASE c.do = "set" -> Set(c.on, c.key, c.value)
       [] c.do = "touch" -> Touch(c.on, c.key)
       [] c.do = "delete" -> Delete(c.on, c.key)
       [] c.do = "default" -> SetDefault(c.on, c.value)
       [] c.do = "destruct" -> Destruct(c.key)
       [] c.do = "cleanup" -> Cleanup(c.on, c.to)
       [] c.do = "filter" -> Filter(c.on, c.to)
       [] c.do = "map" -> Map(c.on, c.to)
       [] c.do \in {"or", "and", "xor", "sub", "add"} -> Combine(c.do, c.on, c.with, c.to)
       [] OTHER -> FALSE
Spec == [][Next]_vars      \* from any bags: m_aggregate() makes them
=============================================================================

------------------------------- MODULE Tables -------------------------------
(***************************************************************************)
(* Mappings in the variables of LPC code, as columns of the heap: an       *)
(* assignment, a deletion and a check work in place, everything else makes *)
(* a new mapping.  map_mapping() lets the new mapping share the keys of    *)
(* the old one; unless WritesShared, the code never again writes to either *)
(* while they do.                                                          *)
(***************************************************************************)
EXTENDS Alists

CONSTANTS Names, Keys, Values, Objects, Operators, ColumnIds, MaxEntries, WritesShared,
          MaxCalls                       \* bound on the calls of a behaviour
VARIABLES columns, maps, dead,
          call, calls                    \* the last call, and how many there were

tableVars == <<columns, maps, dead, call, calls>>
NoColumn == [item |-> <<>>, types |-> {}, room |-> 0]

Referenced(ms) == UNION {{ms[n].keys, ms[n].vals} : n \in Names}
Kept(cols, ms) == [i \in ColumnIds |-> IF i \in Referenced(ms) THEN cols[i] ELSE NoColumn]
View(n) == [keys |-> columns[maps[n].keys], vals |-> columns[maps[n].vals], def |-> maps[n].def]
Spare(ms) == CHOOSE i \in ColumnIds \ Referenced(ms) : \A j \in ColumnIds \ Referenced(ms) : i <= j

\* m written back where its columns are.
InPlace(cols, n, m) == [cols EXCEPT ![maps[n].keys] = m.keys, ![maps[n].vals] = m.vals]

\* A new mapping in the variable r; cols are the columns after the call.
Assigned(cols, r, m, olddefs) ==
  LET k == Spare(maps)
      v == CHOOSE i \in ColumnIds \ (Referenced(maps) \cup {k}) :
             \A j \in ColumnIds \ (Referenced(maps) \cup {k}) : i <= j
      ms == [n \in Names |-> IF n = r THEN [keys |-> k, vals |-> v, def |-> m.def]
                             ELSE [maps[n] EXCEPT !.def = olddefs[n]]]
  IN maps' = ms /\ columns' = Kept([cols EXCEPT ![k] = m.keys, ![v] = m.vals], ms)
Defaults == [n \in Names |-> maps[n].def]

Shared(n) == \E m \in Names \ {n} : maps[m].keys = maps[n].keys
MayWrite(n) == WritesShared \/ ~Shared(n)
Live(x) == Alive(x, dead) = x

Call(c) == calls < MaxCalls /\ calls' = calls + 1 /\ call' = c

\* assign() of an indexed lvalue: a column that must move leaves an empty one
\* to whoever else holds it.
Insert(n, key, x) ==
  LET r == InsertAlist(View(n), key, x)
      k == IF r.keys.moved THEN Spare(maps) ELSE maps[n].keys
      ms == [maps EXCEPT ![n].keys = k]
  IN /\ maps' = ms
     /\ columns' = Kept([columns EXCEPT ![maps[n].keys] = r.keys.old, ![k] = r.keys.new,
                                        ![maps[n].vals] = r.vals.new], ms)
SetIndex(n, key, x) ==
  /\ MayWrite(n) /\ Live(key) /\ Live(x)
  /\ Len(View(n).keys.item) < MaxEntries \/ Assoc(key, View(n).keys.item) >= 0
  /\ Insert(n, key, x)
  /\ Call([do |-> "set", on |-> n, key |-> key, value |-> x])
  /\ UNCHANGED dead

\* resolv_lvalue(): ++ and += make the entry they do not find, with the default.
ResolvIndex(n, key) ==
  /\ MayWrite(n) /\ Live(key)
  /\ Len(View(n).keys.item) < MaxEntries
  /\ Assoc(key, View(n).keys.item) = -1
  /\ Insert(n, key, Alive(maps[n].def, dead))
  /\ Call([do |-> "touch", on |-> n, key |-> key])
  /\ UNCHANGED dead

\* f_m_delete()
DeleteIndex(n, key) ==
  LET c == CheckAlist(View(n), dead) IN
  /\ MayWrite(n) /\ Live(key)
  /\ columns' = InPlace(columns, n, RemoveMapping(c, key))
  /\ maps' = [maps EXCEPT ![n].def = c.def]
  /\ Call([do |-> "delete", on |-> n, key |-> key])
  /\ UNCHANGED dead

SetDefault(n, x) ==
  /\ Live(x)
  /\ maps' = [maps EXCEPT ![n].def = x]
  /\ Call([do |-> "default", on |-> n, value |-> x])
  /\ UNCHANGED <<columns, dead>>

Destruct(o) ==
  /\ o \notin dead
  /\ dead' = dead \cup {o}
  /\ Call([do |-> "destruct", key |-> o])
  /\ UNCHANGED <<columns, maps>>

\* f_m_cleanup() and f_filter_mapping(); r takes the result.
MakeNew(n, r, result, how) ==
  /\ MayWrite(n)
  /\ Call([do |-> how, on |-> n, to |-> r])
  /\ Assigned(InPlace(columns, n, result.old), r, result.new, [Defaults EXCEPT ![n] = result.old.def])
  /\ UNCHANGED dead
Cleanup(n, r) == MakeNew(n, r, CleanupMap(View(n), dead), "cleanup")
Filter(n, r) == LET self == [x \in ValuesIn(View(n).vals, dead) |-> x]
                IN MakeNew(n, r, FilterMapping(View(n), self, dead), "filter")

\* f_map_mapping(): the keys are those of n, not a copy.
Doubled(x) == IF x.t = Number THEN Num(1 - x.v) ELSE x
MapValues(n, r) ==
  LET c == CheckAlist(View(n), dead)
      v == Spare(maps)
      doubled == [x \in ValuesIn(c.vals, dead) |-> Doubled(x)]
      ms == [maps EXCEPT ![n].def = c.def, ![r] = [keys |-> maps[n].keys, vals |-> v, def |-> Zero]]
  IN /\ n # r /\ MayWrite(n)
     /\ Call([do |-> "map", on |-> n, to |-> r])
     /\ maps' = ms
     /\ columns' = Kept([InPlace(columns, n, c) EXCEPT ![v] = MapArray(c.vals, "function", doubled, dead)], ms)
     /\ UNCHANGED dead

\* The operators: + looks for destructed objects everywhere, the others only
\* in the defaults (- not even there).
Code(op) == CASE op = "or" -> Or [] op = "and" -> And [] op = "xor" -> Xor [] op = "sub" -> Sub [] op = "add" -> Add
Combine(op, n, m, r) ==
  LET Checked(q) == CASE op = "add" -> CheckAlist(View(q), dead)
                      [] op = "sub" -> View(q)
                      [] OTHER -> CheckDefault(View(q), dead)
      new == MappingSurgery(Checked(n), Checked(m), Code(op))
      cols == [InPlace(columns, n, Checked(n)) EXCEPT ![maps[m].keys] = Checked(m).keys,
                                                      ![maps[m].vals] = Checked(m).vals]
  IN /\ op = "add" => MayWrite(n) /\ MayWrite(m)
     /\ Len(new.keys.item) <= MaxEntries
     /\ Call([do |-> op, on |-> n, with |-> m, to |-> r])
     /\ Assigned(cols, r, new, [Defaults EXCEPT ![n] = Checked(n).def, ![m] = Checked(m).def])
     /\ UNCHANGED dead

\* Each variable starts with what m_aggregate() made of some pairs.
TableInit(start) ==
  LET order == CHOOSE s \in [1..Cardinality(Names) -> Names] : \A n \in Names : \E i \in DOMAIN s : s[i] = n
      at == [n \in Names |-> CHOOSE i \in DOMAIN order : order[i] = n]
  IN /\ dead = {} /\ calls = 0 /\ call = [do |-> "none"]
     /\ maps = [n \in Names |-> [keys |-> 2 * at[n] - 1, vals |-> 2 * at[n], def |-> Zero]]
     /\ columns = [i \in ColumnIds |->
          IF i > 2 * Cardinality(Names) THEN NoColumn
          ELSE LET m == start[order[(i + 1) \div 2]]
               IN IF i % 2 = 1 THEN m.keys ELSE m.vals]
TableNext ==
  \/ \E n \in Names, k \in Keys, x \in Values : SetIndex(n, k, x)
  \/ \E n \in Names, k \in Keys : ResolvIndex(n, k)
  \/ \E n \in Names, k \in Keys : DeleteIndex(n, k)
  \/ \E n \in Names, x \in Values : SetDefault(n, x)
  \/ \E o \in Objects : Destruct(o)
  \/ \E n, r \in Names : Cleanup(n, r)
  \/ \E n, r \in Names : Filter(n, r)
  \/ \E n, r \in Names : MapValues(n, r)
  \/ \E op \in Operators, n, m, r \in Names : Combine(op, n, m, r)

-----------------------------------------------------------------------------
\* What the variables hold, seen from LPC: TableSpec's bags.
OwnerOf(x) == IF x.t = Object THEN x.v ELSE -1
NotZero(x) == ~IsZero(x)
BagOf(n) ==
  LET m == View(n) IN
  [p \in Keys \X Values |->
     IF ~Live(p[1]) \/ ~Live(p[2]) THEN 0
     ELSE Cardinality({i \in DOMAIN m.keys.item : m.keys.item[i] = p[1] /\ Alive(m.vals.item[i], dead) = p[2]})]
Abstract == INSTANCE TableSpec WITH
  Nought <- Zero, Owner <- OwnerOf, Passes <- NotZero, Mapped <- Doubled,
  bag <- [n \in Names |-> BagOf(n)], default <- [n \in Names |-> Alive(maps[n].def, dead)], gone <- dead
=============================================================================

------------------------------ MODULE Database ------------------------------
(***************************************************************************)
(* The database of db_set() and db_get() (dbase.c): a file of blocks with  *)
(* a header, a hash table, a file of blocks for every key and value, and   *)
(* the link table, which gives each block 0 when it is free, the block     *)
(* that follows in its file, or End.  What is changed goes to free blocks  *)
(* only, and the header that makes it count is written last.               *)
(*                                                                         *)
(* A call computes its effect in memory and the list of its writes (todo); *)
(* every write is a step, and the driver may die before any of them.       *)
(***************************************************************************)
EXTENDS Integers, Sequences, FiniteSets

CONSTANTS Keys, Values,
          Hash,              \* [Keys -> Nat]
          Length,            \* [Keys \cup Values -> blocks]
          LinksPerBlock, EntriesPerBlock, BUFFER,
          CrashesAnywhere,   \* FALSE: not while another file lies in the saved link table
          MaxCalls           \* bound on the calls of a behaviour
ASSUME SizesAssumption == LinksPerBlock > 3 /\ EntriesPerBlock > 0 /\ BUFFER > 0

VARIABLES
  disk,      \* [stage, block0, blocks]: what survives the driver
  mem,       \* the open dbase, or Closed
  todo,      \* the writes the call that runs has still to do
  then,      \* what follows them: the dbase stays open or is closed
  content,   \* ghost: what the calls made of the database
  synced,    \* ghost: the content when the header was last written
  calls
vars == <<disk, mem, todo, then, content, synced, calls>>

End == -1
Junk == -2               \* read from a block that holds something else
None == "none"
Closed == [open |-> FALSE]
Nothing == [k \in Keys |-> None]
NoBlocks == [b \in {} |-> None]
Complete == 5            \* stages of create_database()

\* Blocks of several writes, the later ones on top.
Over(f, g) == [b \in DOMAIN f \cup DOMAIN g |-> IF b \in DOMAIN g THEN g[b] ELSE f[b]]
RECURSIVE Done(_, _)
Done(d, writes) ==
  IF writes = <<>> THEN d
  ELSE Done(IF writes[1].kind = "block0" THEN [d EXCEPT !.block0 = writes[1].header]
            ELSE IF writes[1].kind = "create" THEN [d EXCEPT !.stage = @ + 1, !.blocks = Over(@, writes[1].blocks)]
            ELSE [d EXCEPT !.blocks = Over(@, writes[1].blocks)], Tail(writes))

-----------------------------------------------------------------------------
(* Reading                                                                  *)

BlockAt(d, b) == IF b \in DOMAIN d.blocks THEN d.blocks[b] ELSE [kind |-> "none"]
\* A file of n blocks from ptr on; Junk when the links lead astray.
RECURSIVE ReadFile(_, _, _, _)
ReadFile(d, links, ptr, n) ==
  IF n = 0 THEN <<>>
  ELSE IF ptr \notin DOMAIN links THEN <<[kind |-> "none"]>>
  ELSE <<BlockAt(d, ptr)>> \o ReadFile(d, links, links[ptr], n - 1)
FileData(what) == [i \in 1..Length[what] |-> [kind |-> "data", of |-> what, part |-> i]]
Contains(d, links, file, what) == file.len = Length[what] /\ ReadFile(d, links, file.ptr, file.len) = FileData(what)

ReadLinktable(d) ==
  [b \in 0..(d.block0.links.len * LinksPerBlock - 1) |->
     LET block == BlockAt(d, d.block0.links.ptr + (b \div LinksPerBlock))
     IN IF block.kind = "links" THEN block.links[b % LinksPerBlock] ELSE Junk]

FreeEntry == [hash |-> End, key |-> [ptr |-> End, len |-> End], data |-> [ptr |-> End, len |-> End]]
Blocks(n, per) == (n + per - 1) \div per
ReadHashtable(d, links) ==
  LET file == d.block0.table
      blocks == ReadFile(d, links, file.ptr, Blocks(file.len, EntriesPerBlock))
  IN [p \in 0..(file.len - 1) |->
        LET i == (p \div EntriesPerBlock) + 1
        IN IF i \in DOMAIN blocks /\ blocks[i].kind = "table" THEN blocks[i].table[p % EntriesPerBlock] ELSE FreeEntry]

Probe(p, n) == [i \in 1..n |-> (p + i - 1) % n]
FirstAt(probe, slots) ==
  LET at == {i \in DOMAIN probe : probe[i] \in slots} IN IF at = {} THEN -1 ELSE probe[CHOOSE i \in at : \A j \in at : i <= j]
FindKeyStopping(d, m, key) ==
  LET p == FirstAt(Probe(Hash[key], Cardinality(DOMAIN m.table)),
                   {q \in DOMAIN m.table : m.table[q].key.len = End \/ Contains(d, m.links, m.table[q].key, key)})
  IN IF p >= 0 /\ m.table[p].key.len = End THEN -1 ELSE p
FindKey(d, m, key) ==
  LET n == Cardinality(DOMAIN m.table)
      same == {p \in DOMAIN m.table : m.table[p].hash = Hash[key]}
  IN FirstAt(Probe(Hash[key], n), {p \in same : Contains(d, m.links, m.table[p].key, key)})

\* get_database_entry() and count_database_entries()
GetEntry(d, m, key) ==
  LET p == FindKey(d, m, key)
      is == {v \in Values : Contains(d, m.links, m.table[p].data, v)}
  IN IF p < 0 THEN None ELSE IF is = {} THEN Junk ELSE CHOOSE v \in is : TRUE
CountEntries(m) == Cardinality({p \in DOMAIN m.table : m.table[p].key.len >= 0})
Holds(d, m) == [k \in Keys |-> GetEntry(d, m, k)]

\* What open_database() and read_hashtable() make of the disk.
OpenDatabase(d) ==
  [open |-> TRUE, links |-> ReadLinktable(d), table |-> NoBlocks, block0 |-> d.block0,
   flags |-> {}, free |-> <<>>, counter |-> 0]
WithTable(d, m) == IF DOMAIN m.table = {} THEN [m EXCEPT !.table = ReadHashtable(d, m.links)] ELSE m
Recovered(d) == Holds(d, WithTable(d, OpenDatabase(d)))

-----------------------------------------------------------------------------
(* Writing: w is a dbase and the writes so far                              *)

FreeBlocks(links) == {b \in DOMAIN links : links[b] = 0}
MoreLinksShort(links) == [b \in 0..(2 * Cardinality(DOMAIN links) - 2) |-> IF b \in DOMAIN links THEN links[b] ELSE 0]
MoreLinks(links) == [b \in 0..(2 * Cardinality(DOMAIN links) - 1) |-> IF b \in DOMAIN links THEN links[b] ELSE 0]
RECURSIVE FirstFree(_, _)
FirstFree(free, n) ==
  IF n = 0 THEN <<>>
  ELSE LET b == CHOOSE x \in free : \A y \in free : x <= y IN <<b>> \o FirstFree(free \ {b}, n - 1)
Chained(links, chain) ==
  [b \in DOMAIN links |->
     IF \E i \in DOMAIN chain : chain[i] = b
     THEN LET i == CHOOSE j \in DOMAIN chain : chain[j] = b
          IN IF i = Len(chain) THEN End ELSE chain[i + 1]
     ELSE links[b]]

\* write_file(): the first free blocks; ptr is where the file begins.
RECURSIVE WriteFile(_, _)
WriteFile(w, data) ==
  LET free == FreeBlocks(w.m.links)
      chain == FirstFree(free, Len(data))
      block == [b \in {chain[i] : i \in DOMAIN chain} |-> data[CHOOSE i \in DOMAIN chain : chain[i] = b]]
  IN IF Cardinality(free) < Len(data) THEN WriteFile([w EXCEPT !.m.links = MoreLinks(@)], data)
     ELSE [m |-> [w.m EXCEPT !.links = Chained(@, chain), !.flags = @ \cup {"links"}],
           writes |-> w.writes \o [i \in DOMAIN chain |->
                        [kind |-> "file", blocks |-> [b \in {chain[i]} |-> block[b]]]],
           ptr |-> IF chain = <<>> THEN End ELSE chain[1]]

RECURSIVE FreeFile(_, _)
FreeFile(links, ptr) ==
  IF ptr \notin DOMAIN links THEN links ELSE FreeFile([links EXCEPT ![ptr] = 0], links[ptr])
RECURSIVE FreeFiles(_, _)
FreeFiles(links, ptrs) == IF ptrs = <<>> THEN links ELSE FreeFiles(FreeFile(links, ptrs[1]), Tail(ptrs))

TableBlocks(table) ==
  LET n == Cardinality(DOMAIN table)
  IN [i \in 1..Blocks(n, EntriesPerBlock) |->
        [kind |-> "table",
         table |-> [p \in 0..(EntriesPerBlock - 1) |->
                      IF (i - 1) * EntriesPerBlock + p < n THEN table[(i - 1) * EntriesPerBlock + p] ELSE FreeEntry]]]
WriteHashtableOnly(w) ==
  LET f == WriteFile(w, TableBlocks(w.m.table))
  IN [f EXCEPT !.m.block0.table = [ptr |-> f.ptr, len |-> Cardinality(DOMAIN w.m.table)],
               !.m.flags = (@ \ {"table"}) \cup {"block0"}]
WriteHashtable(w) ==
  LET f == WriteFile(w, TableBlocks(w.m.table))
  IN [f EXCEPT !.m.free = Append(@, w.m.block0.table.ptr),
               !.m.block0.table = [ptr |-> f.ptr, len |-> Cardinality(DOMAIN w.m.table)],
               !.m.flags = (@ \ {"table"}) \cup {"block0"}]

\* save_linktable(): blocks in a row, whose number is not counted anew when
\* the table had to grow to find them; then the files given back are free.
RECURSIVE Row(_, _)
Row(links, needed) ==
  LET places == {e \in 0..(Cardinality(DOMAIN links) - needed - 1) : \A q \in 0..(needed - 1) : links[e + q] = 0}
  IN IF places = {} THEN Row(MoreLinks(links), needed)
     ELSE [links |-> links, at |-> CHOOSE e \in places : \A f \in places : e <= f]
AllocateLinks(w) ==
  LET needed == Cardinality(DOMAIN w.m.links) \div LinksPerBlock
      row == Row(w.m.links, needed)
      links == FreeFiles(Chained(row.links, [q \in 1..needed |-> row.at + q - 1]), Append(w.m.free, w.m.block0.links.ptr))
  IN [w EXCEPT !.m.links = links, !.m.free = <<>>,
               !.m.block0.links = [ptr |-> row.at, len |-> Cardinality(DOMAIN links) \div LinksPerBlock]]
SaveLinktable(w) ==
  LET v == IF "unsaved" \in w.m.flags THEN w ELSE AllocateLinks(w)
      at == v.m.block0.links.ptr
      n == Cardinality(DOMAIN v.m.links) \div LinksPerBlock
      blocks == [b \in at..(at + n - 1) |->
                   [kind |-> "links", links |-> [q \in 0..(LinksPerBlock - 1) |-> v.m.links[(b - at) * LinksPerBlock + q]]]]
  IN [v EXCEPT !.writes = Append(@, [kind |-> "links", blocks |-> blocks]),
               !.m.flags = (@ \ {"links", "unsaved"}) \cup {"block0"}]
SaveBlock0(w) == [w EXCEPT !.writes = Append(@, [kind |-> "block0", header |-> w.m.block0]), 
                           !.m.flags = @ \ {"block0", "failed"}]
SyncHeaderFirst(w) ==
  LET h == IF "table" \in w.m.flags THEN WriteHashtable(w) ELSE w
      l == IF "links" \in h.m.flags THEN SaveLinktable(h) ELSE h
      n == Len(l.writes)
      b == IF "block0" \in l.m.flags /\ n > 0
           THEN [SaveBlock0(l) EXCEPT !.writes = SubSeq(@, 1, n - 1) \o <<@[n + 1], @[n]>>] ELSE l
  IN [b EXCEPT !.m.counter = 0]

\* sync_database(), as it ends when every write succeeds.
SyncDatabase(w) ==
  LET h == IF "table" \in w.m.flags THEN WriteHashtable(w) ELSE w
      l == IF "links" \in h.m.flags THEN SaveLinktable(h) ELSE h
      b == IF "block0" \in l.m.flags THEN SaveBlock0(l) ELSE l
  IN [b EXCEPT !.m.counter = 0]
SpuriousSync(w) ==
  IF Len(w.m.free) > BUFFER \/ w.m.counter + 1 > BUFFER THEN SyncDatabase([w EXCEPT !.m.counter = @ + 1])
  ELSE [w EXCEPT !.m.counter = @ + 1]

\* add_key(): a full table is moved to one of twice the size.
RECURSIVE Rehashed(_, _, _)
Rehashed(old, new, f) ==
  LET n == Cardinality(DOMAIN new)
      free == {p \in DOMAIN new : new[p].key.len = End}
  IN IF f \notin DOMAIN old THEN new
     ELSE Rehashed(old, [new EXCEPT ![FirstAt(Probe(old[f].hash, n), free)] = old[f]], f + 1)
RECURSIVE AddKey(_, _)
AddKey(w, key) ==
  LET table == w.m.table
      n == Cardinality(DOMAIN table)
      free == {p \in DOMAIN table : table[p].key.len = End}
      p == FirstAt(Probe(Hash[key], n), free)
      f == WriteFile(w, FileData(key))
  IN IF p = -1
     THEN AddKey([w EXCEPT !.m.table = Rehashed(table, [q \in 0..(2 * n - 1) |-> FreeEntry], 0)], key)
     ELSE [at |-> p,
           w |-> [f EXCEPT !.m.table[p] = [FreeEntry EXCEPT !.hash = Hash[key],
                                            !.key = [ptr |-> f.ptr, len |-> Length[key]]]]]

\* set_database_entry() and remove_database_entry()
SetEntry(m, key, value) ==
  LET f == WriteFile([m |-> m, writes |-> <<>>, ptr |-> 0], FileData(value))
      file == [ptr |-> f.ptr, len |-> Length[value]]
      found == FindKey(Done(disk, f.writes), f.m, key)
      added == AddKey(f, key)
      old == [f EXCEPT !.m.free = Append(@, f.m.table[found].data.ptr), !.m.table[found].data = file]
      new == [added.w EXCEPT !.m.table[added.at].data = file]
      w == IF found < 0 THEN new ELSE old
  IN SpuriousSync([w EXCEPT !.m.flags = @ \cup {"table"}])
RemoveEntry(m, key) ==
  LET p == FindKey(disk, m, key)
      w == [m |-> [m EXCEPT !.free = @ \o <<m.table[p].data.ptr, m.table[p].key.ptr>>,
                            !.table[p].key = FreeEntry.key, !.flags = @ \cup {"table"}],
            writes |-> <<>>, ptr |-> 0]
  IN IF p < 0 THEN [m |-> m, writes |-> <<>>, ptr |-> 0] ELSE SpuriousSync(w)

-----------------------------------------------------------------------------
(* Actions                                                                  *)

Idle == todo = <<>> /\ then = None
Call == Idle /\ calls < MaxCalls /\ calls' = calls + 1
Loaded == WithTable(disk, mem)
\* read_hashtable() does no call until what failed has been done again.
Ready == mem.open /\ mem.flags \cap {"unsaved", "failed"} = {} /\ disk.stage = Complete
Run(w, next) == mem' = w.m /\ todo' = w.writes /\ then' = next /\ UNCHANGED <<disk, synced>>

DbSet(key, value) ==
  /\ Call /\ Ready
  /\ Run(SetEntry(Loaded, key, value), "open")
  /\ content' = [content EXCEPT ![key] = value]
DbDelete(key) ==
  /\ Call /\ Ready
  /\ Run(RemoveEntry(Loaded, key), "open")
  /\ content' = [content EXCEPT ![key] = None]

\* do_sync_database(), and any call after a failure.
Sync ==
  /\ Idle /\ mem.open /\ mem.flags # {}
  /\ Run(SyncDatabase([m |-> mem, writes |-> <<>>, ptr |-> 0]), "open")
  /\ UNCHANGED <<content, calls>>
\* do_close_database()
Close ==
  /\ Call /\ mem.open
  /\ Run(SyncDatabase([m |-> mem, writes |-> <<>>, ptr |-> 0]), "close")
  /\ UNCHANGED content

RECURSIVE Chain(_, _, _)
Chain(links, ptr, n) ==
  IF n = 0 \/ ptr \notin DOMAIN links THEN <<>> ELSE <<ptr>> \o Chain(links, links[ptr], n - 1)
\* The saved link table lies in blocks of its own.
LinksKept ==
  LET links == ReadLinktable(disk)
  IN /\ \A b \in DOMAIN links : links[b] # Junk
     /\ Len(Chain(links, disk.block0.links.ptr, disk.block0.links.len)) = disk.block0.links.len
\* Where the driver may forget what is in memory.
MayForget == CrashesAnywhere \/ disk.stage < Complete \/ LinksKept

Write ==
  /\ todo # <<>>
  /\ disk' = Done(disk, <<todo[1]>>)
  /\ todo' = Tail(todo)
  /\ synced' = IF todo[1].kind = "block0" THEN content ELSE synced
  /\ UNCHANGED <<mem, then, content, calls>>
\* The last step of a call.
Finish ==
  /\ todo = <<>> /\ then # None
  /\ mem' = IF then = "close" THEN Closed ELSE mem
  /\ content' = IF then = "close" THEN synced ELSE content
  /\ then' = None
  /\ UNCHANGED <<disk, todo, synced, calls>>

\* A write of the link table or the header fails, or one of a new file's; the
\* call returns 0, and a dbase that was to be closed is forgotten.
FailWrite ==
  /\ todo # <<>> /\ todo[1].kind \in {"links", "block0", "create"}
  /\ then = "close" => MayForget
  /\ mem' = IF then = "close" THEN Closed
            ELSE [mem EXCEPT !.flags = IF todo[1].kind = "links" THEN {"links", "unsaved", "block0"} ELSE {"block0", "failed"}]
  /\ content' = IF then = "close" THEN synced ELSE content
  /\ todo' = <<>> /\ then' = None
  /\ UNCHANGED <<disk, synced, calls>>

\* open_database() or create_database(); a file that was begun and not
\* finished can be neither opened nor made.
Header == [links |-> [ptr |-> 1, len |-> 1], table |-> [ptr |-> 2, len |-> EntriesPerBlock]]
CreateWrites ==
  LET links == [q \in 0..(LinksPerBlock - 1) |-> IF q < 3 THEN End ELSE 0]
      table == [p \in 0..(EntriesPerBlock - 1) |-> FreeEntry]
  IN <<[kind |-> "create", blocks |-> NoBlocks], [kind |-> "create", blocks |-> NoBlocks],
       [kind |-> "create", blocks |-> [b \in {1} |-> [kind |-> "links", links |-> links]]],
       [kind |-> "create", blocks |-> [b \in {2} |-> [kind |-> "table", table |-> table]]]>>
Create ==
  /\ Call /\ ~mem.open /\ disk.stage = 0
  /\ disk' = [disk EXCEPT !.stage = 1]
  /\ todo' = CreateWrites /\ then' = "close"
  /\ UNCHANGED <<mem, content, synced>>
Open ==
  /\ Idle /\ ~mem.open /\ disk.stage = Complete
  /\ mem' = OpenDatabase(disk)
  /\ UNCHANGED <<disk, todo, then, content, synced, calls>>
\* rm() closes the database first.
Remove ==
  /\ Call /\ ~mem.open /\ disk.stage > 0
  /\ disk' = [stage |-> 0, block0 |-> Header, blocks |-> NoBlocks]
  /\ content' = Nothing /\ synced' = Nothing
  /\ UNCHANGED <<mem, todo, then>>

Crash ==
  /\ mem.open \/ then # None
  /\ MayForget
  /\ mem' = Closed /\ todo' = <<>> /\ then' = None
  /\ content' = synced
  /\ UNCHANGED <<disk, synced, calls>>

Init ==
  /\ disk = [stage |-> 0, block0 |-> Header, blocks |-> NoBlocks]
  /\ mem = Closed /\ todo = <<>> /\ then = None
  /\ content = Nothing /\ synced = Nothing /\ calls = 0
Next ==
  \/ \E k \in Keys, v \in Values : DbSet(k, v)
  \/ \E k \in Keys : DbDelete(k)
  \/ Sync \/ Close \/ Write \/ Finish \/ FailWrite \/ Create \/ Open \/ Remove \/ Crash
Spec == Init /\ [][Next]_vars

-----------------------------------------------------------------------------
(* Properties                                                               *)

\* The dbase and the disk keep their form: tables and link tables are as long
\* as their headers say (struct dbase_s, struct block0).
TypeOK ==
  /\ disk.stage \in 0..Complete
  /\ mem.open => /\ DOMAIN mem.links = 0..(Cardinality(DOMAIN mem.links) - 1)
                 /\ Cardinality(DOMAIN mem.links) % LinksPerBlock = 0
                 /\ \A b \in DOMAIN mem.links : mem.links[b] \in DOMAIN mem.links \cup {End}
                 /\ Cardinality(DOMAIN mem.table) % EntriesPerBlock = 0
                 /\ Len(mem.free) <= BUFFER + 9
  /\ then \in {None, "open", "close"}

\* Whatever moment the driver dies at, between two writes of a call too, the
\* file opens with all that was there when a header was last written: only
\* the last entries can disappear (dbase.c:2).
CrashProof == disk.stage = Complete /\ LinksKept => Recovered(disk) = synced

\* Between calls the open dbase holds what the calls made of it, hash chains
\* broken by deletions and tables moved to twice the size included.
HoldsContent ==
  Idle /\ mem.open => /\ Holds(disk, Loaded) = content
                      /\ CountEntries(Loaded) = Cardinality({k \in Keys : content[k] # None})

\* No block is in two files, or in a file and free, and no block is lost:
\* the files of the table, the files still to be freed and the header
\* account for every block (free_file(), save_linktable()).
BlocksAccounted ==
  Idle /\ mem.open =>
    LET table == Loaded.table
        n == Cardinality(DOMAIN mem.links)
        used == {p \in DOMAIN table : table[p].key.len # End}
        ptrs == {[of |-> <<"key", p>>, ptr |-> table[p].key.ptr] : p \in used}
                \cup {[of |-> <<"data", p>>, ptr |-> table[p].data.ptr] : p \in used}
                \cup {[of |-> <<"free", i>>, ptr |-> mem.free[i]] : i \in DOMAIN mem.free}
                \cup {[of |-> <<"links">>, ptr |-> mem.block0.links.ptr], [of |-> <<"table">>, ptr |-> mem.block0.table.ptr],
                      [of |-> <<"block0">>, ptr |-> 0]}
        chain == [f \in ptrs |-> LET c == Chain(mem.links, f.ptr, n) IN {c[i] : i \in DOMAIN c}]
    IN /\ \A f, g \in ptrs : f # g => chain[f] \cap chain[g] = {}
       /\ UNION {chain[f] : f \in ptrs} = DOMAIN mem.links \ FreeBlocks(mem.links)

\* The open dbase: its form, its content and where its blocks are.
StoreSound == TypeOK /\ HoldsContent /\ BlocksAccounted
=============================================================================

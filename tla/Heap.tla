-------------------------------- MODULE Heap --------------------------------
(***************************************************************************)
(* The allocator smalloc.c, one of the three the driver can be built with, *)
(* and xalloc() (main.c) above it.  Memory is a row of words.  A block     *)
(* begins with a word that holds its size and whether it and the block     *)
(* before it are in use; a free block ends with its size and links itself  *)
(* into free_list.  Small blocks are cut from chunks, which are large      *)
(* blocks, and never joined again.  Sizes are in words.                    *)
(***************************************************************************)
EXTENDS Integers, Sequences, FiniteSets

CONSTANTS SMALL_BLOCK_MAX, SMALL_CHUNK, CHUNK,
          MemorySize,          \* what brk() grants
          Reserve,             \* RESERVED_SIZE
          Requests,            \* the sizes the driver asks for
          MaxAllocations       \* bound on the calls of a behaviour
\* A free block has room for its two links and its two sizes; the code cares
\* for that where it splits a free block, not where it splits a new chunk.
ASSUME HeapAssumption ==
  /\ SMALL_BLOCK_MAX >= 3 /\ SMALL_CHUNK > SMALL_BLOCK_MAX
  /\ \A w \in Requests \cup {Reserve} : CHUNK - (w + 1) \notin 1..3

VARIABLES heap, given,         \* the memory; ghost: what the driver wrote into each block it has
          driver,              \* reserved_area (0: none), whether the driver is up, bound
          xallocs
heapVars == <<heap, given, driver, xallocs>>

Word(n) == [n |-> n, prev |-> FALSE, this |-> FALSE]
Small == 1..SMALL_BLOCK_MAX
Ends(h, p) == p + h.word[p].n                     \* l_next_block()

RECURSIVE Linked(_, _)
Linked(h, p) == IF p = 0 THEN <<>> ELSE <<p>> \o Linked(h, h.word[p + 1].n)
RemoveFromFreeList(h, p) ==
  LET next == h.word[p + 1].n
      prev == h.word[p + 2].n
      out == IF prev = 0 THEN [h EXCEPT !.free_list = next] ELSE [h EXCEPT !.word[prev + 1] = Word(next)]
  IN IF next = 0 THEN out ELSE [out EXCEPT !.word[next + 2] = Word(prev)]
AddToFreeList(h, p) ==
  LET first == h.free_list
      back == IF first = 0 THEN h ELSE [h EXCEPT !.word[first + 2] = Word(p)]
  IN [back EXCEPT !.word[p + 1] = Word(first), !.word[p + 2] = Word(0), !.free_list = p]

BuildBlockKeepingMark(h, p, size) ==
  [h EXCEPT !.word[p] = [Word(size) EXCEPT !.prev = h.word[p].prev], !.word[p + size - 1] = Word(size)]
BuildBlock(h, p, size) ==
  [h EXCEPT !.word[p] = [Word(size) EXCEPT !.prev = h.word[p].prev],
            !.word[p + size - 1] = Word(size), !.word[p + size].prev = FALSE]
MarkBlock(h, p) == [h EXCEPT !.word[Ends(h, p)].prev = TRUE, !.word[p].this = TRUE]

\* The block a search of free_list takes: a perfect fit, or the last of the
\* smallest whose rest is larger than any small block.
Fit(h, size) ==
  LET list == Linked(h, h.free_list)
      Has(i) == h.word[list[i]].n
      perfect == {i \in DOMAIN list : Has(i) = size}
      wide == {i \in DOMAIN list : Has(i) >= size + SMALL_BLOCK_MAX + 1}
  IN IF perfect # {} THEN list[CHOOSE i \in perfect : \A j \in perfect : i <= j]
     ELSE IF wide = {} THEN 0
     ELSE list[CHOOSE i \in wide : \A j \in wide : Has(i) < Has(j) \/ (Has(i) = Has(j) /\ i >= j)]

\* More memory from brk(), as one free block that begins in the last word of
\* the memory before it; at = 0 when there is none.
Started(h) ==
  IF h.start_next_block # 0 \/ h.brk + 1 > MemorySize THEN h
  ELSE [h EXCEPT !.brk = @ + 1, !.start_next_block = h.brk + 1, !.word[h.brk + 1].prev = TRUE]
Grown(h, size, force) ==
  LET chunk == IF force \/ size > CHUNK THEN size ELSE CHUNK
      Ended(more, end) == [more EXCEPT !.word[end] = [Word(0) EXCEPT !.this = TRUE]]
      Added(s) == AddToFreeList(Ended(BuildBlock([s EXCEPT !.brk = @ + chunk], s.brk, chunk), s.brk + chunk), s.brk)
      More(s) == IF s.start_next_block = 0 \/ s.brk + chunk > MemorySize THEN [h |-> s, at |-> 0]
                 ELSE [h |-> Added(s), at |-> s.brk]
  IN More(Started(h))

LargeMalloc(h, words, force) ==
  LET size == words + 1
      Split(out, at, rest) == BuildBlock(AddToFreeList(BuildBlock(out, at + size, rest), at + size), at, size)
      Fitted(out, at) == IF out.word[at].n = size THEN out ELSE Split(out, at, out.word[at].n - size)
      From(f) == IF f.at = 0 THEN f
                 ELSE [h |-> MarkBlock(Fitted(RemoveFromFreeList(f.h, f.at), f.at), f.at), at |-> f.at + 1]
      Found(p) == IF p # 0 THEN [h |-> h, at |-> p] ELSE Grown(h, size, force)
  IN From(Found(IF force THEN 0 ELSE Fit(h, size)))

\* malloc(): at is 0 when there is no memory.  next_unused is 0 then as well,
\* though unused_size may still promise room: -1 is the write that follows.
CutShort(h, size) ==
  [h |-> [h EXCEPT !.word[h.next_unused] = Word(size), !.next_unused = @ + size - 1, !.unused_size = @ - size],
   at |-> h.next_unused + 1]
Cut(h, size) ==
  [h |-> [h EXCEPT !.word[h.next_unused] = Word(size), !.next_unused = @ + size, !.unused_size = @ - size],
   at |-> h.next_unused + 1]
Malloc(h, words) ==
  LET size == words + 1
      temp == h.sfltable[words]
      InChunk(chunk) ==
        IF chunk.at = 0 THEN [h |-> [chunk.h EXCEPT !.next_unused = 0], at |-> 0]
        ELSE Cut([chunk.h EXCEPT !.next_unused = chunk.at, !.unused_size = SMALL_CHUNK], size)
  IN CASE words \notin Small -> LargeMalloc(h, words, FALSE)
       [] words \in Small /\ temp # 0 ->
            [h |-> [h EXCEPT !.sfltable[words] = h.word[temp + 1].n], at |-> temp + 1]
       [] words \in Small /\ temp = 0 /\ h.unused_size < size -> InChunk(LargeMalloc(h, SMALL_CHUNK, TRUE))
       [] words \in Small /\ temp = 0 /\ h.unused_size >= size ->
            IF h.next_unused = 0 THEN [h |-> h, at |-> -1] ELSE Cut(h, size)

\* free(): a large block is joined with a free one behind it and before it.
LargeFree(h, q) ==
  LET next == Ends(h, q)
      p == q - h.word[q - 1].n
      Behind == IF h.word[next].this THEN h
                ELSE [RemoveFromFreeList(h, next) EXCEPT !.word[q].n = @ + h.word[next].n, !.word[q].this = FALSE]
      Before(joined) ==
        IF h.word[q].prev THEN AddToFreeList(BuildBlock(joined, q, joined.word[q].n), q)
        ELSE AddToFreeList(BuildBlock(RemoveFromFreeList(joined, p), p, joined.word[q].n + h.word[p].n), p)
  IN Before(Behind)
SmallFreeUnlinked(h, p) == [h EXCEPT !.sfltable[h.word[p].n - 1] = p, !.word[p + 1] = Word(0)]
SmallFree(h, p) ==
  [h EXCEPT !.sfltable[h.word[p].n - 1] = p, !.word[p + 1] = Word(h.sfltable[h.word[p].n - 1])]
Free(h, at) == IF h.word[at - 1].n > SMALL_BLOCK_MAX + 1 THEN LargeFree(h, at - 1) ELSE SmallFree(h, at - 1)

-----------------------------------------------------------------------------
(* The driver writes to every word it was given                             *)

Filled(words) == [i \in 1..words |-> [n |-> -words, prev |-> TRUE, this |-> TRUE]]
Put(h, at, data) ==
  [h EXCEPT !.word = [p \in DOMAIN @ |-> IF p - at + 1 \in DOMAIN data THEN data[p - at + 1] ELSE @[p]]]
Holding(blocks, at, data) == [p \in DOMAIN blocks \cup {at} |-> IF p = at THEN data ELSE blocks[p]]
Less(blocks, at) == [p \in DOMAIN blocks \ {at} |-> blocks[p]]
Again == driver.state \in {"up", "closing"} /\ xallocs < MaxAllocations /\ xallocs' = xallocs + 1

Received(h, blocks, at, data) == heap' = Put(h, at, data) /\ given' = Holding(blocks, at, data)
Lost(state, h, blocks) ==
  heap' = h /\ given' = blocks /\ driver' = [driver EXCEPT !.state = state]

\* xalloc(): when there is no memory the garbage collection may free a block,
\* then the reserve is given up and the driver closes; then it exits.
Xalloc(words, garbage) ==
  LET Closing(blocks, three) ==
        IF three.at = 0 THEN Lost("exited", three.h, blocks)
        ELSE /\ Received(three.h, blocks, three.at, Filled(words))
             /\ driver' = [reserved_area |-> 0, state |-> "closing"]
      Collected(h, blocks, two) ==
        CASE two.at = -1 -> Lost("crashed", h, blocks)
          [] two.at > 0 -> Received(two.h, blocks, two.at, Filled(words)) /\ UNCHANGED driver
          [] two.at = 0 /\ driver.reserved_area = 0 -> Lost("exited", two.h, blocks)
          [] two.at = 0 /\ driver.reserved_area # 0 ->
               Closing(Less(blocks, driver.reserved_area), Malloc(Free(two.h, driver.reserved_area), words))
      Collecting(h) == Collected(h, Less(given, garbage), Malloc(h, words))
      Asked(one) ==
        /\ one.at # 0 => garbage = 0
        /\ CASE one.at = -1 -> Lost("crashed", heap, given)
             [] one.at > 0 -> Received(one.h, given, one.at, Filled(words)) /\ UNCHANGED driver
             [] one.at = 0 -> Collecting(IF garbage \in DOMAIN given THEN Free(one.h, garbage) ELSE one.h)
  IN Again /\ Asked(Malloc(heap, words))

FreeGiven(at) ==
  /\ Again /\ at # driver.reserved_area
  /\ heap' = Free(heap, at) /\ given' = Less(given, at)
  /\ UNCHANGED driver

\* realloc(): a block that is large enough stays, also when it could shrink.
Realloc(at, words) ==
  LET old == heap.word[at - 1].n - 1
      Copied(h, to, data) == /\ heap' = Put(Free(Put(h, to, data), at), to, data)
                             /\ given' = Holding(Less(given, at), to, data)
                             /\ UNCHANGED driver
      Moved(r) ==
        CASE r.at = -1 -> Lost("crashed", heap, given)
          [] r.at = 0 -> heap' = r.h /\ UNCHANGED <<given, driver>>
          [] r.at > 0 -> Copied(r.h, r.at, SubSeq(given[at], 1, old) \o SubSeq(Filled(words), old + 1, words))
  IN /\ Again /\ at # driver.reserved_area /\ old < words
     /\ Moved(Malloc(heap, words))

Empty == [word |-> [p \in 1..MemorySize |-> Word(0)], brk |-> 0, free_list |-> 0, start_next_block |-> 0,
          sfltable |-> [i \in Small |-> 0], next_unused |-> 0, unused_size |-> 0]
HeapInit ==
  LET Ready(r) == /\ heap = Put(r.h, r.at, Filled(Reserve)) /\ given = Holding(<<>>, r.at, Filled(Reserve))
                  /\ driver = [reserved_area |-> r.at, state |-> "up"]
  IN Ready(Malloc(Empty, Reserve)) /\ xallocs = 0
HeapNext ==
  \/ \E words \in Requests, garbage \in {0} \cup (DOMAIN given \ {driver.reserved_area}) : Xalloc(words, garbage)
  \/ \E at \in DOMAIN given : FreeGiven(at)
  \/ \E at \in DOMAIN given, words \in Requests : Realloc(at, words)

-----------------------------------------------------------------------------
(* Properties                                                               *)

RECURSIVE Row(_, _)
Row(p, end) == IF p >= end THEN <<p>> ELSE <<p>> \o Row(Ends(heap, p), end)

\* The large blocks lie end to end up to the last word that brk() gave; each
\* knows whether the one before it is in use, and the free ones are those of
\* free_list, linked both ways and with their size at their end.
\* smalloc.c:322, smalloc.c:458
BlocksTile ==
  LET row == Row(heap.start_next_block, heap.brk)
      list == Linked(heap, heap.free_list)
      Free_(p) == ~heap.word[p].this
  IN /\ row[Len(row)] = heap.brk
     /\ \A i \in 2..Len(row) : heap.word[row[i]].prev = ~Free_(row[i - 1])
     /\ {list[i] : i \in DOMAIN list} = {row[i] : i \in {j \in DOMAIN row : Free_(row[j])}}
     /\ \A i \in DOMAIN list : /\ heap.word[Ends(heap, list[i]) - 1].n = heap.word[list[i]].n
                               /\ heap.word[list[i] + 2].n = IF i = 1 THEN 0 ELSE list[i - 1]

\* What the driver wrote into a block stays there until it frees the block:
\* no two blocks share a word, and the allocator writes to none of them.
\* smalloc.c:160, smalloc.c:443
ContentsKept ==
  driver.state # "crashed" =>
    \A at \in DOMAIN given : \A i \in DOMAIN given[at] : heap.word[at + i - 1] = given[at][i]

\* Every small block is in the driver's hands or waits in the list of its
\* size: none is lost, and none is given away twice.  smalloc.c:177, smalloc.c:249
SmallBlocksKept ==
  LET Listed(w) == LET list == Linked(heap, heap.sfltable[w]) IN {list[i] + 1 : i \in DOMAIN list}
      cut == {at \in DOMAIN heap.word : at \in DOMAIN given /\ Len(given[at]) \in Small}
      chunks == {p \in {Row(heap.start_next_block, heap.brk)[i] :
                          i \in DOMAIN Row(heap.start_next_block, heap.brk)} :
                   heap.word[p].this /\ p # heap.brk /\ p + 1 \notin DOMAIN given}
      Pieces(p) == {at \in cut \cup UNION {Listed(w) : w \in Small} : at \in (p + 2)..Ends(heap, p)}
  IN /\ \A w \in Small : Listed(w) \cap DOMAIN given = {} /\ \A at \in Listed(w) : heap.word[at - 1].n = w + 1
     /\ \A p \in chunks : \A at \in Pieces(p) :
          \/ at = p + 2
          \/ \E b \in Pieces(p) : b + heap.word[b - 1].n = at

\* Blocks large and small: none overlaps, none is lost, none changes under its user.
BlocksKept == BlocksTile /\ ContentsKept /\ SmallBlocksKept
=============================================================================

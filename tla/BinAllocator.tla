---------------------------- MODULE BinAllocator ----------------------------
(***************************************************************************)
(* ymirc/bin_allocator.c: an allocator of small blocks.  A page of the page *)
(* allocator is cut into chunks of one size; the free chunks of a size form *)
(* a list whose links are kept in the chunks themselves, in memory that     *)
(* belongs to somebody else whenever the chunk is not free.                *)
(*                                                                         *)
(* Addresses and sizes are counted in units of the smallest bin.  Callers   *)
(* free what they hold, with the size they asked for, or pass a pointer     *)
(* that bin_free recognises as misaligned.                                 *)
(***************************************************************************)
EXTENDS Integers, FiniteSets, Sequences, SequencesExt

CONSTANTS PageUnits,     \* PAGE_SIZE
          BinSizes,      \* bin_sizes
          Pages,         \* the pages the page allocator has
          Requests,      \* the sizes that callers ask for
          MaxLive        \* how many blocks the callers hold at a time

\* The bins are ascending, and every one cuts a page into two chunks or more.
ASSUME BinsAssumption ==
    /\ PageUnits \in Nat \ {0} /\ MaxLive \in Nat
    /\ Pages \subseteq Nat \ {0} /\ IsFiniteSet(Pages)
    /\ Requests \subseteq Nat
    /\ BinSizes \in Seq(Nat \ {0}) /\ BinSizes # <<>>
    /\ \A b \in DOMAIN BinSizes :
          /\ PageUnits % BinSizes[b] = 0 /\ BinSizes[b] < PageUnits
          /\ \A c \in 1 .. b - 1 : BinSizes[c] < BinSizes[b]

VARIABLES lists,      \* list_heads, and what a chunk holds where its link would be
          avail,      \* pages that the page allocator has left
          live,       \* the blocks that callers hold
          result      \* of the last call

vars == <<lists, avail, live, result>>

Bins == DOMAIN BinSizes
PageStart(page) == page * PageUnits
Units(page) == PageStart(page) .. PageStart(page) + PageUnits - 1
Addresses == UNION {Units(page) : page \in Pages}

NULL == 0
Junk == -1       \* data: what a link reads as that nobody has written as one

Block == [ptr : Addresses, n : Requests]

\* Every variable has its type: no list begins with data.
TypeOK ==
    /\ lists \in [heads : [Bins -> Addresses \cup {NULL}],
                  next : [Addresses -> Addresses \cup {NULL, Junk}]]
    /\ avail \subseteq Pages
    /\ live \subseteq Block
    /\ result \in {"init", "block", "NULL", "freed", "invalid"}

-----------------------------------------------------------------------------

\* Faulty variant: the link is stored only when there is something to link to.
Faulty_push(l, node, b) ==
    [heads |-> [l.heads EXCEPT ![b] = node],
     next |-> IF l.heads[b] = NULL THEN l.next
              ELSE [l.next EXCEPT ![node] = l.heads[b]]]

push(l, node, b) ==
    [heads |-> [l.heads EXCEPT ![b] = node],
     next |-> [l.next EXCEPT ![node] = l.heads[b]]]

\* Faulty variant: the first chunk stays in its list.
Faulty_pop(l, b) == l

pop(l, b) == [l EXCEPT !.heads[b] = l.next[l.heads[b]]]

\* Faulty variant: the first chunk of the page is forgotten.
Faulty_ChunksDown(page, size) ==
    [k \in 1 .. PageUnits \div size - 1 |-> PageStart(page) + PageUnits - k * size]

\* The chunks of the page, the last one first.
ChunksDown(page, size) ==
    [k \in 1 .. PageUnits \div size |-> PageStart(page) + PageUnits - k * size]

\* The lists after the first k pushes of the loop, for every k.
init_bin_page(l, page, b) ==
    LET chunks == ChunksDown(page, BinSizes[b])
        pushed[k \in 0 .. Len(chunks)] ==
            IF k = 0 THEN l ELSE push(pushed[k - 1], chunks[k], b)
    IN  pushed[Len(chunks)]

\* The first bin that is large enough; 0 if there is none.
bin_index(n) ==
    IF \E b \in Bins : n <= BinSizes[b]
    THEN CHOOSE b \in Bins : n <= BinSizes[b] /\ \A c \in 1 .. b - 1 : n > BinSizes[c]
    ELSE 0

is_aligned_to_bin(ptr, size) == (ptr % PageUnits) % size = 0

\* The lists after somebody has written data into a piece of memory.
Fill(l, ptr, size) ==
    [l EXCEPT !.next = [a \in Addresses |->
        IF a \in ptr .. ptr + size - 1 THEN Junk ELSE l.next[a]]]

OnlyResult(r) ==
    /\ result' = r
    /\ UNCHANGED <<lists, avail, live>>

-----------------------------------------------------------------------------

\* bin_alloc from a list that is not empty.
AllocFromBin(n) ==
    LET b == bin_index(n)
    IN  /\ b # 0
        /\ lists.heads[b] # NULL
        /\ live' = live \cup {[ptr |-> lists.heads[b], n |-> n]}
        /\ lists' = pop(lists, b)
        /\ result' = "block"
        /\ UNCHANGED avail

\* bin_alloc from an empty list: alloc_from_bin gets a page first.
AllocFromNewPage(n) ==
    LET b == bin_index(n)
    IN  /\ b # 0
        /\ lists.heads[b] = NULL
        /\ \E page \in avail :
              LET filled == init_bin_page(lists, page, b)
              IN  /\ avail' = avail \ {page}
                  /\ live' = live \cup {[ptr |-> filled.heads[b], n |-> n]}
                  /\ lists' = pop(filled, b)
        /\ result' = "block"

\* Pages that the page allocator may return for n units.
Runs(n) ==
    {run \in SUBSET avail :
        /\ Cardinality(run) = (n + PageUnits - 1) \div PageUnits
        /\ \A p, q \in run : p .. q \subseteq run}

\* bin_alloc of a size beyond the bins: the page allocator's block is returned.
AllocPages(n) ==
    /\ bin_index(n) = 0
    /\ \E run \in Runs(n) :
          LET first == CHOOSE p \in run : \A q \in run : p <= q
          IN  /\ avail' = avail \ run
              /\ live' = live \cup {[ptr |-> PageStart(first), n |-> n]}
    /\ result' = "block"
    /\ UNCHANGED lists

\* bin_alloc when the page allocator has nothing.
AllocFails(n) ==
    /\ \/ bin_index(n) # 0 /\ lists.heads[bin_index(n)] = NULL /\ avail = {}
       \/ bin_index(n) = 0 /\ Runs(n) = {}
    /\ OnlyResult("NULL")

\* bin_free of a block of a bin, with the size it was asked for.
FreeToBin(block) ==
    LET b == bin_index(block.n)
    IN  /\ b # 0
        /\ is_aligned_to_bin(block.ptr, BinSizes[b])
        /\ lists' = push(lists, block.ptr, b)
        /\ live' = live \ {block}
        /\ result' = "freed"
        /\ UNCHANGED avail

\* The pages of a block of the page allocator.
PagesOf(block) ==
    {page \in Pages : PageStart(page) \in block.ptr .. block.ptr + block.n - 1}

FreePages(block) ==
    /\ bin_index(block.n) = 0
    /\ avail' = avail \cup PagesOf(block)
    /\ live' = live \ {block}
    /\ lists' = Fill(lists, block.ptr, Cardinality(PagesOf(block)) * PageUnits)
    /\ result' = "freed"

\* bin_free of a pointer into a block that is not the start of a chunk.
FreeRefused(block) ==
    LET b == bin_index(block.n)
    IN  /\ b # 0
        /\ \E ptr \in block.ptr .. block.ptr + BinSizes[b] - 1 :
              ~is_aligned_to_bin(ptr, BinSizes[b])
        /\ OnlyResult("invalid")

\* The owner of a block writes data into it.
OwnerWrites(block) ==
    /\ lists' = Fill(lists, block.ptr, block.n)
    /\ lists' # lists
    /\ UNCHANGED <<avail, live, result>>

Init ==
    /\ lists = [heads |-> [b \in Bins |-> NULL], next |-> [a \in Addresses |-> Junk]]
    /\ avail = Pages
    /\ live = {}
    /\ result = "init"

Next ==
    \/ \E n \in Requests :
          \/ /\ Cardinality(live) < MaxLive
             /\ AllocFromBin(n) \/ AllocFromNewPage(n) \/ AllocPages(n)
          \/ AllocFails(n)
    \/ \E block \in live :
          FreeToBin(block) \/ FreePages(block) \/ FreeRefused(block)
             \/ OwnerWrites(block)

Spec == Init /\ [][Next]_vars

-----------------------------------------------------------------------------

\* The chunks of a free list in their order, and what follows the last one: the
\* links are followed as long as they lead to an address, at most once for each.
Chain(b) ==
    LET walk[k \in 0 .. Cardinality(Addresses)] ==
            IF k = 0 THEN <<lists.heads[b]>>
            ELSE LET s == walk[k - 1]
                 IN  IF Last(s) \in Addresses
                     THEN Append(s, lists.next[Last(s)]) ELSE s
    IN  walk[Cardinality(Addresses)]

FreeChunks(b) == Range(Chain(b)) \ {NULL, Junk}

\* The units of a chunk of bin b, and those of a block.
ChunkUnits(ptr, b) == ptr .. ptr + BinSizes[b] - 1
BlockUnits(block) ==
    IF bin_index(block.n) # 0 THEN ChunkUnits(block.ptr, bin_index(block.n))
    ELSE UNION {Units(page) : page \in PagesOf(block)}

\* Every free list ends in NULL: whatever the owners of blocks write, the
\* allocator never takes data for a link, and no list runs in a circle
\* (bin_allocator.c:32-50).
ListsIntact == \A b \in Bins : Last(Chain(b)) = NULL

\* No two callers hold the same memory, and a block is as large as its caller
\* asked for, in one piece of memory, and not refused by bin_free
\* (bin_allocator.c:85-131).
BlocksDisjoint ==
    /\ \A x, y \in live : x # y => BlockUnits(x) \cap BlockUnits(y) = {}
    /\ \A x \in live :
          /\ x.ptr .. x.ptr + x.n - 1 \subseteq BlockUnits(x)
          /\ bin_index(x.n) # 0 => is_aligned_to_bin(x.ptr, BinSizes[bin_index(x.n)])

\* A chunk on a free list is nobody else's: no block, no other chunk and no
\* page that the page allocator could hand out again (bin_allocator.c:52-83).
FreeMeansFree ==
    \A b \in Bins : \A c \in FreeChunks(b) :
        /\ \A x \in live : ChunkUnits(c, b) \cap BlockUnits(x) = {}
        /\ \A page \in avail : ChunkUnits(c, b) \cap Units(page) = {}
        /\ \A d \in Bins : \A e \in FreeChunks(d) :
              <<b, c>> # <<d, e>> => ChunkUnits(c, b) \cap ChunkUnits(e, d) = {}

\* No memory is lost: every unit is in a free page, a free chunk or a block
\* that somebody holds (bin_allocator.c:60-67, 118-131).
NothingLeaked ==
    Addresses =
        UNION ({Units(page) : page \in avail}
               \cup {BlockUnits(x) : x \in live}
               \cup UNION {{ChunkUnits(c, b) : c \in FreeChunks(b)} : b \in Bins})

=============================================================================

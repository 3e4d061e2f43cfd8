------------------------------- MODULE Memory -------------------------------
(***************************************************************************)
(* The memory manager (kernel/memory.cpp): the bitmap of physical pages    *)
(* and the kernel heap, a linked list of blocks with first fit, split,     *)
(* coalescing and growth.                                                  *)
(*                                                                         *)
(* Heap addresses are offsets into the heap region, in units of 8 bytes    *)
(* (the header is 24 bytes).  `mem' is what memory holds at an address if  *)
(* it is read as a block header: headers of blocks that were merged away   *)
(* stay there until somebody's data overwrites them (their size is never   *)
(* read again and left out).  kmalloc and kfree are only called from shell *)
(* commands, which run with interrupts off.                                *)
(* Callers stay within the blocks they are given.                          *)
(***************************************************************************)
EXTENDS SequencesExt

CONSTANTS
    PageSize,      \* PAGE_SIZE
    Header,        \* sizeof(Block)
    MinSplit,      \* MIN_SPLIT
    Align,         \* requests are rounded up to a multiple of this
    InitialPages,  \* HEAP_INITIAL_PAGES
    GrowPages,     \* HEAP_GROW_PAGES
    MaxPages,      \* heap_max_bytes, in pages
    HeapBase,      \* the first page of the heap region
    HighestPage,   \* pmm_highest_page
    Reserved,      \* pages that are not usable or hold the bitmap itself
    Requests       \* sizes that callers ask for

ASSUME UnitAssumption ==
    /\ PageSize \in Nat /\ Header \in Nat \ {0} /\ MinSplit \in Nat \ {0} /\ Align \in Nat \ {0}
    /\ Header + MinSplit <= PageSize
ASSUME RegionAssumption ==
    /\ InitialPages \in Nat \ {0} /\ GrowPages \in Nat \ {0} /\ MaxPages \in Nat
    /\ HeapBase \in Nat /\ HighestPage \in Nat /\ Reserved \subseteq 0 .. HighestPage - 1
    /\ InitialPages <= MaxPages /\ HeapBase + MaxPages <= HighestPage
    /\ Reserved \cap HeapBase .. HeapBase + MaxPages - 1 = {}
ASSUME RequestsAssumption == Requests \subseteq Nat \ {0}

VARIABLES
    heap,          \* list: the blocks in the order of their next pointers;
                   \* mem: the headers; committed: heap_committed
    count,         \* stat_alloc_count
    bytes,         \* stat_alloc_bytes
    live,          \* history: live[a] is what the caller asked for, 0 if nothing
    used,          \* pmm_bitmap: the pages whose bit is set
    hint           \* pmm_search_hint

vars == <<heap, count, bytes, live, used, hint>>

HeapMax == MaxPages * PageSize
Addr == 0 .. HeapMax - 1
NoHeader == [size |-> 0, free |-> TRUE, magic |-> FALSE]
BlockOf(size, free) == [size |-> size, free |-> free, magic |-> TRUE]
Remnant == BlockOf(0, TRUE)        \* the header of a block merged away
BlockHeader == [size : 0 .. HeapMax, free : BOOLEAN, magic : BOOLEAN]
PageSet == 0 .. HighestPage - 1

TypeOK ==
    /\ heap \in [list : Seq(Addr), mem : [Addr -> BlockHeader], committed : 1 .. HeapMax]
    /\ count \in Nat
    /\ bytes \in Nat
    /\ live \in [Addr -> Nat]
    /\ used \in SUBSET PageSet
    /\ hint \in 0 .. HighestPage

\* Mutated form: rounds down.
RoundDown(n, unit) == (n \div unit) * unit

RoundUp(n, unit) == ((n + unit - 1) \div unit) * unit

-----------------------------------------------------------------------------
(* Heap *)

\* heap_grow: by how much, for a request of `size'
GrowBy(h, size) ==
    LET room == HeapMax - h.committed
        want == IF GrowPages * PageSize < size + Header
                THEN RoundUp(size + Header, PageSize) ELSE GrowPages * PageSize
    IN  IF want > room THEN room ELSE want

CanGrow(h, size) == GrowBy(h, size) >= Header + MinSplit

EndOf(h, a) == a + Header + h.mem[a].size

\* Mutated form: the new space never joins a free last block.
GrownApart(h, size) ==
    LET g == GrowBy(h, size)
    IN  [list |-> Append(h.list, h.committed),
         mem |-> [h.mem EXCEPT ![h.committed] = BlockOf(g - Header, TRUE)],
         committed |-> h.committed + g]

\* heap_grow: a new free block behind the last, or a longer last block
Grown(h, size) ==
    LET g == GrowBy(h, size)
        new == h.committed
        last == h.list[Len(h.list)]
        joins == h.mem[last].free /\ EndOf(h, last) = new
    IN  [list |-> IF joins THEN h.list ELSE Append(h.list, new),
         mem |-> IF joins THEN [h.mem EXCEPT ![last].size = @ + g, ![new] = Remnant]
                 ELSE [h.mem EXCEPT ![new] = BlockOf(g - Header, TRUE)],
         committed |-> h.committed + g]

\* Mutated form: does not ask whether the block is free.
FirstLargeEnough(h, size) == SelectInSeq(h.list, LAMBDA a : h.mem[a].size >= size)

\* The position of the first block that is free and large enough, 0 if none
FirstFit(h, size) == SelectInSeq(h.list, LAMBDA a : h.mem[a].free /\ h.mem[a].size >= size)

\* Mutated form: the remainder's header is not subtracted from its size.
TakenTooLong(h, i, size) ==
    LET a == h.list[i]
        rest == a + Header + size
    IN  IF h.mem[a].size >= size + Header + MinSplit
        THEN [h EXCEPT !.list = InsertAt(@, i + 1, rest),
                       !.mem = [@ EXCEPT ![a] = BlockOf(size, FALSE),
                                         ![rest] = BlockOf(h.mem[a].size - size, TRUE)]]
        ELSE [h EXCEPT !.mem = [@ EXCEPT ![a].free = FALSE]]

\* kmalloc takes the i-th block, splitting off what is left over.
Taken(h, i, size) ==
    LET a == h.list[i]
        rest == a + Header + size
    IN  IF h.mem[a].size >= size + Header + MinSplit
        THEN [h EXCEPT !.list = InsertAt(@, i + 1, rest),
                       !.mem = [@ EXCEPT ![a] = BlockOf(size, FALSE),
                                         ![rest] = BlockOf(h.mem[a].size - size - Header, TRUE)]]
        ELSE [h EXCEPT !.mem = [@ EXCEPT ![a].free = FALSE]]

\* The caller (kcalloc, with zeros) fills its block, or does not.
Written(h, a, fills) ==
    [h EXCEPT !.mem = [b \in Addr |-> IF fills /\ b > a /\ b < EndOf(h, a) THEN NoHeader ELSE @[b]]]

\* kfree merges block a with its successor if that is free ...
JoinedNext(h, i) ==
    LET a == h.list[i]
        b == h.list[i + 1]
    IN  IF i < Len(h.list) /\ h.mem[b].magic /\ h.mem[b].free
        THEN [h EXCEPT !.list = RemoveAt(@, i + 1),
                       !.mem = [h.mem EXCEPT ![a].size = @ + Header + h.mem[b].size, ![b] = Remnant]]
        ELSE h

\* ... and with its predecessor if that is free and adjacent.
JoinedPrev(h, i) ==
    LET a == h.list[i]
        p == h.list[i - 1]
    IN  IF i > 1 /\ h.mem[p].magic /\ h.mem[p].free /\ EndOf(h, p) = a
        THEN [h EXCEPT !.list = RemoveAt(@, i),
                       !.mem = [h.mem EXCEPT ![p].size = @ + Header + h.mem[a].size, ![a].size = 0]]
        ELSE h

\* Mutated form: only a block that stays linked is marked free.
MarkedIfAlone(h, i) ==
    IF i > 1 /\ h.mem[h.list[i - 1]].free THEN h
    ELSE [h EXCEPT !.mem = [@ EXCEPT ![h.list[i]].free = TRUE]]

\* kfree: block->free = true
Marked(h, i) == [h EXCEPT !.mem = [@ EXCEPT ![h.list[i]].free = TRUE]]

Freed(h, i) == JoinedPrev(JoinedNext(Marked(h, i), i), i)

\* The pages that the first n units of the heap region occupy
HeapPages(n) == HeapBase .. HeapBase + (n \div PageSize) - 1

\* Mutated form: the pages of the growth are not marked.
ReservesNothing(old, new) == used

\* heap_grow marks the pages of the new space as used.
Reserves(old, new) == used \cup (HeapPages(new) \ HeapPages(old))

-----------------------------------------------------------------------------

\* pmm_init and heap_init
Init ==
    /\ heap = [list |-> <<0>>,
               mem |-> [a \in Addr |-> IF a = 0 THEN BlockOf(InitialPages * PageSize - Header, TRUE)
                                       ELSE NoHeader],
               committed |-> InitialPages * PageSize]
    /\ count = 0
    /\ bytes = 0
    /\ live = [a \in Addr |-> 0]
    /\ used = Reserved \cup HeapPages(InitialPages * PageSize)
    /\ hint = 0

\* What the i-th block of h being handed out does.
Give(h, i, size, req, fills) ==
    LET a == h.list[i]
        g == Taken(h, i, size)
    IN  /\ heap' = Written(g, a, fills)
        /\ live' = [live EXCEPT ![a] = req]
        /\ count' = count + 1
        /\ bytes' = bytes + g.mem[a].size

\* kmalloc.  When no block fits the heap grows and the search is repeated;
\* growth cut off at the maximum may still not be enough, and is kept.
Kmalloc(req, fills) ==
    LET size == RoundUp(req, Align)
        h == Grown(heap, size)
    IN  \/ /\ FirstFit(heap, size) # 0
           /\ Give(heap, FirstFit(heap, size), size, req, fills)
           /\ UNCHANGED <<used, hint>>
        \/ /\ FirstFit(heap, size) = 0
           /\ CanGrow(heap, size)
           /\ used' = Reserves(heap.committed, h.committed)
           /\ \/ FirstFit(h, size) # 0 /\ Give(h, FirstFit(h, size), size, req, fills)
              \/ FirstFit(h, size) = 0 /\ heap' = h /\ UNCHANGED <<live, count, bytes>>
           /\ hint' = hint

\* kfree of the block at a.  Freeing anything but a block in use is rejected
\* by the tests of magic and free and changes nothing.
Kfree(a) ==
    /\ heap.mem[a].magic /\ ~heap.mem[a].free
    /\ \E i \in 1 .. Len(heap.list) : heap.list[i] = a /\ heap' = Freed(heap, i)
    /\ live' = [live EXCEPT ![a] = 0]
    /\ count' = count - 1
    /\ bytes' = bytes - heap.mem[a].size
    /\ UNCHANGED <<used, hint>>

\* pmm_alloc_page finds page p: the first free one from the hint on, else
\* the first free one before it.
FirstFreePage(p) ==
    LET ahead == {q \in PageSet \ used : q >= hint}
    IN  /\ p \in PageSet \ used
        /\ IF ahead # {} THEN p = Min(ahead) ELSE p = Min(PageSet \ used)

\* A driver takes a page for good (E1000 rings and buffers).
AllocPage ==
    /\ \E p \in PageSet :
         /\ FirstFreePage(p)
         /\ used' = used \cup {p}
         /\ hint' = p + 1
    /\ UNCHANGED <<heap, count, bytes, live>>

\* pmm_free_page moves the hint h back to the page it frees.
HintAfterFree(p, h) == IF p < h THEN p ELSE h

\* The `heaptest' command takes a page and gives it back.
TestPage ==
    /\ \E p \in PageSet : FirstFreePage(p) /\ hint' = HintAfterFree(p, p + 1)
    /\ UNCHANGED <<heap, count, bytes, live, used>>

Next ==
    \/ \E req \in Requests, fills \in BOOLEAN : Kmalloc(req, fills)
    \/ \E a \in Addr : Kfree(a)
    \/ AllocPage
    \/ TestPage

Spec == Init /\ [][Next]_vars

-----------------------------------------------------------------------------
(* Properties *)

\* The blocks tile the committed region: every next pointer leads to the end
\* of the block, every linked header is intact, and the last block ends where
\* the region does.  kfree's merge with the next block relies on it.
Tiled ==
    LET n == Len(heap.list)
    IN  /\ heap.list[1] = 0
        /\ \A i \in 1 .. n : heap.mem[heap.list[i]].magic
        /\ \A i \in 1 .. n - 1 : heap.list[i + 1] = EndOf(heap, heap.list[i])
        /\ EndOf(heap, heap.list[n]) = heap.committed

\* Coalescing is complete: two neighbours are never both free, whatever the
\* order of allocations, releases and growth.
Coalesced ==
    \A i \in 1 .. Len(heap.list) - 1 :
        ~(heap.mem[heap.list[i]].free /\ heap.mem[heap.list[i + 1]].free)

\* The blocks in use are exactly those that callers hold, each as large as
\* was asked for; with Tiled, no two callers share memory.
LiveIntact ==
    /\ \A i \in 1 .. Len(heap.list) :
          ~heap.mem[heap.list[i]].free <=> live[heap.list[i]] > 0
    /\ \A a \in Addr : live[a] > 0 => /\ \E i \in 1 .. Len(heap.list) : heap.list[i] = a
                                      /\ heap.mem[a].size >= live[a]

\* kfree accepts an address only while kmalloc has handed it out: a second
\* kfree is rejected, also when the block was merged away, its header lies
\* inside another block or was written over.  (Once kmalloc has handed the same
\* address out again, a stale pointer is as good as the new holder's, and frees
\* that block.)
OnlyHeldIsFreed ==
    \A a \in Addr : heap.mem[a].magic /\ ~heap.mem[a].free => live[a] > 0

InUse == {i \in 1 .. Len(heap.list) : ~heap.mem[heap.list[i]].free}

\* heapinfo's number of allocations is the number of blocks in use.
CountMatch == count = Cardinality(InUse)

\* heapinfo's statistics are those of the list.
StatsMatch ==
    /\ CountMatch
    /\ bytes = MapThenSumSet(LAMBDA i : heap.mem[heap.list[i]].size, InUse)

\* Every page of the heap is marked in the bitmap.
HeapPagesReserved == HeapPages(heap.committed) \subseteq used

\* No free page lies before the hint.
HintIsTight == \A p \in PageSet : p < hint => p \in used

\* pmm_alloc_page never hands out a page of the heap, however it has grown, and
\* its search forward from the hint misses no free page.
PagesAccounted == HeapPagesReserved /\ HintIsTight

\* The memory behind the headers that callers may use
Regions == {[at |-> a + Header, len |-> live[a]] : a \in {b \in Addr : live[b] > 0}}

Promise == INSTANCE Allocator WITH Limit <- HeapMax, Lengths <- Requests, held <- Regions

\* The heap implements an allocator: through splitting, merging and growth,
\* kmalloc hands out memory that nobody holds, kfree takes back one region, and
\* no other step changes what callers hold.
IsAllocator == Promise!Spec
=============================================================================

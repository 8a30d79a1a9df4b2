------------------------------ MODULE Kmalloc -------------------------------
(***************************************************************************)
(* kmalloc, kfree and krealloc (kernel/mem/kmalloc.c) over one active heap *)
(* of the gallocator.  kmalloc and kcalloc are kmalloc_aligned with the    *)
(* default alignment.                                                      *)
(*                                                                         *)
(* live and damaged are not in the code: the allocations callers hold, and *)
(* those of them whose contents somebody else has overwritten.             *)
(***************************************************************************)
EXTENDS Gallocator

CONSTANTS
    Sizes,          \* sizes callers ask for
    Alignments,     \* alignments callers ask for
    MaxLive,        \* bound on the allocations held at a time
    MaxFailures     \* bound on the requests that fail

ASSUME KmallocAssumption ==
    /\ Sizes \subseteq Nat \ {0}
    /\ Alignments \subseteq {1, 2, 4, 8, 16, 32, 64, 128, 256, 512, 1024, 2048, 4096}
    /\ MaxLive \in Nat /\ MaxFailures \in Nat

VARIABLES
    span,           \* g_active_heap->pagespan
    live,           \* address -> the size and alignment its owner asked for
    damaged,        \* live addresses
    allocations,    \* total_allocations less total_frees of g_statistics
    bytes,          \* total_allocated less total_freed
    failures,       \* requests that have failed
    panicked

vars == <<heap, bits, signed, span, live, damaged, allocations, bytes, failures,
          panicked>>

Live == DOMAIN live

\* Heap addresses where an allocation could start.
ChunkAddrs == UNION {{ChunkAddr(p, s) : s \in 0 .. heap[p].chunks - 1} : p \in Pools}

\* heap_is_addr_inside, for the active heap.
HeapIsAddrInside(a) == a >= HeapVaddr /\ a < HeapVaddr + span * PageSize

\* Held allocations in h, other than at a, that a write from lo up to hi hits.
Hit(h, a, lo, hi) == {b \in DOMAIN h \ {a} : lo < b + h[b].size /\ b < hi}

-----------------------------------------------------------------------------
\* mm_setup_kmalloc.
Init ==
    /\ span \in PageSpans
    /\ GallocatorInit(span)
    /\ live = <<>> /\ damaged = {}
    /\ allocations = 0 /\ bytes = 0 /\ failures = 0
    /\ panicked = FALSE

\* kmalloc_aligned; the owner then uses what it got.
KmallocAligned(size, alignment) ==
    /\ ~panicked /\ Cardinality(Live) < MaxLive
    /\ ~AllocFails(size, alignment)
    /\ LET a == AllocAddr(size, alignment) IN
       /\ bits' = AllocBits(size, alignment)
       /\ signed' = AllocSigned(size, alignment)
       /\ live' = MetaAt(live, a, [size |-> size, alignment |-> alignment])
       /\ damaged' = (damaged \ {a}) \cup
                        Hit(live, a, a - AllocationMetaSize, a + size)
    /\ allocations' = allocations + 1
    /\ bytes' = bytes + size
    /\ UNCHANGED <<heap, span, failures, panicked>>

\* kmalloc_aligned returns NULL, with the statistics counting it.
KmallocAlignedFails(size, alignment) ==
    /\ ~panicked /\ failures < MaxFailures
    /\ AllocFails(size, alignment)
    /\ allocations' = allocations + 1
    /\ bytes' = bytes + size
    /\ failures' = failures + 1
    /\ UNCHANGED <<heap, bits, signed, span, live, damaged, panicked>>

\* kfree by the owner.
Kfree(a) ==
    /\ ~panicked
    /\ IF ~HeapIsAddrInside(a) \/ a \notin DOMAIN signed \/ FreeRefused(a)
       THEN /\ panicked' = TRUE
            /\ UNCHANGED <<bits, signed, live, damaged, allocations, bytes>>
       ELSE /\ bits' = FreeBits(bits, a)
            /\ signed' = FreeSigned(signed, a)
            /\ live' = [b \in Live \ {a} |-> live[b]]
            /\ damaged' = (damaged \ {a}) \cup
                    Hit(live, a, a - AllocationMetaSize, WipedUpTo(a))
            /\ allocations' = allocations - 1
            /\ bytes' = bytes - signed[a].size
            /\ UNCHANGED panicked
    /\ UNCHANGED <<heap, span, failures>>

\* kfree of a chunk that nobody holds: freed before, or never allocated.
KfreeInvalid(a) == a \notin Live /\ Kfree(a)

\* krealloc to another size: allocate with the alignment the metadata holds,
\* copy what both sizes have in common, free the old block.  (To the same size
\* it changes nothing.)
Krealloc(a, size) ==
    /\ ~panicked
    /\ HeapIsAddrInside(a) /\ a \in DOMAIN signed /\ signed[a].size # size
    /\ ~AllocFails(size, signed[a].alignment)
    /\ LET alignment == signed[a].alignment
           b      == AllocAddr(size, alignment)
           copied == MetaAt(live, b, [size |-> size, alignment |-> live[a].alignment])
           \* hit by the metadata of the new block and the copy
           hit    == Hit(live, b, b - AllocationMetaSize, b + size)
           \* and by the wiping of the old one
           wiped  == Hit(copied, a, a - AllocationMetaSize, WipedUpTo(a))
       IN
       IF FreeRefused(a)
       THEN panicked' = TRUE /\ UNCHANGED <<bits, signed, live, damaged, bytes>>
       ELSE /\ bits' = FreeBits(AllocBits(size, alignment), a)
            /\ signed' = FreeSigned(AllocSigned(size, alignment), a)
            /\ live' = [c \in DOMAIN copied \ {a} |-> copied[c]]
            /\ damaged' = ((damaged \cup hit \cup wiped) \ {a}) \cup
                    (IF a \in damaged \cup hit THEN {b} ELSE {})
            /\ bytes' = bytes + size - signed[a].size
            /\ UNCHANGED panicked
    /\ UNCHANGED <<heap, span, allocations, failures>>

\* krealloc returns NULL: the old block stays.
KreallocFails(a, size) ==
    /\ ~panicked /\ failures < MaxFailures
    /\ HeapIsAddrInside(a) /\ a \in DOMAIN signed /\ signed[a].size # size
    /\ AllocFails(size, signed[a].alignment)
    /\ allocations' = allocations + 1
    /\ bytes' = bytes + size
    /\ failures' = failures + 1
    /\ UNCHANGED <<heap, bits, signed, span, live, damaged, panicked>>

Next ==
    \/ \E size \in Sizes, alignment \in Alignments :
            KmallocAligned(size, alignment) \/ KmallocAlignedFails(size, alignment)
    \/ \E a \in Live : Kfree(a)
    \/ \E a \in ChunkAddrs : KfreeInvalid(a)
    \/ \E a \in Live, size \in Sizes : Krealloc(a, size) \/ KreallocFails(a, size)

Spec == Init /\ [][Next]_vars

-----------------------------------------------------------------------------
\* The bytes an allocation owns, its metadata included, as an interval.
From(a) == a - AllocationMetaSize
To(a)   == a + live[a].size

\* The chunks of pool p that held allocations stand for.
HeldChunks(p) ==
    UNION {Extent((a - heap[p].pool) \div ChunkSize[p], ChunksNeeded(live[a].size))
            : a \in {b \in Live : PoolFor(live[b].size) = p}}

\* The type invariant.
TypeOK ==
    /\ heap \in [Pools -> [pool : Nat, chunks : Nat, bitmap : Nat]]
    /\ \A p \in Pools : bits[p] \subseteq 0 .. heap[p].chunks - 1
    /\ DOMAIN signed \subseteq Nat
    /\ \A a \in DOMAIN signed :
            signed[a] \in [size : Sizes, pool : Pools, alignment : Alignments]
    /\ span \in PageSpans
    /\ \A a \in Live : live[a] \in [size : Sizes, alignment : Alignments]
    /\ damaged \subseteq Live
    /\ allocations \in Int /\ bytes \in Int
    /\ failures \in 0 .. MaxFailures
    /\ panicked \in BOOLEAN

\* gallocator_init_heap keeps the heap's metadata, the three bitmaps and the
\* three pools apart, inside the heap, each bitmap long enough for its pool.
PoolsInsideHeap ==
    /\ \A p \in Pools :
        /\ heap[p].pool % ChunkSize[p] = 0
        /\ heap[p].chunks <= heap[p].bitmap * 8
    /\ heap["hi"].pool >= HeapVaddr + HeapMetaSize +
            heap["lo"].bitmap + heap["mid"].bitmap + heap["hi"].bitmap
    /\ ChunkAddr("hi", heap["hi"].chunks) <= heap["mid"].pool
    /\ ChunkAddr("mid", heap["mid"].chunks) <= heap["lo"].pool
    /\ ChunkAddr("lo", heap["lo"].chunks) <= HeapVaddr + span * PageSize

\* No two allocations share a byte, the metadata in front of them included.
NoOverlap ==
    \A a, b \in Live : a < b => To(a) <= From(b)

\* An address is aligned as its owner asked, also after krealloc (kmalloc.h,
\* "guaranteed to keep it's alignemnt").
Aligned == \A a \in Live : a % live[a].alignment = 0

\* The bitmaps mark exactly the chunks of what is held and of its metadata:
\* freeing loses no chunk and frees none of a neighbour's.
BitmapsExact == \A p \in Pools : bits[p] = HeldChunks(p)

\* Contents survive the allocations, frees and reallocations of others, and
\* krealloc copies them before it wipes the old block.
ContentsKept == damaged = {}

\* The signature tells held addresses from all others, so kfree panics when it
\* is given anything but a held address, and does not when it is given one.
SignaturesExact ==
    /\ DOMAIN signed = Live
    /\ \A a \in Live : signed[a].size = live[a].size

\* The search loop finds the first place that fits, if there is one.
SearchIsFirstFit ==
    \A size \in Sizes, alignment \in Alignments :
        LET p == PoolFor(size)
            n == ChunksNeeded(size)
        IN  SearchStart(p, alignment, n) = FirstFit(p, alignment, n)

\* The statistics follow what callers hold through frees and reallocations,
\* and are off by the requests that have failed, never by anything else
\* (kmalloc_aligned_with_heap counts before it knows).
StatisticsOffByFailures == allocations = Cardinality(Live) + failures

\* The heap stays sound, whatever is allocated, reallocated and freed and
\* whatever of it fails: the pools lie inside it, blocks do not overlap and
\* are aligned, the bitmaps mark what is held, no more and no less, metadata is
\* where it is looked for, the search finds the first place that fits, and
\* the statistics are off by the requests that failed.
HeapSound ==
    /\ TypeOK /\ PoolsInsideHeap /\ NoOverlap /\ Aligned
    /\ BitmapsExact /\ SignaturesExact /\ SearchIsFirstFit
    /\ StatisticsOffByFailures
=============================================================================

----------------------------- MODULE Gallocator -----------------------------
(***************************************************************************)
(* The kernel's allocator (kernel/mem/gallocator.c): three pools of 32, 64 *)
(* and 128 byte chunks in one heap, each with a bitmap, and in front of    *)
(* every allocation a chunk whose last bytes hold the GAllocationMeta.     *)
(*                                                                         *)
(* Addresses are numbers; a bitmap is the set of the chunks it marks; the  *)
(* metadata is known only by the address it stands in front of.            *)
(***************************************************************************)
EXTENDS Integers, FiniteSets

CONSTANTS
    PageSize,   \* PAGESIZE
    HeapVaddr,  \* Heap.vaddr
    PageSpans   \* the values of Heap.pagespan

ASSUME GallocatorAssumption ==
    /\ PageSize \in Nat /\ PageSize >= 1024 /\ PageSize % 128 = 0
    /\ HeapVaddr \in Nat /\ HeapVaddr > 0 /\ HeapVaddr % PageSize = 0
    /\ PageSpans \subseteq Nat \ {0}

VARIABLES
    heap,       \* by pool, where it starts, its chunks, the bytes of its bitmap
    bits,       \* by pool, the chunks marked in its bitmap
    signed      \* address -> GAllocationMeta, where the signature stands

Pools == {"lo", "mid", "hi"}
ChunkSize == [lo |-> 32, mid |-> 64, hi |-> 128]

\* sizeof(GAllocationMeta), and sizeof(GAllocatorHeapMeta) in whole hi chunks
AllocationMetaSize == 16
HeapMetaSize == 128

AlignUp(n, a) == IF n % a = 0 THEN n ELSE n + (a - (n % a))
CeilDiv(n, d) == (n + d - 1) \div d

-----------------------------------------------------------------------------
\* How many chunks a pool gets of n bytes.
Share(p, n) == (IF p = "hi" THEN n \div 2 ELSE n \div 4) \div ChunkSize[p]

\* gallocator_init_heap.  The bitmaps are sized before their own space is
\* taken off the pools, the pools follow them, hi first, and a pool that has
\* to be aligned up loses a chunk.
InitHeap(pagespan) ==
    LET size    == pagespan * PageSize - HeapMetaSize
        bitmap  == [p \in Pools |-> CeilDiv(Share(p, size), 8)]
        bitmaps == bitmap["lo"] + bitmap["mid"] + bitmap["hi"]
        chunks  == [p \in Pools |-> Share(p, size - bitmaps)]
        hi      == HeapVaddr + HeapMetaSize + bitmaps
        mid     == hi + chunks["hi"] * ChunkSize["hi"]
        start   == [hi |-> hi, mid |-> mid,
                    lo |-> mid + chunks["mid"] * ChunkSize["mid"]]
        Aligned(p) == AlignUp(start[p], ChunkSize[p])
    IN  [p \in Pools |->
            [pool   |-> Aligned(p),
             chunks |-> IF Aligned(p) = start[p] THEN chunks[p] ELSE chunks[p] - 1,
             bitmap |-> bitmap[p]]]

GallocatorInit(pagespan) ==
    /\ heap = InitHeap(pagespan)
    /\ bits = [p \in Pools |-> {}]
    /\ signed = <<>>

-----------------------------------------------------------------------------
\* The pool for an allocation, and its length in chunks.
PoolFor(size) == IF size >= 128 THEN "hi" ELSE IF size >= 64 THEN "mid" ELSE "lo"
ChunksNeeded(size) == CeilDiv(size, ChunkSize[PoolFor(size)])

ChunkAddr(p, s) == heap[p].pool + s * ChunkSize[p]
Inside(p, s) == s < heap[p].chunks
NotFound == -1

\* gallocator_find_start_aligned, from chunk s on: an aligned chunk that is
\* free and has a free chunk before it for the metadata.
FindStartAligned(p, alignment, s) ==
    LET aligned == (AlignUp(ChunkAddr(p, s), alignment) - heap[p].pool)
                        \div ChunkSize[p]
        step    == CeilDiv(alignment, ChunkSize[p])
        walk[t \in Nat] ==
            IF ~Inside(p, t) \/ t \div 8 >= heap[p].bitmap THEN NotFound
            ELSE IF t > 0 /\ {t - 1, t} \cap bits[p] = {} THEN t
            ELSE walk[t + step]
    IN  walk[aligned]

\* gallocator_has_n_contiguous_bits: the free chunks from s on, at most n.
ContiguousBits(p, s, n) ==
    CHOOSE k \in 0 .. n :
        /\ \A i \in s .. s + k - 1 : Inside(p, i) /\ i \notin bits[p]
        /\ k = n \/ ~Inside(p, s + k) \/ s + k \in bits[p]

\* The loop of gallocator_do_alloc_aligned: a run that is too short is skipped.
SearchStart(p, alignment, n) ==
    LET search[s \in Nat] ==
            LET t == FindStartAligned(p, alignment, s)
                k == ContiguousBits(p, t, n)
            IN  IF t = NotFound \/ k = n THEN t ELSE search[t + k]
    IN  search[0]

\* Where n chunks and one for the metadata are free.
Fits(p, alignment, n, s) ==
    /\ s > 0
    /\ ChunkAddr(p, s) % alignment = 0
    /\ Inside(p, s + n - 1)
    /\ (s - 1 .. s + n - 1) \cap bits[p] = {}

\* What the search finds, without the loop (SearchIsFirstFit compares them).
FirstFit(p, alignment, n) ==
    LET fits == {s \in 0 .. heap[p].chunks : Fits(p, alignment, n, s)}
    IN  IF fits = {} THEN NotFound
        ELSE CHOOSE s \in fits : \A t \in fits : s <= t

\* Wrong variant: the metadata's chunk is not marked.
Extent_NoMeta(s, n) == s .. s + n - 1

\* The chunks gallocator_bitmap_set_bits marks and _clear_bits clears.
Extent(s, n) == s - 1 .. s + n - 1

\* Both refuse an extent that reaches the last chunk.
ExtentRefused(p, s, n) == ~Inside(p, s) \/ ~Inside(p, s + n)

\* gallocator_do_alloc_aligned, for what FirstFit finds.
AllocStart(size, alignment) == FirstFit(PoolFor(size), alignment, ChunksNeeded(size))
AllocFails(size, alignment) ==
    LET s == AllocStart(size, alignment)
    IN  s = NotFound \/ ExtentRefused(PoolFor(size), s, ChunksNeeded(size))
AllocAddr(size, alignment) == ChunkAddr(PoolFor(size), AllocStart(size, alignment))

\* The bitmaps and the metadata after it.
AllocBits(size, alignment) ==
    [bits EXCEPT ![PoolFor(size)] =
        @ \cup Extent(AllocStart(size, alignment), ChunksNeeded(size))]
MetaAt(f, a, m) == [b \in DOMAIN f \cup {a} |-> IF b = a THEN m ELSE f[b]]
AllocSigned(size, alignment) ==
    MetaAt(signed, AllocAddr(size, alignment),
           [size |-> size, pool |-> PoolFor(size), alignment |-> alignment])

\* gallocator_free: which chunks an address and its metadata stand for.
FreeStart(a) == (a - heap[signed[a].pool].pool) \div ChunkSize[signed[a].pool]
FreeChunks(a) == CeilDiv(signed[a].size, ChunkSize[signed[a].pool])
FreeRefused(a) == ExtentRefused(signed[a].pool, FreeStart(a), FreeChunks(a))

\* Wrong variant: the metadata's chunk stays marked.
FreeBits_KeepsMeta(b, a) ==
    [b EXCEPT ![signed[a].pool] = @ \ (FreeStart(a) .. FreeStart(a) + FreeChunks(a) - 1)]

\* The bitmaps b without the allocation at a.
FreeBits(b, a) ==
    [b EXCEPT ![signed[a].pool] = @ \ Extent(FreeStart(a), FreeChunks(a))]

\* The final memset of gallocator_free reaches from the metadata up to here.
WipedUpTo(a) == a + signed[a].size

\* It takes the signatures f of everything in its way with it.
FreeSigned(f, a) ==
    [b \in {c \in DOMAIN f : c < a \/ c - AllocationMetaSize >= WipedUpTo(a)}
        |-> f[b]]
=============================================================================

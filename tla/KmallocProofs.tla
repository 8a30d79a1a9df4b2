---------------------------- MODULE KmallocProofs ----------------------------
(***************************************************************************)
(* The kernel's heap is sound, for every page size, heap, span, size and   *)
(* alignment.                                                              *)
(***************************************************************************)
EXTENDS Kmalloc, FiniteSetTheorems, WellFoundedInduction, TLAPS

\* The chunk at which a block with address a begins, and the chunks it and
\* its metadata stand on.
StartOf(a, m) == (a - heap[PoolFor(m.size)].pool) \div ChunkSize[PoolFor(m.size)]
ExtentOf(a, m) == Extent(StartOf(a, m), ChunksNeeded(m.size))

\* What gallocator_free reads in front of a block.
MetaOf(m) == [size |-> m.size, pool |-> PoolFor(m.size), alignment |-> m.alignment]

\* A block stands on chunks of its pool, one after its metadata's and one
\* before the last.
BlockOK(a, m) ==
    /\ m \in [size : Sizes, alignment : Alignments]
    /\ StartOf(a, m) \in Nat \ {0}
    /\ a = ChunkAddr(PoolFor(m.size), StartOf(a, m))
    /\ StartOf(a, m) + ChunksNeeded(m.size) < heap[PoolFor(m.size)].chunks
    /\ a % m.alignment = 0

Blocks(h) == \A a \in DOMAIN h : BlockOK(a, h[a])

Apart(h) ==
    \A a, b \in DOMAIN h : a # b /\ PoolFor(h[a].size) = PoolFor(h[b].size)
        => \A i \in ExtentOf(a, h[a]) : i \notin ExtentOf(b, h[b])

Marks(h, bm) ==
    /\ bm = [p \in Pools |-> bm[p]]
    /\ \A p \in Pools : \A i : i \in bm[p] <=>
        \E a \in DOMAIN h : PoolFor(h[a].size) = p /\ i \in ExtentOf(a, h[a])

\* Blocks h and the bitmaps bm that mark them.
Sound(h, bm) == Blocks(h) /\ Apart(h) /\ Marks(h, bm)

Counters ==
    /\ IsFiniteSet(Live) /\ allocations = Cardinality(Live) + failures
    /\ bytes \in Int /\ failures \in 0 .. MaxFailures /\ panicked \in BOOLEAN

\* The inductive invariant.
KmallocInv ==
    /\ span \in PageSpans /\ heap = InitHeap(span)
    /\ Sound(live, bits)
    /\ signed = [a \in Live |-> MetaOf(live[a])]
    /\ damaged = {}
    /\ Counters

-----------------------------------------------------------------------------
\* Every set of natural numbers that has a member has a least one.
LEMMA LeastNatural ==
    ASSUME NEW T \in SUBSET Nat, T # {}
    PROVE  \E x \in T : \A y \in T : x <= y
<1>1. ASSUME NEW R, R = OpToRel(<, Nat)
      PROVE  IsWellFoundedOn(R, Nat) /\ \A x \in Nat, y \in Nat : y < x => <<y, x>> \in R
  <2>1. IsWellFoundedOn(R, Nat)
    BY <1>1, NatLessThanWellFounded, Zenon
  <2>2. \A x \in Nat, y \in Nat : y < x => <<y, x>> \in R
    BY <1>1, Zenon DEF OpToRel
  <2> QED BY <2>1, <2>2
<1>2. \E R : R = OpToRel(<, Nat)
  BY Zenon
<1>3. PICK R : IsWellFoundedOn(R, Nat) /\ \A x \in Nat, y \in Nat : y < x => <<y, x>> \in R
  BY <1>1, <1>2, Zenon
<1>4. PICK x \in T : \A y \in T : ~(<<y, x>> \in R)
  BY <1>3, WFMin
<1>5. \A y \in T : ~(y < x)
  BY <1>3, <1>4
<1> QED BY <1>5

\* The sizes of chunks.
LEMMA ChunkSizes ==
    \A p \in Pools : \/ p = "lo" /\ ChunkSize[p] = 32
                     \/ p = "mid" /\ ChunkSize[p] = 64
                     \/ p = "hi" /\ ChunkSize[p] = 128
BY DEF Pools, ChunkSize

\* The chunks of an allocation hold it.
LEMMA ChunksHoldSize ==
    ASSUME NEW size \in Nat \ {0}
    PROVE  /\ PoolFor(size) \in Pools
           /\ ChunksNeeded(size) \in Nat \ {0}
           /\ size <= ChunksNeeded(size) * ChunkSize[PoolFor(size)]
<1>1. PoolFor(size) \in Pools
  BY DEF PoolFor, Pools
<1>2. CASE ChunkSize[PoolFor(size)] = 32
  BY <1>2, <1>1 DEF ChunksNeeded, CeilDiv
<1>3. CASE ChunkSize[PoolFor(size)] = 64
  BY <1>3, <1>1 DEF ChunksNeeded, CeilDiv
<1>4. CASE ChunkSize[PoolFor(size)] = 128
  BY <1>4, <1>1 DEF ChunksNeeded, CeilDiv
<1> QED BY <1>1, <1>2, <1>3, <1>4, ChunkSizes

\* gallocator_init_heap lays the heap out as PoolsInsideHeap says.
LEMMA HeapLayout ==
    ASSUME span \in PageSpans, heap = InitHeap(span)
    PROVE  /\ heap \in [Pools -> [pool : Nat, chunks : Nat, bitmap : Nat]]
           /\ PoolsInsideHeap
<1> DEFINE size == span * PageSize - HeapMetaSize
           bitmap == [p \in Pools |-> CeilDiv(Share(p, size), 8)]
           bitmaps == bitmap["lo"] + bitmap["mid"] + bitmap["hi"]
           rest    == size - bitmaps
           chunks  == [p \in Pools |-> Share(p, rest)]
           hi      == HeapVaddr + HeapMetaSize + bitmaps
           mid     == hi + chunks["hi"] * ChunkSize["hi"]
           lo      == mid + chunks["mid"] * ChunkSize["mid"]
           At(p)   == IF p = "hi" THEN hi ELSE IF p = "mid" THEN mid ELSE lo
<1>1. size \in Nat /\ size >= 896 /\ span * PageSize = size + 128
  BY GallocatorAssumption DEF HeapMetaSize
<1>2. heap = [p \in Pools |->
                [pool   |-> AlignUp(At(p), ChunkSize[p]),
                 chunks |-> IF AlignUp(At(p), ChunkSize[p]) = At(p) THEN chunks[p] ELSE chunks[p] - 1,
                 bitmap |-> bitmap[p]]]
  BY SMTT(30) DEF InitHeap, Pools
<1> HIDE DEF size
<1>3. /\ bitmap["lo"] = (((size \div 4) \div 32) + 7) \div 8
      /\ bitmap["mid"] = (((size \div 4) \div 64) + 7) \div 8
      /\ bitmap["hi"] = (((size \div 2) \div 128) + 7) \div 8
  BY <1>1 DEF Share, CeilDiv, ChunkSize, Pools
<1> HIDE DEF bitmap
<1>4. /\ bitmap["lo"] \in Nat /\ bitmap["mid"] \in Nat /\ bitmap["hi"] \in Nat
      /\ rest \in Nat /\ rest <= size /\ rest >= 800 /\ rest + bitmaps = size
  BY <1>1, <1>3
<1>5. /\ chunks["lo"] = (rest \div 4) \div 32
      /\ chunks["mid"] = (rest \div 4) \div 64
      /\ chunks["hi"] = (rest \div 2) \div 128
  BY DEF Share, ChunkSize, Pools
<1> HIDE DEF chunks
<1>6. /\ chunks["lo"] <= 8 * bitmap["lo"]
      /\ chunks["mid"] <= 8 * bitmap["mid"]
      /\ chunks["hi"] <= 8 * bitmap["hi"]
  BY <1>1, <1>3, <1>4, <1>5
<1> HIDE DEF bitmaps, rest
<1>7. /\ chunks["lo"] \in Nat /\ chunks["mid"] \in Nat /\ chunks["hi"] \in Nat
      /\ chunks["lo"] >= 1 /\ chunks["mid"] >= 1 /\ chunks["hi"] >= 1
      /\ 32 * chunks["lo"] + 64 * chunks["mid"] + 128 * chunks["hi"] <= rest
  BY <1>4, <1>5
<1>8. bitmaps \in Nat /\ bitmaps = bitmap["lo"] + bitmap["mid"] + bitmap["hi"]
  BY <1>4 DEF bitmaps
<1>9. /\ hi \in Nat /\ mid \in Nat /\ lo \in Nat
      /\ hi = HeapVaddr + 128 + bitmaps
      /\ mid = hi + 128 * chunks["hi"] /\ lo = mid + 64 * chunks["mid"]
      /\ lo + 32 * chunks["lo"] <= HeapVaddr + span * PageSize
  BY <1>1, <1>4, <1>7, <1>8, GallocatorAssumption DEF HeapMetaSize, ChunkSize, Pools
<1> HIDE DEF hi, mid, lo
<1> DEFINE UpHi  == AlignUp(hi, ChunkSize["hi"])
           UpMid == AlignUp(mid, ChunkSize["mid"])
           UpLo  == AlignUp(lo, ChunkSize["lo"])
<1>10. ChunkSize["hi"] = 128 /\ ChunkSize["mid"] = 64 /\ ChunkSize["lo"] = 32
       /\ "hi" \in Pools /\ "mid" \in Pools /\ "lo" \in Pools
  BY DEF ChunkSize, Pools
<1>11. /\ UpHi \in Nat /\ UpHi % 128 = 0 /\ hi <= UpHi /\ UpHi < hi + 128
       /\ UpMid \in Nat /\ UpMid % 64 = 0 /\ mid <= UpMid /\ UpMid < mid + 64
       /\ UpLo \in Nat /\ UpLo % 32 = 0 /\ lo <= UpLo /\ UpLo < lo + 32
  <2>1. UpHi = AlignUp(hi, 128) /\ UpMid = AlignUp(mid, 64) /\ UpLo = AlignUp(lo, 32)
    BY <1>10
  <2> HIDE DEF UpHi, UpMid, UpLo
  <2> QED BY <1>9, <2>1 DEF AlignUp
<1> HIDE DEF UpHi, UpMid, UpLo
<1>12. /\ heap["hi"] = [pool |-> UpHi, chunks |-> IF UpHi = hi THEN chunks["hi"] ELSE chunks["hi"] - 1,
                        bitmap |-> bitmap["hi"]]
       /\ heap["mid"] = [pool |-> UpMid, chunks |-> IF UpMid = mid THEN chunks["mid"] ELSE chunks["mid"] - 1,
                         bitmap |-> bitmap["mid"]]
       /\ heap["lo"] = [pool |-> UpLo, chunks |-> IF UpLo = lo THEN chunks["lo"] ELSE chunks["lo"] - 1,
                        bitmap |-> bitmap["lo"]]
       /\ heap = [p \in Pools |-> heap[p]]
  BY <1>2, <1>10 DEF UpHi, UpMid, UpLo
<1>13. heap \in [Pools -> [pool : Nat, chunks : Nat, bitmap : Nat]]
  BY <1>4, <1>7, <1>11, <1>12 DEF Pools
<1>14. \A p \in Pools : heap[p].pool % ChunkSize[p] = 0 /\ heap[p].chunks <= heap[p].bitmap * 8
  BY <1>4, <1>6, <1>7, <1>10, <1>11, <1>12 DEF Pools
<1>15. heap["hi"].pool >= HeapVaddr + HeapMetaSize +
            heap["lo"].bitmap + heap["mid"].bitmap + heap["hi"].bitmap
  BY <1>4, <1>8, <1>9, <1>11, <1>12, GallocatorAssumption DEF HeapMetaSize
<1>16. /\ ChunkAddr("hi", heap["hi"].chunks) <= heap["mid"].pool
       /\ ChunkAddr("mid", heap["mid"].chunks) <= heap["lo"].pool
       /\ ChunkAddr("lo", heap["lo"].chunks) <= HeapVaddr + span * PageSize
  BY <1>1, <1>7, <1>9, <1>10, <1>11, <1>12, GallocatorAssumption DEF ChunkAddr
<1> QED BY <1>13, <1>14, <1>15, <1>16 DEF PoolsInsideHeap

\* Numbers that describe a block.
LEMMA BlockNumbers ==
    ASSUME span \in PageSpans, heap = InitHeap(span), NEW a, NEW m, BlockOK(a, m)
    PROVE  /\ a \in Nat
           /\ PoolFor(m.size) \in Pools
           /\ m.size \in Nat \ {0}
           /\ StartOf(a, m) \in Nat \ {0}
           /\ ChunksNeeded(m.size) \in Nat \ {0}
           /\ m.size <= ChunksNeeded(m.size) * ChunkSize[PoolFor(m.size)]
           /\ heap[PoolFor(m.size)].pool \in Nat
           /\ heap[PoolFor(m.size)].chunks \in Nat
           /\ a = heap[PoolFor(m.size)].pool + StartOf(a, m) * ChunkSize[PoolFor(m.size)]
           /\ StartOf(a, m) + ChunksNeeded(m.size) < heap[PoolFor(m.size)].chunks
<1>1. m.size \in Nat \ {0}
  <2>1. m \in [size : Sizes, alignment : Alignments]
    BY DEF BlockOK
  <2>2. m.size \in Sizes
    BY <2>1
  <2>3. Sizes \subseteq Nat \ {0}
    BY KmallocAssumption
  <2> QED BY <2>2, <2>3
<1>2. heap \in [Pools -> [pool : Nat, chunks : Nat, bitmap : Nat]]
  BY HeapLayout
<1>3. /\ PoolFor(m.size) \in Pools
      /\ ChunksNeeded(m.size) \in Nat \ {0}
      /\ m.size <= ChunksNeeded(m.size) * ChunkSize[PoolFor(m.size)]
  BY <1>1, ChunksHoldSize
<1>4. ChunkSize[PoolFor(m.size)] \in Nat
  BY <1>3, ChunkSizes
<1>5. heap[PoolFor(m.size)].pool \in Nat /\ heap[PoolFor(m.size)].chunks \in Nat
  BY <1>2, <1>3
<1>6. /\ StartOf(a, m) \in Nat \ {0}
      /\ a = heap[PoolFor(m.size)].pool + StartOf(a, m) * ChunkSize[PoolFor(m.size)]
      /\ StartOf(a, m) + ChunksNeeded(m.size) < heap[PoolFor(m.size)].chunks
  BY DEF BlockOK, ChunkAddr
<1>7. a \in Nat
  BY <1>4, <1>5, <1>6
<1> QED BY <1>1, <1>3, <1>5, <1>6, <1>7

\* A block and its metadata lie on its chunks: blocks of two pools, and
\* blocks of one pool that share no chunk, share no byte.
LEMMA BlocksApart ==
    ASSUME span \in PageSpans, heap = InitHeap(span),
           NEW a, NEW m, BlockOK(a, m), NEW b, NEW k, BlockOK(b, k),
           PoolFor(m.size) = PoolFor(k.size) => \A i \in ExtentOf(a, m) : i \notin ExtentOf(b, k)
    PROVE  a + m.size <= b - AllocationMetaSize \/ b + k.size <= a - AllocationMetaSize
<1> DEFINE p == PoolFor(m.size)
           q == PoolFor(k.size)
           s == StartOf(a, m)
           t == StartOf(b, k)
           n == ChunksNeeded(m.size)
           o == ChunksNeeded(k.size)
<1>1. /\ p \in Pools /\ m.size \in Nat \ {0} /\ s \in Nat \ {0} /\ n \in Nat \ {0}
      /\ m.size <= n * ChunkSize[p] /\ heap[p].pool \in Nat /\ heap[p].chunks \in Nat
      /\ a = heap[p].pool + s * ChunkSize[p] /\ s + n < heap[p].chunks
  BY BlockNumbers
<1>2. /\ q \in Pools /\ k.size \in Nat \ {0} /\ t \in Nat \ {0} /\ o \in Nat \ {0}
      /\ k.size <= o * ChunkSize[q] /\ heap[q].pool \in Nat /\ heap[q].chunks \in Nat
      /\ b = heap[q].pool + t * ChunkSize[q] /\ t + o < heap[q].chunks
  BY BlockNumbers
<1>3. /\ heap["hi"].pool + heap["hi"].chunks * 128 <= heap["mid"].pool
      /\ heap["mid"].pool + heap["mid"].chunks * 64 <= heap["lo"].pool
  BY HeapLayout DEF PoolsInsideHeap, ChunkAddr, ChunkSize
<1>4. heap \in [Pools -> [pool : Nat, chunks : Nat, bitmap : Nat]]
  BY HeapLayout
<1>5. p = q => s + n < t \/ t + o < s
  <2> SUFFICES ASSUME p = q, s + n >= t, t + o >= s PROVE FALSE
    BY <1>1, <1>2
  <2>1. ExtentOf(a, m) = s - 1 .. s + n - 1 /\ ExtentOf(b, k) = t - 1 .. t + o - 1
    BY DEF ExtentOf, Extent
  <2>2. \A i \in s - 1 .. s + n - 1 : i \notin t - 1 .. t + o - 1
    BY <2>1
  <2> HIDE DEF p, q, s, t, n, o
  <2>3. CASE s <= t
    BY <1>1, <1>2, <2>2, <2>3
  <2>4. CASE t <= s
    BY <1>1, <1>2, <2>2, <2>4
  <2> QED BY <1>1, <1>2, <2>3, <2>4
<1> HIDE DEF p, q, s, t, n, o
<1>6. /\ \/ p = "lo" /\ ChunkSize[p] = 32
         \/ p = "mid" /\ ChunkSize[p] = 64
         \/ p = "hi" /\ ChunkSize[p] = 128
      /\ \/ q = "lo" /\ ChunkSize[q] = 32
         \/ q = "mid" /\ ChunkSize[q] = 64
         \/ q = "hi" /\ ChunkSize[q] = 128
  BY <1>1, <1>2, ChunkSizes
<1>7. CASE p = q
  <2>1. CASE ChunkSize[p] = 32
    BY <1>1, <1>2, <1>5, <1>7, <2>1 DEF AllocationMetaSize
  <2>2. CASE ChunkSize[p] = 64
    BY <1>1, <1>2, <1>5, <1>7, <2>2 DEF AllocationMetaSize
  <2>3. CASE ChunkSize[p] = 128
    BY <1>1, <1>2, <1>5, <1>7, <2>3 DEF AllocationMetaSize
  <2> QED BY <1>6, <2>1, <2>2, <2>3
<1>8. CASE p # q
  <2>1. "lo" \in Pools /\ "mid" \in Pools /\ "hi" \in Pools
    BY DEF Pools
  <2> QED BY <1>1, <1>2, <1>3, <1>4, <1>6, <1>8, <2>1 DEF AllocationMetaSize
<1> QED BY <1>7, <1>8

\* Held blocks share no byte.
LEMMA HeldApart ==
    ASSUME span \in PageSpans, heap = InitHeap(span), NEW h, Blocks(h), Apart(h),
           NEW a \in DOMAIN h, NEW b \in DOMAIN h, a # b
    PROVE  \/ a + h[a].size <= b - AllocationMetaSize
           \/ b + h[b].size <= a - AllocationMetaSize
BY BlocksApart DEF Blocks, Apart

\* Marking the chunks of a block that are all free gives sound bitmaps of the
\* blocks with that one, which is new.
LEMMA SoundWith ==
    ASSUME span \in PageSpans, heap = InitHeap(span), NEW h, NEW bm, Sound(h, bm),
           NEW a, NEW m, BlockOK(a, m),
           \A i \in ExtentOf(a, m) : i \notin bm[PoolFor(m.size)]
    PROVE  /\ a \notin DOMAIN h
           /\ Sound(MetaAt(h, a, m),
                    [bm EXCEPT ![PoolFor(m.size)] = @ \cup ExtentOf(a, m)])
<1> DEFINE g  == MetaAt(h, a, m)
           nb == [bm EXCEPT ![PoolFor(m.size)] = @ \cup ExtentOf(a, m)]
<1>1. \A b \in DOMAIN h : PoolFor(h[b].size) = PoolFor(m.size) =>
            \A i \in ExtentOf(a, m) : i \notin ExtentOf(b, h[b])
  <2>1. PoolFor(m.size) \in Pools
    BY BlockNumbers
  <2> QED BY <2>1 DEF Sound, Marks
<1>2. a \notin DOMAIN h
  <2> SUFFICES ASSUME a \in DOMAIN h PROVE FALSE
    OBVIOUS
  <2>1. BlockOK(a, h[a])
    BY DEF Sound, Blocks
  <2>2. a + m.size <= a - AllocationMetaSize \/ a + h[a].size <= a - AllocationMetaSize
    BY <1>1, <2>1, BlocksApart
  <2>3. a \in Nat /\ m.size \in Nat /\ h[a].size \in Nat
    BY <2>1, BlockNumbers
  <2> QED BY <2>2, <2>3 DEF AllocationMetaSize
<1>3. /\ DOMAIN g = DOMAIN h \cup {a} /\ g[a] = m
      /\ \A b \in DOMAIN h : g[b] = h[b]
  BY <1>2 DEF MetaAt
<1> HIDE DEF g
<1>4. Blocks(g)
  BY <1>3 DEF Sound, Blocks
<1>5. Apart(g)
  BY <1>1, <1>2, <1>3 DEF Sound, Apart
<1>6. Marks(g, nb)
  <2>1. PoolFor(m.size) \in Pools
    BY BlockNumbers
  <2>2. /\ DOMAIN bm = Pools
        /\ nb = [p \in Pools |-> nb[p]]
        /\ \A p \in Pools : nb[p] = IF p = PoolFor(m.size) THEN bm[p] \cup ExtentOf(a, m) ELSE bm[p]
    BY <2>1 DEF Sound, Marks
  <2> HIDE DEF nb
  <2>3. ASSUME NEW p \in Pools, NEW i
        PROVE  i \in nb[p] <=> \E b \in DOMAIN g : PoolFor(g[b].size) = p /\ i \in ExtentOf(b, g[b])
    <3>1. i \in bm[p] <=> \E b \in DOMAIN h : PoolFor(h[b].size) = p /\ i \in ExtentOf(b, h[b])
      BY DEF Sound, Marks
    <3>2. (\E b \in DOMAIN g : PoolFor(g[b].size) = p /\ i \in ExtentOf(b, g[b])) <=>
            \/ \E b \in DOMAIN h : PoolFor(h[b].size) = p /\ i \in ExtentOf(b, h[b])
            \/ PoolFor(m.size) = p /\ i \in ExtentOf(a, m)
      BY <1>3
    <3> QED BY <2>2, <3>1, <3>2
  <2> QED BY <2>2, <2>3 DEF Marks
<1> QED BY <1>2, <1>4, <1>5, <1>6 DEF Sound, g

\* Clearing the chunks of a held block gives sound bitmaps of the others.
LEMMA SoundWithout ==
    ASSUME span \in PageSpans, heap = InitHeap(span), NEW h, NEW bm, Sound(h, bm),
           NEW a \in DOMAIN h
    PROVE  Sound([b \in DOMAIN h \ {a} |-> h[b]],
                 [bm EXCEPT ![PoolFor(h[a].size)] = @ \ ExtentOf(a, h[a])])
<1> DEFINE g  == [b \in DOMAIN h \ {a} |-> h[b]]
           nb == [bm EXCEPT ![PoolFor(h[a].size)] = @ \ ExtentOf(a, h[a])]
<1>1. DOMAIN g = DOMAIN h \ {a} /\ \A b \in DOMAIN g : g[b] = h[b]
  OBVIOUS
<1> HIDE DEF g
<1>2. Blocks(g)
  BY <1>1 DEF Sound, Blocks
<1>3. Apart(g)
  BY <1>1 DEF Sound, Apart
<1>4. Marks(g, nb)
  <2>1. BlockOK(a, h[a])
    BY DEF Sound, Blocks
  <2>2. PoolFor(h[a].size) \in Pools
    BY <2>1, BlockNumbers
  <2>3. /\ DOMAIN bm = Pools
        /\ nb = [p \in Pools |-> nb[p]]
        /\ \A p \in Pools : nb[p] = IF p = PoolFor(h[a].size) THEN bm[p] \ ExtentOf(a, h[a]) ELSE bm[p]
    BY <2>2 DEF Sound, Marks
  <2> HIDE DEF nb
  <2>4. ASSUME NEW p \in Pools, NEW i
        PROVE  i \in nb[p] <=> \E b \in DOMAIN g : PoolFor(g[b].size) = p /\ i \in ExtentOf(b, g[b])
    <3>1. i \in bm[p] <=> \E b \in DOMAIN h : PoolFor(h[b].size) = p /\ i \in ExtentOf(b, h[b])
      BY DEF Sound, Marks
    <3>2. \A b \in DOMAIN g : PoolFor(h[b].size) = PoolFor(h[a].size) /\ i \in ExtentOf(b, h[b])
                                => i \notin ExtentOf(a, h[a])
      BY <1>1 DEF Sound, Apart
    <3>3. CASE i \in nb[p]
      <4>1. PICK b \in DOMAIN h : PoolFor(h[b].size) = p /\ i \in ExtentOf(b, h[b])
        BY <2>3, <3>1, <3>3
      <4>2. b # a
        BY <2>3, <3>3, <4>1
      <4> QED BY <1>1, <3>3, <4>1, <4>2
    <3>4. CASE i \notin nb[p]
      BY <1>1, <2>3, <3>1, <3>2, <3>4
    <3> QED BY <3>3, <3>4
  <2> QED BY <2>3, <2>4 DEF Marks
<1> QED BY <1>2, <1>3, <1>4 DEF Sound, g

\* What an allocation that does not fail finds: a block that is aligned as
\* asked for, on chunks of its pool that are free.
LEMMA AllocPlace ==
    ASSUME span \in PageSpans, heap = InitHeap(span), Sound(live, bits),
           NEW size \in Sizes, NEW alignment \in Alignments,
           ~AllocFails(size, alignment)
    PROVE  LET a == AllocAddr(size, alignment)
               m == [size |-> size, alignment |-> alignment]
           IN  /\ BlockOK(a, m)
               /\ ExtentOf(a, m) = Extent(AllocStart(size, alignment), ChunksNeeded(size))
               /\ \A i \in ExtentOf(a, m) : i \notin bits[PoolFor(size)]
<1> DEFINE a == AllocAddr(size, alignment)
           m == [size |-> size, alignment |-> alignment]
           p == PoolFor(size)
           n == ChunksNeeded(size)
           s == AllocStart(size, alignment)
           fits == {t \in 0 .. heap[p].chunks : Fits(p, alignment, n, t)}
<1>1. size \in Nat \ {0}
  <2>1. Sizes \subseteq Nat \ {0}
    BY KmallocAssumption
  <2> QED BY <2>1
<1>2. p \in Pools /\ n \in Nat \ {0}
  BY <1>1, ChunksHoldSize
<1>3. heap[p].pool \in Nat /\ heap[p].chunks \in Nat
  BY <1>2, HeapLayout
<1>4. s # NotFound /\ s + n < heap[p].chunks
  <2>1. s # NotFound /\ ~ExtentRefused(p, s, n)
    BY DEF AllocFails
  <2> QED BY <2>1 DEF ExtentRefused, Inside
<1>5. s \in fits
  <2>1. s = IF fits = {} THEN NotFound ELSE CHOOSE t \in fits : \A u \in fits : t <= u
    BY DEF AllocStart, FirstFit
  <2>2. fits # {}
    BY <1>4, <2>1
  <2>3. \E t \in fits : \A u \in fits : t <= u
    <3>1. fits \in SUBSET Nat
      BY <1>3
    <3> HIDE DEF fits
    <3> QED BY <2>2, <3>1, LeastNatural
  <2> HIDE DEF fits, s
  <2> QED BY <2>1, <2>2, <2>3
<1>6. s \in Nat /\ s > 0 /\ ChunkAddr(p, s) % alignment = 0 /\ (s - 1 .. s + n - 1) \cap bits[p] = {}
  BY <1>3, <1>5 DEF Fits
<1>7. a = ChunkAddr(p, s) /\ a = heap[p].pool + s * ChunkSize[p]
  BY DEF AllocAddr, ChunkAddr
<1>8. StartOf(a, m) = s
  <2>1. StartOf(a, m) = (a - heap[p].pool) \div ChunkSize[p]
    BY DEF StartOf
  <2> HIDE DEF a, m, p, n, s
  <2>2. CASE ChunkSize[p] = 32
    BY <1>3, <1>6, <1>7, <2>1, <2>2
  <2>3. CASE ChunkSize[p] = 64
    BY <1>3, <1>6, <1>7, <2>1, <2>3
  <2>4. CASE ChunkSize[p] = 128
    BY <1>3, <1>6, <1>7, <2>1, <2>4
  <2> QED BY <1>2, <2>2, <2>3, <2>4, ChunkSizes
<1>9. BlockOK(a, m)
  <2>1. m \in [size : Sizes, alignment : Alignments] /\ m.size = size /\ m.alignment = alignment
    OBVIOUS
  <2>2. a % m.alignment = 0
    BY <1>6, <1>7
  <2> HIDE DEF a, m, s, n
  <2>3. StartOf(a, m) \in Nat \ {0}
    BY <1>6, <1>8
  <2>4. a = ChunkAddr(PoolFor(m.size), StartOf(a, m))
    BY <1>7, <1>8, <2>1
  <2>5. StartOf(a, m) + ChunksNeeded(m.size) < heap[PoolFor(m.size)].chunks
    BY <1>4, <1>8, <2>1 DEF n
  <2> QED BY <2>1, <2>2, <2>3, <2>4, <2>5 DEF BlockOK
<1>10. ExtentOf(a, m) = Extent(s, n)
  <2>1. m.size = size
    OBVIOUS
  <2> HIDE DEF a, m, s
  <2> QED BY <1>8, <2>1 DEF ExtentOf
<1>11. \A i \in Extent(s, n) : i \notin bits[p]
  BY <1>6 DEF Extent
<1> HIDE DEF a, m, p, n, s
<1> QED BY <1>9, <1>10, <1>11 DEF a, m, p, n, s

\* What gallocator_free finds in front of a held block are its chunks.
LEMMA FreePlace ==
    ASSUME KmallocInv, NEW a \in Live
    PROVE  /\ a \in DOMAIN signed /\ signed[a] = MetaOf(live[a])
           /\ FreeStart(a) = StartOf(a, live[a])
           /\ FreeChunks(a) = ChunksNeeded(live[a].size)
           /\ ~FreeRefused(a)
           /\ HeapIsAddrInside(a)
           /\ WipedUpTo(a) = a + live[a].size
           /\ \A bm : FreeBits(bm, a) =
                [bm EXCEPT ![PoolFor(live[a].size)] = @ \ ExtentOf(a, live[a])]
<1>1. DOMAIN signed = Live /\ signed[a] = MetaOf(live[a])
  BY DEF KmallocInv
<1>2. signed[a].size = live[a].size /\ signed[a].pool = PoolFor(live[a].size)
  BY <1>1 DEF MetaOf
<1>3. FreeStart(a) = StartOf(a, live[a]) /\ FreeChunks(a) = ChunksNeeded(live[a].size)
      /\ WipedUpTo(a) = a + live[a].size
  BY <1>2 DEF FreeStart, StartOf, FreeChunks, ChunksNeeded, WipedUpTo
<1>4. BlockOK(a, live[a])
  BY DEF KmallocInv, Sound, Blocks, Live
<1>5. /\ span \in PageSpans /\ heap = InitHeap(span)
  BY DEF KmallocInv
<1> DEFINE p == PoolFor(live[a].size)
           s == StartOf(a, live[a])
           n == ChunksNeeded(live[a].size)
<1>6. /\ p \in Pools
      /\ live[a].size \in Nat \ {0} /\ s \in Nat \ {0} /\ n \in Nat \ {0}
      /\ live[a].size <= n * ChunkSize[p]
      /\ heap[p].pool \in Nat /\ heap[p].chunks \in Nat
      /\ a = heap[p].pool + s * ChunkSize[p]
      /\ s + n < heap[p].chunks
  BY <1>4, <1>5, BlockNumbers
<1>7. ~FreeRefused(a)
  BY <1>2, <1>3, <1>6 DEF FreeRefused, ExtentRefused, Inside
<1>8. HeapIsAddrInside(a)
  <2>1. /\ heap["hi"].pool >= HeapVaddr
        /\ heap["hi"].pool + heap["hi"].chunks * 128 <= heap["mid"].pool
        /\ heap["mid"].pool + heap["mid"].chunks * 64 <= heap["lo"].pool
        /\ heap["lo"].pool + heap["lo"].chunks * 32 <= HeapVaddr + span * PageSize
        /\ heap \in [Pools -> [pool : Nat, chunks : Nat, bitmap : Nat]]
    <3>1. /\ heap \in [Pools -> [pool : Nat, chunks : Nat, bitmap : Nat]]
          /\ PoolsInsideHeap
      BY <1>5, HeapLayout
    <3> QED BY <3>1, GallocatorAssumption DEF PoolsInsideHeap, ChunkAddr, ChunkSize, Pools, HeapMetaSize
  <2>2. "lo" \in Pools /\ "mid" \in Pools /\ "hi" \in Pools
    BY DEF Pools
  <2>3. \/ p = "lo" /\ ChunkSize[p] = 32
        \/ p = "mid" /\ ChunkSize[p] = 64
        \/ p = "hi" /\ ChunkSize[p] = 128
    BY <1>6, ChunkSizes
  <2>4. HeapVaddr \in Nat /\ span * PageSize \in Nat
    BY <1>5, GallocatorAssumption
  <2> DEFINE top == HeapVaddr + span * PageSize
  <2>5. top \in Nat /\ heap["lo"].pool + heap["lo"].chunks * 32 <= top
    BY <2>1, <2>4
  <2> HIDE DEF p, s, n, top
  <2>6. a >= HeapVaddr /\ a < top
    BY <1>6, <2>1, <2>2, <2>3, <2>4, <2>5
  <2> QED BY <2>6 DEF HeapIsAddrInside, top
<1>9. \A bm : FreeBits(bm, a) = [bm EXCEPT ![p] = @ \ ExtentOf(a, live[a])]
  BY <1>2, <1>3 DEF FreeBits, ExtentOf
<1> QED BY <1>1, <1>3, <1>7, <1>8, <1>9

\* Writing to a held block and its metadata hits no other one.
LEMMA HitsNothing ==
    ASSUME span \in PageSpans, heap = InitHeap(span), NEW h, Blocks(h), Apart(h),
           NEW a \in DOMAIN h
    PROVE  /\ Hit(h, a, a - AllocationMetaSize, a + h[a].size) = {}
           /\ \A b \in DOMAIN h \ {a} : b < a \/ b - AllocationMetaSize >= a + h[a].size
<1>1. \A b \in DOMAIN h : b \in Int /\ h[b].size \in Nat
  BY BlockNumbers DEF Blocks
<1>2. \A b \in DOMAIN h \ {a} : \/ a + h[a].size <= b - AllocationMetaSize
                                \/ b + h[b].size <= a - AllocationMetaSize
  BY HeldApart
<1>3. \A b \in DOMAIN h \ {a} : ~(a - AllocationMetaSize < b + h[b].size /\ b < a + h[a].size)
  BY <1>1, <1>2 DEF AllocationMetaSize
<1>4. \A b \in DOMAIN h \ {a} : b < a \/ b - AllocationMetaSize >= a + h[a].size
  BY <1>1, <1>2 DEF AllocationMetaSize
<1> QED BY <1>3, <1>4 DEF Hit

\* The heap itself never changes.
LEMMA SoundNext ==
    ASSUME heap' = heap, Sound(live', bits')
    PROVE  Sound(live, bits)'
BY DEF Sound, Blocks, Apart, Marks, BlockOK, StartOf, ExtentOf, ChunkAddr

LEMMA KmallocKeeps ==
    ASSUME KmallocInv, NEW size \in Sizes, NEW alignment \in Alignments,
           KmallocAligned(size, alignment)
    PROVE  KmallocInv'
<1> DEFINE a == AllocAddr(size, alignment)
           m == [size |-> size, alignment |-> alignment]
<1>1. /\ span \in PageSpans /\ heap = InitHeap(span) /\ Sound(live, bits)
      /\ span' = span /\ heap' = heap
  BY DEF KmallocInv, KmallocAligned
<1>2. /\ BlockOK(a, m)
      /\ ExtentOf(a, m) = Extent(AllocStart(size, alignment), ChunksNeeded(size))
      /\ \A i \in ExtentOf(a, m) : i \notin bits[PoolFor(size)]
  BY <1>1, AllocPlace DEF KmallocAligned
<1>3. m.size = size /\ m.alignment = alignment
  OBVIOUS
<1>4. /\ live' = MetaAt(live, a, m)
      /\ bits' = [bits EXCEPT ![PoolFor(m.size)] = @ \cup ExtentOf(a, m)]
      /\ signed' = MetaAt(signed, a, MetaOf(m))
      /\ damaged' = (damaged \ {a}) \cup Hit(live, a, a - AllocationMetaSize, a + m.size)
  BY <1>2 DEF KmallocAligned, AllocBits, AllocSigned, MetaOf
<1>5. size \in Nat
  <2>1. Sizes \subseteq Nat \ {0}
    BY KmallocAssumption
  <2> QED BY <2>1
<1> HIDE DEF a, m
<1>6. a \notin Live /\ Sound(live', bits')
  BY <1>1, <1>2, <1>3, <1>4, SoundWith DEF Live
<1>7. /\ DOMAIN live' = Live \cup {a} /\ live'[a] = m
      /\ \A b \in Live : live'[b] = live[b]
  BY <1>4, <1>6 DEF MetaAt, Live
<1>8. signed' = [b \in DOMAIN live' |-> MetaOf(live'[b])]
  <2>1. DOMAIN signed = Live /\ \A b \in Live : signed[b] = MetaOf(live[b])
    BY DEF KmallocInv
  <2> QED BY <1>4, <1>6, <1>7, <2>1 DEF MetaAt
<1>9. damaged' = {}
  <2>1. Hit(live', a, a - AllocationMetaSize, a + m.size) = {}
    BY <1>1, <1>6, <1>7, HitsNothing DEF Sound
  <2>2. Hit(live, a, a - AllocationMetaSize, a + m.size) = Hit(live', a, a - AllocationMetaSize, a + m.size)
    BY <1>6, <1>7 DEF Hit, Live
  <2> QED BY <1>4, <2>1, <2>2 DEF KmallocInv
<1>10. Counters'
  <2>1. IsFiniteSet(Live) /\ Cardinality(Live) \in Nat
    BY FS_CardinalityType DEF KmallocInv, Counters
  <2>2. IsFiniteSet(Live \cup {a}) /\ Cardinality(Live \cup {a}) = Cardinality(Live) + 1
    BY <1>6, <2>1, FS_AddElement
  <2>3. Live' = Live \cup {a}
    BY <1>7 DEF Live
  <2> QED BY <1>5, <2>1, <2>2, <2>3 DEF Counters, KmallocInv, KmallocAligned
<1> QED BY <1>1, <1>6, <1>8, <1>9, <1>10, SoundNext DEF KmallocInv, Live, MetaOf, PoolFor

\* A request that fails is only counted.
LEMMA FailureKeeps ==
    ASSUME KmallocInv, NEW size \in Sizes, failures < MaxFailures,
           allocations' = allocations + 1, bytes' = bytes + size,
           failures' = failures + 1, UNCHANGED <<heap, bits, signed, span, live, damaged, panicked>>
    PROVE  KmallocInv'
<1>1. size \in Nat /\ MaxFailures \in Nat
  <2>1. Sizes \subseteq Nat \ {0} /\ MaxFailures \in Nat
    BY KmallocAssumption
  <2> QED BY <2>1
<1>2. Counters'
  <2>1. Live' = Live
    BY DEF Live
  <2>2. Cardinality(Live) \in Nat
    BY FS_CardinalityType DEF KmallocInv, Counters
  <2> QED BY <1>1, <2>1, <2>2 DEF KmallocInv, Counters
<1>3. Sound(live, bits)'
  BY SoundNext DEF KmallocInv
<1> QED BY <1>2, <1>3 DEF KmallocInv, Live, MetaOf, PoolFor

\* Freeing one of the blocks h, with the signatures f in front of them, leaves
\* those of the others.
LEMMA FreeSignedExact ==
    ASSUME KmallocInv, NEW h, Blocks(h), Apart(h), NEW a \in Live, a \in DOMAIN h, h[a] = live[a]
    PROVE  FreeSigned([b \in DOMAIN h |-> MetaOf(h[b])], a)
                = [b \in DOMAIN h \ {a} |-> MetaOf(h[b])]
<1> DEFINE f == [b \in DOMAIN h |-> MetaOf(h[b])]
<1>1. span \in PageSpans /\ heap = InitHeap(span)
  BY DEF KmallocInv
<1>2. WipedUpTo(a) = a + h[a].size
  BY FreePlace
<1>3. \A b \in DOMAIN h \ {a} : b < a \/ b - AllocationMetaSize >= WipedUpTo(a)
  BY <1>1, <1>2, HitsNothing
<1>4. ~(a < a \/ a - AllocationMetaSize >= WipedUpTo(a))
  <2>1. BlockOK(a, h[a])
    BY DEF Blocks
  <2>2. a \in Nat /\ h[a].size \in Nat
    BY <1>1, <2>1, BlockNumbers
  <2> QED BY <1>2, <2>2 DEF AllocationMetaSize
<1>5. {c \in DOMAIN f : c < a \/ c - AllocationMetaSize >= WipedUpTo(a)} = DOMAIN h \ {a}
  BY <1>3, <1>4
<1>6. \A c \in DOMAIN h : f[c] = MetaOf(h[c])
  OBVIOUS
<1> HIDE DEF f
<1>7. FreeSigned(f, a) = [b \in DOMAIN h \ {a} |-> MetaOf(h[b])]
  BY <1>5, <1>6 DEF FreeSigned
<1> QED BY <1>7 DEF f

LEMMA KfreeKeeps ==
    ASSUME KmallocInv, NEW a \in Live, Kfree(a)
    PROVE  KmallocInv' /\ panicked' = FALSE
<1> DEFINE m == live[a]
<1>1. /\ span \in PageSpans /\ heap = InitHeap(span) /\ Sound(live, bits)
      /\ span' = span /\ heap' = heap /\ failures' = failures
  BY DEF KmallocInv, Kfree
<1>2. /\ live' = [b \in Live \ {a} |-> live[b]]
      /\ bits' = [bits EXCEPT ![PoolFor(m.size)] = @ \ ExtentOf(a, m)]
      /\ signed' = FreeSigned(signed, a)
      /\ damaged' = (damaged \ {a}) \cup Hit(live, a, a - AllocationMetaSize, a + m.size)
      /\ allocations' = allocations - 1
      /\ bytes' = bytes - m.size
      /\ panicked' = panicked /\ panicked = FALSE
  BY FreePlace DEF Kfree, MetaOf, KmallocInv, Counters
<1>3. m.size \in Nat
  <2>1. BlockOK(a, live[a])
    BY <1>1 DEF Sound, Blocks, Live
  <2> QED BY <1>1, <2>1, BlockNumbers
<1>4. Sound(live', bits')
  BY <1>1, <1>2, SoundWithout DEF Live
<1>5. DOMAIN live' = Live \ {a} /\ \A b \in Live \ {a} : live'[b] = live[b]
  BY <1>2
<1>6. signed' = [b \in DOMAIN live' |-> MetaOf(live'[b])]
  <2>1. FreeSigned([b \in Live |-> MetaOf(live[b])], a) = [b \in Live \ {a} |-> MetaOf(live[b])]
    BY <1>1, FreeSignedExact DEF Sound, Live
  <2>2. signed = [b \in Live |-> MetaOf(live[b])]
    BY DEF KmallocInv
  <2> QED BY <1>2, <1>5, <2>1, <2>2
<1>7. damaged' = {}
  BY <1>1, <1>2, HitsNothing DEF KmallocInv, Sound, Live
<1>8. Counters'
  <2>1. IsFiniteSet(Live) /\ Cardinality(Live) \in Nat
    BY FS_CardinalityType DEF KmallocInv, Counters
  <2>2. IsFiniteSet(Live \ {a}) /\ Cardinality(Live \ {a}) = Cardinality(Live) - 1
    BY <2>1, FS_RemoveElement
  <2>3. Live' = Live \ {a}
    BY <1>5 DEF Live
  <2> HIDE DEF m
  <2> QED BY <1>1, <1>2, <1>3, <2>1, <2>2, <2>3 DEF Counters, KmallocInv
<1>9. Sound(live, bits)'
  BY <1>1, <1>4, SoundNext
<1>10. KmallocInv'
  BY <1>1, <1>6, <1>7, <1>8, <1>9 DEF KmallocInv, Live, MetaOf, PoolFor
<1> QED BY <1>2, <1>10

\* kfree of what nobody holds panics and changes nothing.
LEMMA KfreeInvalidKeeps ==
    ASSUME KmallocInv, NEW a, KfreeInvalid(a)
    PROVE  KmallocInv'
<1>1. a \notin DOMAIN signed
  BY DEF KmallocInv, KfreeInvalid
<1>2. panicked' = TRUE /\ UNCHANGED <<heap, bits, signed, span, live, damaged, allocations, bytes, failures>>
  BY <1>1 DEF KfreeInvalid, Kfree
<1>3. Sound(live, bits)'
  BY <1>2, SoundNext DEF KmallocInv
<1>4. Counters'
  BY <1>2 DEF Counters, KmallocInv, Live
<1> QED BY <1>2, <1>3, <1>4 DEF KmallocInv, Live, MetaOf, PoolFor

LEMMA KreallocKeeps ==
    ASSUME KmallocInv, NEW a \in Live, NEW size \in Sizes, Krealloc(a, size)
    PROVE  KmallocInv'
<1> DEFINE old == live[a]
           al  == live[a].alignment
           b   == AllocAddr(size, al)
           m   == [size |-> size, alignment |-> al]
           copied == MetaAt(live, b, m)
           nb  == [bits EXCEPT ![PoolFor(m.size)] = @ \cup ExtentOf(b, m)]
<1>1. /\ span \in PageSpans /\ heap = InitHeap(span) /\ Sound(live, bits)
      /\ span' = span /\ heap' = heap /\ failures' = failures /\ allocations' = allocations
  BY DEF KmallocInv, Krealloc
<1>2. signed[a] = MetaOf(live[a]) /\ signed[a].alignment = al /\ signed[a].size = old.size
      /\ ~FreeRefused(a) /\ WipedUpTo(a) = a + old.size
      /\ \A bm : FreeBits(bm, a) = [bm EXCEPT ![PoolFor(old.size)] = @ \ ExtentOf(a, old)]
  BY FreePlace DEF MetaOf
<1>3. BlockOK(a, old) /\ al \in Alignments
  BY <1>1 DEF Sound, Blocks, Live, BlockOK
<1>4. ~AllocFails(size, al)
  BY <1>2 DEF Krealloc
<1>5. /\ BlockOK(b, m)
      /\ ExtentOf(b, m) = Extent(AllocStart(size, al), ChunksNeeded(size))
      /\ \A i \in ExtentOf(b, m) : i \notin bits[PoolFor(size)]
  BY <1>1, <1>3, <1>4, AllocPlace
<1>6. m.size = size /\ m.alignment = al
  OBVIOUS
<1>7. AllocBits(size, al) = nb /\ AllocSigned(size, al) = MetaAt(signed, b, MetaOf(m))
  BY <1>5, <1>6 DEF AllocBits, AllocSigned, MetaOf
<1>8. /\ bits' = [nb EXCEPT ![PoolFor(old.size)] = @ \ ExtentOf(a, old)]
      /\ signed' = FreeSigned(MetaAt(signed, b, MetaOf(m)), a)
      /\ live' = [c \in DOMAIN copied \ {a} |-> copied[c]]
      /\ damaged' = ((damaged \cup Hit(live, b, b - AllocationMetaSize, b + m.size)
                              \cup Hit(copied, a, a - AllocationMetaSize, a + old.size)) \ {a})
            \cup (IF a \in damaged \cup Hit(live, b, b - AllocationMetaSize, b + m.size) THEN {b} ELSE {})
      /\ bytes' = bytes + size - old.size
      /\ panicked' = panicked
  BY <1>2, <1>7, ZenonT(30) DEF Krealloc
<1> HIDE DEF m, b
<1>9. b \notin Live /\ Sound(copied, nb)
  BY <1>1, <1>5, <1>6, SoundWith DEF Live
<1>10. /\ DOMAIN copied = Live \cup {b} /\ copied[b] = m
       /\ \A c \in Live : copied[c] = live[c]
  BY <1>9 DEF MetaAt, Live
<1> HIDE DEF copied, nb
<1>11. Sound(live', bits')
  <2>1. a \in DOMAIN copied /\ copied[a] = old
    BY <1>10
  <2> QED BY <1>1, <1>8, <1>9, <2>1, SoundWithout
<1>12. DOMAIN live' = (Live \cup {b}) \ {a} /\ \A c \in DOMAIN live' : live'[c] = copied[c]
  BY <1>8, <1>10
<1>13. signed' = [c \in DOMAIN live' |-> MetaOf(live'[c])]
  <2>1. MetaAt(signed, b, MetaOf(m)) = [c \in DOMAIN copied |-> MetaOf(copied[c])]
    <3>1. DOMAIN signed = Live /\ \A c \in Live : signed[c] = MetaOf(live[c])
      BY DEF KmallocInv
    <3> QED BY <1>9, <1>10, <3>1 DEF MetaAt
  <2>2. FreeSigned([c \in DOMAIN copied |-> MetaOf(copied[c])], a) = [c \in DOMAIN copied \ {a} |-> MetaOf(copied[c])]
    BY <1>9, <1>10, FreeSignedExact DEF Sound
  <2> QED BY <1>8, <1>10, <1>12, <2>1, <2>2
<1>14. damaged' = {}
  <2>1. Hit(copied, b, b - AllocationMetaSize, b + m.size) = {}
    BY <1>1, <1>9, <1>10, HitsNothing DEF Sound
  <2>2. Hit(live, b, b - AllocationMetaSize, b + m.size) = Hit(copied, b, b - AllocationMetaSize, b + m.size)
    BY <1>9, <1>10 DEF Hit, Live
  <2>3. Hit(copied, a, a - AllocationMetaSize, a + old.size) = {}
    BY <1>1, <1>9, <1>10, HitsNothing DEF Sound
  <2>4. damaged = {}
    BY DEF KmallocInv
  <2> QED BY <1>8, <2>1, <2>2, <2>3, <2>4
<1>15. Counters'
  <2>1. IsFiniteSet(Live) /\ Cardinality(Live) \in Nat
    BY FS_CardinalityType DEF KmallocInv, Counters
  <2>2. IsFiniteSet(Live \cup {b}) /\ Cardinality(Live \cup {b}) = Cardinality(Live) + 1
    BY <1>9, <2>1, FS_AddElement
  <2>3. /\ IsFiniteSet((Live \cup {b}) \ {a})
        /\ Cardinality((Live \cup {b}) \ {a}) = Cardinality(Live \cup {b}) - 1
    BY <2>2, FS_RemoveElement
  <2>4. Live' = (Live \cup {b}) \ {a}
    BY <1>12 DEF Live
  <2>5. old.size \in Nat
    BY <1>1, <1>3, BlockNumbers
  <2>6. size \in Nat
    <3>1. Sizes \subseteq Nat \ {0}
      BY KmallocAssumption
    <3> QED BY <3>1
  <2> HIDE DEF old
  <2> QED BY <1>1, <1>8, <2>1, <2>2, <2>3, <2>4, <2>5, <2>6 DEF Counters, KmallocInv
<1>16. Sound(live, bits)'
  BY <1>1, <1>11, SoundNext
<1> QED BY <1>1, <1>13, <1>14, <1>15, <1>16 DEF KmallocInv, Live, MetaOf, PoolFor

-----------------------------------------------------------------------------
(* The search.  Least(T) is what the searches compute. *)
Least(T) == IF T = {} THEN NotFound ELSE CHOOSE s \in T : \A t \in T : s <= t

LEMMA LeastIs ==
    ASSUME NEW T \in SUBSET Nat
    PROVE  /\ T = {} => Least(T) = NotFound
           /\ \A x \in T : (\A y \in T : x <= y) => Least(T) = x
           /\ T # {} => Least(T) \in T /\ \A y \in T : Least(T) <= y
<1>1. T # {} => \E x \in T : \A y \in T : x <= y
  BY LeastNatural
<1>2. T # {} => Least(T) \in T /\ \A y \in T : Least(T) <= y
  BY <1>1 DEF Least
<1>3. ASSUME NEW x \in T, \A y \in T : x <= y
      PROVE  Least(T) = x
  <2>1. T # {}
    OBVIOUS
  <2>2. Least(T) \in T /\ Least(T) <= x /\ x <= Least(T)
    BY <1>2, <1>3, <2>1
  <2>3. x \in Nat /\ Least(T) \in Nat
    BY <2>2
  <2> QED BY <2>2, <2>3
<1> QED BY <1>2, <1>3 DEF Least

\* The loop of gallocator_find_start_aligned, without where it starts.
WalkEq(f, p, step) ==
    f = [t \in Nat |->
            IF ~Inside(p, t) \/ t \div 8 >= heap[p].bitmap THEN NotFound
            ELSE IF t > 0 /\ {t - 1, t} \cap bits[p] = {} THEN t
            ELSE f[t + step]]

LEMMA FindIsWalk ==
    ASSUME NEW p, NEW al, NEW s
    PROVE  FindStartAligned(p, al, s) =
            (CHOOSE f : WalkEq(f, p, CeilDiv(al, ChunkSize[p])))
                [(AlignUp(ChunkAddr(p, s), al) - heap[p].pool) \div ChunkSize[p]]
BY DEF FindStartAligned, WalkEq

SearchEq(f, p, al, n) ==
    f = [s \in Nat |->
            IF \/ FindStartAligned(p, al, s) = NotFound
               \/ ContiguousBits(p, FindStartAligned(p, al, s), n) = n
            THEN FindStartAligned(p, al, s)
            ELSE f[FindStartAligned(p, al, s) + ContiguousBits(p, FindStartAligned(p, al, s), n)]]

LEMMA SearchIsLoop ==
    ASSUME NEW p, NEW al, NEW n
    PROVE  SearchStart(p, al, n) = (CHOOSE f : SearchEq(f, p, al, n))[0]
BY DEF SearchStart, SearchEq

\* What stands in for an alignment in numbers of chunks.
Steps == {1, 2, 4, 8, 16, 32, 64, 128}

LEMMA StepOf ==
    ASSUME NEW p \in Pools, NEW al \in Alignments
    PROVE  CeilDiv(al, ChunkSize[p]) \in Steps
<1>1. al \in {1, 2, 4, 8, 16, 32, 64, 128, 256, 512, 1024, 2048, 4096}
  BY KmallocAssumption
<1>2. CASE ChunkSize[p] = 32
  BY <1>1, <1>2 DEF CeilDiv, Steps
<1>3. CASE ChunkSize[p] = 64
  BY <1>1, <1>3 DEF CeilDiv, Steps
<1>4. CASE ChunkSize[p] = 128
  BY <1>1, <1>4 DEF CeilDiv, Steps
<1> QED BY <1>2, <1>3, <1>4, ChunkSizes

LEMMA ScaledRemainder ==
    ASSUME NEW p \in Pools, NEW al \in Alignments, NEW y \in Nat
    PROVE  (y * ChunkSize[p]) % al = ChunkSize[p] * (y % CeilDiv(al, ChunkSize[p]))
<1>1. al \in {1, 2, 4, 8, 16, 32, 64, 128, 256, 512, 1024, 2048, 4096}
  BY KmallocAssumption
<1>2. CASE ChunkSize[p] = 32
  BY <1>1, <1>2 DEF CeilDiv
<1>3. CASE ChunkSize[p] = 64
  BY <1>1, <1>3 DEF CeilDiv
<1>4. CASE ChunkSize[p] = 128
  BY <1>1, <1>4 DEF CeilDiv
<1> QED BY <1>2, <1>3, <1>4, ChunkSizes

\* Which chunks have an aligned address, and which is the first from s on.
LEMMA AlignedChunks ==
    ASSUME span \in PageSpans, heap = InitHeap(span), NEW p \in Pools, NEW al \in Alignments
    PROVE  LET k    == heap[p].pool \div ChunkSize[p]
               step == CeilDiv(al, ChunkSize[p])
           IN  /\ k \in Nat
               /\ \A s \in Nat :
                    /\ ChunkAddr(p, s) % al = 0 <=> (k + s) % step = 0
                    /\ (AlignUp(ChunkAddr(p, s), al) - heap[p].pool) \div ChunkSize[p]
                            = AlignUp(k + s, step) - k
<1> DEFINE c    == ChunkSize[p]
           pool == heap[p].pool
           k    == pool \div c
           step == CeilDiv(al, c)
<1>1. pool \in Nat /\ pool % c = 0
  BY HeapLayout DEF PoolsInsideHeap
<1>2. c \in {32, 64, 128}
  BY ChunkSizes
<1>3. step \in Steps
  BY StepOf
<1>4. \A y \in Nat : (y * c) % al = c * (y % step)
  BY ScaledRemainder
<1>5. al \in Nat \ {0} /\ (al <= c => step = 1) /\ (al > c => al = step * c)
  <2>1. al \in {1, 2, 4, 8, 16, 32, 64, 128, 256, 512, 1024, 2048, 4096}
    BY KmallocAssumption
  <2>2. CASE c = 32
    BY <2>1, <2>2 DEF CeilDiv
  <2>3. CASE c = 64
    BY <2>1, <2>3 DEF CeilDiv
  <2>4. CASE c = 128
    BY <2>1, <2>4 DEF CeilDiv
  <2> QED BY <1>2, <2>2, <2>3, <2>4
<1>6. \A s \in Nat : ChunkAddr(p, s) = pool + s * c
  BY DEF ChunkAddr
<1> HIDE DEF pool, step, c
<1>7. k \in Nat /\ pool = k * c
  <2>1. CASE c = 32
    BY <1>1, <2>1
  <2>2. CASE c = 64
    BY <1>1, <2>2
  <2>3. CASE c = 128
    BY <1>1, <2>3
  <2> QED BY <1>2, <2>1, <2>2, <2>3
<1> HIDE DEF k
<1>8. ASSUME NEW s \in Nat
      PROVE  /\ ChunkAddr(p, s) % al = 0 <=> (k + s) % step = 0
             /\ (AlignUp(ChunkAddr(p, s), al) - pool) \div c = AlignUp(k + s, step) - k
  <2> DEFINE y == k + s
             r == y % step
  <2>1. y \in Nat /\ s = y - k
    BY <1>7
  <2>2. ChunkAddr(p, s) = y * c
    <3>1. CASE c = 32
      BY <1>6, <1>7, <3>1
    <3>2. CASE c = 64
      BY <1>6, <1>7, <3>2
    <3>3. CASE c = 128
      BY <1>6, <1>7, <3>3
    <3> QED BY <1>2, <3>1, <3>2, <3>3
  <2>3. (y * c) % al = c * r /\ r \in Nat /\ r < step
    BY <1>3, <1>4, <2>1 DEF Steps
  <2> HIDE DEF y, r
  <2>4. ChunkAddr(p, s) % al = c * r
    BY <2>2, <2>3
  <2>5. c * r = 0 <=> r = 0
    BY <1>2, <2>3
  <2>6. AlignUp(y * c, al) = IF r = 0 THEN y * c ELSE y * c + (al - c * r)
    BY <2>3, <2>5 DEF AlignUp
  <2>7. AlignUp(y, step) = IF r = 0 THEN y ELSE y + (step - r)
    BY DEF AlignUp, r
  <2>8. r # 0 => al = step * c
    BY <1>2, <1>5, <2>3
  <2>9. (AlignUp(y * c, al) - pool) \div c = AlignUp(y, step) - k
    <3> step \in Nat
      BY <1>3 DEF Steps
    <3>1. CASE c = 32
      BY <1>7, <2>1, <2>3, <2>6, <2>7, <2>8, <3>1
    <3>2. CASE c = 64
      BY <1>7, <2>1, <2>3, <2>6, <2>7, <2>8, <3>2
    <3>3. CASE c = 128
      BY <1>7, <2>1, <2>3, <2>6, <2>7, <2>8, <3>3
    <3> QED BY <1>2, <3>1, <3>2, <3>3
  <2> QED BY <2>2, <2>4, <2>5, <2>9 DEF y, r
<1> QED BY <1>7, <1>8 DEF pool, step, c, k

\* Going on by the step reaches exactly the numbers that are aligned.
LEMMA StepsReach ==
    ASSUME NEW step \in Steps, NEW k \in Nat, NEW s \in Nat
    PROVE  LET first == AlignUp(k + s, step) - k
           IN  /\ first \in Nat /\ first >= s
               /\ \A u \in Nat : u >= s =>
                    ((k + u) % step = 0 <=> u >= first /\ (u - first) % step = 0)
BY DEF Steps, AlignUp

\* The chunks from t on, step apart, at which gallocator_find_start_aligned
\* stops.
IsStart(p, u) == u > 0 /\ {u - 1, u} \cap bits[p] = {}
Hits(p, step, t) ==
    {u \in t .. heap[p].chunks - 1 : (u - t) % step = 0 /\ IsStart(p, u)}

\* The walk ends at the first of them.
LEMMA WalkFinds ==
    ASSUME span \in PageSpans, heap = InitHeap(span), NEW p \in Pools, NEW step \in Steps,
           NEW t \in Nat
    PROVE  (CHOOSE f : WalkEq(f, p, step))[t] = Least(Hits(p, step, t))
<1> DEFINE W == [u \in Nat |-> Least(Hits(p, step, u))]
           C == heap[p].chunks
           f == CHOOSE g : WalkEq(g, p, step)
<1>1. C \in Nat /\ heap[p].bitmap \in Nat /\ C <= heap[p].bitmap * 8
  BY HeapLayout DEF PoolsInsideHeap
<1>2. step \in Nat \ {0}
  BY DEF Steps
<1>3. ASSUME NEW u \in Nat
      PROVE  /\ ~Inside(p, u) \/ u \div 8 >= heap[p].bitmap <=> u >= C
             /\ u >= C => Least(Hits(p, step, u)) = NotFound
             /\ u < C /\ IsStart(p, u) => Least(Hits(p, step, u)) = u
             /\ u < C /\ ~IsStart(p, u) => Hits(p, step, u) = Hits(p, step, u + step)
  <2>1. ~Inside(p, u) \/ u \div 8 >= heap[p].bitmap <=> u >= C
    BY <1>1 DEF Inside
  <2>2. Hits(p, step, u) \in SUBSET Nat
    BY <1>1 DEF Hits
  <2>3. u >= C => Hits(p, step, u) = {}
    BY <1>1 DEF Hits
  <2>4. u < C /\ IsStart(p, u) => u \in Hits(p, step, u)
    BY <1>1 DEF Hits, Steps
  <2>5. \A v \in Hits(p, step, u) : u <= v
    BY <1>1 DEF Hits
  <2>6. \A v \in Nat : v > u => ((v - u) % step = 0 <=> v >= u + step /\ (v - (u + step)) % step = 0)
    BY DEF Steps
  <2>7. u < C /\ ~IsStart(p, u) => Hits(p, step, u) = Hits(p, step, u + step)
    <3> SUFFICES ASSUME ~IsStart(p, u) PROVE Hits(p, step, u) = Hits(p, step, u + step)
      OBVIOUS
    <3>1. ASSUME NEW v \in Hits(p, step, u) PROVE v \in Hits(p, step, u + step)
      <4>1. v \in Nat /\ v >= u /\ v <= C - 1 /\ (v - u) % step = 0 /\ IsStart(p, v)
        BY <1>1, <3>1 DEF Hits
      <4>2. v > u
        BY <4>1
      <4> QED BY <1>1, <1>2, <2>6, <4>1, <4>2 DEF Hits
    <3>2. ASSUME NEW v \in Hits(p, step, u + step) PROVE v \in Hits(p, step, u)
      <4>1. v \in Nat /\ v >= u + step /\ v <= C - 1 /\ (v - (u + step)) % step = 0 /\ IsStart(p, v)
        BY <1>1, <1>2, <3>2 DEF Hits
      <4>2. v > u
        BY <1>2, <4>1
      <4>3. (v - u) % step = 0
        BY <2>6, <4>1, <4>2
      <4>4. v \in u .. C - 1
        BY <1>1, <4>1, <4>2
      <4> QED BY <4>1, <4>3, <4>4 DEF Hits
    <3> QED BY <3>1, <3>2
  <2> QED BY <2>1, <2>2, <2>3, <2>4, <2>5, <2>7, LeastIs
<1>4. WalkEq(W, p, step)
  <2> SUFFICES ASSUME NEW u \in Nat
               PROVE  W[u] = IF ~Inside(p, u) \/ u \div 8 >= heap[p].bitmap THEN NotFound
                             ELSE IF IsStart(p, u) THEN u ELSE W[u + step]
    BY DEF WalkEq, IsStart
  <2>1. u + step \in Nat
    BY <1>2
  <2> QED BY <1>1, <1>3, <2>1
<1>5. WalkEq(f, p, step)
  BY <1>4
<1> HIDE DEF f
<1>6. \A u \in Nat : f[u] = IF u >= C THEN NotFound ELSE IF IsStart(p, u) THEN u ELSE f[u + step]
  BY <1>1, <1>3, <1>5 DEF WalkEq, IsStart
<1> DEFINE bad == {d \in Nat : \E u \in Nat : f[u] # W[u] /\ d = C - u}
<1>7. \A u \in Nat : f[u] # W[u] => u < C /\ ~IsStart(p, u) /\ f[u + step] # W[u + step] /\ u + step \in Nat
  <2> SUFFICES ASSUME NEW u \in Nat, f[u] # W[u]
               PROVE  u < C /\ ~IsStart(p, u) /\ f[u + step] # W[u + step] /\ u + step \in Nat
    OBVIOUS
  <2>1. u + step \in Nat /\ W[u] = Least(Hits(p, step, u)) /\ W[u + step] = Least(Hits(p, step, u + step))
    BY <1>2
  <2> HIDE DEF W
  <2> QED BY <1>1, <1>3, <1>6, <2>1
<1>8. bad = {}
  <2> SUFFICES ASSUME bad # {} PROVE FALSE
    OBVIOUS
  <2>1. PICK d \in bad : \A e \in bad : d <= e
    <3>1. bad \in SUBSET Nat
      OBVIOUS
    <3> HIDE DEF bad
    <3> QED BY <3>1, LeastNatural
  <2>2. PICK u \in Nat : f[u] # W[u] /\ d = C - u
    OBVIOUS
  <2> HIDE DEF W
  <2>3. u + step < C /\ u + step \in Nat /\ f[u + step] # W[u + step]
    BY <1>1, <1>2, <1>7, <2>2
  <2>4. C - (u + step) \in bad
    BY <1>1, <2>3
  <2> QED BY <1>1, <1>2, <2>1, <2>2, <2>3, <2>4
<1>9. \A u \in Nat : f[u] = W[u]
  <2> SUFFICES ASSUME NEW u \in Nat, f[u] # W[u] PROVE FALSE
    OBVIOUS
  <2> HIDE DEF W
  <2>1. C - u \in bad
    BY <1>1, <1>7
  <2> QED BY <1>8, <2>1
<1> QED BY <1>9 DEF f

\* The aligned chunks from s on that are free after a free one.
Starts(p, al, s) ==
    {u \in s .. heap[p].chunks - 1 : ChunkAddr(p, u) % al = 0 /\ IsStart(p, u)}

LEMMA FindFinds ==
    ASSUME span \in PageSpans, heap = InitHeap(span), NEW p \in Pools, NEW al \in Alignments,
           NEW s \in Nat
    PROVE  FindStartAligned(p, al, s) = Least(Starts(p, al, s))
<1> DEFINE k     == heap[p].pool \div ChunkSize[p]
           step  == CeilDiv(al, ChunkSize[p])
           first == AlignUp(k + s, step) - k
<1>1. step \in Steps
  BY StepOf
<1>2. /\ k \in Nat
      /\ \A u \in Nat : ChunkAddr(p, u) % al = 0 <=> (k + u) % step = 0
      /\ (AlignUp(ChunkAddr(p, s), al) - heap[p].pool) \div ChunkSize[p] = first
  BY AlignedChunks
<1>3. FindStartAligned(p, al, s) = (CHOOSE f : WalkEq(f, p, step))[first]
  BY <1>2, FindIsWalk
<1> HIDE DEF k, step
<1>4. /\ first \in Nat /\ first >= s
      /\ \A u \in Nat : u >= s => ((k + u) % step = 0 <=> u >= first /\ (u - first) % step = 0)
  BY <1>1, <1>2, StepsReach
<1> HIDE DEF first
<1>5. FindStartAligned(p, al, s) = Least(Hits(p, step, first))
  BY <1>1, <1>3, <1>4, WalkFinds
<1>6. heap[p].chunks \in Nat
  BY HeapLayout
<1>7. \A u \in Nat : u >= s => (ChunkAddr(p, u) % al = 0 <=> u >= first /\ (u - first) % step = 0)
  BY <1>2, <1>4
<1>8. Hits(p, step, first) = Starts(p, al, s)
  <2>1. ASSUME NEW u \in Hits(p, step, first) PROVE u \in Starts(p, al, s)
    <3>1. u \in Nat /\ u >= first /\ u <= heap[p].chunks - 1 /\ (u - first) % step = 0 /\ IsStart(p, u)
      BY <1>4, <1>6, <2>1 DEF Hits
    <3>2. u \in s .. heap[p].chunks - 1 /\ u >= s
      BY <1>4, <1>6, <3>1
    <3> QED BY <1>7, <3>1, <3>2 DEF Starts
  <2>2. ASSUME NEW u \in Starts(p, al, s) PROVE u \in Hits(p, step, first)
    <3>1. u \in Nat /\ u >= s /\ u <= heap[p].chunks - 1 /\ ChunkAddr(p, u) % al = 0 /\ IsStart(p, u)
      BY <1>6, <2>2 DEF Starts
    <3>2. u >= first /\ (u - first) % step = 0
      BY <1>7, <3>1
    <3>3. u \in first .. heap[p].chunks - 1
      BY <1>4, <1>6, <3>1, <3>2
    <3> QED BY <3>1, <3>2, <3>3 DEF Hits
  <2> QED BY <2>1, <2>2
<1> QED BY <1>5, <1>8

\* What gallocator_has_n_contiguous_bits counts.
LEMMA ContiguousIs ==
    ASSUME span \in PageSpans, heap = InitHeap(span), NEW p \in Pools, NEW s \in Nat, NEW n \in Nat
    PROVE  LET k == ContiguousBits(p, s, n)
           IN  /\ k \in 0 .. n
               /\ \A i \in s .. s + k - 1 : Inside(p, i) /\ i \notin bits[p]
               /\ k = n \/ ~Inside(p, s + k) \/ s + k \in bits[p]
<1> DEFINE ends == {k \in 0 .. n : k = n \/ ~Inside(p, s + k) \/ s + k \in bits[p]}
<1>1. PICK k \in ends : \A j \in ends : k <= j
  <2>1. ends \in SUBSET Nat /\ n \in ends
    OBVIOUS
  <2> HIDE DEF ends
  <2>2. ends # {}
    BY <2>1
  <2> QED BY <2>1, <2>2, LeastNatural
<1>2. \A i \in s .. s + k - 1 : Inside(p, i) /\ i \notin bits[p]
  <2> SUFFICES ASSUME NEW i \in s .. s + k - 1, ~Inside(p, i) \/ i \in bits[p] PROVE FALSE
    OBVIOUS
  <2>1. k \in Nat /\ k <= n
    BY <1>1
  <2>2. i - s \in 0 .. n /\ i - s < k /\ s + (i - s) = i
    BY <2>1
  <2>3. i - s \in ends
    BY <2>2
  <2> HIDE DEF ends
  <2> QED BY <1>1, <2>1, <2>2, <2>3
<1>3. \E j \in 0 .. n : /\ \A i \in s .. s + j - 1 : Inside(p, i) /\ i \notin bits[p]
                        /\ j = n \/ ~Inside(p, s + j) \/ s + j \in bits[p]
  BY <1>1, <1>2
<1> QED BY <1>3 DEF ContiguousBits

\* The chunks from s on where an allocation of n chunks fits.
Fitting(p, al, n, s) == {u \in s .. heap[p].chunks : Fits(p, al, n, u)}

\* One round of the loop of gallocator_do_alloc_aligned: the first start from
\* s on is where it fits first, or nothing fits before the end of the run that
\* is too short.
LEMMA SearchRound ==
    ASSUME span \in PageSpans, heap = InitHeap(span), NEW p \in Pools, NEW al \in Alignments,
           NEW n \in Nat \ {0}, NEW s \in Nat
    PROVE  LET t == FindStartAligned(p, al, s)
               k == ContiguousBits(p, t, n)
           IN  /\ t = NotFound => Least(Fitting(p, al, n, s)) = NotFound
               /\ t # NotFound /\ k = n => Least(Fitting(p, al, n, s)) = t
               /\ t # NotFound /\ k # n =>
                    /\ s < heap[p].chunks /\ t + k \in Nat /\ t + k > s
                    /\ Fitting(p, al, n, s) = Fitting(p, al, n, t + k)
<1> DEFINE t == FindStartAligned(p, al, s)
           k == ContiguousBits(p, t, n)
           C == heap[p].chunks
<1>1. C \in Nat
  BY HeapLayout
<1>2. t = Least(Starts(p, al, s))
  BY FindFinds
<1>3. Starts(p, al, s) \in SUBSET Nat /\ Fitting(p, al, n, s) \in SUBSET Nat
  BY <1>1 DEF Starts, Fitting
<1>4. Fitting(p, al, n, s) \subseteq Starts(p, al, s)
  <2> SUFFICES ASSUME NEW u \in Fitting(p, al, n, s) PROVE u \in Starts(p, al, s)
    OBVIOUS
  <2>1. /\ u \in Nat /\ u >= s /\ u > 0 /\ ChunkAddr(p, u) % al = 0 /\ u + n - 1 < C
        /\ (u - 1 .. u + n - 1) \cap bits[p] = {}
    BY <1>1 DEF Fitting, Fits, Inside
  <2>2. u - 1 \in u - 1 .. u + n - 1 /\ u \in u - 1 .. u + n - 1 /\ u \in s .. C - 1
    BY <1>1, <2>1
  <2> QED BY <2>1, <2>2 DEF Starts, IsStart
<1>5. t = NotFound => Least(Fitting(p, al, n, s)) = NotFound
  <2> SUFFICES ASSUME t = NotFound PROVE Fitting(p, al, n, s) = {}
    BY <1>3, LeastIs
  <2>1. Starts(p, al, s) = {}
    <3> SUFFICES ASSUME Starts(p, al, s) # {} PROVE FALSE
      OBVIOUS
    <3>1. NotFound \in Nat
      BY <1>2, <1>3, LeastIs
    <3> QED BY <3>1 DEF NotFound
  <2> QED BY <1>4, <2>1
<1>6. ASSUME t # NotFound
      PROVE  /\ k = n => Least(Fitting(p, al, n, s)) = t
             /\ k # n => /\ s < C /\ t + k \in Nat /\ t + k > s
                         /\ Fitting(p, al, n, s) = Fitting(p, al, n, t + k)
  <2>1. t \in Starts(p, al, s) /\ \A u \in Starts(p, al, s) : t <= u
    BY <1>2, <1>3, <1>6, LeastIs
  <2>2. t \in Nat /\ t >= s /\ t < C /\ ChunkAddr(p, t) % al = 0 /\ t > 0 /\ t \notin bits[p] /\ t - 1 \notin bits[p]
    BY <1>1, <2>1 DEF Starts, IsStart
  <2> HIDE DEF t
  <2>3. /\ k \in 0 .. n
        /\ \A i \in t .. t + k - 1 : Inside(p, i) /\ i \notin bits[p]
        /\ k = n \/ ~Inside(p, t + k) \/ t + k \in bits[p]
    BY <2>2, ContiguousIs
  <2> HIDE DEF k
  <2>4. ASSUME k = n PROVE Least(Fitting(p, al, n, s)) = t
    <3>1. t + n - 1 \in t .. t + k - 1
      BY <2>2, <2>4
    <3>2. Inside(p, t + n - 1)
      BY <2>3, <3>1
    <3>3. (t - 1 .. t + n - 1) \cap bits[p] = {}
      <4> SUFFICES ASSUME NEW i \in t - 1 .. t + n - 1 PROVE i \notin bits[p]
        OBVIOUS
      <4>1. i = t - 1 \/ i \in t .. t + k - 1
        BY <2>2, <2>4
      <4> QED BY <2>2, <2>3, <4>1
    <3>4. t \in Fitting(p, al, n, s)
      <4>1. t \in s .. C
        BY <1>1, <2>2
      <4> QED BY <2>2, <3>2, <3>3, <4>1 DEF Fitting, Fits
    <3> QED BY <1>3, <1>4, <2>1, <3>4, LeastIs
  <2>5. ASSUME k # n
        PROVE  /\ s < C /\ t + k \in Nat /\ t + k > s
               /\ Fitting(p, al, n, s) = Fitting(p, al, n, t + k)
    <3>1. k \in Nat /\ k < n
      BY <2>3, <2>5
    <3>2. k # 0
      BY <1>1, <2>2, <2>3, <2>5 DEF Inside
    <3>3. s < C /\ t + k \in Nat /\ t + k > s
      BY <1>1, <2>2, <3>1, <3>2
    <3>4. ASSUME NEW u \in Fitting(p, al, n, s) PROVE u \in Fitting(p, al, n, t + k)
      <4>1. /\ u \in Nat /\ u <= C /\ Inside(p, u + n - 1)
            /\ (u - 1 .. u + n - 1) \cap bits[p] = {} /\ Fits(p, al, n, u)
        BY <1>1, <3>4 DEF Fitting, Fits
      <4>2. u >= t
        BY <1>4, <2>1, <3>4
      <4>3. u > t + k
        <5> SUFFICES ASSUME u <= t + k PROVE FALSE
          BY <2>2, <3>1, <4>1
        <5>1. t + k \in u - 1 .. u + n - 1 /\ t + k <= u + n - 1
          BY <2>2, <3>1, <4>1, <4>2
        <5>2. Inside(p, t + k)
          BY <1>1, <2>2, <3>1, <4>1, <5>1 DEF Inside
        <5> QED BY <2>3, <2>5, <4>1, <5>1, <5>2
      <4>4. u \in t + k .. C
        BY <1>1, <2>2, <3>1, <4>1, <4>3
      <4> QED BY <4>1, <4>4 DEF Fitting
    <3>5. ASSUME NEW u \in Fitting(p, al, n, t + k) PROVE u \in Fitting(p, al, n, s)
      <4>1. u \in t + k .. C /\ Fits(p, al, n, u)
        BY <3>5 DEF Fitting
      <4>2. u \in s .. C
        BY <1>1, <2>2, <3>1, <4>1
      <4> QED BY <4>1, <4>2 DEF Fitting
    <3> QED BY <3>3, <3>4, <3>5
  <2> QED BY <2>4, <2>5
<1> QED BY <1>5, <1>6

\* The loop finds the first place that fits.
LEMMA SearchFinds ==
    ASSUME span \in PageSpans, heap = InitHeap(span), NEW p \in Pools, NEW al \in Alignments,
           NEW n \in Nat \ {0}
    PROVE  SearchStart(p, al, n) = FirstFit(p, al, n)
<1> DEFINE S == [s \in Nat |-> Least(Fitting(p, al, n, s))]
           C == heap[p].chunks
           f == CHOOSE g : SearchEq(g, p, al, n)
           At(s) == FindStartAligned(p, al, s)
           Run(s) == ContiguousBits(p, At(s), n)
           Ends(s) == At(s) = NotFound \/ Run(s) = n
<1>1. C \in Nat
  BY HeapLayout
<1>2. ASSUME NEW s \in Nat
      PROVE  /\ Ends(s) => Least(Fitting(p, al, n, s)) = At(s)
             /\ ~Ends(s) => /\ s < C /\ At(s) + Run(s) \in Nat /\ At(s) + Run(s) > s
                            /\ Least(Fitting(p, al, n, s)) = Least(Fitting(p, al, n, At(s) + Run(s)))
  BY SearchRound
<1>3. SearchEq(S, p, al, n)
  <2>1. \A s \in Nat : S[s] = IF Ends(s) THEN At(s) ELSE S[At(s) + Run(s)]
    BY <1>2
  <2> QED BY <2>1 DEF SearchEq
<1>4. SearchEq(f, p, al, n)
  BY <1>3
<1> HIDE DEF f
<1>5. \A s \in Nat : f[s] = IF Ends(s) THEN At(s) ELSE f[At(s) + Run(s)]
  BY <1>4 DEF SearchEq
<1>6. \A s \in Nat : S[s] = Least(Fitting(p, al, n, s))
  OBVIOUS
<1> HIDE DEF S, At, Run, Ends
<1>7. \A s \in Nat : f[s] # S[s] =>
        /\ s < C /\ At(s) + Run(s) \in Nat /\ At(s) + Run(s) > s
        /\ f[At(s) + Run(s)] # S[At(s) + Run(s)]
  BY <1>2, <1>5, <1>6
<1> DEFINE bad == {d \in Nat : \E s \in Nat : f[s] # S[s] /\ d = C - s}
<1>8. bad = {}
  <2> SUFFICES ASSUME bad # {} PROVE FALSE
    OBVIOUS
  <2>1. PICK d \in bad : \A e \in bad : d <= e
    <3>1. bad \in SUBSET Nat
      OBVIOUS
    <3> HIDE DEF bad
    <3> QED BY <3>1, LeastNatural
  <2>2. PICK s \in Nat : f[s] # S[s] /\ d = C - s
    OBVIOUS
  <2> DEFINE u == At(s) + Run(s)
  <2>3. u \in Nat /\ u > s /\ f[u] # S[u]
    BY <1>7, <2>2
  <2> HIDE DEF u
  <2>4. u < C
    BY <1>7, <2>3
  <2>5. C - u \in bad
    BY <1>1, <2>3, <2>4
  <2> QED BY <1>1, <2>1, <2>2, <2>3, <2>4, <2>5
<1>9. f[0] = S[0]
  <2> SUFFICES ASSUME f[0] # S[0] PROVE FALSE
    OBVIOUS
  <2>1. C - 0 \in bad
    BY <1>1
  <2> QED BY <1>8, <2>1
<1>10. SearchStart(p, al, n) = f[0]
  BY SearchIsLoop DEF f
<1>11. FirstFit(p, al, n) = Least(Fitting(p, al, n, 0))
  BY DEF FirstFit, Least, Fitting
<1> QED BY <1>6, <1>9, <1>10, <1>11

-----------------------------------------------------------------------------
LEMMA KmallocInitial == Init => KmallocInv
<1> SUFFICES ASSUME Init PROVE KmallocInv
  OBVIOUS
<1>1. /\ span \in PageSpans /\ heap = InitHeap(span) /\ bits = [p \in Pools |-> {}]
      /\ signed = <<>> /\ live = <<>> /\ damaged = {}
      /\ allocations = 0 /\ bytes = 0 /\ failures = 0 /\ panicked = FALSE
  BY DEF Init, GallocatorInit
<1>2. DOMAIN live = {} /\ Live = {}
  BY <1>1 DEF Live
<1>3. Sound(live, bits)
  BY <1>1, <1>2 DEF Sound, Blocks, Apart, Marks
<1>4. signed = [a \in Live |-> MetaOf(live[a])]
  BY <1>1, <1>2
<1>5. Counters
  <2>1. IsFiniteSet(Live) /\ Cardinality(Live) = 0
    BY <1>2, FS_EmptySet
  <2>2. MaxFailures \in Nat
    BY KmallocAssumption
  <2>3. allocations = Cardinality(Live) + failures /\ bytes \in Int /\ failures \in 0 .. MaxFailures
    BY <1>1, <2>1, <2>2
  <2>4. panicked \in BOOLEAN
    BY <1>1
  <2> QED BY <2>1, <2>3, <2>4 DEF Counters
<1> QED BY <1>1, <1>3, <1>4, <1>5 DEF KmallocInv

LEMMA KmallocStep == KmallocInv /\ [Next]_vars => KmallocInv'
<1> SUFFICES ASSUME KmallocInv, [Next]_vars PROVE KmallocInv'
  OBVIOUS
<1>1. ASSUME NEW size \in Sizes, NEW alignment \in Alignments, KmallocAligned(size, alignment)
      PROVE  KmallocInv'
  BY <1>1, KmallocKeeps
<1>2. ASSUME NEW size \in Sizes, NEW alignment \in Alignments, KmallocAlignedFails(size, alignment)
      PROVE  KmallocInv'
  BY <1>2, FailureKeeps DEF KmallocAlignedFails
<1>3. ASSUME NEW a \in Live, Kfree(a) PROVE KmallocInv'
  BY <1>3, KfreeKeeps
<1>4. ASSUME NEW a \in ChunkAddrs, KfreeInvalid(a) PROVE KmallocInv'
  BY <1>4, KfreeInvalidKeeps
<1>5. ASSUME NEW a \in Live, NEW size \in Sizes, Krealloc(a, size) PROVE KmallocInv'
  BY <1>5, KreallocKeeps
<1>6. ASSUME NEW a \in Live, NEW size \in Sizes, KreallocFails(a, size) PROVE KmallocInv'
  BY <1>6, FailureKeeps DEF KreallocFails
<1>7. CASE UNCHANGED vars
  <2>1. UNCHANGED <<heap, bits, signed, span, live, damaged, allocations, bytes, failures, panicked>>
    BY <1>7 DEF vars
  <2>2. Sound(live, bits)'
    BY <2>1, SoundNext DEF KmallocInv
  <2>3. Counters'
    BY <2>1 DEF Counters, KmallocInv, Live
  <2> QED BY <2>1, <2>2, <2>3 DEF KmallocInv, Live, MetaOf, PoolFor
<1> QED BY <1>1, <1>2, <1>3, <1>4, <1>5, <1>6, <1>7 DEF Next

\* The heap's inductive invariant holds in every behaviour: blocks stand on
\* whole chunks of their pools, the bitmaps mark these chunks and no others,
\* and the metadata in front of each block describes it.
THEOREM KmallocInvariant == Spec => []KmallocInv
<1> QED BY KmallocInitial, KmallocStep, PTL DEF Spec

-----------------------------------------------------------------------------
LEMMA TypesFollow == KmallocInv => TypeOK
<1> SUFFICES ASSUME KmallocInv PROVE TypeOK
  OBVIOUS
<1>1. /\ span \in PageSpans /\ heap = InitHeap(span) /\ Sound(live, bits)
      /\ DOMAIN signed = Live /\ damaged = {} /\ Counters
  BY DEF KmallocInv
<1>2. heap \in [Pools -> [pool : Nat, chunks : Nat, bitmap : Nat]]
  BY <1>1, HeapLayout
<1>3. ASSUME NEW a \in Live
      PROVE  /\ a \in Nat /\ live[a] \in [size : Sizes, alignment : Alignments]
             /\ signed[a] \in [size : Sizes, pool : Pools, alignment : Alignments]
  <2> DEFINE m == live[a]
  <2>1. BlockOK(a, m)
    BY <1>1 DEF Sound, Blocks, Live
  <2>2. signed[a] = MetaOf(m)
    BY FreePlace
  <2> HIDE DEF m
  <2>3. PoolFor(m.size) \in Pools /\ a \in Nat
    BY <1>1, <2>1, BlockNumbers
  <2>4. m \in [size : Sizes, alignment : Alignments]
    BY <2>1 DEF BlockOK
  <2> QED BY <2>2, <2>3, <2>4 DEF MetaOf, m
<1>4. ASSUME NEW p \in Pools, NEW i \in bits[p]
      PROVE  i \in 0 .. heap[p].chunks - 1
  <2>1. PICK a \in Live : PoolFor(live[a].size) = p /\ i \in ExtentOf(a, live[a])
    BY <1>1 DEF Sound, Marks, Live
  <2> DEFINE m == live[a]
  <2>2. BlockOK(a, m)
    BY <1>1 DEF Sound, Blocks, Live
  <2> HIDE DEF m
  <2>3. /\ StartOf(a, m) \in Nat \ {0} /\ ChunksNeeded(m.size) \in Nat \ {0}
        /\ heap[PoolFor(m.size)].chunks \in Nat
        /\ StartOf(a, m) + ChunksNeeded(m.size) < heap[PoolFor(m.size)].chunks
    BY <1>1, <2>2, BlockNumbers
  <2>4. PoolFor(m.size) = p /\ i \in StartOf(a, m) - 1 .. StartOf(a, m) + ChunksNeeded(m.size) - 1
    BY <2>1 DEF m, ExtentOf, Extent
  <2> QED BY <2>3, <2>4
<1> QED BY <1>1, <1>2, <1>3, <1>4 DEF TypeOK, Counters

LEMMA BlocksFollow == KmallocInv => NoOverlap /\ Aligned /\ BitmapsExact /\ SignaturesExact
<1> SUFFICES ASSUME KmallocInv PROVE NoOverlap /\ Aligned /\ BitmapsExact /\ SignaturesExact
  OBVIOUS
<1>1. span \in PageSpans /\ heap = InitHeap(span) /\ Sound(live, bits)
  BY DEF KmallocInv
<1>2. ASSUME NEW a \in Live PROVE a \in Nat /\ live[a].size \in Nat /\ a % live[a].alignment = 0
  <2>1. BlockOK(a, live[a])
    BY <1>1 DEF Sound, Blocks, Live
  <2>2. a \in Nat /\ live[a].size \in Nat
    BY <1>1, <2>1, BlockNumbers
  <2>3. a % live[a].alignment = 0
    BY <2>1 DEF BlockOK
  <2> QED BY <2>2, <2>3
<1>3. NoOverlap
  <2> SUFFICES ASSUME NEW a \in Live, NEW b \in Live, a < b PROVE To(a) <= From(b)
    BY DEF NoOverlap
  <2>1. a # b /\ a \in Nat /\ b \in Nat /\ live[a].size \in Nat /\ live[b].size \in Nat
    BY <1>2
  <2>2. \/ a + live[a].size <= b - AllocationMetaSize
        \/ b + live[b].size <= a - AllocationMetaSize
    BY <1>1, <2>1, HeldApart DEF Sound, Live
  <2> QED BY <2>1, <2>2 DEF To, From, AllocationMetaSize
<1>4. Aligned
  BY <1>2 DEF Aligned
<1>5. BitmapsExact
  <2> SUFFICES ASSUME NEW p \in Pools PROVE bits[p] = HeldChunks(p)
    BY DEF BitmapsExact
  <2>1. \A i : i \in bits[p] <=>
            \E a \in Live : PoolFor(live[a].size) = p /\ i \in ExtentOf(a, live[a])
    BY <1>1 DEF Sound, Marks, Live
  <2>2. \A a \in Live : PoolFor(live[a].size) = p =>
            ExtentOf(a, live[a]) = Extent((a - heap[p].pool) \div ChunkSize[p], ChunksNeeded(live[a].size))
    BY DEF ExtentOf, StartOf
  <2>3. \A i : i \in HeldChunks(p) <=>
            \E a \in Live : /\ PoolFor(live[a].size) = p
                            /\ i \in Extent((a - heap[p].pool) \div ChunkSize[p], ChunksNeeded(live[a].size))
    BY DEF HeldChunks
  <2> QED BY <2>1, <2>2, <2>3
<1>6. SignaturesExact
  BY DEF SignaturesExact, KmallocInv, MetaOf
<1> QED BY <1>3, <1>4, <1>5, <1>6

LEMMA SearchFollows == KmallocInv => SearchIsFirstFit
<1> SUFFICES ASSUME KmallocInv, NEW size \in Sizes, NEW alignment \in Alignments
             PROVE  SearchStart(PoolFor(size), alignment, ChunksNeeded(size))
                        = FirstFit(PoolFor(size), alignment, ChunksNeeded(size))
  BY DEF SearchIsFirstFit
<1>1. span \in PageSpans /\ heap = InitHeap(span)
  BY DEF KmallocInv
<1>2. size \in Nat \ {0}
  <2>1. Sizes \subseteq Nat \ {0}
    BY KmallocAssumption
  <2> QED BY <2>1
<1>3. PoolFor(size) \in Pools /\ ChunksNeeded(size) \in Nat \ {0}
  BY <1>2, ChunksHoldSize
<1> QED BY <1>1, <1>3, SearchFinds

\* Whatever is allocated, reallocated and freed, and whatever of it fails: the
\* pools lie inside the heap, blocks are aligned and share no byte with one
\* another or with metadata, the bitmaps mark exactly what is held, the loop
\* of gallocator_do_alloc_aligned finds the first place that fits, and the
\* statistics are off by the requests that failed.
THEOREM HeapStaysSound == Spec => []HeapSound
<1>1. KmallocInv => HeapSound
  <2> SUFFICES ASSUME KmallocInv PROVE HeapSound
    OBVIOUS
  <2>1. PoolsInsideHeap
    BY HeapLayout DEF KmallocInv
  <2>2. StatisticsOffByFailures
    BY DEF KmallocInv, Counters, StatisticsOffByFailures
  <2> QED BY <2>1, <2>2, TypesFollow, BlocksFollow, SearchFollows DEF HeapSound
<1> QED BY <1>1, KmallocInvariant, PTL

\* No allocation, reallocation or free writes to a block that somebody else
\* holds, and krealloc copies the contents before it wipes the old block.
THEOREM ContentsStayKept == Spec => []ContentsKept
<1>1. KmallocInv => ContentsKept
  BY DEF KmallocInv, ContentsKept
<1> QED BY <1>1, KmallocInvariant, PTL

\* kfree of a held block never panics: no panic of the heap is ever the fault
\* of a caller that frees only what it holds.
THEOREM OwnersFreeSafely == Spec => [][\A a \in Live : Kfree(a) => panicked' = FALSE]_vars
<1>1. KmallocInv /\ [Next]_vars => [\A a \in Live : Kfree(a) => panicked' = FALSE]_vars
  BY KfreeKeeps
<1> QED BY <1>1, KmallocInvariant, PTL DEF Spec
=============================================================================

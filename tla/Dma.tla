--------------------------------- MODULE Dma ---------------------------------
(***************************************************************************)
(* Mapping of device memory into a process (kernel/mem/dma.c) and the      *)
(* bitmap its pages come from (kernel/utils/bitmap.c).  A bit is named by  *)
(* its place in the bitmap; a byte has ByteBits bits.                      *)
(***************************************************************************)
EXTENDS Integers, FiniteSets, FiniteSetsExt

CONSTANTS
    ByteBits,   \* bits of a byte (8)
    Bytes,      \* bytes of the bitmap, a byte for every 8 pages of the heap
    MaxPages    \* pages a caller asks for

ASSUME DmaAssumption ==
    /\ ByteBits \in Nat \ {0}
    /\ Bytes \in Nat \ {0}
    /\ MaxPages \in Nat

Bits == 0 .. Bytes * ByteBits - 1

VARIABLES
    marked,     \* the bits that are set
    dmaCursor,  \* byte_cursor and bit_cursor, as a place
    given,      \* the ranges of pages handed out: <<first, last>>
    mapped,     \* the pages of the heap that are mapped
    wrapped,    \* the cursor has come back to the beginning
    dmaPanic    \* the assertion in bitmap_first_n_free_and_mark has failed

dmaVars == <<marked, dmaCursor, given, mapped, wrapped, dmaPanic>>

\* bitmap_init.
DmaInit ==
    /\ marked = {}
    /\ dmaCursor = 0
    /\ given = {}
    /\ mapped = {}
    /\ wrapped = FALSE
    /\ dmaPanic = FALSE

\* bitmap_mark_bitmap from place p: its inner loop begins at the bit of p in
\* every byte, not only in the first.
MarkOrder(p) == {q \in Bits : q \div ByteBits >= p \div ByteBits
                              /\ q % ByteBits >= p % ByteBits}
MarkSet(p, n) == {q \in MarkOrder(p) : Cardinality({r \in MarkOrder(p) : r < q}) < n}

\* The starts of the runs of n free bits at or after the cursor.
Runs(n) == {p \in Bits : p >= dmaCursor /\ p + n - 1 \in Bits
                         /\ p .. p + n - 1 \cap marked = {}}

\* Wrong variant: the cursor stays on the last bit of the run.
CursorAfter_Last(p, n) == p + n - 1

\* The search ends behind the run it found, and goes back to the beginning at
\* the end of the bitmap.
CursorAfter(p, n) == IF p + n = Bytes * ByteBits THEN 0 ELSE p + n

\* dma_map_range finds no run.  The cursor is left at the end of the bitmap,
\* from where no later search finds anything.
MapRangeFull ==
    /\ \E n \in 1 .. MaxPages : Runs(n) = {}
    /\ dmaCursor' = Bytes * ByteBits
    /\ UNCHANGED <<marked, given, mapped, wrapped, dmaPanic>>

\* dma_map_range marks and maps n pages.  When mapping page k + 1 fails, the
\* k pages before it stay mapped and all n stay marked.
MapRange(n, k) ==
    /\ Runs(n) # {}
    /\ LET p == Min(Runs(n)) IN
       /\ Cardinality(MarkOrder(p)) >= n
       /\ marked' = marked \cup MarkSet(p, n)
       /\ dmaCursor' = CursorAfter(p, n)
       /\ wrapped' = (wrapped \/ dmaCursor' = 0)
       /\ mapped' = mapped \cup (p .. p + k - 1)
       /\ given' = IF k = n THEN given \cup {<<p, p + n - 1>>} ELSE given
    /\ UNCHANGED dmaPanic

\* bitmap_mark_bitmap runs out of bytes and the assertion fails.
MarkFails(n) ==
    /\ Runs(n) # {}
    /\ Cardinality(MarkOrder(Min(Runs(n)))) < n
    /\ dmaPanic' = TRUE
    /\ UNCHANGED <<marked, dmaCursor, given, mapped, wrapped>>

DmaNext ==
    /\ ~dmaPanic
    /\ \/ MapRangeFull
       \/ \E n \in 1 .. MaxPages : (\E k \in 0 .. n : MapRange(n, k)) \/ MarkFails(n)

DmaSpec == DmaInit /\ [][DmaNext]_dmaVars

-----------------------------------------------------------------------------
\* Until the cursor of the bitmap has come round, no two ranges that
\* dma_map_range gave out share a page, although bits of a range that spans
\* two bytes are left unmarked and others are marked in their place, and
\* every page given out is mapped.
DmaExclusive ==
    /\ ~wrapped => \A r, s \in given : r = s \/ r[2] < s[1] \/ s[2] < r[1]
    /\ \A r \in given : r[1] .. r[2] \subseteq mapped

\* Whatever is mapped into the heap belongs to a range that was given out.
\* The code does not keep this: a range that fails half way stays mapped.
OnlyGivenMapped == \A p \in mapped : \E r \in given : p \in r[1] .. r[2]

\* The assertion in bitmap_first_n_free_and_mark: marking a run that was found
\* succeeds.
\* The code does not keep this.
MarkSucceeds == ~dmaPanic
=============================================================================

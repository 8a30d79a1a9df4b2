------------------------------- MODULE Falloc -------------------------------
(***************************************************************************)
(* The page frame allocator: kernel/mem/falloc.c, with the two bit         *)
(* operations of kernel/utils/bitwise.c it is built on.                    *)
(*                                                                         *)
(* A frame is named by its place in g_pgframe_pool: <<i, bit>>, the word   *)
(* base / PAGESIZE / 64 and the bit within it.  The code's words have 64   *)
(* bits in two halves of 32, because bw_set and bw_clear treat the halves  *)
(* apart; here a half has HalfBits bits.  The kernel never runs two of     *)
(* these functions at once (it is not preemptible and no interrupt handler *)
(* allocates frames), so each is one step of its caller.                   *)
(***************************************************************************)
EXTENDS Integers, FiniteSets

CONSTANTS
    Words,      \* PAGEFRAME_POOL_SIZE
    HalfBits,   \* bits in half a word, 32 in the code
    SizeMod     \* 2^32, the range of size_t

ASSUME FallocAssumption ==
    /\ Words \in Nat /\ Words > 1
    /\ HalfBits \in Nat /\ HalfBits > 0
    /\ SizeMod \in Nat /\ SizeMod > Words * 2 * HalfBits

TopBit == 2 * HalfBits - 1
Frame  == (0 .. Words - 1) \X (0 .. TopBit)

\* The frame at physical address 0, which falloc_one_user returns on failure.
Frame0 == <<0, 0>>

VARIABLES
    used,       \* the frames whose bit in g_pgframe_pool is 1
    cnt,        \* g_pgframes_cnt
    cursor      \* <<g_pgframes_user_cursor, g_pgframes_user_subcursor>>

fallocVars == <<used, cnt, cursor>>

-----------------------------------------------------------------------------
\* f comes no later than g in the backward scan of falloc_one_user: it is at
\* or below g in the pool.
AtOrBelow(f, g) == f[1] < g[1] \/ (f[1] = g[1] /\ f[2] <= g[2])
Above(f, g)     == f[1] > g[1] \/ (f[1] = g[1] /\ f[2] > g[2])

BwSet(pool, f) == pool \cup {f}

\* bw_clear: for a bit of the low half the mask is a u32, so the and with it
\* clears the high half of the word as well.
BwCleared(f) ==
    {f} \cup {g \in Frame : g[1] = f[1] /\ f[2] < HalfBits /\ g[2] >= HalfBits}
BwClear(pool, f) == pool \ BwCleared(f)

IsFrameAvailable(f) == f \notin used

\* falloc_init: every bit set, then ffree_one on every frame of the memory map;
\* the kernel panics when the map is empty.
FallocInitPool(avail) == Frame \ UNION {BwCleared(f) : f \in avail}

\* Deliberately wrong variants, to show that the properties notice: the scan
\* starts at the end of the pool every time; the scan enters word 0.
FirstFree_FromTheEnd(f) ==
    /\ f \in Frame \ used
    /\ f[1] >= 1
    /\ \A g \in Frame \ used : AtOrBelow(g, f)
FirstFree_WordZero(f) ==
    /\ f \in Frame \ used
    /\ AtOrBelow(f, cursor)
    /\ \A g \in Frame \ used : AtOrBelow(g, cursor) => AtOrBelow(g, f)

\* Where falloc_one_user stops: the first free frame at or below the cursor
\* above word 0, which its outer loop never reaches.
FirstFree(f) ==
    /\ f \in Frame \ used
    /\ f[1] >= 1
    /\ AtOrBelow(f, cursor)
    /\ \A g \in Frame \ used : AtOrBelow(g, cursor) => AtOrBelow(g, f)

\* falloc_one_user finds no frame: the loop leaves the cursor in word 0, at
\* its last bit, and 0 is returned.
FallocOneUserFails ==
    /\ \A f \in Frame \ used : f[1] >= 1 => ~AtOrBelow(f, cursor)
    /\ cursor' = IF cursor[1] = 0 THEN cursor ELSE <<0, TopBit>>
    /\ UNCHANGED <<used, cnt>>

\* falloc_one_user returns f.
FallocOneUser(f) ==
    /\ FirstFree(f)
    /\ used' = BwSet(used, f)
    /\ cnt' = (cnt - 1) % SizeMod
    /\ cursor' = f

\* falloc_one_user returns f and its caller gives it back with ffree_one.
FallocOneUserUndone(f) ==
    /\ FirstFree(f)
    /\ used' = BwClear(BwSet(used, f), f)
    /\ cnt' = (((cnt - 1) % SizeMod) + 1) % SizeMod
    /\ cursor' = f

\* falloc_one_at(f) returning 0: the count of free frames is not touched.
FallocOneAt(f) ==
    /\ IsFrameAvailable(f)
    /\ used' = BwSet(used, f)
    /\ UNCHANGED <<cnt, cursor>>

\* n calls of ffree_one(f).
FfreeTimes(f, n) ==
    /\ used' = IF n = 0 THEN used ELSE BwClear(used, f)
    /\ cnt' = (cnt + n) % SizeMod
    /\ UNCHANGED cursor

FallocTypeOK ==
    /\ used \subseteq Frame
    /\ cnt \in 0 .. SizeMod - 1
    /\ cursor \in Frame
=============================================================================

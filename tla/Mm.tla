--------------------------------- MODULE Mm ---------------------------------
(***************************************************************************)
(* Address spaces over the frame allocator: kernel/mem/mm.c,               *)
(* kernel/mem/paging.c, kernel/mem/pagefault.c and arch/x86/mem/mm.c.      *)
(*                                                                         *)
(* A process's PagingStruct is the list of its allocated pages and the     *)
(* x86 PAE tables: a page table (pt) holds PtSpan pages, a page directory  *)
(* (pd) PdSpan page tables.  kmalloc fails whenever it likes.  The kernel  *)
(* maps its own heap page by page from the page fault handler, at the      *)
(* frame the virtual address dictates.                                     *)
(***************************************************************************)
EXTENDS Falloc, Sequences

CONSTANTS
    Procs,          \* owners of a PagingStruct
    VPages,         \* user virtual pages, by number
    PtSpan,         \* pages per page table (512)
    PdSpan,         \* page tables per page directory (512)
    PageStep,       \* allocated_pages grows by this many entries (20)
    AvailSets,      \* memory maps: the frames of g_sys_mregmap at boot
    BootFrames,     \* kernel heap frames that entry.S has mapped already
    KheapFrames,    \* frames the kernel heap addresses translate to
    NoFrame

ASSUME MmAssumption ==
    /\ VPages \subseteq Nat
    /\ PtSpan \in Nat \ {0} /\ PdSpan \in Nat \ {0} /\ PageStep \in Nat \ {0}
    /\ \A a \in AvailSets : IsFiniteSet(a) /\ a \subseteq Frame
    \* The kernel image, and with it the heap that follows, lies above the
    \* first MiB, which mm_setup_sys_mregmap removes: not in word 0.
    /\ BootFrames \subseteq KheapFrames
    /\ KheapFrames \subseteq {f \in Frame : f[1] >= 1}
    /\ NoFrame \notin Frame

VARIABLES
    avail,      \* the frames firmware said are memory (constant after boot)
    live,       \* the processes that have a PagingStruct
    pages,      \* allocated_pages[0 .. allocated_pages_size - 1]
    capacity,   \* allocated_pages_capacity
    pte,        \* the frame each page maps to, by process
    pts,        \* page tables of each process
    pds,        \* page directories of each process
    kheap,      \* kernel heap frames that are mapped
    halted      \* "no", or why the kernel panicked

mmVars == <<avail, live, pages, capacity, pte, pts, pds, kheap, halted>>
vars == <<fallocVars, mmVars>>

Pt(v) == v \div PtSpan
Pd(v) == v \div (PtSpan * PdSpan)

UserFrames == {pte[p][v] : p \in Procs, v \in VPages} \ {NoFrame}

-----------------------------------------------------------------------------
\* mm_init: falloc_init, then mm_setup_vm_allocation marks the frames of the
\* kernel heap that are mapped since boot (falloc_one_at, result ignored).
Init ==
    /\ avail \in AvailSets
    /\ used = FallocInitPool(avail) \cup BootFrames
    /\ cnt = Cardinality(avail)
    /\ cursor = <<Words - 1, TopBit>>
    /\ live = {}
    /\ pages = [p \in Procs |-> <<>>]
    /\ capacity = [p \in Procs |-> 0]
    /\ pte = [p \in Procs |-> [v \in VPages |-> NoFrame]]
    /\ pts = [p \in Procs |-> {}]
    /\ pds = [p \in Procs |-> {}]
    /\ kheap = BootFrames
    /\ halted = "no"

Running == halted = "no"

\* mm_init_paging_struct.  (When an allocation fails everything obtained is
\* released again and nothing has changed.)
InitPagingStruct(p) ==
    /\ Running
    /\ p \notin live
    /\ live' = live \cup {p}
    /\ capacity' = [capacity EXCEPT ![p] = PageStep]
    /\ UNCHANGED <<fallocVars, avail, pages, pte, pts, pds, kheap, halted>>

\* mm_new_user_page, no frame left: -ENOMEM.
NewUserPageNoFrame(p) ==
    /\ Running
    /\ p \in live
    /\ FallocOneUserFails
    /\ UNCHANGED mmVars

\* mm_map_page_arch on a user page.
MapPage(p, v, f) ==
    /\ pte' = [pte EXCEPT ![p][v] = f]
    /\ pts' = [pts EXCEPT ![p] = @ \cup {Pt(v)}]
    /\ pds' = [pds EXCEPT ![p] = @ \cup {Pd(v)}]

\* Wrong variant: the new page goes to the end of the list.
InsertAscending_AtEnd(s, v) == Append(s, v)

\* pagingstruct_track_page's insertion: before the first tracked page with a
\* greater address, the ones from there on move up by one.
InsertionPoint(s, v) ==
    LET stops == {k \in 1 .. Len(s) + 1 : k = Len(s) + 1 \/ s[k] > v}
    IN  CHOOSE k \in stops : \A j \in stops : k <= j

InsertAscending(s, v) ==
    LET idx == InsertionPoint(s, v)
    IN  [i \in 1 .. Len(s) + 1 |->
            IF i < idx THEN s[i] ELSE IF i = idx THEN v ELSE s[i - 1]]

\* pagingstruct_enlarge_allocated_pages, called on a full list.
EnlargeIfFull(p) ==
    capacity' = [capacity EXCEPT
        ![p] = IF Len(pages[p]) = @ THEN @ + PageStep ELSE @]

IsTracked(p, v) == \E i \in DOMAIN pages[p] : pages[p][i] = v

\* mm_new_user_page, mm_map_page_arch out of memory for the page directory or
\* for the page table: the frame goes back, a page directory stays.
NewUserPageUnmapped(p, v) ==
    /\ Running
    /\ p \in live
    /\ \/ Pd(v) \notin pds[p] /\ UNCHANGED pds
       \/ Pt(v) \notin pts[p] /\ pds' = [pds EXCEPT ![p] = @ \cup {Pd(v)}]
    /\ \E f \in Frame : FallocOneUserUndone(f)
    /\ UNCHANGED <<avail, live, pages, capacity, pte, pts, kheap, halted>>

\* mm_new_user_page succeeds.
NewUserPage(p, v) ==
    /\ Running
    /\ p \in live
    /\ ~IsTracked(p, v)
    /\ \E f \in Frame : FallocOneUser(f) /\ MapPage(p, v, f)
    /\ EnlargeIfFull(p)
    /\ pages' = [pages EXCEPT ![p] = InsertAscending(@, v)]
    /\ UNCHANGED <<avail, live, kheap, halted>>

\* mm_new_user_page dies in pagingstruct_track_page: the page is tracked
\* already, or the list cannot be enlarged (ASSERT_NOT_HIT in the caller).
NewUserPagePanics(p, v) ==
    /\ Running
    /\ p \in live
    /\ \E f \in Frame : FallocOneUser(f) /\ MapPage(p, v, f)
    /\ \/ /\ Len(pages[p]) = capacity[p]
          /\ halted' = "page list out of memory"
          /\ UNCHANGED capacity
       \/ /\ IsTracked(p, v)
          /\ halted' = "page tracked twice"
          /\ EnlargeIfFull(p)
    /\ UNCHANGED <<avail, live, pages, kheap>>

\* The table, and the directory, of each tracked page in list order.
TrackedPts(p) == [i \in DOMAIN pages[p] |-> Pt(pages[p][i])]
TrackedPds(p) == [i \in DOMAIN pages[p] |-> Pd(pages[p][i])]

\* Where a destroy loop calls kfree: at the start of each run of equal tables.
RunStarts(tables) ==
    {i \in DOMAIN tables : i = 1 \/ tables[i] # tables[i - 1]}

FreedTwice(tables) ==
    \E i, j \in RunStarts(tables) : i # j /\ tables[i] = tables[j]

\* mm_destroy_paging_struct: every tracked page's entry is cleared before its
\* frame is read back, so ffree_one gets frame 0 each time; then the tables,
\* the pdpt and the list are freed.  kfree panics on a second free.
DestroyPagingStruct(p) ==
    /\ Running
    /\ p \in live
    /\ FfreeTimes(Frame0, Len(pages[p]))
    /\ halted' = IF FreedTwice(TrackedPts(p)) \/ FreedTwice(TrackedPds(p))
                 THEN "freed twice" ELSE "no"
    /\ live' = live \ {p}
    /\ pages' = [pages EXCEPT ![p] = <<>>]
    /\ capacity' = [capacity EXCEPT ![p] = 0]
    /\ pte' = [pte EXCEPT ![p] = [v \in VPages |-> NoFrame]]
    /\ pts' = [pts EXCEPT ![p] = {}]
    /\ pds' = [pds EXCEPT ![p] = {}]
    /\ UNCHANGED <<avail, kheap>>

\* pagefault_handle_absent_kernel_heap for the heap page whose frame is f.
KernelHeapFault(f) ==
    /\ Running
    /\ f \notin kheap
    /\ FallocOneAt(f)
    /\ kheap' = kheap \cup {f}
    /\ UNCHANGED <<avail, live, pages, capacity, pte, pts, pds, halted>>

\* The same handler when the frame is taken, or its table cannot be allocated.
KernelHeapFaultPanics(f) ==
    /\ Running
    /\ f \notin kheap
    /\ \/ /\ ~IsFrameAvailable(f)
          /\ halted' = "kernel out of memory"
          /\ UNCHANGED fallocVars
       \/ /\ FallocOneAt(f)
          /\ halted' = "kernel out of virtual memory"
    /\ UNCHANGED <<avail, live, pages, capacity, pte, pts, pds, kheap>>

\* Every fault the handler does not resolve panics the kernel: a protection
\* fault, an absent page in ring 3 or outside the kernel heap.
PageFaultPanics ==
    /\ Running
    /\ halted' = "page fault"
    /\ UNCHANGED <<fallocVars, avail, live, pages, capacity, pte, pts, pds, kheap>>

Next ==
    \/ \E p \in Procs : InitPagingStruct(p)
    \/ \E p \in Procs : NewUserPageNoFrame(p)
    \/ \E p \in Procs, v \in VPages : NewUserPageUnmapped(p, v)
    \/ \E p \in Procs, v \in VPages : NewUserPage(p, v)
    \/ \E p \in Procs, v \in VPages : NewUserPagePanics(p, v)
    \/ \E p \in Procs : DestroyPagingStruct(p)
    \/ \E f \in KheapFrames : KernelHeapFault(f)
    \/ \E f \in KheapFrames : KernelHeapFaultPanics(f)
    \/ PageFaultPanics

Spec == Init /\ [][Next]_vars

-----------------------------------------------------------------------------
Halts == {"no", "page list out of memory", "page tracked twice",
          "freed twice", "kernel out of memory",
          "kernel out of virtual memory", "page fault"}

\* The type invariant.
TypeOK ==
    /\ FallocTypeOK
    /\ avail \in AvailSets
    /\ live \subseteq Procs
    /\ pages \in [Procs -> Seq(VPages)]
    /\ capacity \in [Procs -> Nat]
    /\ pte \in [Procs -> [VPages -> Frame \cup {NoFrame}]]
    /\ pts \in [Procs -> SUBSET Nat]
    /\ pds \in [Procs -> SUBSET Nat]
    /\ kheap \subseteq KheapFrames
    /\ halted \in Halts

\* Isolation: no page frame backs two user pages, within one address space or
\* across two.  ffree_one may mark frames free that are mapped (bw_clear wipes
\* the other half of the word), so nothing but falloc_one_user's backward
\* cursor and its refusal of word 0 stands between two processes.
UserPagesExclusive ==
    \A p, q \in Procs : \A v, w \in VPages :
        pte[p][v] # NoFrame /\ pte[p][v] = pte[q][w] => p = q /\ v = w

\* falloc_one_user never hands out a frame that already backs a user page or
\* a page of the kernel heap.
UserFramesFresh ==
    [][\A p \in Procs : \A v \in VPages :
        pte'[p][v] \notin {pte[p][v], NoFrame} =>
            pte'[p][v] \notin UserFrames \cup kheap]_vars

\* mm_destroy_paging_struct gives every page table and page directory to kfree
\* at most once: it only compares with the previous page's table, which is
\* enough because the tracked pages are ascending.
TablesFreedOnce == halted # "freed twice"

\* The page tables freed are tables the process has, and every table that
\* holds a tracked page is one of its tables.
TrackedPagesHaveTables ==
    \A p \in Procs : \A i \in DOMAIN pages[p] :
        /\ Pt(pages[p][i]) \in pts[p]
        /\ Pd(pages[p][i]) \in pds[p]
        /\ pte[p][pages[p][i]] \in Frame

-----------------------------------------------------------------------------
\* What makes the properties above inductive.  The frames of user pages are at
\* or above the cursor, where the scan does not come back; the cursor's own
\* frame is only free when no user page has it.  A kernel heap frame keeps its
\* bit as long as the scan can still reach it.
UserFramesBehindCursor ==
    \A p \in Procs : \A v \in VPages :
        pte[p][v] # NoFrame =>
            /\ AtOrBelow(cursor, pte[p][v])
            /\ pte[p][v][1] >= 1
            /\ pte[p][v] = cursor => cursor \in used

KernelFramesSafeFromScan ==
    \A f \in kheap : f \in used \/ Above(f, cursor)

\* The tracked pages of a process are strictly ascending.
Ascending(s) == \A i, j \in 1 .. Len(s) : i < j => s[i] < s[j]

PagesAscending == \A p \in Procs : Ascending(pages[p])

\* The inductive invariant: user frames behind the cursor, kernel frames
\* marked where the cursor can still come, tracked pages in order.
MmInv ==
    /\ UserFramesBehindCursor
    /\ KernelFramesSafeFromScan
    /\ PagesAscending

-----------------------------------------------------------------------------
\* falloc.c:59, "Adds any complete PAGE_FRAME_SIZE sized frames from the given
\* area": a frame handed to a user page is memory the firmware reported.
UserFramesAreMemory == UserFrames \subseteq avail

\* falloc.h: falloc_one_at returns "-ENOMEM if the requested pageframe is
\* already allocated", so the kernel heap never gets a user page's frame.
\* The code does not keep this.
KernelFramesExclusive == kheap \cap UserFrames = {}
=============================================================================

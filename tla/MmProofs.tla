------------------------------ MODULE MmProofs ------------------------------
(***************************************************************************)
(* Type correctness and user page isolation of Mm, for every pool size,    *)
(* every memory map and every set of processes and pages.                  *)
(***************************************************************************)
EXTENDS Mm, FiniteSetTheorems, WellFoundedInduction, SequenceTheorems, TLAPS

\* What bw_clear wipes lies in the word of the bit it was asked to clear.
LEMMA BwClearedType ==
    ASSUME NEW f \in Frame
    PROVE  /\ BwCleared(f) \subseteq Frame
           /\ \A g \in BwCleared(f) : g[1] = f[1]
           /\ \A g \in BwCleared(f) : g = f \/ g[2] > f[2]
  BY FallocAssumption DEF BwCleared, Frame, TopBit

LEMMA Frame0Type == Frame0 \in Frame
  BY FallocAssumption DEF Frame0, Frame, TopBit

\* A remainder of size_t arithmetic is a size_t.
LEMMA SizeModType ==
    ASSUME NEW n \in Int
    PROVE  n % SizeMod \in 0 .. SizeMod - 1
  BY FallocAssumption

LEMMA TableNumbers ==
    ASSUME NEW v \in VPages
    PROVE  Pt(v) \in Nat /\ Pd(v) \in Nat
  BY MmAssumption DEF Pt, Pd

\* A nonempty set of naturals has a least element.
LEMMA LeastNatural ==
    ASSUME NEW T, T \subseteq Nat, T # {}
    PROVE  \E x \in T : \A y \in T : x <= y
  <1>1. \E x \in T : \A y \in T : ~(<<y, x>> \in OpToRel(<, Nat))
    BY NatLessThanWellFounded, WFMin
  <1>2. \A x, y \in Nat : ~(<<y, x>> \in OpToRel(<, Nat)) => x <= y
    BY DEF OpToRel
  <1>3. QED
    BY <1>1, <1>2

\* The insertion point is where a backward-looking reader expects it: what
\* comes before is not greater, what stands there is.
LEMMA InsertionPointProperties ==
    ASSUME NEW s \in Seq(VPages), NEW v \in VPages
    PROVE  /\ InsertionPoint(s, v) \in 1 .. Len(s) + 1
           /\ \A i \in 1 .. Len(s) : i < InsertionPoint(s, v) => s[i] <= v
           /\ InsertionPoint(s, v) <= Len(s) => s[InsertionPoint(s, v)] > v
  <1> DEFINE stops == {k \in 1 .. Len(s) + 1 : k = Len(s) + 1 \/ s[k] > v}
  <1>1. stops \subseteq Nat /\ Len(s) + 1 \in stops
    OBVIOUS
  <1>2. \E k \in stops : \A j \in stops : k <= j
    BY <1>1, LeastNatural
  <1>3. /\ InsertionPoint(s, v) \in stops
        /\ \A j \in stops : InsertionPoint(s, v) <= j
    BY <1>2 DEF InsertionPoint
  <1>4. \A i \in 1 .. Len(s) : s[i] \in Nat /\ v \in Nat
    BY MmAssumption, ElementOfSeq
  <1>5. QED
    BY <1>1, <1>3, <1>4

LEMMA InsertAscendingType ==
    ASSUME NEW s \in Seq(VPages), NEW v \in VPages
    PROVE  InsertAscending(s, v) \in Seq(VPages)
  <1>1. InsertAscending(s, v) \in [1 .. Len(s) + 1 -> VPages]
    BY InsertionPointProperties DEF InsertAscending
  <1>2. QED
    BY <1>1, IsASeq

\* Inserting a page that is not tracked keeps the order the destroy loops need.
LEMMA InsertAscendingKeepsOrder ==
    ASSUME NEW s \in Seq(VPages), NEW v \in VPages, Ascending(s),
           \A i \in 1 .. Len(s) : s[i] # v
    PROVE  /\ Len(InsertAscending(s, v)) = Len(s) + 1
           /\ Ascending(InsertAscending(s, v))
  <1> DEFINE t == InsertAscending(s, v)
             k == InsertionPoint(s, v)
  <1>1. t \in Seq(VPages) /\ DOMAIN t = 1 .. Len(s) + 1
    BY InsertAscendingType DEF InsertAscending
  <1>2. Len(t) = Len(s) + 1
    BY <1>1, LenProperties
  <1>3. \A i \in 1 .. Len(s) : s[i] \in Nat /\ v \in Nat
    BY MmAssumption, ElementOfSeq
  <1>4. \A i \in 1 .. Len(s) : /\ i < k => s[i] < v
                               /\ i >= k => s[i] > v
    <2>1. /\ k \in 1 .. Len(s) + 1
          /\ \A i \in 1 .. Len(s) : i < k => s[i] <= v
          /\ k <= Len(s) => s[k] > v
      BY InsertionPointProperties
    <2> HIDE DEF k
    <2>2. ASSUME NEW i \in 1 .. Len(s), i < k PROVE s[i] < v
      BY <1>3, <2>1, <2>2
    <2>3. ASSUME NEW i \in 1 .. Len(s), i >= k PROVE s[i] > v
      <3>1. k \in 1 .. Len(s) /\ s[k] > v
        BY <2>1, <2>3
      <3>2. i = k \/ s[k] < s[i]
        BY <2>3, <3>1 DEF Ascending
      <3>3. s[i] \in Nat /\ s[k] \in Nat /\ v \in Nat
        BY <1>3, <3>1
      <3>4. QED
        BY <3>1, <3>2, <3>3
    <2>4. QED
      BY <2>2, <2>3
  <1>5. \A i \in 1 .. Len(s) + 1 :
            t[i] = IF i < k THEN s[i] ELSE IF i = k THEN v ELSE s[i - 1]
    BY DEF InsertAscending
  <1>6. ASSUME NEW i \in 1 .. Len(s) + 1, NEW j \in 1 .. Len(s) + 1, i < j
        PROVE  t[i] < t[j]
    <2> HIDE DEF t, k
    <2>0. k \in 1 .. Len(s) + 1
      BY InsertionPointProperties DEF k
    <2>1. CASE j < k
      BY <1>6, <2>0, <2>1, <1>5 DEF Ascending
    <2>2. CASE j = k
      BY <1>6, <2>0, <2>2, <1>4, <1>5
    <2>3. CASE j > k /\ i < k
      <3>1. s[i] < v /\ v < s[j - 1] /\ t[i] = s[i] /\ t[j] = s[j - 1]
        BY <1>6, <2>0, <2>3, <1>4, <1>5
      <3>2. s[i] \in Nat /\ s[j - 1] \in Nat /\ v \in Nat
        BY <1>3, <2>0, <2>3, <1>6
      <3>3. QED
        BY <3>1, <3>2
    <2>4. CASE i = k
      BY <1>6, <2>0, <2>4, <1>4, <1>5
    <2>5. CASE i > k
      BY <1>6, <2>0, <2>5, <1>5 DEF Ascending
    <2>6. QED
      BY <1>6, <2>0, <2>1, <2>2, <2>3, <2>4, <2>5
  <1>7. QED
    BY <1>2, <1>6 DEF Ascending

-----------------------------------------------------------------------------
\* The type invariant, one action at a time.
LEMMA InitTypeOK == Init => TypeOK
  <1> SUFFICES ASSUME Init PROVE TypeOK
    OBVIOUS
  <1>1. avail \subseteq Frame /\ IsFiniteSet(avail)
    BY MmAssumption DEF Init
  <1>2. /\ IsFiniteSet(0 .. Words - 1) /\ Cardinality(0 .. Words - 1) = Words
        /\ IsFiniteSet(0 .. TopBit) /\ Cardinality(0 .. TopBit) = 2 * HalfBits
    BY FallocAssumption, FS_Interval DEF TopBit
  <1>3. IsFiniteSet(Frame) /\ Cardinality(Frame) = Words * (2 * HalfBits)
    <2>1. /\ IsFiniteSet((0 .. Words - 1) \X (0 .. TopBit))
          /\ Cardinality((0 .. Words - 1) \X (0 .. TopBit)) =
                Cardinality(0 .. Words - 1) * Cardinality(0 .. TopBit)
      BY <1>2, FS_Product
    <2>2. QED
      BY <1>2, <2>1 DEF Frame
  <1>4. Cardinality(avail) \in Nat /\ Cardinality(avail) <= Cardinality(Frame)
    BY <1>1, <1>3, FS_Subset, FS_CardinalityType
  <1>5. cnt \in 0 .. SizeMod - 1
    <2>1. Words * (2 * HalfBits) = Words * 2 * HalfBits
      BY FallocAssumption
    <2>2. QED
      BY <1>3, <1>4, <2>1, FallocAssumption DEF Init
  <1>6. used \subseteq Frame
    BY MmAssumption DEF Init, FallocInitPool
  <1>7. cursor \in Frame
    BY FallocAssumption DEF Init, Frame, TopBit
  <1>8. pages \in [Procs -> Seq(VPages)]
    BY EmptySeq DEF Init
  <1>9. QED
    BY <1>5, <1>6, <1>7, <1>8, MmAssumption
    DEF Init, TypeOK, FallocTypeOK, Halts

\* The frame falloc_one_user stops at is a frame, and so is the pool after it.
LEMMA FallocOneUserTyped ==
    ASSUME FallocTypeOK, NEW f \in Frame, FallocOneUser(f)
    PROVE  FallocTypeOK'
  <1>1. cnt' \in 0 .. SizeMod - 1
    BY SizeModType DEF FallocOneUser, FallocTypeOK
  <1>2. QED
    BY <1>1 DEF FallocOneUser, FallocTypeOK, BwSet

LEMMA FallocOneUserUndoneTyped ==
    ASSUME FallocTypeOK, NEW f \in Frame, FallocOneUserUndone(f)
    PROVE  FallocTypeOK'
  <1>1. (cnt - 1) % SizeMod \in Int
    BY SizeModType DEF FallocTypeOK
  <1>2. cnt' \in 0 .. SizeMod - 1
    BY <1>1, SizeModType DEF FallocOneUserUndone
  <1>3. QED
    BY <1>2 DEF FallocOneUserUndone, FallocTypeOK, BwSet, BwClear

LEMMA FfreeTimesTyped ==
    ASSUME FallocTypeOK, NEW f \in Frame, NEW n \in Nat, FfreeTimes(f, n)
    PROVE  FallocTypeOK'
  <1>1. cnt' \in 0 .. SizeMod - 1
    BY SizeModType DEF FfreeTimes, FallocTypeOK
  <1>2. QED
    BY <1>1 DEF FfreeTimes, FallocTypeOK, BwClear

LEMMA MapPageTyped ==
    ASSUME TypeOK, NEW p \in Procs, NEW v \in VPages, NEW f \in Frame,
           MapPage(p, v, f)
    PROVE  /\ pte' \in [Procs -> [VPages -> Frame \cup {NoFrame}]]
           /\ pts' \in [Procs -> SUBSET Nat]
           /\ pds' \in [Procs -> SUBSET Nat]
  BY TableNumbers DEF TypeOK, MapPage

LEMMA EnlargeTyped ==
    ASSUME TypeOK, NEW p \in Procs, EnlargeIfFull(p)
    PROVE  capacity' \in [Procs -> Nat]
  BY MmAssumption DEF TypeOK, EnlargeIfFull

LEMMA NextTypeOK == TypeOK /\ [Next]_vars => TypeOK'
  <1> SUFFICES ASSUME TypeOK, [Next]_vars PROVE TypeOK'
    OBVIOUS
  <1>1. ASSUME NEW p \in Procs, InitPagingStruct(p) PROVE TypeOK'
    BY <1>1, MmAssumption
    DEF InitPagingStruct, TypeOK, FallocTypeOK, fallocVars
  <1>2. ASSUME NEW p \in Procs, NewUserPageNoFrame(p) PROVE TypeOK'
    <2>1. <<0, TopBit>> \in Frame
      BY FallocAssumption DEF Frame, TopBit
    <2>2. QED
      BY <1>2, <2>1
      DEF NewUserPageNoFrame, FallocOneUserFails, TypeOK, FallocTypeOK, mmVars
  <1>3. ASSUME NEW p \in Procs, NEW v \in VPages, NewUserPageUnmapped(p, v)
        PROVE  TypeOK'
    <2>1. FallocTypeOK'
      BY <1>3, FallocOneUserUndoneTyped DEF NewUserPageUnmapped, TypeOK
    <2>2. pds' \in [Procs -> SUBSET Nat]
      <3>1. Pd(v) \in Nat
        BY TableNumbers
      <3>2. pds' = pds \/ pds' = [pds EXCEPT ![p] = @ \cup {Pd(v)}]
        BY <1>3 DEF NewUserPageUnmapped
      <3>3. pds \in [Procs -> SUBSET Nat]
        BY DEF TypeOK
      <3>4. pds[p] \cup {Pd(v)} \in SUBSET Nat
        BY <3>1, <3>3
      <3>5. QED
        BY <3>2, <3>3, <3>4
    <2>3. QED
      BY <1>3, <2>1, <2>2 DEF NewUserPageUnmapped, TypeOK
  <1>4. ASSUME NEW p \in Procs, NEW v \in VPages, NewUserPage(p, v)
        PROVE  TypeOK'
    <2>1. PICK f \in Frame : FallocOneUser(f) /\ MapPage(p, v, f)
      BY <1>4 DEF NewUserPage
    <2>2. FallocTypeOK'
      BY <2>1, FallocOneUserTyped DEF TypeOK
    <2>3. pages' \in [Procs -> Seq(VPages)]
      BY <1>4, InsertAscendingType DEF NewUserPage, TypeOK
    <2>4. capacity' \in [Procs -> Nat]
      BY <1>4, EnlargeTyped DEF NewUserPage
    <2>5. QED
      BY <1>4, <2>1, <2>2, <2>3, <2>4, MapPageTyped DEF NewUserPage, TypeOK
  <1>5. ASSUME NEW p \in Procs, NEW v \in VPages, NewUserPagePanics(p, v)
        PROVE  TypeOK'
    <2>1. PICK f \in Frame : FallocOneUser(f) /\ MapPage(p, v, f)
      BY <1>5 DEF NewUserPagePanics
    <2>2. FallocTypeOK'
      BY <2>1, FallocOneUserTyped DEF TypeOK
    <2>3. capacity' \in [Procs -> Nat] /\ halted' \in Halts
      BY <1>5, EnlargeTyped DEF NewUserPagePanics, TypeOK, Halts
    <2>4. QED
      BY <1>5, <2>1, <2>2, <2>3, MapPageTyped DEF NewUserPagePanics, TypeOK
  <1>6. ASSUME NEW p \in Procs, DestroyPagingStruct(p) PROVE TypeOK'
    <2>1. FallocTypeOK'
      <3>1. Len(pages[p]) \in Nat
        BY DEF TypeOK
      <3>2. QED
        BY <1>6, <3>1, Frame0Type, FfreeTimesTyped
        DEF DestroyPagingStruct, TypeOK
    <2>2. pages' \in [Procs -> Seq(VPages)]
      BY <1>6, EmptySeq DEF DestroyPagingStruct, TypeOK
    <2>3. halted' \in Halts
      BY <1>6 DEF DestroyPagingStruct, Halts
    <2>4. QED
      BY <1>6, <2>1, <2>2, <2>3 DEF DestroyPagingStruct, TypeOK
  <1>7. ASSUME NEW f \in KheapFrames, KernelHeapFault(f) PROVE TypeOK'
    BY <1>7, MmAssumption
    DEF KernelHeapFault, FallocOneAt, BwSet, TypeOK, FallocTypeOK
  <1>8. ASSUME NEW f \in KheapFrames, KernelHeapFaultPanics(f) PROVE TypeOK'
    BY <1>8, MmAssumption
    DEF KernelHeapFaultPanics, FallocOneAt, BwSet, TypeOK, FallocTypeOK,
        fallocVars, Halts
  <1>9. CASE PageFaultPanics
    BY <1>9 DEF PageFaultPanics, TypeOK, FallocTypeOK, fallocVars, Halts
  <1>10. CASE UNCHANGED vars
    BY <1>10 DEF vars, mmVars, fallocVars, TypeOK, FallocTypeOK
  <1>11. QED
    BY <1>1, <1>2, <1>3, <1>4, <1>5, <1>6, <1>7, <1>8, <1>9, <1>10 DEF Next

\* Every variable keeps its type, whatever the memory map.
THEOREM TypeCorrect == Spec => []TypeOK
  BY InitTypeOK, NextTypeOK, PTL DEF Spec

-----------------------------------------------------------------------------
\* What falloc_one_user returns is at or below the cursor and backs neither a
\* user page nor a mapped kernel heap page.
LEMMA FirstFreeIsFresh ==
    ASSUME TypeOK, MmInv, NEW f \in Frame, FirstFree(f)
    PROVE  /\ f \notin used /\ f[1] >= 1 /\ AtOrBelow(f, cursor)
           /\ f \notin kheap
           /\ \A p \in Procs : \A v \in VPages :
                pte[p][v] # NoFrame => pte[p][v] # f /\ Above(pte[p][v], f)
  <1>1. f \notin used /\ f[1] >= 1 /\ AtOrBelow(f, cursor)
    BY DEF FirstFree
  <1>2. cursor \in Frame /\ f[1] \in Nat /\ f[2] \in Nat
        /\ cursor[1] \in Nat /\ cursor[2] \in Nat
    BY FallocAssumption DEF TypeOK, FallocTypeOK, Frame, TopBit
  <1>3. f \notin kheap
    BY <1>1, <1>2 DEF MmInv, KernelFramesSafeFromScan, Above, AtOrBelow
  <1>4. ASSUME NEW p \in Procs, NEW v \in VPages, pte[p][v] # NoFrame
        PROVE  pte[p][v] # f /\ Above(pte[p][v], f)
    <2>1. pte[p][v] \in Frame
      BY <1>4 DEF TypeOK
    <2>2. /\ pte[p][v][1] \in Nat /\ pte[p][v][2] \in Nat
          /\ pte[p][v] = <<pte[p][v][1], pte[p][v][2]>>
          /\ f = <<f[1], f[2]>> /\ cursor = <<cursor[1], cursor[2]>>
      BY <2>1, <1>2, FallocAssumption DEF Frame, TopBit
    <2>3. AtOrBelow(cursor, pte[p][v]) /\ (pte[p][v] = cursor => cursor \in used)
      BY <1>4 DEF MmInv, UserFramesBehindCursor
    <2>4. pte[p][v] # f
      BY <1>1, <1>2, <2>2, <2>3 DEF AtOrBelow
    <2>5. QED
      BY <1>1, <1>2, <2>2, <2>3, <2>4 DEF AtOrBelow, Above
  <1>5. QED
    BY <1>1, <1>3, <1>4

\* A step that takes the first free frame f, maps it for page v of p or gives
\* it back, keeps the cursor invariants.
LEMMA TakeFramePreserves ==
    ASSUME TypeOK, MmInv, NEW f \in Frame, FirstFree(f), cursor' = f,
           kheap' = kheap,
           \/ used' = used \cup {f}
           \/ used' = (used \cup {f}) \ BwCleared(f) /\ pte' = pte,
           \/ pte' = pte
           \/ \E p \in Procs, v \in VPages : pte' = [pte EXCEPT ![p][v] = f]
    PROVE  UserFramesBehindCursor' /\ KernelFramesSafeFromScan'
  <1>1. ASSUME NEW q \in Procs, NEW w \in VPages, pte'[q][w] # NoFrame
        PROVE  /\ AtOrBelow(f, pte'[q][w])
               /\ pte'[q][w][1] >= 1
               /\ pte'[q][w] = f => f \in used'
    <2>1. CASE pte'[q][w] = f /\ used' = used \cup {f}
      BY <2>1, FirstFreeIsFresh, FallocAssumption DEF AtOrBelow, Frame, TopBit
    <2>2. CASE pte'[q][w] = pte[q][w]
      <3>1. pte[q][w] # f /\ Above(pte[q][w], f)
        BY <1>1, <2>2, FirstFreeIsFresh
      <3>2. pte[q][w][1] >= 1
        BY <1>1, <2>2 DEF MmInv, UserFramesBehindCursor
      <3>3. pte[q][w] \in Frame
        BY <1>1, <2>2 DEF TypeOK
      <3>4. QED
        BY <2>2, <3>1, <3>2, <3>3, FallocAssumption
        DEF Above, AtOrBelow, Frame, TopBit
    <2>3. pte'[q][w] = pte[q][w] \/ (pte'[q][w] = f /\ used' = used \cup {f})
      <3>1. CASE pte' = pte
        BY <3>1
      <3>2. CASE /\ used' = used \cup {f}
                 /\ \E p \in Procs, v \in VPages :
                        pte' = [pte EXCEPT ![p][v] = f]
        BY <3>2 DEF TypeOK
      <3>3. QED
        BY <3>1, <3>2
    <2>4. QED
      BY <2>1, <2>2, <2>3
  <1>2. ASSUME NEW g \in kheap
        PROVE  g \in used' \/ Above(g, f)
    <2>1. g \in Frame
      BY <1>2, MmAssumption DEF TypeOK
    <2>2. g \in used \/ Above(g, cursor)
      BY <1>2 DEF MmInv, KernelFramesSafeFromScan
    <2>3. /\ g[1] \in Nat /\ g[2] \in Nat /\ f[1] \in Nat /\ f[2] \in Nat
          /\ cursor[1] \in Nat /\ cursor[2] \in Nat
      BY <2>1, FallocAssumption DEF TypeOK, FallocTypeOK, Frame, TopBit
    <2>4. AtOrBelow(f, cursor)
      BY DEF FirstFree
    <2>5. CASE Above(g, cursor)
      BY <2>3, <2>4, <2>5 DEF Above, AtOrBelow
    <2>6. CASE g \in used
      <3>1. g # f
        BY <2>6 DEF FirstFree
      <3>2. g \in BwCleared(f) => Above(g, f)
        BY <3>1, <2>3, BwClearedType DEF Above
      <3>3. QED
        BY <2>6, <3>2
    <2>7. QED
      BY <2>2, <2>5, <2>6
  <1>3. QED
    BY <1>1, <1>2 DEF UserFramesBehindCursor, KernelFramesSafeFromScan

LEMMA InitMmInv == Init => MmInv
  <1> SUFFICES ASSUME Init PROVE MmInv
    OBVIOUS
  <1>1. UserFramesBehindCursor
    BY DEF Init, UserFramesBehindCursor
  <1>2. KernelFramesSafeFromScan
    BY DEF Init, KernelFramesSafeFromScan
  <1>3. PagesAscending
    BY DEF Init, PagesAscending, Ascending
  <1>4. QED
    BY <1>1, <1>2, <1>3 DEF MmInv

LEMMA NextMmInv == TypeOK /\ MmInv /\ [Next]_vars => MmInv'
  <1> SUFFICES ASSUME TypeOK, MmInv, [Next]_vars PROVE MmInv'
    OBVIOUS
  <1> USE DEF MmInv
  <1>1. ASSUME NEW p \in Procs, InitPagingStruct(p) PROVE MmInv'
    BY <1>1
    DEF InitPagingStruct, fallocVars, UserFramesBehindCursor,
        KernelFramesSafeFromScan, PagesAscending
  <1>2. ASSUME NEW p \in Procs, NewUserPageNoFrame(p) PROVE MmInv'
    <2>1. PagesAscending'
      BY <1>2 DEF NewUserPageNoFrame, mmVars, PagesAscending
    <2>2. /\ used' = used /\ pte' = pte /\ kheap' = kheap
          /\ cursor' = cursor \/ cursor' = <<0, TopBit>>
      BY <1>2 DEF NewUserPageNoFrame, mmVars, FallocOneUserFails
    <2>3. CASE cursor' = cursor
      BY <2>1, <2>2, <2>3 DEF UserFramesBehindCursor, KernelFramesSafeFromScan
    <2>4. CASE cursor' = <<0, TopBit>>
      <3>1. ASSUME NEW q \in Procs, NEW w \in VPages, pte[q][w] # NoFrame
            PROVE  /\ AtOrBelow(cursor', pte[q][w])
                   /\ pte[q][w][1] >= 1
                   /\ pte[q][w] # cursor'
        <4>1. pte[q][w] \in Frame /\ pte[q][w][1] >= 1
          BY <3>1 DEF TypeOK, UserFramesBehindCursor
        <4>2. QED
          BY <4>1, <2>4, FallocAssumption DEF AtOrBelow, Frame, TopBit
      <3>2. \A g \in kheap : Above(g, cursor')
        BY <2>4, MmAssumption, FallocAssumption DEF TypeOK, Above, Frame, TopBit
      <3>3. QED
        BY <2>1, <2>2, <3>1, <3>2
        DEF UserFramesBehindCursor, KernelFramesSafeFromScan
    <2>5. QED
      BY <2>2, <2>3, <2>4
  <1>3. ASSUME NEW p \in Procs, NEW v \in VPages, NewUserPageUnmapped(p, v)
        PROVE  MmInv'
    <2>1. PICK f \in Frame : FallocOneUserUndone(f)
      BY <1>3 DEF NewUserPageUnmapped
    <2>2. pte' = pte /\ kheap' = kheap /\ pages' = pages
      BY <1>3 DEF NewUserPageUnmapped
    <2>3. UserFramesBehindCursor' /\ KernelFramesSafeFromScan'
      BY <2>1, <2>2, TakeFramePreserves
      DEF FallocOneUserUndone, BwSet, BwClear
    <2>4. QED
      BY <2>2, <2>3 DEF PagesAscending
  <1>4. ASSUME NEW p \in Procs, NEW v \in VPages, NewUserPage(p, v)
        PROVE  MmInv'
    <2>1. PICK f \in Frame : FallocOneUser(f) /\ MapPage(p, v, f)
      BY <1>4 DEF NewUserPage
    <2>2. UserFramesBehindCursor' /\ KernelFramesSafeFromScan'
      BY <1>4, <2>1, TakeFramePreserves
      DEF NewUserPage, FallocOneUser, MapPage, BwSet
    <2>3. PagesAscending'
      <3>1. pages' = [pages EXCEPT ![p] = InsertAscending(@, v)]
        BY <1>4 DEF NewUserPage
      <3>2. pages[p] \in Seq(VPages) /\ Ascending(pages[p])
        BY DEF TypeOK, PagesAscending
      <3>3. \A i \in 1 .. Len(pages[p]) : pages[p][i] # v
        BY <1>4, <3>2 DEF NewUserPage, IsTracked
      <3>4. Ascending(InsertAscending(pages[p], v))
        BY <3>2, <3>3, InsertAscendingKeepsOrder
      <3>5. QED
        BY <3>1, <3>4 DEF TypeOK, PagesAscending
    <2>4. QED
      BY <2>2, <2>3
  <1>5. ASSUME NEW p \in Procs, NEW v \in VPages, NewUserPagePanics(p, v)
        PROVE  MmInv'
    <2>1. PICK f \in Frame : FallocOneUser(f) /\ MapPage(p, v, f)
      BY <1>5 DEF NewUserPagePanics
    <2>2. UserFramesBehindCursor' /\ KernelFramesSafeFromScan'
      BY <1>5, <2>1, TakeFramePreserves
      DEF NewUserPagePanics, FallocOneUser, MapPage, BwSet
    <2>3. QED
      BY <1>5, <2>2 DEF NewUserPagePanics, PagesAscending
  <1>6. ASSUME NEW p \in Procs, DestroyPagingStruct(p) PROVE MmInv'
    <2>1. /\ used' = used \/ used' = used \ BwCleared(Frame0)
          /\ cursor' = cursor /\ kheap' = kheap
          /\ pte' = [pte EXCEPT ![p] = [v \in VPages |-> NoFrame]]
          /\ pages' = [pages EXCEPT ![p] = <<>>]
      BY <1>6 DEF DestroyPagingStruct, FfreeTimes, BwClear
    <2>2. \A g \in BwCleared(Frame0) : g[1] = 0
      BY BwClearedType, Frame0Type DEF Frame0
    <2>3. \A q \in Procs, w \in VPages :
            pte'[q][w] # NoFrame => pte'[q][w] = pte[q][w]
      BY <2>1 DEF TypeOK
    <2>4. \A q \in Procs, w \in VPages :
            pte[q][w] # NoFrame => pte[q][w] \notin BwCleared(Frame0)
      BY <2>2 DEF UserFramesBehindCursor
    <2>5. \A g \in kheap : g \notin BwCleared(Frame0)
      BY <2>2, MmAssumption DEF TypeOK
    <2>6. UserFramesBehindCursor'
      BY <2>1, <2>3, <2>4 DEF UserFramesBehindCursor
    <2>7. KernelFramesSafeFromScan'
      BY <2>1, <2>5 DEF KernelFramesSafeFromScan
    <2>8. PagesAscending'
      BY <2>1 DEF TypeOK, PagesAscending, Ascending
    <2>9. QED
      BY <2>6, <2>7, <2>8
  <1>7. ASSUME NEW f \in KheapFrames, KernelHeapFault(f) PROVE MmInv'
    BY <1>7
    DEF KernelHeapFault, FallocOneAt, BwSet, UserFramesBehindCursor,
        KernelFramesSafeFromScan, PagesAscending
  <1>8. ASSUME NEW f \in KheapFrames, KernelHeapFaultPanics(f) PROVE MmInv'
    BY <1>8
    DEF KernelHeapFaultPanics, FallocOneAt, BwSet, fallocVars,
        UserFramesBehindCursor, KernelFramesSafeFromScan, PagesAscending
  <1>9. CASE PageFaultPanics
    BY <1>9
    DEF PageFaultPanics, fallocVars, UserFramesBehindCursor,
        KernelFramesSafeFromScan, PagesAscending
  <1>10. CASE UNCHANGED vars
    BY <1>10
    DEF vars, mmVars, fallocVars, UserFramesBehindCursor,
        KernelFramesSafeFromScan, PagesAscending
  <1>11. QED
    BY <1>1, <1>2, <1>3, <1>4, <1>5, <1>6, <1>7, <1>8, <1>9, <1>10 DEF Next

\* The inductive invariant holds in every reachable state.
THEOREM MmInvariant == Spec => [](TypeOK /\ MmInv)
  BY InitTypeOK, NextTypeOK, InitMmInv, NextMmInv, PTL DEF Spec

-----------------------------------------------------------------------------
\* A step changes at most one page's frame, to one that is nowhere in use.
LEMMA PteStep ==
    ASSUME TypeOK, MmInv, [Next]_vars
    PROVE  \/ pte' = pte
           \/ \E p \in Procs : pte' = [pte EXCEPT ![p] = [v \in VPages |-> NoFrame]]
           \/ \E p \in Procs, v \in VPages, f \in Frame :
                /\ pte' = [pte EXCEPT ![p][v] = f]
                /\ f \notin kheap
                /\ \A q \in Procs, w \in VPages : pte[q][w] # f
  <1>1. ASSUME NEW p \in Procs, NEW v \in VPages, NEW f \in Frame,
               FallocOneUser(f), MapPage(p, v, f)
        PROVE  /\ pte' = [pte EXCEPT ![p][v] = f]
               /\ f \notin kheap
               /\ \A q \in Procs, w \in VPages : pte[q][w] # f
    BY <1>1, FirstFreeIsFresh, MmAssumption DEF FallocOneUser, MapPage
  <1>2. ASSUME NEW p \in Procs, NEW v \in VPages,
               NewUserPage(p, v) \/ NewUserPagePanics(p, v)
        PROVE  \E f \in Frame :
                /\ pte' = [pte EXCEPT ![p][v] = f]
                /\ f \notin kheap
                /\ \A q \in Procs, w \in VPages : pte[q][w] # f
    BY <1>1, <1>2 DEF NewUserPage, NewUserPagePanics
  <1>3. ASSUME NEW p \in Procs, DestroyPagingStruct(p)
        PROVE  pte' = [pte EXCEPT ![p] = [v \in VPages |-> NoFrame]]
    BY <1>3 DEF DestroyPagingStruct
  <1>4. CASE UNCHANGED vars
    BY <1>4 DEF vars, mmVars
  <1>5. CASE \/ \E p \in Procs : InitPagingStruct(p)
             \/ \E p \in Procs : NewUserPageNoFrame(p)
             \/ \E p \in Procs, v \in VPages : NewUserPageUnmapped(p, v)
             \/ \E f \in KheapFrames : KernelHeapFault(f)
             \/ \E f \in KheapFrames : KernelHeapFaultPanics(f)
             \/ PageFaultPanics
    BY <1>5
    DEF InitPagingStruct, NewUserPageNoFrame, NewUserPageUnmapped,
        KernelHeapFault, KernelHeapFaultPanics, PageFaultPanics, mmVars
  <1>6. QED
    BY <1>2, <1>3, <1>4, <1>5 DEF Next

\* Isolation: no frame ever backs two user pages, although ffree_one marks
\* mapped frames free.
THEOREM UserIsolation == Spec => []UserPagesExclusive
  <1>1. Init => UserPagesExclusive
    BY DEF Init, UserPagesExclusive
  <1>2. TypeOK /\ MmInv /\ UserPagesExclusive /\ [Next]_vars
            => UserPagesExclusive'
    <2> SUFFICES ASSUME TypeOK, MmInv, UserPagesExclusive, [Next]_vars
                 PROVE  UserPagesExclusive'
      OBVIOUS
    <2>1. CASE pte' = pte
      BY <2>1 DEF UserPagesExclusive
    <2>2. CASE \E p \in Procs :
                    pte' = [pte EXCEPT ![p] = [v \in VPages |-> NoFrame]]
      BY <2>2 DEF TypeOK, UserPagesExclusive
    <2>3. ASSUME NEW p \in Procs, NEW v \in VPages, NEW f \in Frame,
                 pte' = [pte EXCEPT ![p][v] = f],
                 \A q \in Procs, w \in VPages : pte[q][w] # f
          PROVE  UserPagesExclusive'
      BY <2>3 DEF TypeOK, UserPagesExclusive
    <2>4. QED
      BY <2>1, <2>2, <2>3, PteStep
  <1>3. QED
    BY <1>1, <1>2, MmInvariant, PTL DEF Spec

\* falloc_one_user's frames are fresh, as an action property of Spec.
THEOREM FreshUserFrames == Spec => UserFramesFresh
  <1> DEFINE Fresh == \A p \in Procs : \A v \in VPages :
                pte'[p][v] \notin {pte[p][v], NoFrame} =>
                    pte'[p][v] \notin UserFrames \cup kheap
  <1>1. TypeOK /\ MmInv /\ [Next]_vars => Fresh
    <2> SUFFICES ASSUME TypeOK, MmInv, [Next]_vars,
                        NEW q \in Procs, NEW w \in VPages,
                        pte'[q][w] \notin {pte[q][w], NoFrame}
                 PROVE  pte'[q][w] \notin UserFrames \cup kheap
      OBVIOUS
    <2>1. \E p \in Procs, v \in VPages, f \in Frame :
                /\ pte' = [pte EXCEPT ![p][v] = f]
                /\ f \notin kheap
                /\ \A r \in Procs, x \in VPages : pte[r][x] # f
      <3>1. pte' # pte
        OBVIOUS
      <3>2. ~\E p \in Procs : pte' = [pte EXCEPT ![p] = [v \in VPages |-> NoFrame]]
        BY DEF TypeOK
      <3>3. QED
        BY <3>1, <3>2, PteStep
    <2>2. QED
      BY <2>1 DEF TypeOK, UserFrames
  <1>2. QED
    BY <1>1, MmInvariant, PTL DEF Spec, UserFramesFresh

-----------------------------------------------------------------------------
\* Tables are numbered in the order of the pages they hold.
LEMMA TablesMonotone ==
    ASSUME NEW v \in VPages, NEW w \in VPages, v <= w
    PROVE  Pt(v) <= Pt(w) /\ Pd(v) <= Pd(w)
  <1>1. v \in Nat /\ w \in Nat /\ PtSpan \in Nat \ {0} /\ PdSpan \in Nat \ {0}
    BY MmAssumption
  <1>2. \A d \in Nat \ {0} : v \div d <= w \div d
    BY <1>1
  <1>3. PtSpan * PdSpan \in Nat \ {0}
    BY <1>1
  <1>4. QED
    BY <1>1, <1>2, <1>3 DEF Pt, Pd

\* In an ascending list the pages of one table are consecutive.
LEMMA AscendingFreesOnce ==
    ASSUME NEW p \in Procs, pages[p] \in Seq(VPages), Ascending(pages[p])
    PROVE  ~FreedTwice(TrackedPts(p)) /\ ~FreedTwice(TrackedPds(p))
  <1> DEFINE s == pages[p]
  <1>1. \A i \in 1 .. Len(s) : s[i] \in VPages /\ s[i] \in Nat
    BY ElementOfSeq, MmAssumption
  <1>2. ASSUME NEW i \in 1 .. Len(s), NEW j \in 1 .. Len(s), i < j
        PROVE  /\ Pt(s[j]) = Pt(s[i]) => Pt(s[j - 1]) = Pt(s[j])
               /\ Pd(s[j]) = Pd(s[i]) => Pd(s[j - 1]) = Pd(s[j])
    <2>1. j - 1 \in 1 .. Len(s) /\ j # 1
      BY <1>2
    <2>2. s[i] <= s[j - 1] /\ s[j - 1] <= s[j]
      <3>1. i = j - 1 \/ s[i] < s[j - 1]
        BY <1>2, <2>1 DEF Ascending
      <3>2. s[j - 1] < s[j]
        BY <1>2, <2>1 DEF Ascending
      <3>3. QED
        BY <1>1, <2>1, <3>1, <3>2
    <2>3. /\ Pt(s[i]) <= Pt(s[j - 1]) /\ Pt(s[j - 1]) <= Pt(s[j])
          /\ Pd(s[i]) <= Pd(s[j - 1]) /\ Pd(s[j - 1]) <= Pd(s[j])
      BY <1>1, <2>1, <2>2, TablesMonotone
    <2>4. /\ Pt(s[i]) \in Nat /\ Pt(s[j]) \in Nat /\ Pt(s[j - 1]) \in Nat
          /\ Pd(s[i]) \in Nat /\ Pd(s[j]) \in Nat /\ Pd(s[j - 1]) \in Nat
      BY <1>1, <2>1, TableNumbers
    <2>5. QED
      BY <2>3, <2>4
  <1>3. DOMAIN s = 1 .. Len(s)
    BY LenProperties
  <1>4. ~FreedTwice(TrackedPts(p))
    <2> SUFFICES ASSUME NEW i \in RunStarts(TrackedPts(p)),
                        NEW j \in RunStarts(TrackedPts(p)),
                        i # j, TrackedPts(p)[i] = TrackedPts(p)[j]
                 PROVE  FALSE
      BY DEF FreedTwice
    <2>0. DOMAIN TrackedPts(p) = 1 .. Len(s)
          /\ \A k \in 1 .. Len(s) : TrackedPts(p)[k] = Pt(s[k])
      BY <1>3 DEF TrackedPts
    <2>1. /\ i \in 1 .. Len(s) /\ (i = 1 \/ Pt(s[i]) # Pt(s[i - 1]))
          /\ j \in 1 .. Len(s) /\ (j = 1 \/ Pt(s[j]) # Pt(s[j - 1]))
          /\ Pt(s[i]) = Pt(s[j])
      <3>1. ASSUME NEW k \in RunStarts(TrackedPts(p))
            PROVE  k \in 1 .. Len(s) /\ (k = 1 \/ Pt(s[k]) # Pt(s[k - 1]))
        <4>1. k \in 1 .. Len(s) /\ TrackedPts(p)[k] = Pt(s[k])
          BY <2>0 DEF RunStarts
        <4>2. CASE k # 1
          <5>1. k - 1 \in 1 .. Len(s)
            BY <4>1, <4>2
          <5>2. TrackedPts(p)[k - 1] = Pt(s[k - 1])
            BY <2>0, <5>1
          <5>3. QED
            BY <4>1, <4>2, <5>2 DEF RunStarts
        <4>3. QED
          BY <4>1, <4>2
      <3>2. QED
        BY <2>0, <3>1
    <2>2. i < j \/ j < i
      BY <2>1
    <2>3. QED
      BY <1>2, <2>1, <2>2
  <1>5. ~FreedTwice(TrackedPds(p))
    <2> SUFFICES ASSUME NEW i \in RunStarts(TrackedPds(p)),
                        NEW j \in RunStarts(TrackedPds(p)),
                        i # j, TrackedPds(p)[i] = TrackedPds(p)[j]
                 PROVE  FALSE
      BY DEF FreedTwice
    <2>0. DOMAIN TrackedPds(p) = 1 .. Len(s)
          /\ \A k \in 1 .. Len(s) : TrackedPds(p)[k] = Pd(s[k])
      BY <1>3 DEF TrackedPds
    <2>1. /\ i \in 1 .. Len(s) /\ (i = 1 \/ Pd(s[i]) # Pd(s[i - 1]))
          /\ j \in 1 .. Len(s) /\ (j = 1 \/ Pd(s[j]) # Pd(s[j - 1]))
          /\ Pd(s[i]) = Pd(s[j])
      <3>1. ASSUME NEW k \in RunStarts(TrackedPds(p))
            PROVE  k \in 1 .. Len(s) /\ (k = 1 \/ Pd(s[k]) # Pd(s[k - 1]))
        <4>1. k \in 1 .. Len(s) /\ TrackedPds(p)[k] = Pd(s[k])
          BY <2>0 DEF RunStarts
        <4>2. CASE k # 1
          <5>1. k - 1 \in 1 .. Len(s)
            BY <4>1, <4>2
          <5>2. TrackedPds(p)[k - 1] = Pd(s[k - 1])
            BY <2>0, <5>1
          <5>3. QED
            BY <4>1, <4>2, <5>2 DEF RunStarts
        <4>3. QED
          BY <4>1, <4>2
      <3>2. QED
        BY <2>0, <3>1
    <2>2. i < j \/ j < i
      BY <2>1
    <2>3. QED
      BY <1>2, <2>1, <2>2
  <1>6. QED
    BY <1>4, <1>5

\* Destroying an address space frees no page table and no page directory twice.
THEOREM NoTableFreedTwice == Spec => []TablesFreedOnce
  <1>1. Init => TablesFreedOnce
    BY DEF Init, TablesFreedOnce
  <1>2. TypeOK /\ MmInv /\ TablesFreedOnce /\ [Next]_vars => TablesFreedOnce'
    <2> SUFFICES ASSUME TypeOK, MmInv, TablesFreedOnce, [Next]_vars
                 PROVE  TablesFreedOnce'
      OBVIOUS
    <2>1. ASSUME NEW p \in Procs, DestroyPagingStruct(p)
          PROVE  TablesFreedOnce'
      BY <2>1, AscendingFreesOnce
      DEF DestroyPagingStruct, TypeOK, MmInv, PagesAscending, TablesFreedOnce
    <2>2. CASE halted' = halted
      BY <2>2 DEF TablesFreedOnce
    <2>3. ASSUME NEW p \in Procs, NEW v \in VPages, NewUserPagePanics(p, v)
          PROVE  TablesFreedOnce'
      BY <2>3 DEF NewUserPagePanics, TablesFreedOnce
    <2>4. ASSUME NEW f \in KheapFrames, KernelHeapFaultPanics(f)
          PROVE  TablesFreedOnce'
      BY <2>4 DEF KernelHeapFaultPanics, TablesFreedOnce
    <2>5. CASE PageFaultPanics
      BY <2>5 DEF PageFaultPanics, TablesFreedOnce
    <2>6. CASE \/ \E p \in Procs : InitPagingStruct(p)
               \/ \E p \in Procs : NewUserPageNoFrame(p)
               \/ \E p \in Procs, v \in VPages :
                    NewUserPageUnmapped(p, v) \/ NewUserPage(p, v)
               \/ \E f \in KheapFrames : KernelHeapFault(f)
               \/ UNCHANGED vars
      BY <2>2, <2>6
      DEF InitPagingStruct, NewUserPageNoFrame, NewUserPageUnmapped,
          NewUserPage, KernelHeapFault, vars, mmVars
    <2>7. QED
      BY <2>1, <2>3, <2>4, <2>5, <2>6 DEF Next
  <1>3. QED
    BY <1>1, <1>2, MmInvariant, PTL DEF Spec
=============================================================================

----------------------------- MODULE VfsProofs ------------------------------
(***************************************************************************)
(* Type correctness of Vfs, the soundness of reference counts and the      *)
(* agreement of the two halves of a descriptor, for any number of files,   *)
(* processes and descriptors and every way an open can fail; and that a    *)
(* device opened through a path is the device registered under that path,  *)
(* for every set of names and every order of registrations and mounts.     *)
(***************************************************************************)
EXTENDS Vfs, Files, FiniteSetTheorems, WellFoundedInduction, TLAPS

\* The keys of the descriptor table are finitely many, and so is every set of
\* descriptors.
LEMMA SomeKeysFinite ==
    ASSUME NEW S \in SUBSET Keys
    PROVE  IsFiniteSet(S) /\ Cardinality(S) \in Nat
  <1>1. IsFiniteSet(0 .. MaxFds - 1)
    BY VfsAssumption, FS_Interval
  <1>2. IsFiniteSet(Keys)
    BY <1>1, VfsAssumption, FS_Product DEF Keys
  <1>3. IsFiniteSet(S)
    BY <1>2, FS_Subset
  <1>4. QED
    BY <1>3, FS_CardinalityType

LEMMA FewerKeys ==
    ASSUME NEW S \in SUBSET Keys, NEW T \in SUBSET S
    PROVE  Cardinality(T) <= Cardinality(S)
  BY SomeKeysFinite, FS_Subset

\* A nonempty set of naturals has a least element.
LEMMA LeastNatural ==
    ASSUME NEW T, T \subseteq Nat, T # {}
    PROVE  \E x \in T : \A y \in T : x <= y
  <1>1. \E x \in T : \A y \in T : ~(<<y, x>> \in OpToRel(<, Nat))
    BY NatLessThanWellFounded, WFMin
  <1>2. \A x, y \in Nat : ~(<<y, x>> \in OpToRel(<, Nat)) => x <= y
    BY DEF OpToRel
  <1>3. QED
    BY <1>1, <1>2

\* The slot ramfs_mkfile takes is inside the array it leaves.
LEMMA MkNodeType ==
    ASSUME NEW r \in Meta, r.cap > 0
    PROVE  /\ MkNode(r).meta \in Meta
           /\ MkNode(r).meta.cap >= r.cap
           /\ MkNode(r).ino \in 1 .. MkNode(r).meta.cap
  <1>1. CASE Unused(r) = {}
    BY <1>1 DEF MkNode, Meta
  <1>2. CASE Unused(r) # {}
    <2> DEFINE i == CHOOSE i \in Unused(r) : \A j \in Unused(r) : i <= j
    <2>1. Unused(r) \subseteq Nat
      BY DEF Unused, Meta
    <2>2. i \in Unused(r)
      BY <1>2, <2>1, LeastNatural
    <2>3. i \in Nat /\ i < r.cap
      BY <2>2 DEF Unused, Meta
    <2>4. MkNode(r) = [ino |-> i + 1,
                       meta |-> [cap |-> r.cap, used |-> r.used \cup {i + 1},
                                 cursor |-> i + 1]]
      BY <1>2 DEF MkNode
    <2> HIDE DEF i
    <2>5. r.cap \in Nat /\ r.used \subseteq Nat
      BY DEF Meta
    <2>6. r.used \cup {i + 1} \in SUBSET Nat /\ i + 1 \in Nat
      BY <2>3, <2>5
    <2>7. MkNode(r).meta = [cap |-> r.cap, used |-> r.used \cup {i + 1},
                            cursor |-> i + 1]
      BY <2>4
    <2>8. MkNode(r).meta \in Meta /\ MkNode(r).meta.cap = r.cap
      BY <2>5, <2>6, <2>7 DEF Meta
    <2>9. MkNode(r).ino = i + 1
      BY <2>4
    <2>10. QED
      BY <2>3, <2>5, <2>8, <2>9
  <1>3. QED
    BY <1>1, <1>2

LEMMA RmNodeType ==
    ASSUME NEW r \in Meta, NEW n \in 1 .. r.cap
    PROVE  RmNode(r, n) \in Meta /\ RmNode(r, n).cap = r.cap
  <1>1. r.cap \in Nat /\ r.used \subseteq Nat
    BY DEF Meta
  <1>2. r.used \ {n} \in SUBSET Nat /\ n - 1 \in Nat
    BY <1>1
  <1>3. RmNode(r, n) = [cap |-> r.cap, used |-> r.used \ {n},
                        cursor |-> n - 1]
    BY DEF RmNode
  <1>4. QED
    BY <1>1, <1>2, <1>3 DEF Meta

-----------------------------------------------------------------------------
LEMMA InitTypeOK == Init => TypeOK
  BY VfsAssumption DEF Init, TypeOK, Absent, RamfsInit, Meta, Keys

\* proc_new_fd leaves its index inside the array or at its end.
LEMMA FdTakenType ==
    ASSUME TypeOK, NEW p \in Pids, NEW k \in 0 .. MaxFds - 1,
           IsNewFd(p, k), FdTaken(p, k)
    PROVE  /\ fdCount' \in [Pids -> Nat]
           /\ fdIdx' \in [Pids -> Nat]
           /\ \A q \in Pids : fdIdx'[q] <= fdCount'[q]
  <1>1. /\ k \in Nat /\ k <= fdCount[p] /\ fdCount[p] \in Nat
        /\ FdStep \in Nat /\ FdStep > 0
    BY VfsAssumption DEF TypeOK, IsNewFd
  <1> DEFINE count == IF k = fdCount[p] THEN fdCount[p] + FdStep
                                        ELSE fdCount[p]
  <1>2. count \in Nat /\ k + 1 <= count
    BY <1>1
  <1>3. /\ fdIdx' = [fdIdx EXCEPT ![p] = k + 1]
        /\ fdCount' = [fdCount EXCEPT ![p] = count]
    BY DEF FdTaken
  <1> HIDE DEF count
  <1>4. fdCount' \in [Pids -> Nat] /\ fdIdx' \in [Pids -> Nat]
    BY <1>1, <1>2, <1>3 DEF TypeOK
  <1>5. k + 1 <= fdCount'[p] /\ fdIdx'[p] = k + 1
    BY <1>2, <1>3 DEF TypeOK
  <1>6. \A q \in Pids \ {p} : fdIdx'[q] <= fdCount'[q]
    BY <1>3 DEF TypeOK
  <1>7. QED
    BY <1>4, <1>5, <1>6

\* rmnode keeps the types: the slot of a vnode is inside the array.
LEMMA RmVnodeType ==
    ASSUME TypeOK, VfsInv, NEW f \in Files, NEW gone, vnode[f].present,
           RmVnode(f, gone)
    PROVE  /\ files' \in Meta /\ files'.cap = files.cap
           /\ vnode' \in [Files -> [present : BOOLEAN, n : Nat,
                                    ref : Nat, pending : BOOLEAN]]
           /\ sysfd' \in [Keys -> Files \cup {NoFile, Freed}]
  <1>1. vnode[f].n \in 1 .. files.cap
    BY DEF VfsInv, InoInRange
  <1>2. files' \in Meta /\ files'.cap = files.cap
    BY <1>1, RmNodeType DEF TypeOK, RmVnode
  <1>3. QED
    BY <1>2 DEF TypeOK, RmVnode, Absent

LEMMA NextTypeOK == TypeOK /\ VfsInv /\ [Next]_vars => TypeOK'
  <1> SUFFICES ASSUME TypeOK, VfsInv, [Next]_vars PROVE TypeOK'
    OBVIOUS
  <1>1. ASSUME NEW p \in Pids, NEW f \in Files, NEW k \in 0 .. MaxFds - 1,
               OpenFile(p, f, k)
        PROVE  TypeOK'
    <2>1. /\ fdCount' \in [Pids -> Nat]
          /\ fdIdx' \in [Pids -> Nat]
          /\ \A q \in Pids : fdIdx'[q] <= fdCount'[q]
      BY <1>1, FdTakenType DEF OpenFile, OpenFinds
    <2>2. <<k, p>> \in Keys
      BY DEF Keys
    <2>3. vnode' \in [Files -> [present : BOOLEAN, n : Nat,
                                ref : Nat, pending : BOOLEAN]]
      BY <1>1 DEF TypeOK, OpenFile
    <2>4. fds' \in [Pids -> SUBSET (0 .. MaxFds - 1)]
      <3>1. fds[p] \cup {k} \in SUBSET (0 .. MaxFds - 1)
        BY DEF TypeOK
      <3>2. QED
        BY <1>1, <3>1 DEF TypeOK, OpenFile
    <2>5. /\ sysfd' \in [Keys -> Files \cup {NoFile, Freed}]
          /\ orphan' \subseteq Keys
      BY <1>1, <2>2 DEF TypeOK, OpenFile
    <2>6. files' \in Meta /\ alive' \subseteq Pids
      BY <1>1 DEF TypeOK, OpenFile
    <2>7. QED
      BY <2>1, <2>3, <2>4, <2>5, <2>6 DEF TypeOK
  <1>2. ASSUME NEW p \in Pids, NEW f \in Files, NEW k \in 0 .. MaxFds - 1,
               OpenNoFd(p, f, k)
        PROVE  TypeOK'
    BY <1>2 DEF TypeOK, OpenNoFd
  <1>3. ASSUME NEW p \in Pids, NEW f \in Files, NEW k \in 0 .. MaxFds - 1,
               OpenNoSysfd(p, f, k)
        PROVE  TypeOK'
    <2>1. /\ fdCount' \in [Pids -> Nat]
          /\ fdIdx' \in [Pids -> Nat]
          /\ \A q \in Pids : fdIdx'[q] <= fdCount'[q]
      BY <1>3, FdTakenType DEF OpenNoSysfd, OpenFinds
    <2>2. QED
      BY <1>3, <2>1 DEF TypeOK, OpenNoSysfd
  <1>4. ASSUME NEW p \in Pids, NEW f \in Files, NEW k \in 0 .. MaxFds - 1,
               OpenRefused(p, f, k)
        PROVE  TypeOK'
    <2>1. /\ fdCount' \in [Pids -> Nat]
          /\ fdIdx' \in [Pids -> Nat]
          /\ \A q \in Pids : fdIdx'[q] <= fdCount'[q]
      BY <1>4, FdTakenType DEF OpenRefused, OpenFinds
    <2>2. QED
      BY <1>4, <2>1 DEF TypeOK, OpenRefused
  <1>5. ASSUME NEW p \in Pids, NEW f \in Files, OpenCreate(p, f)
        PROVE  TypeOK'
    <2>1. MkNode(files).meta \in Meta /\ MkNode(files).ino \in Nat
      BY MkNodeType DEF TypeOK, VfsInv, Meta
    <2>2. QED
      BY <1>5, <2>1 DEF TypeOK, OpenCreate, Absent
  <1>6. ASSUME NEW p \in Pids, NEW f \in Files, OpenCreateFails(p, f)
        PROVE  TypeOK'
    BY <1>6 DEF TypeOK, OpenCreateFails, MkNodeFails, Meta
  <1>7. ASSUME NEW p \in Pids, NEW k \in 0 .. MaxFds - 1, Close(p, k)
        PROVE  TypeOK'
    <2> DEFINE f == sysfd[<<k, p>>]
    <2>1. f \in Files /\ <<k, p>> \in Open(f) /\ Open(f) \in SUBSET Keys
      BY <1>7 DEF Close, Open, Keys
    <2>2. vnode[f].ref \in Nat /\ vnode[f].ref >= 1 /\ vnode[f].present
      <3>1. Cardinality(Open(f)) >= 1
        BY <2>1, SomeKeysFinite, FS_EmptySet
      <3>2. vnode[f].ref \in Nat /\ vnode[f].ref >= 1
        BY <3>1, <2>1, SomeKeysFinite DEF VfsInv, NoDangling, TypeOK
      <3>3. QED
        BY <3>2, <2>1 DEF VfsInv, AbsentIsUnused, Absent
    <2>3. CASE LastRef(f)
      <3>1. RmVnode(f, {<<k, p>>})
        BY <1>7, <2>3 DEF Close
      <3>2. /\ files' \in Meta
            /\ vnode' \in [Files -> [present : BOOLEAN, n : Nat,
                                     ref : Nat, pending : BOOLEAN]]
            /\ sysfd' \in [Keys -> Files \cup {NoFile, Freed}]
        BY <2>1, <2>2, <3>1, RmVnodeType
      <3>3. QED
        BY <1>7, <3>2 DEF TypeOK, Close
    <2>4. CASE ~LastRef(f)
      <3>1. vnode' = [vnode EXCEPT ![f].ref = @ - 1]
        BY <1>7, <2>4 DEF Close
      <3>2. vnode' \in [Files -> [present : BOOLEAN, n : Nat,
                                  ref : Nat, pending : BOOLEAN]]
        <4>1. vnode[f].ref - 1 \in Nat
          BY <2>2
        <4>2. [vnode[f] EXCEPT !.ref = @ - 1] \in
                [present : BOOLEAN, n : Nat, ref : Nat, pending : BOOLEAN]
          BY <2>1, <4>1 DEF TypeOK
        <4>3. QED
          BY <2>1, <3>1, <4>2 DEF TypeOK
      <3>3. QED
        BY <1>7, <2>4, <3>2 DEF TypeOK, Close
    <2>5. QED
      BY <2>3, <2>4
  <1>8. ASSUME NEW f \in Files, Rmfile(f) PROVE TypeOK'
    <2>1. CASE vnode[f].ref = 0
      <3>1. /\ files' \in Meta
            /\ vnode' \in [Files -> [present : BOOLEAN, n : Nat,
                                     ref : Nat, pending : BOOLEAN]]
            /\ sysfd' \in [Keys -> Files \cup {NoFile, Freed}]
        BY <1>8, <2>1, RmVnodeType DEF Rmfile
      <3>2. QED
        BY <1>8, <3>1 DEF TypeOK, Rmfile
    <2>2. CASE vnode[f].ref # 0
      <3>1. vnode' = [vnode EXCEPT ![f].pending = TRUE]
        BY <1>8, <2>2 DEF Rmfile
      <3>2. vnode' \in [Files -> [present : BOOLEAN, n : Nat,
                                  ref : Nat, pending : BOOLEAN]]
        BY <3>1 DEF TypeOK
      <3>3. QED
        BY <1>8, <2>2, <3>2 DEF TypeOK, Rmfile
    <2>3. QED
      BY <2>1, <2>2
  <1>9. ASSUME NEW p \in Pids, Exit(p) PROVE TypeOK'
    BY <1>9 DEF TypeOK, Exit
  <1>10. ASSUME NEW p \in Pids, Spawn(p) PROVE TypeOK'
    BY <1>10, VfsAssumption DEF TypeOK, Spawn, VfsInv, FdsBehindIndex
  <1>11. CASE UNCHANGED vars
    BY <1>11 DEF TypeOK, vars
  <1>12. QED
    BY <1>1, <1>2, <1>3, <1>4, <1>5, <1>6, <1>7, <1>8, <1>9, <1>10, <1>11
    DEF Next

-----------------------------------------------------------------------------
LEMMA InitVfsInv == Init => VfsInv
  <1> SUFFICES ASSUME Init PROVE VfsInv
    OBVIOUS
  <1>1. \A f \in Files : Open(f) = {}
    BY VfsAssumption DEF Init, Open
  <1>2. NoDangling
    <2>1. \A key \in Keys : sysfd[key] # Freed
      BY VfsAssumption DEF Init
    <2>2. \A f \in Files : Cardinality(Open(f)) = 0 /\ vnode[f].ref = 0
      BY <1>1, FS_EmptySet DEF Init, Absent
    <2>3. QED
      BY <2>1, <2>2 DEF NoDangling
  <1>3. PendingIsReferenced /\ InoInRange /\ AbsentIsUnused
    <2>1. \A f \in Files : vnode[f] = Absent
      BY DEF Init
    <2>2. ~Absent.present /\ ~Absent.pending
      BY DEF Absent
    <2>3. QED
      BY <2>1, <2>2 DEF PendingIsReferenced, InoInRange, AbsentIsUnused
  <1>4. FdsAgree
    BY DEF Init, FdsAgree, Keys
  <1>5. FdsBehindIndex
    BY DEF Init, FdsBehindIndex
  <1>6. files.cap > 0
    BY VfsAssumption DEF Init, RamfsInit
  <1>7. QED
    BY <1>2, <1>3, <1>4, <1>5, <1>6 DEF VfsInv

\* A table with fewer descriptors and no new pointer to freed memory is as
\* sound as it was, when no reference count has become smaller.
LEMMA FewerDescriptors ==
    ASSUME TypeOK, NoDangling, TypeOK',
           \A key \in Keys : sysfd'[key] \in {sysfd[key], NoFile},
           \A f \in Files : vnode'[f].ref >= vnode[f].ref
    PROVE  NoDangling'
  <1>1. ASSUME NEW f \in Files PROVE Cardinality(Open(f)') <= vnode'[f].ref
    <2>1. Open(f)' \in SUBSET Open(f) /\ Open(f) \in SUBSET Keys
      BY VfsAssumption DEF Open
    <2>2. Cardinality(Open(f)') <= Cardinality(Open(f))
      BY <2>1, FewerKeys
    <2>3. /\ Cardinality(Open(f)) \in Nat /\ Cardinality(Open(f)') \in Nat
          /\ vnode[f].ref \in Nat /\ vnode'[f].ref \in Nat
      BY <2>1, SomeKeysFinite DEF TypeOK
    <2>4. QED
      BY <2>2, <2>3 DEF NoDangling
  <1>2. \A key \in Keys : sysfd'[key] # Freed
    BY VfsAssumption DEF NoDangling
  <1>3. QED
    BY <1>1, <1>2 DEF NoDangling, Open

\* What the frees of a vnode that no other descriptor points to leave.
LEMMA RmVnodeSound ==
    ASSUME TypeOK, VfsInv, TypeOK', NEW f \in Files,
           NEW gone \in SUBSET Keys, Open(f) \subseteq gone,
           vnode[f].present, RmVnode(f, gone)
    PROVE  /\ NoDangling' /\ PendingIsReferenced' /\ InoInRange'
           /\ AbsentIsUnused' /\ files'.cap = files.cap
           /\ \A key \in Keys :
                sysfd'[key] = IF key \in gone THEN NoFile ELSE sysfd[key]
  <1>1. \A key \in Keys :
            sysfd'[key] = IF key \in gone THEN NoFile ELSE sysfd[key]
    BY DEF RmVnode, Open
  <1>2. files'.cap = files.cap
    BY RmVnodeType
  <1>3. \A g \in Files : vnode'[g] = IF g = f THEN Absent ELSE vnode[g]
    BY DEF RmVnode, TypeOK
  <1>4. \A g \in Files \ {f} : vnode'[g].ref >= vnode[g].ref
    BY <1>3 DEF TypeOK
  <1>5. ASSUME NEW g \in Files PROVE Cardinality(Open(g)') <= vnode'[g].ref
    <2>1. CASE g = f
      <3>1. Open(g)' = {}
        BY <1>1, <2>1, VfsAssumption DEF Open
      <3>2. QED
        BY <3>1, <2>1, <1>3, FS_EmptySet DEF Absent
    <2>2. CASE g # f
      <3>1. Open(g)' \in SUBSET Open(g) /\ Open(g) \in SUBSET Keys
        BY <1>1, VfsAssumption DEF Open
      <3>2. Cardinality(Open(g)') <= Cardinality(Open(g))
        BY <3>1, FewerKeys
      <3>3. Cardinality(Open(g)) <= vnode[g].ref /\ vnode'[g] = vnode[g]
        BY <1>3, <2>2 DEF VfsInv, NoDangling
      <3>4. /\ Cardinality(Open(g)) \in Nat /\ Cardinality(Open(g)') \in Nat
            /\ vnode[g].ref \in Nat
        BY <3>1, SomeKeysFinite DEF TypeOK
      <3>5. QED
        BY <3>2, <3>3, <3>4
    <2>3. QED
      BY <2>1, <2>2
  <1>6. NoDangling'
    BY <1>1, <1>5, VfsAssumption DEF NoDangling, VfsInv, Open
  <1>7. PendingIsReferenced' /\ InoInRange' /\ AbsentIsUnused'
    BY <1>2, <1>3
    DEF VfsInv, PendingIsReferenced, InoInRange, AbsentIsUnused, Absent
  <1>8. QED
    BY <1>1, <1>2, <1>6, <1>7

\* The conjuncts about descriptor numbers, for a successful or a failed search
\* of proc_new_fd: the number found is not one in use.
LEMMA NewFdIsNew ==
    ASSUME TypeOK, VfsInv, NEW p \in Pids, NEW k \in 0 .. MaxFds - 1,
           IsNewFd(p, k)
    PROVE  /\ sysfd[<<k, p>>] # NoFile => <<k, p>> \in orphan
           /\ fdIdx[p] <= k
           /\ \A j \in fds[p] : j < k
  <1>1. k \notin fds[p] /\ fdIdx[p] <= k
    BY DEF IsNewFd, TypeOK
  <1>2. fds[p] \subseteq 0 .. MaxFds - 1 /\ fdIdx[p] \in Nat
    BY DEF TypeOK
  <1>3. \A j \in fds[p] : j < k
    BY <1>1, <1>2, VfsAssumption DEF VfsInv, FdsBehindIndex
  <1>4. QED
    BY <1>1, <1>3 DEF VfsInv, FdsAgree

LEMMA OpenFileVfsInv ==
    ASSUME TypeOK, VfsInv, TypeOK', NEW p \in Pids, NEW f \in Files,
           NEW k \in 0 .. MaxFds - 1, OpenFile(p, f, k)
    PROVE  VfsInv'
  <1> DEFINE key == <<k, p>>
  <1>1. key \in Keys
    BY DEF Keys
  <1>2. /\ sysfd' = [sysfd EXCEPT ![key] = f]
        /\ orphan' = orphan \ {key}
        /\ fds' = [fds EXCEPT ![p] = @ \cup {k}]
        /\ fdIdx' = [fdIdx EXCEPT ![p] = k + 1]
        /\ p \in alive /\ alive' = alive /\ files' = files
    BY DEF OpenFile, OpenFinds, FdTaken
  <1>3. /\ \A g \in Files \ {f} : vnode'[g] = vnode[g]
        /\ vnode'[f].present /\ vnode[f].present
        /\ vnode'[f].ref = vnode[f].ref + 1
        /\ vnode'[f].n = vnode[f].n
        /\ vnode'[f].pending = vnode[f].pending
    BY DEF OpenFile, OpenFinds, TypeOK
  <1>4. ASSUME NEW g \in Files PROVE Cardinality(Open(g)') <= vnode'[g].ref
    <2>1. Open(g) \in SUBSET Keys /\ IsFiniteSet(Open(g))
      BY SomeKeysFinite DEF Open
    <2>2. Cardinality(Open(g)) <= vnode[g].ref /\ Cardinality(Open(g)) \in Nat
      BY <2>1, SomeKeysFinite DEF VfsInv, NoDangling
    <2>3. CASE g = f
      <3>1. Open(g)' \in SUBSET (Open(g) \cup {key})
        BY <1>1, <1>2 DEF Open, TypeOK
      <3>2. Open(g) \cup {key} \in SUBSET Keys
        BY <1>1, <2>1
      <3>3. /\ Cardinality(Open(g) \cup {key}) <= Cardinality(Open(g)) + 1
            /\ Cardinality(Open(g) \cup {key}) \in Nat
        <4>1. Cardinality(Open(g) \cup {key})
                = IF key \in Open(g) THEN Cardinality(Open(g))
                                     ELSE Cardinality(Open(g)) + 1
          BY <2>1, FS_AddElement
        <4>2. QED
          BY <4>1, <2>2
      <3>4. /\ Cardinality(Open(g)') <= Cardinality(Open(g) \cup {key})
            /\ Cardinality(Open(g)') \in Nat
        BY <3>1, <3>2, FewerKeys, SomeKeysFinite
      <3>5. vnode[f].ref \in Nat
        BY DEF TypeOK
      <3>6. QED
        BY <1>3, <2>2, <2>3, <3>3, <3>4, <3>5
    <2>4. CASE g # f
      <3>1. Open(g)' \in SUBSET Open(g)
        BY <1>1, <1>2, <2>4 DEF Open, TypeOK
      <3>2. /\ Cardinality(Open(g)') <= Cardinality(Open(g))
            /\ Cardinality(Open(g)') \in Nat
        BY <2>1, <3>1, FewerKeys, SomeKeysFinite
      <3>3. vnode[g].ref \in Nat /\ vnode'[g].ref = vnode[g].ref
        BY <1>3, <2>4 DEF TypeOK
      <3>4. QED
        BY <2>2, <3>2, <3>3
    <2>5. QED
      BY <2>3, <2>4
  <1>5. NoDangling'
    BY <1>1, <1>2, <1>4, VfsAssumption DEF NoDangling, VfsInv, Open, TypeOK
  <1>6. PendingIsReferenced'
    BY <1>3 DEF PendingIsReferenced, VfsInv, TypeOK
  <1>7. InoInRange' /\ files'.cap > 0
    BY <1>2, <1>3 DEF InoInRange, VfsInv
  <1>8. AbsentIsUnused'
    BY <1>3 DEF AbsentIsUnused, VfsInv
  <1>9. FdsAgree'
    <2> SUFFICES ASSUME NEW q \in Pids, NEW j \in 0 .. MaxFds - 1
                 PROVE  j \in fds'[q] <=> /\ sysfd'[<<j, q>>] # NoFile
                                          /\ <<j, q>> \notin orphan'
      BY DEF FdsAgree
    <2>1. <<j, q>> \in Keys
      BY DEF Keys
    <2>2. CASE j = k /\ q = p
      BY <1>1, <1>2, <2>2, VfsAssumption DEF TypeOK
    <2>3. CASE ~(j = k /\ q = p)
      <3>1. <<j, q>> # <<k, p>>
        BY <2>3
      <3>2. /\ sysfd'[<<j, q>>] = sysfd[<<j, q>>]
            /\ <<j, q>> \in orphan' <=> <<j, q>> \in orphan
        BY <1>2, <2>1, <3>1 DEF TypeOK
      <3>3. j \in fds'[q] <=> j \in fds[q]
        BY <1>2, <2>3 DEF TypeOK
      <3>4. QED
        BY <3>2, <3>3 DEF VfsInv, FdsAgree
    <2>4. QED
      BY <2>2, <2>3
  <1>10. FdsBehindIndex'
    <2>1. \A j \in fds[p] : j < k
      BY NewFdIsNew DEF OpenFile, OpenFinds
    <2>2. fds[p] \subseteq 0 .. MaxFds - 1
      BY DEF TypeOK
    <2>3. \A j \in fds'[p] : j < fdIdx'[p]
      BY <1>2, <2>1, <2>2 DEF TypeOK
    <2>4. \A q \in Pids \ {p} : fds'[q] = fds[q] /\ fdIdx'[q] = fdIdx[q]
      BY <1>2 DEF TypeOK
    <2>5. QED
      BY <1>2, <2>3, <2>4 DEF VfsInv, FdsBehindIndex
  <1>11. QED
    BY <1>5, <1>6, <1>7, <1>8, <1>9, <1>10 DEF VfsInv

LEMMA OpenRefusedVfsInv ==
    ASSUME TypeOK, VfsInv, TypeOK', NEW p \in Pids, NEW f \in Files,
           NEW k \in 0 .. MaxFds - 1, OpenRefused(p, f, k)
    PROVE  VfsInv'
  <1> DEFINE key == <<k, p>>
  <1>1. key \in Keys
    BY DEF Keys
  <1>2. /\ sysfd' = [sysfd EXCEPT ![key] = NoFile]
        /\ orphan' = orphan \ {key}
        /\ fdIdx' = [fdIdx EXCEPT ![p] = k + 1]
        /\ p \in alive
        /\ UNCHANGED <<vnode, files, alive, fds>>
    BY DEF OpenRefused, OpenFinds, FdTaken
  <1>3. NoDangling'
    <2>1. \A l \in Keys : sysfd'[l] \in {sysfd[l], NoFile}
      BY <1>1, <1>2 DEF TypeOK
    <2>2. \A g \in Files : vnode'[g].ref >= vnode[g].ref
      BY <1>2 DEF TypeOK
    <2>3. QED
      BY <2>1, <2>2, FewerDescriptors DEF VfsInv
  <1>4. /\ PendingIsReferenced' /\ InoInRange' /\ AbsentIsUnused'
        /\ files'.cap > 0
    BY <1>2 DEF VfsInv, PendingIsReferenced, InoInRange, AbsentIsUnused
  <1>5. FdsAgree'
    <2> SUFFICES ASSUME NEW q \in Pids, NEW j \in 0 .. MaxFds - 1
                 PROVE  j \in fds[q] <=> /\ sysfd'[<<j, q>>] # NoFile
                                         /\ <<j, q>> \notin orphan'
      BY <1>2 DEF FdsAgree
    <2>1. <<j, q>> \in Keys
      BY DEF Keys
    <2>2. CASE j = k /\ q = p
      <3>1. k \notin fds[p]
        BY DEF OpenRefused, OpenFinds, IsNewFd
      <3>2. QED
        BY <1>1, <1>2, <2>2, <3>1 DEF TypeOK
    <2>3. CASE ~(j = k /\ q = p)
      <3>1. <<j, q>> # <<k, p>>
        BY <2>3
      <3>2. /\ sysfd'[<<j, q>>] = sysfd[<<j, q>>]
            /\ <<j, q>> \in orphan' <=> <<j, q>> \in orphan
        BY <1>2, <2>1, <3>1 DEF TypeOK
      <3>3. QED
        BY <3>2 DEF VfsInv, FdsAgree
    <2>4. QED
      BY <2>2, <2>3
  <1>6. FdsBehindIndex'
    <2>1. \A j \in fds[p] : j < k
      BY NewFdIsNew DEF OpenRefused, OpenFinds
    <2>2. fds[p] \subseteq 0 .. MaxFds - 1
      BY DEF TypeOK
    <2>3. \A j \in fds'[p] : j < fdIdx'[p]
      BY <1>2, <2>1, <2>2 DEF TypeOK
    <2>4. \A q \in Pids \ {p} : fdIdx'[q] = fdIdx[q]
      BY <1>2 DEF TypeOK
    <2>5. QED
      BY <1>2, <2>3, <2>4 DEF VfsInv, FdsBehindIndex
  <1>7. QED
    BY <1>3, <1>4, <1>5, <1>6 DEF VfsInv

\* An open that fails before it has an entry only moves the search.
LEMMA FailedSearchVfsInv ==
    ASSUME TypeOK, VfsInv, TypeOK', NEW p \in Pids,
           NEW k \in 0 .. MaxFds - 1, IsNewFd(p, k), p \in alive,
           NEW n \in {k, k + 1}, fdIdx' = [fdIdx EXCEPT ![p] = n],
           UNCHANGED <<vnode, files, alive, fds, sysfd, orphan>>
    PROVE  VfsInv'
  <1>1. \A j \in fds[p] : j < k
    BY NewFdIsNew
  <1>2. fds[p] \subseteq 0 .. MaxFds - 1
    BY DEF TypeOK
  <1>3. \A j \in fds'[p] : j < fdIdx'[p]
    BY <1>1, <1>2 DEF TypeOK
  <1>4. \A q \in Pids \ {p} : fdIdx'[q] = fdIdx[q]
    BY DEF TypeOK
  <1>5. FdsBehindIndex'
    BY <1>3, <1>4 DEF VfsInv, FdsBehindIndex
  <1>6. NoDangling'
    BY DEF VfsInv, NoDangling, Open
  <1>7. PendingIsReferenced' /\ InoInRange' /\ FdsAgree' /\ AbsentIsUnused'
    BY DEF VfsInv, PendingIsReferenced, InoInRange, FdsAgree, AbsentIsUnused
  <1>8. QED
    BY <1>5, <1>6, <1>7 DEF VfsInv

LEMMA OpenCreateVfsInv ==
    ASSUME TypeOK, VfsInv, TypeOK', NEW p \in Pids, NEW f \in Files,
           OpenCreate(p, f)
    PROVE  VfsInv'
  <1>1. /\ MkNode(files).meta.cap >= files.cap
        /\ MkNode(files).ino \in 1 .. MkNode(files).meta.cap
        /\ MkNode(files).meta.cap \in Nat /\ files.cap \in Nat
        /\ files.cap > 0
    BY MkNodeType DEF TypeOK, VfsInv, Meta
  <1>2. /\ files' = MkNode(files).meta
        /\ ~vnode[f].present
        /\ UNCHANGED <<alive, fds, fdCount, fdIdx, sysfd, orphan>>
    BY DEF OpenCreate
  <1>3. /\ \A g \in Files \ {f} : vnode'[g] = vnode[g]
        /\ vnode'[f].present /\ vnode'[f].n = MkNode(files).ino
        /\ vnode'[f].ref = 0 /\ vnode'[f].pending = FALSE
    BY DEF OpenCreate, Absent, TypeOK
  <1>4. NoDangling'
    <2>1. vnode[f].ref = 0
      BY <1>2 DEF VfsInv, AbsentIsUnused, Absent
    <2>2. \A g \in Files : vnode'[g].ref = vnode[g].ref
      BY <1>3, <2>1
    <2>3. QED
      BY <1>2, <2>2 DEF VfsInv, NoDangling, Open
  <1>5. PendingIsReferenced'
    BY <1>3 DEF VfsInv, PendingIsReferenced
  <1>6. InoInRange'
    BY <1>1, <1>2, <1>3 DEF VfsInv, InoInRange, TypeOK
  <1>7. AbsentIsUnused'
    BY <1>3 DEF VfsInv, AbsentIsUnused
  <1>8. FdsAgree' /\ FdsBehindIndex'
    BY <1>2 DEF VfsInv, FdsAgree, FdsBehindIndex
  <1>9. QED
    BY <1>1, <1>2, <1>4, <1>5, <1>6, <1>7, <1>8 DEF VfsInv

LEMMA RmfileVfsInv ==
    ASSUME TypeOK, VfsInv, TypeOK', NEW f \in Files, Rmfile(f)
    PROVE  VfsInv'
  <1>1. CASE vnode[f].ref = 0
    <2>1. RmVnode(f, {}) /\ vnode[f].present
      BY <1>1 DEF Rmfile
    <2>2. Open(f) = {}
      <3>1. Open(f) \in SUBSET Keys
        BY DEF Open
      <3>2. Cardinality(Open(f)) = 0
        BY <1>1, <3>1, SomeKeysFinite DEF VfsInv, NoDangling
      <3>3. QED
        BY <3>1, <3>2, SomeKeysFinite, FS_EmptySet
    <2>3. /\ NoDangling' /\ PendingIsReferenced' /\ InoInRange'
          /\ AbsentIsUnused' /\ files'.cap = files.cap
          /\ \A key \in Keys : sysfd'[key] = sysfd[key]
      BY <2>1, <2>2, RmVnodeSound
    <2>4. FdsAgree' /\ FdsBehindIndex'
      BY <2>3 DEF VfsInv, FdsAgree, FdsBehindIndex, Rmfile, Keys
    <2>5. QED
      BY <2>3, <2>4 DEF VfsInv
  <1>2. CASE vnode[f].ref # 0
    <2>1. /\ vnode' = [vnode EXCEPT ![f].pending = TRUE]
          /\ vnode[f].present
          /\ UNCHANGED <<files, sysfd, alive, fds, fdIdx, orphan>>
      BY <1>2 DEF Rmfile
    <2>2. /\ \A g \in Files \ {f} : vnode'[g] = vnode[g]
          /\ vnode'[f].present /\ vnode'[f].n = vnode[f].n
          /\ vnode'[f].ref = vnode[f].ref
      BY <2>1 DEF TypeOK
    <2>3. NoDangling'
      BY <2>1, <2>2 DEF VfsInv, NoDangling, Open
    <2>4. PendingIsReferenced' /\ InoInRange' /\ AbsentIsUnused'
      BY <1>2, <2>1, <2>2
      DEF VfsInv, PendingIsReferenced, InoInRange, AbsentIsUnused, TypeOK
    <2>5. QED
      BY <2>1, <2>3, <2>4 DEF VfsInv, FdsAgree, FdsBehindIndex
  <1>3. QED
    BY <1>1, <1>2

LEMMA CloseVfsInv ==
    ASSUME TypeOK, VfsInv, TypeOK', NEW p \in Pids,
           NEW k \in 0 .. MaxFds - 1, Close(p, k)
    PROVE  VfsInv'
  <1> DEFINE key == <<k, p>>
  <1> PICK f \in Files : f = sysfd[key]
    BY DEF Close
  <1>1. key \in Keys /\ key \in Open(f) /\ Open(f) \in SUBSET Keys
    BY DEF Open, Keys
  <1>2. /\ IsFiniteSet(Open(f)) /\ Cardinality(Open(f)) \in Nat
        /\ Cardinality(Open(f)) >= 1
        /\ Cardinality(Open(f)) <= vnode[f].ref /\ vnode[f].ref \in Nat
    <2>1. IsFiniteSet(Open(f)) /\ Cardinality(Open(f)) \in Nat
      BY <1>1, SomeKeysFinite
    <2>2. Cardinality(Open(f)) # 0
      BY <1>1, <2>1, FS_EmptySet
    <2>3. Cardinality(Open(f)) <= vnode[f].ref /\ vnode[f].ref \in Nat
      BY <1>1 DEF VfsInv, NoDangling, TypeOK
    <2>4. QED
      BY <2>1, <2>2, <2>3
  <1>3. vnode[f].present
    BY <1>1, <1>2 DEF VfsInv, AbsentIsUnused, Absent
  <1>4. /\ fds' = [fds EXCEPT ![p] = @ \ {k}]
        /\ orphan' = orphan \ {key}
        /\ UNCHANGED <<alive, fdCount, fdIdx>>
    BY DEF Close
  <1>5. /\ NoDangling' /\ PendingIsReferenced' /\ InoInRange'
        /\ AbsentIsUnused' /\ files'.cap = files.cap
        /\ \A l \in Keys : sysfd'[l] = IF l = key THEN NoFile ELSE sysfd[l]
    <2>1. CASE LastRef(f)
      <3>1. RmVnode(f, {key})
        BY <2>1 DEF Close
      <3>2. Open(f) \subseteq {key}
        <4>1. Cardinality(Open(f)) = 1
          BY <1>2, <2>1 DEF LastRef
        <4>2. PICK x : Open(f) = {x}
          BY <1>2, <4>1, FS_Singleton
        <4>3. QED
          BY <1>1, <4>2
      <3>3. {key} \in SUBSET Keys
        BY <1>1
      <3>4. /\ NoDangling' /\ PendingIsReferenced' /\ InoInRange'
            /\ AbsentIsUnused' /\ files'.cap = files.cap
            /\ \A l \in Keys :
                 sysfd'[l] = IF l \in {key} THEN NoFile ELSE sysfd[l]
        BY <1>1, <1>3, <3>1, <3>2, <3>3, RmVnodeSound
      <3>5. QED
        BY <3>4
    <2>2. CASE ~LastRef(f)
      <3>1. /\ vnode' = [vnode EXCEPT ![f].ref = @ - 1]
            /\ sysfd' = [sysfd EXCEPT ![key] = NoFile]
            /\ files' = files
        BY <2>2 DEF Close
      <3>2. /\ \A g \in Files \ {f} : vnode'[g] = vnode[g]
            /\ vnode'[f].present /\ vnode'[f].n = vnode[f].n
            /\ vnode'[f].ref = vnode[f].ref - 1
            /\ vnode'[f].pending = vnode[f].pending
        BY <1>1, <1>3, <3>1 DEF TypeOK
      <3>3. \A l \in Keys : sysfd'[l] = IF l = key THEN NoFile ELSE sysfd[l]
        BY <1>1, <3>1 DEF TypeOK
      <3> HIDE DEF key
      <3>4. ASSUME NEW g \in Files
            PROVE  Cardinality(Open(g)') <= vnode'[g].ref
        <4>1. CASE g = f
          <5>1. Open(f)' = Open(f) \ {key}
            BY <1>1, <3>3, VfsAssumption DEF Open
          <5>2. Cardinality(Open(f) \ {key}) = Cardinality(Open(f)) - 1
            BY <1>1, <1>2, FS_RemoveElement
          <5>3. QED
            BY <1>2, <3>2, <4>1, <5>1, <5>2
        <4>2. CASE g # f
          <5>1. Open(g)' \in SUBSET Open(g) /\ Open(g) \in SUBSET Keys
            BY <3>3, VfsAssumption DEF Open
          <5>2. Cardinality(Open(g)') <= Cardinality(Open(g))
            BY <5>1, FewerKeys
          <5>3. /\ Cardinality(Open(g)) <= vnode[g].ref
                /\ vnode'[g].ref = vnode[g].ref
            BY <3>2, <4>2 DEF VfsInv, NoDangling
          <5>4. /\ Cardinality(Open(g)) \in Nat
                /\ Cardinality(Open(g)') \in Nat
                /\ vnode[g].ref \in Nat
            BY <5>1, SomeKeysFinite DEF TypeOK
          <5>5. QED
            BY <5>2, <5>3, <5>4
        <4>3. QED
          BY <4>1, <4>2
      <3>5. NoDangling'
        BY <3>3, <3>4, VfsAssumption DEF NoDangling, VfsInv, Open
      <3>6. PendingIsReferenced'
        BY <1>1, <1>2, <2>2, <3>2
        DEF VfsInv, PendingIsReferenced, LastRef, TypeOK
      <3>7. InoInRange' /\ AbsentIsUnused'
        BY <1>1, <1>3, <3>1, <3>2 DEF VfsInv, InoInRange, AbsentIsUnused
      <3>8. QED
        BY <3>1, <3>3, <3>5, <3>6, <3>7
    <2>3. QED
      BY <2>1, <2>2
  <1>6. FdsAgree'
    <2> SUFFICES ASSUME NEW q \in Pids, NEW j \in 0 .. MaxFds - 1
                 PROVE  j \in fds'[q] <=> /\ sysfd'[<<j, q>>] # NoFile
                                          /\ <<j, q>> \notin orphan'
      BY DEF FdsAgree
    <2>1. <<j, q>> \in Keys
      BY DEF Keys
    <2>2. CASE j = k /\ q = p
      BY <1>1, <1>4, <1>5, <2>2 DEF TypeOK
    <2>3. CASE ~(j = k /\ q = p)
      <3>1. <<j, q>> # <<k, p>>
        BY <2>3
      <3>2. /\ sysfd'[<<j, q>>] = sysfd[<<j, q>>]
            /\ <<j, q>> \in orphan' <=> <<j, q>> \in orphan
        BY <1>4, <1>5, <2>1, <3>1
      <3>3. j \in fds'[q] <=> j \in fds[q]
        BY <1>4, <2>3 DEF TypeOK
      <3>4. QED
        BY <3>2, <3>3 DEF VfsInv, FdsAgree
    <2>4. QED
      BY <2>2, <2>3
  <1>7. FdsBehindIndex'
    <2>1. \A q \in Pids : fds'[q] \subseteq fds[q]
      BY <1>4 DEF TypeOK
    <2>2. QED
      BY <1>4, <2>1 DEF VfsInv, FdsBehindIndex
  <1>8. QED
    BY <1>5, <1>6, <1>7 DEF VfsInv

LEMMA ExitVfsInv ==
    ASSUME TypeOK, VfsInv, TypeOK', NEW p \in Pids, Exit(p)
    PROVE  VfsInv'
  <1>1. NoDangling' /\ PendingIsReferenced' /\ InoInRange' /\ AbsentIsUnused'
    BY DEF Exit, VfsInv, NoDangling, PendingIsReferenced, InoInRange,
           AbsentIsUnused, Open
  <1>2. FdsAgree'
    <2> SUFFICES ASSUME NEW q \in Pids, NEW j \in 0 .. MaxFds - 1
                 PROVE  j \in fds'[q] <=> /\ sysfd[<<j, q>>] # NoFile
                                          /\ <<j, q>> \notin orphan'
      BY DEF FdsAgree, Exit
    <2>1. <<j, q>> \in Keys /\ <<j, q>>[2] = q
      BY DEF Keys
    <2>2. <<j, q>> \in orphan' <=>
            <<j, q>> \in orphan \/ (q = p /\ sysfd[<<j, q>>] # NoFile)
      BY <2>1 DEF Exit
    <2>3. fds'[q] = IF q = p THEN {} ELSE fds[q]
      BY DEF Exit, TypeOK
    <2>4. QED
      BY <2>2, <2>3 DEF VfsInv, FdsAgree
  <1>3. FdsBehindIndex'
    <2>1. /\ \A q \in Pids \ {p} : fds'[q] = fds[q] /\ fdIdx'[q] = fdIdx[q]
          /\ fds'[p] = {} /\ fdIdx'[p] = 0 /\ alive' = alive \ {p}
      BY DEF Exit, TypeOK
    <2>2. QED
      BY <2>1 DEF VfsInv, FdsBehindIndex
  <1>4. QED
    BY <1>1, <1>2, <1>3 DEF VfsInv, Exit

LEMMA NextVfsInv == TypeOK /\ VfsInv /\ [Next]_vars => VfsInv'
  <1> SUFFICES ASSUME TypeOK, VfsInv, [Next]_vars PROVE VfsInv'
    OBVIOUS
  <1> TypeOK'
    BY NextTypeOK
  <1>1. ASSUME NEW p \in Pids, NEW f \in Files, NEW k \in 0 .. MaxFds - 1,
               OpenNoFd(p, f, k) \/ OpenNoSysfd(p, f, k)
        PROVE  VfsInv'
    <2>1. PICK n \in {k, k + 1} : fdIdx' = [fdIdx EXCEPT ![p] = n]
      BY <1>1 DEF OpenNoFd, OpenNoSysfd, FdTaken
    <2>2. /\ IsNewFd(p, k) /\ p \in alive
          /\ UNCHANGED <<vnode, files, alive, fds, sysfd, orphan>>
      BY <1>1 DEF OpenNoFd, OpenNoSysfd, OpenFinds
    <2>3. QED
      BY <2>1, <2>2, FailedSearchVfsInv
  <1>2. ASSUME NEW p \in Pids, NEW f \in Files, OpenCreateFails(p, f)
        PROVE  VfsInv'
    <2>1. /\ files'.cap = files.cap
          /\ UNCHANGED <<vnode, alive, fds, fdIdx, sysfd, orphan>>
      BY <1>2 DEF OpenCreateFails, MkNodeFails, TypeOK, Meta
    <2>2. QED
      BY <2>1
      DEF VfsInv, NoDangling, PendingIsReferenced, InoInRange, FdsAgree,
          FdsBehindIndex, AbsentIsUnused, Open
  <1>3. ASSUME NEW p \in Pids, Spawn(p) PROVE VfsInv'
    BY <1>3
    DEF Spawn, VfsInv, NoDangling, PendingIsReferenced, InoInRange, FdsAgree,
        FdsBehindIndex, AbsentIsUnused, Open
  <1>4. CASE UNCHANGED vars
    BY <1>4
    DEF vars, VfsInv, NoDangling, PendingIsReferenced, InoInRange, FdsAgree,
        FdsBehindIndex, AbsentIsUnused, Open
  <1>5. QED
    BY <1>1, <1>2, <1>3, <1>4, OpenFileVfsInv, OpenRefusedVfsInv,
       OpenCreateVfsInv, RmfileVfsInv, CloseVfsInv, ExitVfsInv DEF Next

-----------------------------------------------------------------------------
\* The invariant VfsInv and the types hold in every reachable state, for every
\* number of processes, files and descriptors: reference counts and the two
\* halves of a descriptor stay right whatever vfs_open, vfs_close, vfs_rmfile
\* and the exit of processes do.
THEOREM VfsInvariant == Spec => [](TypeOK /\ VfsInv)
  <1>1. Init => TypeOK /\ VfsInv
    BY InitTypeOK, InitVfsInv
  <1>2. (TypeOK /\ VfsInv) /\ [Next]_vars => (TypeOK /\ VfsInv)'
    BY NextTypeOK, NextVfsInv
  <1>3. QED
    BY <1>1, <1>2, PTL DEF Spec

\* Types, and the search of proc_new_fd never starts outside Process.fds.
THEOREM TypeCorrect == Spec => []TypeOK
  BY VfsInvariant, PTL

\* No descriptor ever points to a vnode that vfs_close or vfs_rmfile freed.
THEOREM NoUseAfterFree == Spec => []NoDangling
  <1>1. TypeOK /\ VfsInv => NoDangling
    BY DEF VfsInv
  <1>2. QED
    BY <1>1, VfsInvariant, PTL

\* A file that vfs_rmfile has marked always has a reference whose close will
\* free it.
THEOREM NoRemovedFileLeftBehind == Spec => []PendingIsReferenced
  <1>1. TypeOK /\ VfsInv => PendingIsReferenced
    BY DEF VfsInv
  <1>2. QED
    BY <1>1, VfsInvariant, PTL

\* The slot of every file is inside the array of its ram filesystem, which
\* ramfs_read and ramfs_write index with it unchecked.
THEOREM SlotsInRange == Spec => []InoInRange
  <1>1. TypeOK /\ VfsInv => InoInRange
    BY DEF VfsInv
  <1>2. QED
    BY <1>1, VfsInvariant, PTL

\* Process.fds and the system-wide table agree for every process, and the
\* numbers in use are inside the array, whichever step of an open failed.
THEOREM DescriptorHalvesAgree == Spec => []FdsMatchTable
  <1>1. TypeOK /\ VfsInv => FdsMatchTable
    <2> SUFFICES ASSUME TypeOK, VfsInv, NEW p \in alive
                 PROVE  /\ fds[p] = {k \in 0 .. MaxFds - 1 :
                                        /\ sysfd[<<k, p>>] # NoFile
                                        /\ <<k, p>> \notin orphan}
                        /\ \A k \in fds[p] : k < fdCount[p]
      BY DEF FdsMatchTable
    <2>1. /\ p \in Pids /\ fds[p] \subseteq 0 .. MaxFds - 1
          /\ fdIdx[p] \in Nat /\ fdCount[p] \in Nat /\ fdIdx[p] <= fdCount[p]
      BY DEF TypeOK
    <2>2. fds[p] = {k \in 0 .. MaxFds - 1 :
                        sysfd[<<k, p>>] # NoFile /\ <<k, p>> \notin orphan}
      BY <2>1 DEF VfsInv, FdsAgree
    <2>3. \A k \in fds[p] : k < fdCount[p]
      BY <2>1, VfsAssumption DEF VfsInv, FdsBehindIndex
    <2>4. QED
      BY <2>2, <2>3
  <1>2. QED
    BY <1>1, VfsInvariant, PTL

\* No step of any process redirects a descriptor that is open: vfs_open never
\* gives out a number in use.
THEOREM DescriptorsKept == Spec => OwnDescriptorKept
  <1>1. TypeOK /\ VfsInv /\ [Next]_vars =>
            [\A key \in Keys \ orphan :
                sysfd[key] # NoFile => sysfd'[key] \in {sysfd[key], NoFile}]_vars
    <2> SUFFICES ASSUME TypeOK, VfsInv, Next,
                        NEW key \in Keys \ orphan, sysfd[key] # NoFile
                 PROVE  sysfd'[key] \in {sysfd[key], NoFile}
      OBVIOUS
    <2>0. TypeOK'
      BY NextTypeOK
    <2>1. ASSUME NEW p \in Pids, NEW f \in Files, NEW k \in 0 .. MaxFds - 1,
                 OpenFile(p, f, k)
          PROVE  sysfd'[key] \in {sysfd[key], NoFile}
      <3>1. key # <<k, p>>
        BY <2>1, NewFdIsNew DEF OpenFile, OpenFinds
      <3>2. QED
        BY <2>1, <3>1 DEF OpenFile, TypeOK
    <2>2. ASSUME NEW p \in Pids, NEW f \in Files, NEW k \in 0 .. MaxFds - 1,
                 \/ OpenNoFd(p, f, k)
                 \/ OpenNoSysfd(p, f, k)
                 \/ OpenRefused(p, f, k)
          PROVE  sysfd'[key] \in {sysfd[key], NoFile}
      BY <2>2 DEF OpenNoFd, OpenNoSysfd, OpenRefused, TypeOK
    <2>3. ASSUME NEW p \in Pids, NEW f \in Files,
                 OpenCreate(p, f) \/ OpenCreateFails(p, f)
          PROVE  sysfd'[key] \in {sysfd[key], NoFile}
      BY <2>3 DEF OpenCreate, OpenCreateFails
    <2>4. ASSUME NEW p \in Pids, NEW k \in 0 .. MaxFds - 1, Close(p, k)
          PROVE  sysfd'[key] \in {sysfd[key], NoFile}
      <3>1. sysfd'[key] # Freed
        BY <2>4, <2>0, CloseVfsInv DEF VfsInv, NoDangling
      <3>2. CASE LastRef(sysfd[<<k, p>>])
        <4>1. RmVnode(sysfd[<<k, p>>], {<<k, p>>})
          BY <2>4, <3>2 DEF Close
        <4>2. QED
          BY <3>1, <4>1 DEF RmVnode
      <3>3. CASE ~LastRef(sysfd[<<k, p>>])
        <4>1. sysfd' = [sysfd EXCEPT ![<<k, p>>] = NoFile]
          BY <2>4, <3>3 DEF Close
        <4>2. QED
          BY <4>1 DEF TypeOK
      <3>4. QED
        BY <3>2, <3>3
    <2>5. ASSUME NEW f \in Files, Rmfile(f)
          PROVE  sysfd'[key] \in {sysfd[key], NoFile}
      BY <2>5, <2>0, RmfileVfsInv, VfsAssumption
      DEF Rmfile, RmVnode, TypeOK, VfsInv, NoDangling
    <2>6. ASSUME NEW p \in Pids, Exit(p) \/ Spawn(p)
          PROVE  sysfd'[key] \in {sysfd[key], NoFile}
      BY <2>6 DEF Exit, Spawn
    <2>7. QED
      BY <2>1, <2>2, <2>3, <2>4, <2>5, <2>6 DEF Next
  <1>2. QED
    BY <1>1, VfsInvariant, PTL DEF Spec, OwnDescriptorKept

-----------------------------------------------------------------------------
\* Files: paths, mounted filesystems, and the device files of devfs.

\* The passes of path_make_canonical, as equations of what they have done.
SlashEq(f, p) ==
    f = [i \in 0 .. Len(p) |->
            IF i = 0 THEN <<>>
            ELSE IF Repeated(p, i) THEN f[i - 1] ELSE Append(f[i - 1], p[i])]
DotEq(f, p) ==
    f = [i \in 0 .. Len(p) |->
            IF i = 0 THEN [out |-> <<>>, next |-> "look"] ELSE DotStep(p, f[i - 1], i)]

\* t is p with one '/' of several in a row: K[i] characters of t are left of
\* the first i of p.
Squeezed(p, t, K) ==
    /\ p \in Seq(Chars) /\ t \in Seq(Chars)
    /\ K \in [0 .. Len(p) -> 0 .. Len(t)] /\ K[0] = 0 /\ K[Len(p)] = Len(t)
    /\ \A i \in 1 .. Len(p) :
        IF Repeated(p, i) THEN K[i] = K[i - 1]
        ELSE K[i] = K[i - 1] + 1 /\ t[K[i]] = p[i]

LEMMA PrefixGrows ==
    ASSUME NEW S, NEW t \in Seq(S), NEW k \in Nat, k + 1 <= Len(t)
    PROVE  SubSeq(t, 1, k + 1) = Append(SubSeq(t, 1, k), t[k + 1])
<1> DEFINE a == SubSeq(t, 1, k)
<1>1. Len(t) \in Nat /\ \A i \in 1 .. Len(t) : t[i] \in S
  OBVIOUS
<1>2. a = [i \in 1 .. k |-> t[i]]
  BY <1>1
<1>3. a \in Seq(S) /\ Len(a) = k /\ \A i \in 1 .. k : a[i] = t[i]
  BY <1>1, <1>2
<1> HIDE DEF a
<1>4. Append(a, t[k + 1]) = [i \in 1 .. k + 1 |-> IF i = k + 1 THEN t[k + 1] ELSE a[i]]
  BY <1>1, <1>3
<1>5. SubSeq(t, 1, k + 1) = [i \in 1 .. k + 1 |-> t[i]]
  BY <1>1
<1>6. \A i \in 1 .. k + 1 : i = k + 1 \/ i \in 1 .. k
  OBVIOUS
<1> QED BY <1>3, <1>4, <1>5, <1>6 DEF a

LEMMA WholePrefix ==
    ASSUME NEW S, NEW t \in Seq(S)
    PROVE  SubSeq(t, 1, Len(t)) = t /\ SubSeq(t, 1, 0) = <<>>
OBVIOUS

LEMMA SingleSlashesExact ==
    ASSUME NEW p, NEW t, NEW K, Squeezed(p, t, K)
    PROVE  SingleSlashes(p) = t
<1> DEFINE W == [i \in 0 .. Len(p) |-> SubSeq(t, 1, K[i])]
           f == CHOOSE g : SlashEq(g, p)
<1>1. /\ p \in Seq(Chars) /\ t \in Seq(Chars) /\ Len(p) \in Nat /\ Len(t) \in Nat
      /\ K \in [0 .. Len(p) -> 0 .. Len(t)] /\ K[0] = 0 /\ K[Len(p)] = Len(t)
  BY DEF Squeezed
<1>2. SingleSlashes(p) = f[Len(p)]
  BY DEF SingleSlashes, SlashEq
<1>3. ASSUME NEW i \in 1 .. Len(p)
      PROVE  W[i] = IF Repeated(p, i) THEN W[i - 1] ELSE Append(W[i - 1], p[i])
  <2>1. i - 1 \in 0 .. Len(p) /\ i \in 0 .. Len(p)
    BY <1>1
  <2>2. K[i - 1] \in Nat /\ K[i] \in Nat /\ K[i] <= Len(t)
    BY <1>1, <2>1
  <2>3. W[i] = SubSeq(t, 1, K[i]) /\ W[i - 1] = SubSeq(t, 1, K[i - 1])
    BY <2>1
  <2> HIDE DEF W
  <2>4. CASE Repeated(p, i)
    BY <2>3, <2>4 DEF Squeezed
  <2>5. CASE ~Repeated(p, i)
    <3>1. K[i] = K[i - 1] + 1 /\ t[K[i]] = p[i]
      BY <2>5 DEF Squeezed
    <3>2. SubSeq(t, 1, K[i - 1] + 1) = Append(SubSeq(t, 1, K[i - 1]), t[K[i - 1] + 1])
      BY <1>1, <2>2, <3>1, PrefixGrows
    <3> QED BY <2>3, <2>5, <3>1, <3>2
  <2> QED BY <2>4, <2>5
<1>4. W[0] = <<>> /\ W[Len(p)] = t
  BY <1>1, WholePrefix
<1>5. W = [i \in 0 .. Len(p) |-> W[i]]
  OBVIOUS
<1> HIDE DEF W
<1>6. SlashEq(W, p)
  <2>1. ASSUME NEW i \in 0 .. Len(p)
        PROVE  W[i] = IF i = 0 THEN <<>>
                      ELSE IF Repeated(p, i) THEN W[i - 1] ELSE Append(W[i - 1], p[i])
    <3>1. i = 0 \/ i \in 1 .. Len(p)
      BY <1>1
    <3> QED BY <1>3, <1>4, <3>1
  <2> QED BY <1>5, <2>1 DEF SlashEq
<1>7. SlashEq(f, p)
  BY <1>6
<1> HIDE DEF f
<1>8. \A i \in 0 .. Len(p) : f[i] = W[i]
  <2> DEFINE T == {i \in 0 .. Len(p) : f[i] # W[i]}
  <2> SUFFICES ASSUME T # {} PROVE FALSE
    OBVIOUS
  <2>1. PICK x \in T : \A y \in T : x <= y
    <3>1. T \in SUBSET Nat
      OBVIOUS
    <3> HIDE DEF T
    <3> QED BY <3>1, LeastNatural
  <2>2. x \in 0 .. Len(p) /\ f[x] # W[x]
    OBVIOUS
  <2>3. \A i \in 0 .. Len(p) :
            f[i] = IF i = 0 THEN <<>>
                   ELSE IF Repeated(p, i) THEN f[i - 1] ELSE Append(f[i - 1], p[i])
    BY <1>7 DEF SlashEq
  <2>4. x # 0
    BY <1>4, <2>2, <2>3
  <2>5. x - 1 \in 0 .. Len(p) /\ x - 1 \notin T /\ x \in 1 .. Len(p)
    BY <1>1, <2>1, <2>2, <2>4
  <2>6. f[x - 1] = W[x - 1]
    BY <2>5
  <2> QED BY <1>3, <2>2, <2>3, <2>4, <2>5, <2>6
<1> QED BY <1>1, <1>2, <1>4, <1>8

\* A path without dots is left alone by the second pass.
LEMMA WithoutDotsExact ==
    ASSUME NEW t \in Seq(Chars), \A i \in DOMAIN t : t[i] # "."
    PROVE  WithoutDots(t) = t
<1> DEFINE At(i) == [out |-> SubSeq(t, 1, i), next |-> "look"]
           W == [i \in 0 .. Len(t) |-> At(i)]
           f == CHOOSE g : DotEq(g, t)
<1>1. Len(t) \in Nat /\ DOMAIN t = 1 .. Len(t)
  OBVIOUS
<1>2. WithoutDots(t) = f[Len(t)].out
  BY DEF WithoutDots, DotEq
<1>3. ASSUME NEW i \in 1 .. Len(t)
      PROVE  W[i] = DotStep(t, W[i - 1], i)
  <2>1. i - 1 \in Nat /\ i = (i - 1) + 1 /\ i \in 0 .. Len(t) /\ i - 1 \in 0 .. Len(t) /\ i <= Len(t)
    BY <1>1
  <2>2. t[i] # "."
    BY <1>1
  <2>3. SubSeq(t, 1, i) = Append(SubSeq(t, 1, i - 1), t[i])
    BY <1>1, <2>1, PrefixGrows
  <2>4. W[i] = At(i) /\ W[i - 1] = At(i - 1)
    BY <2>1
  <2> HIDE DEF W
  <2>5. PICK w : w = W[i - 1] /\ w.out = SubSeq(t, 1, i - 1) /\ w.next = "look"
    BY <2>4
  <2>6. DotStep(t, w, i) = [out |-> Append(w.out, t[i]), next |-> "look"]
    BY <2>2, <2>5 DEF DotStep
  <2> QED BY <2>3, <2>4, <2>5, <2>6
<1>4. W[0] = [out |-> <<>>, next |-> "look"] /\ W[Len(t)].out = t
  BY <1>1, WholePrefix
<1>5. W = [i \in 0 .. Len(t) |-> W[i]]
  OBVIOUS
<1> HIDE DEF W
<1>6. DotEq(W, t)
  <2>1. ASSUME NEW i \in 0 .. Len(t)
        PROVE  W[i] = IF i = 0 THEN [out |-> <<>>, next |-> "look"]
                      ELSE DotStep(t, W[i - 1], i)
    <3>1. i = 0 \/ i \in 1 .. Len(t)
      BY <1>1
    <3> QED BY <1>3, <1>4, <3>1
  <2> QED BY <1>5, <2>1 DEF DotEq
<1>7. DotEq(f, t)
  BY <1>6
<1> HIDE DEF f
<1>8. \A i \in 0 .. Len(t) : f[i] = W[i]
  <2> DEFINE T == {i \in 0 .. Len(t) : f[i] # W[i]}
  <2> SUFFICES ASSUME T # {} PROVE FALSE
    OBVIOUS
  <2>1. PICK x \in T : \A y \in T : x <= y
    <3>1. T \in SUBSET Nat
      OBVIOUS
    <3> HIDE DEF T
    <3> QED BY <3>1, LeastNatural
  <2>2. x \in 0 .. Len(t) /\ f[x] # W[x]
    OBVIOUS
  <2>3. \A i \in 0 .. Len(t) :
            f[i] = IF i = 0 THEN [out |-> <<>>, next |-> "look"] ELSE DotStep(t, f[i - 1], i)
    BY <1>7 DEF DotEq
  <2>4. x # 0
    BY <1>4, <2>2, <2>3
  <2>5. x - 1 \in 0 .. Len(t) /\ x - 1 \notin T /\ x \in 1 .. Len(t)
    BY <1>1, <2>1, <2>2, <2>4
  <2>6. f[x - 1] = W[x - 1]
    BY <2>5
  <2> QED BY <1>3, <2>2, <2>3, <2>4, <2>5, <2>6
<1> QED BY <1>1, <1>2, <1>4, <1>8

\* c is a and then b.
JoinedOf(S, a, b, c) ==
    /\ c \in Seq(S) /\ Len(c) = Len(a) + Len(b)
    /\ \A i \in 1 .. Len(a) : c[i] = a[i]
    /\ \A i \in 1 .. Len(b) : c[i + Len(a)] = b[i]

LEMMA Joined ==
    ASSUME NEW S, NEW a \in Seq(S), NEW b \in Seq(S), NEW c, c = a \o b
    PROVE  JoinedOf(S, a, b, c)
BY DEF JoinedOf

LEMMA SlashPath ==
    ASSUME NEW s, s = <<"/">>
    PROVE  s \in Seq(Chars) /\ Len(s) = 1 /\ s[1] = "/"
<1>1. ASSUME NEW S, NEW c \in S PROVE <<c>> \in Seq(S)
  OBVIOUS
<1>2. "/" \in Chars
  BY FilesAssumption
<1> QED BY <1>1, <1>2

\* A name below a mount point, by its characters.
LEMMA DeviceName ==
    ASSUME NEW name \in DevNames, NEW e, e = <<"/">> \o name
    PROVE  /\ name \in Seq(Chars) /\ Len(name) \in Nat /\ Len(name) > 0
           /\ \A i \in 1 .. Len(name) : name[i] # "/" /\ name[i] # "."
           /\ e \in Seq(Chars) /\ Len(e) = Len(name) + 1 /\ e[1] = "/"
           /\ \A i \in 1 .. Len(name) : e[i + 1] = name[i]
<1>1. name \in Seq(Chars) /\ name # <<>> /\ \A i \in DOMAIN name : name[i] \notin {"/", "."}
  BY FilesAssumption
<1>2. Len(name) \in Nat /\ Len(name) > 0
  BY <1>1
<1>3. PICK s : s = <<"/">> /\ s \in Seq(Chars) /\ Len(s) = 1 /\ s[1] = "/"
  BY SlashPath
<1>4. e \in Seq(Chars) /\ Len(e) = 1 + Len(name)
      /\ (\A i \in 1 .. 1 : e[i] = s[i]) /\ \A i \in 1 .. Len(name) : e[i + 1] = name[i]
  <2>1. e = s \o name
    BY <1>3
  <2>2. JoinedOf(Chars, s, name, e)
    BY ONLY <1>1, <1>3, <2>1, Joined
  <2> QED BY <1>3, <2>2 DEF JoinedOf
<1>5. e[1] = "/" /\ Len(e) = Len(name) + 1
  BY <1>2, <1>3, <1>4
<1> QED BY <1>1, <1>2, <1>4, <1>5

LEMMA MountPath ==
    ASSUME NEW dest \in MountPoints
    PROVE  /\ dest \in Seq(Chars) /\ Len(dest) \in Nat /\ Len(dest) >= 1 /\ dest[1] = "/"
           /\ Len(dest) > 1 => dest[Len(dest)] # "/"
           /\ \A i \in 1 .. Len(dest) : dest[i] # "." /\ ~Repeated(dest, i)
           /\ dest = <<"/">> <=> Len(dest) = 1
<1>1. /\ dest \in Seq(Chars) /\ dest # <<>> /\ dest[1] = "/"
      /\ Len(dest) > 1 => dest[Len(dest)] # "/"
      /\ \A i \in DOMAIN dest : dest[i] # "." /\ ~(dest[i] = "/" /\ i > 1 /\ dest[i - 1] = "/")
  BY FilesAssumption
<1>2. Len(dest) \in Nat /\ Len(dest) >= 1 /\ DOMAIN dest = 1 .. Len(dest)
  BY <1>1
<1>3. dest = <<"/">> <=> Len(dest) = 1
  BY <1>1, <1>2
<1> QED BY <1>1, <1>2, <1>3 DEF Repeated

\* p with one '/' of several in a row is t, in which path_make_canonical finds
\* nothing else to do.
PlainOf(p, t) ==
    SingleSlashes(p) = t /\ t \in Seq(Chars)
        /\ (\A i \in DOMAIN t : t[i] # ".") /\ t[Len(t)] # "/"

\* The name of the file devfs_init makes is the mount point, "//" and the
\* name; its canonical form has one '/' there.
LEMMA DeviceSqueezed ==
    ASSUME NEW dest \in MountPoints, NEW name \in DevNames, NEW e, e = <<"/">> \o name,
           NEW p, p = dest \o <<"/">> \o e,
           NEW t, t = IF dest = <<"/">> THEN e ELSE dest \o e
    PROVE  PlainOf(p, t)
<1> SUFFICES SingleSlashes(p) = t /\ t \in Seq(Chars)
             /\ (\A i \in DOMAIN t : t[i] # ".") /\ t[Len(t)] # "/"
  BY DEF PlainOf
<1> DEFINE L == Len(dest)
           M == Len(name)
           q == dest \o <<"/">>
<1>1. /\ dest \in Seq(Chars) /\ L \in Nat /\ L >= 1 /\ dest[1] = "/"
      /\ L > 1 => dest[L] # "/"
      /\ \A i \in 1 .. L : dest[i] # "." /\ ~Repeated(dest, i)
      /\ dest = <<"/">> <=> L = 1
  BY MountPath
<1>2. /\ name \in Seq(Chars) /\ M \in Nat /\ M > 0
      /\ \A i \in 1 .. M : name[i] # "/" /\ name[i] # "."
      /\ e \in Seq(Chars) /\ Len(e) = M + 1 /\ e[1] = "/"
      /\ \A i \in 1 .. M : e[i + 1] = name[i]
  BY DeviceName
<1>3. /\ q \in Seq(Chars) /\ Len(q) = L + 1 /\ q[L + 1] = "/"
      /\ \A i \in 1 .. L : q[i] = dest[i]
  <2>1. PICK s : s = <<"/">> /\ s \in Seq(Chars) /\ Len(s) = 1 /\ s[1] = "/"
    BY SlashPath
  <2>2. q = dest \o s
    BY <2>1
  <2> HIDE DEF q
  <2>3. q \in Seq(Chars) /\ Len(q) = L + 1 /\ (\A i \in 1 .. L : q[i] = dest[i])
        /\ \A i \in 1 .. 1 : q[i + L] = s[i]
    <3>1. JoinedOf(Chars, dest, s, q)
      BY ONLY <1>1, <2>1, <2>2, Joined
    <3> QED BY <2>1, <3>1 DEF JoinedOf, L
  <2>4. 1 + L = L + 1 /\ 1 \in 1 .. 1
    BY <1>1
  <2> QED BY <2>1, <2>3, <2>4
<1>4. p = q \o e
  OBVIOUS
<1> HIDE DEF L, M, q
<1>5. p \in Seq(Chars) /\ Len(p) = L + M + 2
      /\ (\A i \in 1 .. L + 1 : p[i] = q[i]) /\ (\A i \in 1 .. M + 1 : p[i + (L + 1)] = e[i])
  <2>1. p \in Seq(Chars) /\ Len(p) = (L + 1) + (M + 1)
        /\ (\A i \in 1 .. L + 1 : p[i] = q[i]) /\ (\A i \in 1 .. M + 1 : p[i + (L + 1)] = e[i])
    <3>1. JoinedOf(Chars, q, e, p)
      BY ONLY <1>2, <1>3, <1>4, Joined
    <3> QED BY <1>2, <1>3, <3>1 DEF JoinedOf
  <2>2. (L + 1) + (M + 1) = L + M + 2
    BY <1>1, <1>2
  <2> QED BY <2>1, <2>2
<1>6. /\ \A i \in 1 .. L : p[i] = dest[i]
      /\ p[L + 1] = "/" /\ p[L + 2] = "/"
      /\ \A i \in L + 3 .. L + M + 2 : p[i] = e[i - (L + 1)] /\ p[i] # "/"
  <2>1. \A i \in 1 .. L : p[i] = dest[i]
    <3> SUFFICES ASSUME NEW i \in 1 .. L PROVE p[i] = dest[i]
      OBVIOUS
    <3>1. i \in 1 .. L + 1
      BY ONLY <1>1, i \in 1 .. L
    <3> QED BY ONLY <1>3, <1>5, <3>1, i \in 1 .. L
  <2>2. p[L + 1] = "/"
    <3>1. L + 1 \in 1 .. L + 1
      BY <1>1
    <3> QED BY <1>3, <1>5, <3>1
  <2>3. p[L + 2] = "/"
    <3>1. 1 \in 1 .. M + 1 /\ 1 + (L + 1) = L + 2
      BY <1>1, <1>2
    <3> QED BY <1>2, <1>5, <3>1
  <2>4. ASSUME NEW i \in L + 3 .. L + M + 2 PROVE p[i] = e[i - (L + 1)] /\ p[i] # "/"
    <3>1. i - (L + 1) \in 1 .. M + 1 /\ (i - (L + 1)) + (L + 1) = i
      BY <1>1, <1>2
    <3>2. i - (L + 2) \in 1 .. M /\ (i - (L + 2)) + 1 = i - (L + 1)
      BY <1>1, <1>2
    <3>3. p[i] = e[i - (L + 1)]
      BY <1>5, <3>1
    <3> QED BY <1>2, <3>2, <3>3
  <2> QED BY <2>1, <2>2, <2>3, <2>4
<1>7. /\ \A i \in 1 .. L : ~Repeated(p, i)
      /\ Repeated(p, L + 1) <=> L = 1
      /\ Repeated(p, L + 2)
      /\ \A i \in L + 3 .. L + M + 2 : ~Repeated(p, i)
  <2>1. ASSUME NEW i \in 1 .. L PROVE ~Repeated(p, i)
    <3>1. i > 1 => i - 1 \in 1 .. L
      BY <1>1
    <3> QED BY <1>1, <1>6, <3>1 DEF Repeated
  <2>2. Repeated(p, L + 1) <=> L = 1
    <3>1. L \in 1 .. L /\ (L + 1) - 1 = L /\ L + 1 > 1
      BY <1>1
    <3>2. p[(L + 1) - 1] = dest[L]
      BY <1>6, <3>1
    <3>3. Repeated(p, L + 1) <=> dest[L] = "/"
      BY <1>6, <3>1, <3>2 DEF Repeated
    <3> QED BY <1>1, <3>3
  <2>3. Repeated(p, L + 2)
    <3>1. PICK k : k = L + 2
      OBVIOUS
    <3>2. k - 1 = L + 1 /\ k > 1
      BY ONLY <1>1, <3>1
    <3>3. p[k] = "/" /\ p[k - 1] = "/"
      BY ONLY <1>6, <3>1, <3>2
    <3>4. Repeated(p, k)
      BY ONLY <3>2, <3>3 DEF Repeated
    <3> QED BY ONLY <3>1, <3>4
  <2>4. \A i \in L + 3 .. L + M + 2 : ~Repeated(p, i)
    BY <1>6 DEF Repeated
  <2> QED BY <2>1, <2>2, <2>3, <2>4
<1>8. CASE L = 1
  <2> DEFINE K == [i \in 0 .. Len(p) |-> IF i = 0 THEN 0 ELSE IF i <= 3 THEN 1 ELSE i - 2]
  <2>1. t = e /\ Len(p) = M + 3
    BY <1>1, <1>2, <1>5, <1>8
  <2>2. K \in [0 .. Len(p) -> 0 .. Len(t)] /\ K[0] = 0 /\ K[Len(p)] = Len(t)
    BY <1>2, <2>1
  <2>k. \A i \in 0 .. Len(p) : K[i] = IF i = 0 THEN 0 ELSE IF i <= 3 THEN 1 ELSE i - 2
    OBVIOUS
  <2> HIDE DEF K
  <2>3. ASSUME NEW i \in 1 .. Len(p)
        PROVE  IF Repeated(p, i) THEN K[i] = K[i - 1]
               ELSE K[i] = K[i - 1] + 1 /\ t[K[i]] = p[i]
    <3>1. i \in 0 .. Len(p) /\ i - 1 \in 0 .. Len(p) /\ i \in Nat
      BY <1>2, <2>1
    <3>2. CASE i = 1
      <4>1. K[1] = 1 /\ K[0] = 0
        BY <2>2, <2>k, <3>1, <3>2
      <4>2. ~Repeated(p, 1) /\ p[1] = "/" /\ t[1] = "/"
        <5>1. 1 \in 1 .. L
          BY <1>8
        <5> QED BY <1>1, <1>2, <1>6, <1>7, <2>1, <5>1
      <4>3. K[1] = K[0] + 1 /\ t[K[1]] = p[1]
        BY <4>1, <4>2
      <4>4. i - 1 = 0
        BY <3>2
      <4> QED BY <3>2, <4>2, <4>3, <4>4, Zenon
    <3>3. CASE i = 2
      <4>1. Repeated(p, 2) /\ K[2] = 1 /\ K[1] = 1
        BY <1>7, <1>8, <2>k, <3>1, <3>3
      <4> QED BY <3>3, <4>1
    <3>4. CASE i = 3
      <4>1. Repeated(p, 3) /\ K[3] = 1 /\ K[2] = 1
        BY <1>7, <1>8, <2>k, <3>1, <3>4
      <4> QED BY <3>4, <4>1
    <3>5. CASE i > 3
      <4>1. i \in L + 3 .. L + M + 2
        BY <1>2, <1>8, <2>1, <3>1, <3>5
      <4>2. ~Repeated(p, i) /\ p[i] = e[i - (L + 1)]
        BY <1>6, <1>7, <4>1
      <4>3. K[i] = i - 2 /\ K[i - 1] = i - 3
        <5>1. K[i] = i - 2
          BY <2>k, <3>1, <3>5
        <5>2. PICK j \in 0 .. Len(p) : j = i - 1
          BY <3>1
        <5>3. K[j] = IF j = 0 THEN 0 ELSE IF j <= 3 THEN 1 ELSE j - 2
          BY <2>k
        <5>4. j >= 3 /\ j \in Nat /\ i = j + 1
          BY ONLY <3>1, <3>5, <5>2
        <5>5. K[j] = i - 3
          BY ONLY <5>3, <5>4
        <5> QED BY <5>1, <5>2, <5>5
      <4>4. i - (L + 1) = i - 2 /\ i - 2 = (i - 3) + 1
        BY <1>8, <3>1
      <4> QED BY <2>1, <4>2, <4>3, <4>4
    <3>6. i = 1 \/ i = 2 \/ i = 3 \/ i > 3
      BY ONLY <3>1, i \in 1 .. Len(p)
    <3> QED BY ONLY <3>2, <3>3, <3>4, <3>5, <3>6
  <2>4. Squeezed(p, t, K)
    BY <1>2, <1>5, <2>1, <2>2, <2>3 DEF Squeezed
  <2>5. SingleSlashes(p) = t
    BY <2>4, SingleSlashesExact
  <2>6. \A i \in DOMAIN t : t[i] # "."
    <3> SUFFICES ASSUME NEW i \in 1 .. M + 1 PROVE e[i] # "."
      <4>1. DOMAIN t = 1 .. M + 1
        BY ONLY <1>2, <2>1
      <4> QED BY <2>1, <4>1
    <3>1. i = 1 \/ (i - 1 \in 1 .. M /\ (i - 1) + 1 = i)
      BY <1>2
    <3> QED BY <1>2, <3>1
  <2>7. t[Len(t)] # "/"
    <3>1. M \in 1 .. M
      BY <1>2
    <3> QED BY <1>2, <2>1, <3>1
  <2> QED BY <1>2, <2>1, <2>5, <2>6, <2>7
<1>9. CASE L # 1
  <2> DEFINE K == [i \in 0 .. Len(p) |-> IF i <= L + 1 THEN i ELSE i - 1]
  <2>1. t = dest \o e
    BY <1>1, <1>9
  <2>2. t \in Seq(Chars) /\ Len(t) = L + M + 1
        /\ (\A i \in 1 .. L : t[i] = dest[i]) /\ (\A i \in 1 .. M + 1 : t[i + L] = e[i])
    <3>1. t \in Seq(Chars) /\ Len(t) = L + (M + 1)
          /\ (\A i \in 1 .. L : t[i] = dest[i]) /\ (\A i \in 1 .. M + 1 : t[i + L] = e[i])
      <4>1. JoinedOf(Chars, dest, e, t)
        BY ONLY <1>1, <1>2, <2>1, Joined
      <4> QED BY <1>2, <4>1 DEF JoinedOf, L
    <3>2. L + (M + 1) = L + M + 1
      BY ONLY <1>1, <1>2
    <3> QED BY ONLY <3>1, <3>2
  <2>3. K \in [0 .. Len(p) -> 0 .. Len(t)] /\ K[0] = 0 /\ K[Len(p)] = Len(t)
    <3>1. PICK x, y : x = L /\ y = M
      OBVIOUS
    <3>2. x \in Nat /\ y \in Nat
      BY ONLY <1>1, <1>2, <3>1
    <3>3. Len(p) = x + y + 2 /\ Len(t) = x + y + 1
      BY ONLY <1>5, <2>2, <3>1
    <3>4. \A i \in 0 .. Len(p) : (IF i <= x + 1 THEN i ELSE i - 1) \in 0 .. Len(t)
      BY ONLY <3>2, <3>3
    <3>5. K = [i \in 0 .. Len(p) |-> IF i <= x + 1 THEN i ELSE i - 1]
      BY ONLY <3>1
    <3>6. 0 \in 0 .. Len(p) /\ Len(p) \in 0 .. Len(p) /\ 0 <= x + 1 /\ ~(Len(p) <= x + 1) /\ Len(p) - 1 = Len(t)
      BY ONLY <3>2, <3>3
    <3> HIDE DEF K
    <3>7. K[0] = 0 /\ K[Len(p)] = Len(t)
      BY ONLY <3>5, <3>6
    <3>8. K \in [0 .. Len(p) -> 0 .. Len(t)]
      BY ONLY <3>4, <3>5
    <3> QED BY ONLY <3>7, <3>8
  <2>k. \A i \in 0 .. Len(p) : K[i] = IF i <= L + 1 THEN i ELSE i - 1
    OBVIOUS
  <2> HIDE DEF K
  <2>4. ASSUME NEW i \in 1 .. Len(p)
        PROVE  IF Repeated(p, i) THEN K[i] = K[i - 1]
               ELSE K[i] = K[i - 1] + 1 /\ t[K[i]] = p[i]
    <3>1. i \in 0 .. Len(p) /\ i - 1 \in 0 .. Len(p) /\ i \in Nat /\ i >= 1
      BY <1>1, <1>2, <1>5
    <3>2. CASE i <= L
      <4>1. i \in 1 .. L /\ K[i] = i /\ K[i - 1] = i - 1 /\ i = (i - 1) + 1
        <5>1. PICK j : j = i - 1
          OBVIOUS
        <5>2. i \in 1 .. L /\ i <= L + 1 /\ j <= L + 1 /\ i = j + 1
          BY ONLY <1>1, <3>1, <3>2, <5>1
        <5>3. K[i] = i /\ K[j] = j
          BY ONLY <2>k, <3>1, <5>1, <5>2
        <5> QED BY ONLY <5>1, <5>2, <5>3
      <4>2. ~Repeated(p, i) /\ t[i] = p[i]
        BY ONLY <1>6, <1>7, <2>2, <4>1
      <4> QED BY <4>1, <4>2
    <3>3. CASE i = L + 1
      <4>1. K[i] = L + 1 /\ K[i - 1] = L
        BY <1>1, <2>k, <3>1, <3>3
      <4>2. t[L + 1] = "/"
        <5>1. 1 \in 1 .. M + 1 /\ 1 + L = L + 1
          BY <1>1, <1>2
        <5> QED BY <1>2, <2>2, <5>1
      <4> QED BY <1>6, <1>7, <1>9, <3>3, <4>1, <4>2
    <3>4. CASE i = L + 2
      <4>1. K[i] = L + 1 /\ K[i - 1] = L + 1
        BY <1>1, <2>k, <3>1, <3>4
      <4> QED BY <1>7, <3>4, <4>1
    <3>5. CASE i > L + 2
      <4>1. i \in L + 3 .. L + M + 2
        BY <1>1, <1>2, <1>5, <3>1, <3>5
      <4>2. ~Repeated(p, i) /\ p[i] = e[i - (L + 1)]
        BY <1>6, <1>7, <4>1
      <4>3. K[i] = i - 1 /\ K[i - 1] = (i - 1) - 1
        <5>1. K[i] = i - 1
          BY <1>1, <2>k, <3>1, <3>5
        <5>2. PICK j \in 0 .. Len(p) : j = i - 1
          BY <3>1
        <5>3. K[j] = IF j <= L + 1 THEN j ELSE j - 1
          BY <2>k
        <5>4. j > L + 1 /\ j \in Nat
          BY ONLY <1>1, <3>1, <3>5, <5>2
        <5>5. K[j] = j - 1
          BY ONLY <1>1, <5>3, <5>4
        <5> QED BY <5>1, <5>2, <5>5
      <4>4. i - (L + 1) \in 1 .. M + 1 /\ (i - (L + 1)) + L = i - 1 /\ i - 1 = ((i - 1) - 1) + 1
        BY <1>1, <1>2, <4>1
      <4>5. t[i - 1] = e[i - (L + 1)]
        BY <2>2, <4>4
      <4> QED BY <4>2, <4>3, <4>4, <4>5
    <3>6. i <= L \/ i = L + 1 \/ i = L + 2 \/ i > L + 2
      BY ONLY <1>1, <3>1
    <3> QED BY ONLY <3>2, <3>3, <3>4, <3>5, <3>6
  <2>5. Squeezed(p, t, K)
    BY <1>5, <2>2, <2>3, <2>4 DEF Squeezed
  <2>6. SingleSlashes(p) = t
    BY <2>5, SingleSlashesExact
  <2>7. \A i \in DOMAIN t : t[i] # "."
    <3>0. DOMAIN t = 1 .. L + M + 1
      BY <2>2
    <3> SUFFICES ASSUME NEW i \in 1 .. L + M + 1 PROVE t[i] # "."
      BY <3>0
    <3>1. CASE i \in 1 .. L
      BY <1>1, <2>2, <3>1
    <3>2. CASE i = L + 1
      <4>1. 1 \in 1 .. M + 1 /\ 1 + L = L + 1
        BY <1>1, <1>2
      <4>2. t[L + 1] = e[1]
        BY <2>2, <4>1
      <4>3. "/" # "."
        OBVIOUS
      <4> QED BY <1>2, <3>2, <4>2, <4>3
    <3>3. CASE i > L + 1
      <4>1. i - L \in 1 .. M + 1 /\ (i - L) + L = i /\ i - L - 1 \in 1 .. M /\ (i - L - 1) + 1 = i - L
        BY <1>1, <1>2, <3>3
      <4>2. t[i] = e[i - L] /\ e[i - L] = name[i - L - 1]
        BY <1>2, <2>2, <4>1
      <4> QED BY <1>2, <4>1, <4>2
    <3>4. i \in 1 .. L \/ i = L + 1 \/ i > L + 1
      BY ONLY <1>1, <1>2, i \in 1 .. L + M + 1
    <3> QED BY ONLY <3>1, <3>2, <3>3, <3>4
  <2>8. t[Len(t)] # "/"
    <3>1. M \in 1 .. M /\ M + 1 \in 1 .. M + 1 /\ (M + 1) + L = L + M + 1
      BY <1>1, <1>2
    <3>2. t[L + M + 1] = name[M]
      <4>1. t[L + M + 1] = e[M + 1]
        BY ONLY <2>2, <3>1
      <4>2. e[M + 1] = name[M]
        BY ONLY <1>2, <3>1
      <4> QED BY ONLY <4>1, <4>2
    <3>3. name[M] # "/"
      BY ONLY <1>2, <3>1
    <3> QED BY ONLY <2>2, <3>2, <3>3
  <2> QED BY <2>2, <2>6, <2>7, <2>8
<1> QED BY <1>8, <1>9

LEMMA DevicePath ==
    ASSUME NEW dest \in MountPoints, NEW name \in DevNames, NEW e, e = <<"/">> \o name
    PROVE  Relative(Canonical(dest \o <<"/">> \o e), dest) = e
<1> DEFINE p == dest \o <<"/">> \o e
           t == IF dest = <<"/">> THEN e ELSE dest \o e
<1>1. SingleSlashes(p) = t /\ t \in Seq(Chars)
      /\ (\A i \in DOMAIN t : t[i] # ".") /\ t[Len(t)] # "/"
  <2>1. PICK u : u = t
    OBVIOUS
  <2>2. PICK v : v = p
    OBVIOUS
  <2>3. SingleSlashes(v) = u /\ u \in Seq(Chars)
        /\ (\A i \in DOMAIN u : u[i] # ".") /\ u[Len(u)] # "/"
    <3>1. PlainOf(v, u)
      BY <2>1, <2>2, DeviceSqueezed
    <3> QED BY <3>1 DEF PlainOf
  <2> HIDE DEF t, p
  <2> QED BY <2>1, <2>2, <2>3
<1>2. Canonical(p) = t
  <2> HIDE DEF p, t
  <2>1. WithoutDots(t) = t
    BY <1>1, WithoutDotsExact
  <2> QED BY <1>1, <2>1 DEF Canonical, Last
<1>3. CASE dest = <<"/">>
  BY <1>2, <1>3 DEF Relative
<1>4. CASE dest # <<"/">>
  <2>1. /\ dest \in Seq(Chars) /\ Len(dest) \in Nat
        /\ e \in Seq(Chars) /\ Len(e) \in Nat
    BY MountPath, DeviceName
  <2>2. Relative(t, dest) = SubSeq(dest \o e, Len(dest) + 1, Len(dest \o e))
    BY <1>4 DEF Relative
  <2>3. SubSeq(dest \o e, Len(dest) + 1, Len(dest \o e)) = e
    <3> PICK d : d = dest \o e
      OBVIOUS
    <3>1. Len(d) = Len(dest) + Len(e) /\ d \in Seq(Chars)
          /\ \A i \in 1 .. Len(e) : d[i + Len(dest)] = e[i]
      BY <2>1
    <3>2. SubSeq(d, Len(dest) + 1, Len(d)) = [i \in 1 .. Len(e) |-> d[i + Len(dest)]]
      BY <2>1, <3>1
    <3>3. e = [i \in 1 .. Len(e) |-> e[i]]
      BY <2>1
    <3> QED BY <3>1, <3>2, <3>3
  <2> QED BY <1>2, <2>2, <2>3
<1> QED BY <1>2, <1>3, <1>4

\* The path of the new vnode is made of the root directory and its name.
LEMMA DeviceJoined ==
    ASSUME NEW name \in DevNames, NEW e, e = <<"/">> \o name
    PROVE  DirOf(e) = <<"/">> /\ Join(<<"/">>, Filename(e)) = e
<1>1. /\ name \in Seq(Chars) /\ Len(name) \in Nat /\ Len(name) > 0
      /\ \A i \in 1 .. Len(name) : name[i] # "/"
      /\ e \in Seq(Chars) /\ Len(e) = Len(name) + 1 /\ e[1] = "/"
      /\ \A i \in 1 .. Len(name) : e[i + 1] = name[i]
  BY DeviceName
<1> DEFINE I == {i \in 1 .. Len(e) : e[i] = "/"}
<1>2. I = {1}
  <2>1. ASSUME NEW i \in 1 .. Len(e), i # 1 PROVE e[i] # "/"
    <3>1. i - 1 \in 1 .. Len(name) /\ (i - 1) + 1 = i
      BY <1>1, <2>1
    <3> QED BY <1>1, <3>1
  <2>2. 1 \in 1 .. Len(e)
    BY <1>1
  <2> QED BY <1>1, <2>1, <2>2
<1>3. LastSlash(e) = IF I # {} THEN Max(I) ELSE 0
  BY DEF LastSlash, SelectLastInSeq
<1> HIDE DEF I
<1>4. Max({1}) = 1
  BY DEF Max
<1>5. LastSlash(e) = 1
  BY <1>2, <1>3, <1>4
<1>6. Filename(e) = SubSeq(e, 2, Len(e))
  BY <1>5 DEF Filename
<1>7. Filename(e) = name
  <2>1. SubSeq(e, 2, Len(e)) = [i \in 1 .. Len(name) |-> e[i + 1]]
    BY <1>1
  <2>2. name = [i \in 1 .. Len(name) |-> name[i]]
    BY <1>1
  <2> QED BY <1>1, <1>6, <2>1, <2>2
<1> QED BY <1>5, <1>7 DEF DirOf, Join

-----------------------------------------------------------------------------
\* A mounted filesystem is the record vfs_new_fs makes.
IsFs(fs) ==
    fs = [src |-> fs.src, dest |-> fs.dest, driver |-> fs.driver, nodes |-> fs.nodes,
          meta |-> fs.meta, devices |-> fs.devices]
IsNode(v) == v = [path |-> v.path, n |-> v.n, dir |-> v.dir, ops |-> v.ops]

\* A list of vnodes.
IsNodes(s) ==
    /\ \E k \in Nat : s = [i \in 1 .. k |-> s[i]]
    /\ \A i \in DOMAIN s : IsNode(s[i])

LEMMA NodesAreSeq ==
    ASSUME NEW s, IsNodes(s)
    PROVE  s \in Seq({s[i] : i \in DOMAIN s}) /\ DOMAIN s = 1 .. Len(s) /\ Len(s) \in Nat
<1>1. PICK k \in Nat : s = [i \in 1 .. k |-> s[i]]
  BY DEF IsNodes
<1>2. DOMAIN s = 1 .. k
  BY <1>1
<1>3. s \in [1 .. k -> {s[i] : i \in DOMAIN s}]
  BY <1>1, <1>2
<1>4. s \in Seq({s[i] : i \in DOMAIN s})
  <2>1. PICK D : D = {s[i] : i \in DOMAIN s}
    OBVIOUS
  <2>2. s \in [1 .. k -> D]
    BY ONLY <1>3, <2>1
  <2>3. s \in Seq(D)
    BY ONLY <2>2, k \in Nat
  <2> QED BY ONLY <2>1, <2>3
<1> QED BY <1>2, <1>4

\* What ramfs_mkfile does to a filesystem: the list s has the vnode v more.
Grown(s, v, t) ==
    /\ IsNodes(t) /\ Len(t) = Len(s) + 1 /\ t[Len(s) + 1] = v
    /\ \A i \in 1 .. Len(s) : t[i] = s[i]

LEMMA AsFunction ==
    ASSUME NEW S, NEW t \in Seq(S)
    PROVE  t = [i \in 1 .. Len(t) |-> t[i]]
  OBVIOUS

LEMMA NodesGrow ==
    ASSUME NEW s, IsNodes(s), NEW v, IsNode(v), NEW t, t = Append(s, v)
    PROVE  Grown(s, v, t)
<1> DEFINE S == {s[i] : i \in DOMAIN s} \cup {v}
<1>1. s \in Seq({s[i] : i \in DOMAIN s}) /\ DOMAIN s = 1 .. Len(s) /\ Len(s) \in Nat
  BY NodesAreSeq
<1>2. s \in Seq(S) /\ v \in S
  BY <1>1
<1> HIDE DEF S
<1>3. t \in Seq(S) /\ Len(t) = Len(s) + 1 /\ t[Len(s) + 1] = v
      /\ \A i \in 1 .. Len(s) : t[i] = s[i]
  BY <1>1, <1>2
<1>4. DOMAIN t = 1 .. Len(s) + 1 /\ Len(s) + 1 \in Nat
  <2>1. DOMAIN t = 1 .. Len(t)
    BY <1>3
  <2> QED BY <1>1, <1>3, <2>1
<1>5. t = [i \in 1 .. Len(s) + 1 |-> t[i]]
  <2>1. t = [i \in 1 .. Len(t) |-> t[i]]
    BY ONLY <1>3, AsFunction
  <2> QED BY ONLY <1>3, <2>1
<1>6. \A i \in 1 .. Len(s) + 1 : i = Len(s) + 1 \/ i \in DOMAIN s
  BY <1>1
<1>7. \A i \in DOMAIN t : IsNode(t[i])
  BY <1>1, <1>3, <1>4, <1>6 DEF IsNodes
<1>8. IsNodes(t)
  <2>1. \E k \in Nat : t = [i \in 1 .. k |-> t[i]]
    BY ONLY <1>4, <1>5
  <2> QED BY <1>7, <2>1 DEF IsNodes
<1> QED BY ONLY <1>3, <1>8 DEF Grown

\* The slots of a ram filesystem nothing is removed from: those up to the
\* cursor are used.  ramfs_mkfile takes the next one, or doubles their number
\* and answers with the last again.
Slots(meta) ==
    /\ meta.cap \in Nat /\ meta.cursor \in Nat /\ meta.cap >= StartingFiles
    /\ 1 <= meta.cursor /\ meta.cursor <= meta.cap
    /\ meta.used \in SUBSET (1 .. meta.cursor)
NextSlot(r, x) ==
    /\ Slots(x.meta) /\ x.meta.cursor = x.ino
    /\ \/ x.ino = r.cursor + 1 /\ x.meta.cap = r.cap
       \/ x.ino = r.cursor /\ r.cursor = r.cap /\ x.meta.cursor < x.meta.cap

LEMMA MkNodeSlots ==
    ASSUME NEW r, Slots(r)
    PROVE  NextSlot(r, MkNode(r))
<1>0. StartingFiles \in Nat /\ StartingFiles > 0
  BY FilesAssumption
<1> PICK cap \in Nat, cursor \in Nat :
      /\ cap = r.cap /\ cursor = r.cursor
      /\ cap >= StartingFiles /\ 1 <= cursor /\ cursor <= cap
  BY DEF Slots
<1> PICK used \in SUBSET (1 .. cursor) : used = r.used
  BY DEF Slots
<1> PICK x : x = MkNode(r)
  OBVIOUS
<1>1. Unused(r) = cursor .. cap - 1
  BY DEF Unused
<1>2. CASE cursor = cap
  <2>1. Unused(r) = {}
    BY <1>1, <1>2
  <2>2. x = [ino |-> cap, meta |-> [cap |-> 2 * cap, used |-> used \cup {cap}, cursor |-> cap]]
    BY <2>1 DEF MkNode
  <2>3. x.ino = cap /\ x.meta.cap = 2 * cap /\ x.meta.cursor = cap /\ x.meta.used = used \cup {cap}
    BY <2>2
  <2>4. Slots(x.meta)
    BY <1>0, <1>2, <2>3 DEF Slots
  <2> QED BY <1>0, <1>2, <2>3, <2>4 DEF NextSlot
<1>3. CASE cursor < cap
  <2>1. cursor \in Unused(r) /\ \A j \in Unused(r) : cursor <= j
    BY <1>1, <1>3
  <2> DEFINE i == CHOOSE i \in Unused(r) : \A j \in Unused(r) : i <= j
  <2>2. i \in Unused(r) /\ \A j \in Unused(r) : i <= j
    BY <2>1
  <2>3. x = [ino |-> i + 1, meta |-> [cap |-> r.cap, used |-> r.used \cup {i + 1},
                                      cursor |-> i + 1]]
    BY <2>1 DEF MkNode
  <2> HIDE DEF i
  <2>4. i = cursor
    BY <1>1, <2>1, <2>2
  <2>5. x.ino = cursor + 1 /\ x.meta.cap = cap /\ x.meta.cursor = cursor + 1
        /\ x.meta.used = used \cup {cursor + 1}
    BY <2>3, <2>4
  <2>6. Slots(x.meta)
    BY <1>3, <2>5 DEF Slots
  <2> QED BY <2>5, <2>6 DEF NextSlot
<1> QED BY <1>2, <1>3

\* fs_mkfile on a ram filesystem.
MadeIn(fs, p, made) ==
    /\ IsFs(made) /\ made.src = fs.src /\ made.dest = fs.dest /\ made.driver = fs.driver
    /\ made.meta = MkNode(fs.meta).meta /\ made.devices = fs.devices
    /\ \E v : /\ IsNode(v) /\ Grown(fs.nodes, v, made.nodes)
              /\ v.n = MkNode(fs.meta).ino /\ v.dir = FALSE /\ v.ops = <<fs.driver, 0>>
              /\ LET rel == Relative(Canonical(p), fs.dest) IN
                 v.path = IF CachedNode(fs.nodes, DirOf(rel)) = 0 THEN Filename(rel)
                          ELSE Join(DirOf(rel), Filename(rel))

LEMMA MkfileGrows ==
    ASSUME NEW fs, IsFs(fs), IsNodes(fs.nodes), NEW p, NEW made, made = MkfileIn(fs, p)
    PROVE  MadeIn(fs, p, made)
<1> DEFINE rel  == Relative(Canonical(p), fs.dest)
           path == IF CachedNode(fs.nodes, DirOf(rel)) = 0 THEN Filename(rel)
                   ELSE Join(DirOf(rel), Filename(rel))
           v    == [path |-> path, n |-> MkNode(fs.meta).ino, dir |-> FALSE,
                    ops |-> <<fs.driver, 0>>]
<1>1. made = [fs EXCEPT !.meta = MkNode(fs.meta).meta, !.nodes = Append(fs.nodes, v)]
  BY DEF MkfileIn, RamMkfile
<1>2. IsNode(v) /\ v.n = MkNode(fs.meta).ino /\ v.dir = FALSE /\ v.ops = <<fs.driver, 0>>
      /\ v.path = path
  BY DEF IsNode
<1> HIDE DEF v, path
<1>3. made = [src |-> fs.src, dest |-> fs.dest, driver |-> fs.driver,
              nodes |-> Append(fs.nodes, v), meta |-> MkNode(fs.meta).meta,
              devices |-> fs.devices]
  BY <1>1 DEF IsFs
<1>4. IsFs(made) /\ made.src = fs.src /\ made.dest = fs.dest /\ made.driver = fs.driver
      /\ made.meta = MkNode(fs.meta).meta /\ made.nodes = Append(fs.nodes, v)
      /\ made.devices = fs.devices
  BY <1>3 DEF IsFs
<1>5. Grown(fs.nodes, v, made.nodes)
  BY <1>2, <1>4, NodesGrow
<1> QED BY <1>2, <1>4, <1>5 DEF path, MadeIn


\* The vnode of a path, and the one with a number.
LEMMA FirstNode ==
    ASSUME NEW s, IsNodes(s), NEW i \in 1 .. Len(s)
    PROVE  /\ CachedNode(s, s[i].path) # 0
           /\ InoToNode(s, s[i].n) \in 1 .. Len(s)
           /\ s[InoToNode(s, s[i].n)].n = s[i].n
<1>1. Len(s) \in Nat
  BY NodesAreSeq
<1>2. ASSUME NEW I \in SUBSET (1 .. Len(s)), i \in I
      PROVE  Min(I) \in I
  <2>1. I \in SUBSET Nat
    BY <1>1
  <2>2. \E k \in I : \A j \in I : k <= j
    BY <1>2, <2>1, LeastNatural
  <2> QED BY <2>2 DEF Min
<1>3. CachedNode(s, s[i].path) # 0
  <2> DEFINE I == {j \in 1 .. Len(s) : s[j].path = s[i].path}
  <2>1. i \in I /\ I \in SUBSET (1 .. Len(s))
    OBVIOUS
  <2>2. CachedNode(s, s[i].path) = IF I # {} THEN Min(I) ELSE 0
    BY DEF CachedNode, SelectInSeq
  <2> HIDE DEF I
  <2>3. Min(I) \in 1 .. Len(s)
    BY <1>2, <2>1
  <2> QED BY <1>1, <2>1, <2>2, <2>3
<1>4. InoToNode(s, s[i].n) \in 1 .. Len(s) /\ s[InoToNode(s, s[i].n)].n = s[i].n
  <2> DEFINE I == {j \in 1 .. Len(s) : s[j].n = s[i].n}
  <2>1. i \in I /\ I \in SUBSET (1 .. Len(s))
    OBVIOUS
  <2>2. InoToNode(s, s[i].n) = IF I # {} THEN Min(I) ELSE 0
    BY DEF InoToNode, SelectInSeq
  <2>3. Min(I) \in I
    <3> HIDE DEF I
    <3> QED BY <1>2, <2>1
  <2> QED BY <2>1, <2>2, <2>3
<1> QED BY <1>3, <1>4

\* A vnode is given the operations of a device.
GivenOps(s, q, ops, t) ==
    /\ IsNodes(t) /\ Len(t) = Len(s)
    /\ \A i \in 1 .. Len(s) : i # q => t[i] = s[i]
    /\ t[q].path = s[q].path /\ t[q].n = s[q].n /\ t[q].dir = s[q].dir /\ t[q].ops = ops

LEMMA OpsGiven ==
    ASSUME NEW s, IsNodes(s), NEW q \in 1 .. Len(s), NEW ops, NEW t,
           t = [s EXCEPT ![q].ops = ops]
    PROVE  GivenOps(s, q, ops, t)
<1>1. PICK k \in Nat : s = [i \in 1 .. k |-> s[i]]
  BY DEF IsNodes
<1>2. Len(s) = k /\ DOMAIN s = 1 .. k
  <2>1. DOMAIN s = 1 .. k
    BY <1>1
  <2>2. DOMAIN s = 1 .. Len(s) /\ Len(s) \in Nat
    BY NodesAreSeq
  <2> QED BY <2>1, <2>2
<1>3. PICK v : v = [s[q] EXCEPT !.ops = ops]
  OBVIOUS
<1>4. s[q] = [path |-> s[q].path, n |-> s[q].n, dir |-> s[q].dir, ops |-> s[q].ops]
  BY <1>2 DEF IsNodes, IsNode
<1>5. v = [path |-> s[q].path, n |-> s[q].n, dir |-> s[q].dir, ops |-> ops]
  BY <1>3, <1>4
<1>6. IsNode(v) /\ v.path = s[q].path /\ v.n = s[q].n /\ v.dir = s[q].dir /\ v.ops = ops
  BY <1>5 DEF IsNode
<1>7. t = [s EXCEPT ![q] = v]
  BY <1>3
<1>8. t = [i \in 1 .. k |-> IF i = q THEN v ELSE s[i]]
  BY <1>1, <1>7
<1>9. t = [i \in 1 .. k |-> t[i]] /\ DOMAIN t = 1 .. k
  BY <1>8
<1>10. \A i \in 1 .. k : t[i] = IF i = q THEN v ELSE s[i]
  BY <1>8
<1>11. IsNodes(t)
  <2>1. \A i \in DOMAIN t : IsNode(t[i])
    BY <1>2, <1>6, <1>9, <1>10 DEF IsNodes
  <2>2. \E j \in Nat : t = [i \in 1 .. j |-> t[i]]
    BY ONLY <1>9, k \in Nat
  <2> QED BY <2>1, <2>2 DEF IsNodes
<1>12. Len(t) = k
  <2>1. DOMAIN t = 1 .. Len(t) /\ Len(t) \in Nat
    BY <1>11, NodesAreSeq
  <2> QED BY <1>9, <2>1
<1> QED BY <1>2, <1>6, <1>10, <1>11, <1>12 DEF GivenOps


-----------------------------------------------------------------------------
\* The filesystem devfs_init has after i of the registered entries.  Numbers go
\* up by one from file to file or stay as they are, never twice in a row.
Numbers(s, meta, i) ==
    /\ s[i + 1].n = meta.cursor
    /\ \A k \in 1 .. i + 1 : s[k].n \in Nat
    /\ \A k, l \in 1 .. i + 1 : (k < l => s[k].n <= s[l].n) /\ (k + 1 < l => s[k].n < s[l].n)
    /\ i >= 1 /\ s[i].n = s[i + 1].n => meta.cursor < meta.cap
    /\ i + 1 <= StartingFiles => meta.cap = StartingFiles /\ \A k \in 1 .. i + 1 : s[k].n = k
OwnNumber(s, i, k) == \A j \in 1 .. i + 1 : s[j].n = s[k + 1].n => j = k + 1
DeviceFiles(s, es, i) ==
    \A k \in 1 .. i : /\ s[k + 1].path = es[k] /\ s[k + 1].dir = FALSE
                      /\ OwnNumber(s, i, k) => s[k + 1].ops = <<"device", k>>
DevfsAfter(fs, dest, i) ==
    /\ IsFs(fs) /\ fs.driver = "devfs" /\ fs.dest = dest /\ fs.devices = i
    /\ IsNodes(fs.nodes) /\ Len(fs.nodes) = i + 1
    /\ fs.nodes[1].path = <<"/">>
    /\ Slots(fs.meta)
    /\ Numbers(fs.nodes, fs.meta, i)
    /\ DeviceFiles(fs.nodes, entries, i)

LEMMA DevfsStarts ==
    ASSUME NEW src, NEW dest, NEW fs, fs = RamfsMounted(src, dest, "devfs")
    PROVE  DevfsAfter(fs, dest, 0)
<1>1. fs = [src |-> src, dest |-> dest, driver |-> "devfs", nodes |-> <<RootNode("devfs")>>,
            meta |-> RamfsInit(StartingFiles), devices |-> 0]
  BY DEF RamfsMounted, NewFs
<1>2. PICK v : v = RootNode("devfs")
  OBVIOUS
<1>3. IsNode(v) /\ v.path = <<"/">> /\ v.n = 1
  BY <1>2 DEF IsNode, RootNode
<1>4. PICK s : s = <<v>>
  OBVIOUS
<1>5. s = [i \in 1 .. 1 |-> v] /\ Len(s) = 1 /\ s[1] = v
  BY <1>4
<1>6. IsNodes(s)
  <2>1. s = [i \in 1 .. 1 |-> s[i]] /\ DOMAIN s = 1 .. 1 /\ \A i \in 1 .. 1 : s[i] = v
    BY ONLY <1>5
  <2> QED BY ONLY <1>3, <2>1 DEF IsNodes
<1>7. IsFs(fs) /\ fs.driver = "devfs" /\ fs.dest = dest /\ fs.nodes = s /\ fs.devices = 0
      /\ fs.meta = RamfsInit(StartingFiles)
  BY <1>1, <1>2, <1>4 DEF IsFs
<1>8. fs.meta.cap = StartingFiles /\ fs.meta.cursor = 1 /\ fs.meta.used = {1}
  BY <1>7 DEF RamfsInit
<1>9. Slots(fs.meta)
  BY <1>8, FilesAssumption DEF Slots
<1>10. Numbers(s, fs.meta, 0)
  <2>1. \A k \in 1 .. 0 + 1 : k = 1
    OBVIOUS
  <2> QED BY ONLY <1>3, <1>5, <1>8, <2>1 DEF Numbers
<1>11. DeviceFiles(s, entries, 0)
  BY DEF DeviceFiles
<1> QED BY <1>3, <1>5, <1>6, <1>7, <1>9, <1>10, <1>11 DEF DevfsAfter

\* The numbers with one file more.
LEMMA NumbersGoOn ==
    ASSUME NEW i \in Nat, NEW s, NEW t, NEW r, NEW x,
           Numbers(s, r, i), Slots(r), NextSlot(r, x),
           \A k \in 1 .. i + 1 : t[k].n = s[k].n,
           t[i + 2].n = x.ino
    PROVE  Numbers(t, x.meta, i + 1)
<1>0. StartingFiles \in Nat
  BY FilesAssumption
<1> PICK cap \in Nat, cursor \in Nat : cap = r.cap /\ cursor = r.cursor /\ cursor <= cap
  BY DEF Slots
<1> PICK capx \in Nat, m \in Nat : capx = x.meta.cap /\ m = x.ino /\ m = x.meta.cursor
  BY DEF NextSlot, Slots
<1>1. (m = cursor + 1 /\ capx = cap) \/ (m = cursor /\ cursor = cap /\ m < capx)
  BY DEF NextSlot
<1> PICK n : n = [k \in 1 .. i + 2 |-> t[k].n]
  OBVIOUS
<1>2. \A k \in 1 .. i + 2 : n[k] = t[k].n
  OBVIOUS
<1>3. \A k \in 1 .. i + 1 : n[k] = s[k].n /\ k \in 1 .. i + 2
  BY <1>2
<1>4. n[i + 2] = m
  BY <1>2
<1>5. n[i + 1] = cursor
  BY <1>3 DEF Numbers
<1>6. \A k \in 1 .. i + 1 : n[k] \in Nat
  BY <1>3 DEF Numbers
<1>7. \A k, l \in 1 .. i + 1 : (k < l => n[k] <= n[l]) /\ (k + 1 < l => n[k] < n[l])
  BY <1>3 DEF Numbers
<1>8. i >= 1 /\ n[i] = n[i + 1] => cursor < cap
  <2>1. i >= 1 => i \in 1 .. i + 1 /\ i + 1 \in 1 .. i + 1
    OBVIOUS
  <2> QED BY <1>3, <2>1 DEF Numbers
<1>9. i + 1 <= StartingFiles => cap = StartingFiles /\ \A k \in 1 .. i + 1 : n[k] = k
  BY <1>3 DEF Numbers
<1>10. \A k \in 1 .. i + 1 : n[k] <= cursor
  BY ONLY <1>5, <1>6, <1>7, cursor \in Nat, i \in Nat
<1>11. ASSUME NEW k \in 1 .. i PROVE n[k] < m
  <2>1. k \in 1 .. i + 1 /\ n[k] \in Nat /\ n[k] <= cursor
    BY ONLY <1>6, <1>10, i \in Nat, k \in 1 .. i
  <2>2. CASE m = cursor + 1
    BY ONLY <2>1, <2>2, cursor \in Nat
  <2>3. CASE m = cursor /\ cursor = cap
    <3>1. k < i => n[k] < n[i + 1]
      BY ONLY <1>7, <2>1, i \in Nat, k \in 1 .. i
    <3>2. k = i => n[k] # n[i + 1]
      BY ONLY <1>8, <2>3, i \in Nat, k \in 1 .. i, cursor \in Nat
    <3> QED BY ONLY <1>5, <2>1, <2>3, <3>1, <3>2, i \in Nat, k \in 1 .. i, cursor \in Nat
  <2> QED BY ONLY <1>1, <2>2, <2>3
<1>12. \A k \in 1 .. i + 2 : n[k] \in Nat
  BY ONLY <1>4, <1>6, m \in Nat, i \in Nat
<1>13. ASSUME NEW k \in 1 .. i + 2, NEW l \in 1 .. i + 2
       PROVE  (k < l => n[k] <= n[l]) /\ (k + 1 < l => n[k] < n[l])
  <2>1. CASE l = i + 2
    <3>1. k < l => n[k] <= cursor
      BY ONLY <1>10, <2>1, i \in Nat, k \in 1 .. i + 2
    <3>2. k + 1 < l => n[k] < m
      BY ONLY <1>11, <2>1, i \in Nat, k \in 1 .. i + 2
    <3>3. cursor <= m
      BY ONLY <1>1, cursor \in Nat, m \in Nat
    <3>4. n[k] \in Nat
      BY ONLY <1>12, k \in 1 .. i + 2
    <3> QED BY ONLY <1>4, <2>1, <3>1, <3>2, <3>3, <3>4, cursor \in Nat, m \in Nat
  <2>2. CASE l # i + 2
    <3>1. k < l => k \in 1 .. i + 1 /\ l \in 1 .. i + 1
      BY ONLY <2>2, i \in Nat, k \in 1 .. i + 2, l \in 1 .. i + 2
    <3>2. k + 1 < l => k < l
      BY ONLY k \in 1 .. i + 2, l \in 1 .. i + 2, i \in Nat
    <3> QED BY ONLY <1>7, <3>1, <3>2
  <2> QED BY <2>1, <2>2
<1>14. n[i + 1] = n[i + 2] => m < capx
  BY ONLY <1>1, <1>4, <1>5, cursor \in Nat, m \in Nat, cap \in Nat, capx \in Nat
<1>15. ASSUME i + 2 <= StartingFiles
       PROVE  capx = StartingFiles /\ \A k \in 1 .. i + 2 : n[k] = k
  <2>1. cap = StartingFiles /\ \A k \in 1 .. i + 1 : n[k] = k
    BY ONLY <1>0, <1>9, <1>15, i \in Nat
  <2>2. cursor = i + 1
    BY ONLY <1>5, <2>1, i \in Nat
  <2>3. m = i + 2 /\ capx = cap
    BY ONLY <1>0, <1>1, <1>15, <2>1, <2>2, i \in Nat
  <2>4. \A k \in 1 .. i + 2 : k = i + 2 \/ k \in 1 .. i + 1
    BY ONLY i \in Nat
  <2> QED BY ONLY <1>4, <2>1, <2>3, <2>4
<1>16. (i + 1) + 1 = i + 2 /\ i + 1 \in 1 .. i + 2
  BY ONLY i \in Nat
<1>17. t[i + 2].n = x.meta.cursor
  OBVIOUS
<1>18. i + 1 >= 1 /\ t[i + 1].n = t[i + 2].n => x.meta.cursor < x.meta.cap
  <2>1. i + 2 \in 1 .. i + 2
    BY ONLY i \in Nat
  <2> QED BY <1>2, <1>14, <1>16, <2>1
<1> HIDE DEF NextSlot, Slots
<1>19. i + 2 <= StartingFiles => x.meta.cap = StartingFiles /\ \A k \in 1 .. i + 2 : t[k].n = k
  BY ONLY <1>2, <1>15, capx = x.meta.cap
<1>20. \A k \in 1 .. i + 2 : t[k].n \in Nat
  BY ONLY <1>2, <1>12
<1>21. \A k, l \in 1 .. i + 2 : (k < l => t[k].n <= t[l].n) /\ (k + 1 < l => t[k].n < t[l].n)
  BY ONLY <1>2, <1>13
<1> QED BY ONLY <1>16, <1>17, <1>18, <1>19, <1>20, <1>21 DEF Numbers

LEMMA DevfsGoesOn ==
    ASSUME NEW dest \in MountPoints, NEW i \in Nat, NEW name \in DevNames,
           entries[i + 1] = <<"/">> \o name,
           NEW fs, DevfsAfter(fs, dest, i),
           NEW made, made = MkfileIn(fs, dest \o <<"/">> \o entries[i + 1]),
           NEW new, new = WithDevice(made, i + 1)
    PROVE  DevfsAfter(new, dest, i + 1)
<1>1. /\ IsFs(fs) /\ fs.driver = "devfs" /\ fs.dest = dest /\ IsNodes(fs.nodes)
      /\ Len(fs.nodes) = i + 1 /\ Slots(fs.meta) /\ fs.nodes[1].path = <<"/">>
      /\ Numbers(fs.nodes, fs.meta, i) /\ DeviceFiles(fs.nodes, entries, i)
  BY DEF DevfsAfter
<1>2. PICK e : e = entries[i + 1]
  OBVIOUS
<1>3. Relative(Canonical(dest \o <<"/">> \o e), dest) = e
  BY <1>2, DevicePath
<1>4. DirOf(e) = <<"/">> /\ Join(<<"/">>, Filename(e)) = e
  BY <1>2, DeviceJoined
<1>5. PICK p : p = dest \o <<"/">> \o e
  OBVIOUS
<1>6. /\ IsFs(made) /\ made.dest = dest /\ made.driver = "devfs"
      /\ made.meta = MkNode(fs.meta).meta
      /\ \E v : /\ IsNode(v) /\ Grown(fs.nodes, v, made.nodes)
                /\ v.n = MkNode(fs.meta).ino /\ v.dir = FALSE
                /\ LET rel == Relative(Canonical(p), fs.dest) IN
                   v.path = IF CachedNode(fs.nodes, DirOf(rel)) = 0 THEN Filename(rel)
                            ELSE Join(DirOf(rel), Filename(rel))
  <2>1. made = MkfileIn(fs, p)
    BY <1>2, <1>5
  <2>2. MadeIn(fs, p, made)
    BY ONLY <1>1, <2>1, MkfileGrows
  <2> QED BY ONLY <1>1, <2>2 DEF MadeIn
<1>7. PICK v : /\ IsNode(v) /\ Grown(fs.nodes, v, made.nodes)
               /\ v.n = MkNode(fs.meta).ino /\ v.dir = FALSE
               /\ v.path = IF CachedNode(fs.nodes, <<"/">>) = 0 THEN Filename(e) ELSE e
  BY ONLY <1>1, <1>3, <1>4, <1>5, <1>6
<1>8. PICK x : x = MkNode(fs.meta)
  OBVIOUS
<1>8a. NextSlot(fs.meta, x)
  BY ONLY <1>1, <1>8, MkNodeSlots
<1> PICK s : s = made.nodes
  OBVIOUS
<1>9. IsNodes(s) /\ Len(s) = i + 2 /\ s[i + 2] = v /\ \A k \in 1 .. i + 1 : s[k] = fs.nodes[k]
  BY ONLY <1>1, <1>7, s = made.nodes, i \in Nat DEF Grown
<1>10. PICK q : q = InoToNode(s, v.n)
  OBVIOUS
<1>11. q \in 1 .. i + 2 /\ s[q].n = v.n
  <2>1. i + 2 \in 1 .. Len(s)
    BY <1>9
  <2> QED BY <1>9, <1>10, <2>1, FirstNode
<1>12. PICK t : t = [s EXCEPT ![q].ops = <<"device", i + 1>>]
  OBVIOUS
<1>13. GivenOps(s, q, <<"device", i + 1>>, t)
  BY <1>9, <1>11, <1>12, OpsGiven
<1>14. new = [made EXCEPT !.nodes = t, !.devices = i + 1]
  <2>1. made.nodes[Len(made.nodes)].n = v.n
    BY ONLY <1>9, s = made.nodes
  <2>2. new = [made EXCEPT !.nodes[q].ops = <<"device", i + 1>>, !.devices = i + 1]
    BY ONLY <1>10, <2>1, new = WithDevice(made, i + 1), s = made.nodes DEF WithDevice
  <2> QED BY ONLY <1>12, <2>2, s = made.nodes
<1>15. IsFs(new) /\ new.driver = "devfs" /\ new.dest = dest /\ new.nodes = t /\ new.meta = made.meta
       /\ new.devices = i + 1
  <2>1. new = [src |-> made.src, dest |-> made.dest, driver |-> made.driver, nodes |-> t,
               meta |-> made.meta, devices |-> i + 1]
    BY ONLY <1>6, <1>14 DEF IsFs
  <2> QED BY ONLY <1>6, <2>1 DEF IsFs
<1>16. Slots(new.meta) /\ new.meta = x.meta
  BY ONLY <1>6, <1>8, <1>8a, <1>15 DEF NextSlot
\* Numbers, paths and kinds are those of the list before; only the operations
\* of the vnode found by its number are replaced.
<1>17. \A k \in 1 .. i + 1 : t[k].n = fs.nodes[k].n /\ t[k].path = fs.nodes[k].path
                            /\ t[k].dir = fs.nodes[k].dir
  <2>1. \A k \in 1 .. i + 1 : k \in 1 .. Len(s)
    BY ONLY <1>9, i \in Nat
  <2> QED BY ONLY <1>9, <1>13, <2>1 DEF GivenOps
<1>18. t[i + 2].n = v.n /\ t[i + 2].path = v.path /\ t[i + 2].dir = FALSE
  <2>1. i + 2 \in 1 .. Len(s)
    BY ONLY <1>9, i \in Nat
  <2> QED BY ONLY <1>7, <1>9, <1>13, <2>1 DEF GivenOps
<1>19. Numbers(t, new.meta, i + 1)
  <2>1. \A k \in 1 .. i + 1 : t[k].n = fs.nodes[k].n
    BY ONLY <1>17
  <2>2. t[i + 2].n = x.ino
    BY ONLY <1>7, <1>8, <1>18
  <2>3. Numbers(t, x.meta, i + 1)
    BY ONLY <1>1, <1>8a, <2>1, <2>2, i \in Nat, NumbersGoOn
  <2> QED BY ONLY <1>16, <2>3
<1>20. v.path = e
  <2>1. 1 \in 1 .. Len(fs.nodes)
    BY ONLY <1>1, i \in Nat
  <2>2. CachedNode(fs.nodes, fs.nodes[1].path) # 0
    BY ONLY <1>1, <2>1, FirstNode
  <2> QED BY ONLY <1>1, <1>7, <2>2
<1>21. ASSUME NEW k \in 1 .. i + 1
       PROVE  /\ t[k + 1].path = entries[k] /\ t[k + 1].dir = FALSE
              /\ OwnNumber(t, i + 1, k) => t[k + 1].ops = <<"device", k>>
  <2>0. (i + 1) + 1 = i + 2
    BY ONLY i \in Nat
  <2>1. CASE k = i + 1
    <3>1. t[k + 1].path = entries[k] /\ t[k + 1].dir = FALSE
      BY ONLY <1>2, <1>18, <1>20, <2>0, <2>1
    <3>2. ASSUME OwnNumber(t, i + 1, k) PROVE t[k + 1].ops = <<"device", k>>
      <4>1. t[q].n = t[k + 1].n
        BY ONLY <1>11, <1>13, <1>18, <2>0, <2>1 DEF GivenOps
      <4>2. q = k + 1
        BY ONLY <1>11, <2>0, <3>2, <4>1 DEF OwnNumber
      <4> QED BY ONLY <1>13, <2>1, <4>2 DEF GivenOps
    <3> QED BY <3>1, <3>2
  <2>2. CASE k # i + 1
    <3>0. k \in 1 .. i /\ k + 1 \in 1 .. i + 1
      BY ONLY <2>2, i \in Nat, k \in 1 .. i + 1
    <3>1. t[k + 1].path = entries[k] /\ t[k + 1].dir = FALSE
      BY ONLY <1>1, <1>17, <3>0 DEF DeviceFiles
    <3>2. ASSUME OwnNumber(t, i + 1, k) PROVE t[k + 1].ops = <<"device", k>>
      <4>1. OwnNumber(fs.nodes, i, k)
        <5>1. ASSUME NEW j \in 1 .. i + 1, fs.nodes[j].n = fs.nodes[k + 1].n PROVE j = k + 1
          <6>1. t[j].n = t[k + 1].n
            BY ONLY <1>17, <3>0, <5>1
          <6>2. j \in 1 .. (i + 1) + 1
            BY ONLY i \in Nat, j \in 1 .. i + 1
          <6> QED BY ONLY <3>2, <6>1, <6>2 DEF OwnNumber
        <5> QED BY <5>1 DEF OwnNumber
      <4>2. fs.nodes[k + 1].ops = <<"device", k>>
        BY ONLY <1>1, <3>0, <4>1 DEF DeviceFiles
      <4>3. q # k + 1
        <5>1. ASSUME q = k + 1 PROVE FALSE
          <6>1. t[i + 2].n = t[k + 1].n
            BY ONLY <1>11, <1>13, <1>18, <5>1 DEF GivenOps
          <6>2. i + 2 \in 1 .. (i + 1) + 1 /\ i + 2 # k + 1
            BY ONLY <3>0, i \in Nat, k \in 1 .. i + 1
          <6> QED BY ONLY <3>2, <6>1, <6>2 DEF OwnNumber
        <5> QED BY <5>1
      <4>4. k + 1 \in 1 .. Len(s)
        BY ONLY <1>9, <3>0, i \in Nat
      <4>5. t[k + 1] = fs.nodes[k + 1]
        BY ONLY <1>9, <1>13, <3>0, <4>3, <4>4 DEF GivenOps
      <4> QED BY ONLY <4>2, <4>5
    <3> QED BY <3>1, <3>2
  <2> QED BY <2>1, <2>2
<1>22. DeviceFiles(t, entries, i + 1)
  BY ONLY <1>21 DEF DeviceFiles
<1>23. IsNodes(t) /\ Len(t) = (i + 1) + 1
  BY ONLY <1>9, <1>13, i \in Nat DEF GivenOps
<1>24. t[1].path = <<"/">>
  <2>1. 1 \in 1 .. i + 1
    BY ONLY i \in Nat
  <2> QED BY ONLY <1>1, <1>17, <2>1
<1> QED BY ONLY <1>15, <1>16, <1>19, <1>22, <1>23, <1>24 DEF DevfsAfter


\* devfs_init's loop over the entries, as the function that DevfsMounted
\* chooses.
DevfsAt(fs, src, dest, i) ==
    IF i = 0 THEN RamfsMounted(src, dest, "devfs")
    ELSE WithDevice(MkfileIn(fs[i - 1], dest \o <<"/">> \o entries[i]), i)
DevfsEq(fs, src, dest, n) == fs = [i \in 0 .. n |-> DevfsAt(fs, src, dest, i)]

LEMMA DevfsExists ==
    ASSUME NEW src, NEW dest, NEW n \in Nat
    PROVE  \E fs : DevfsEq(fs, src, dest, n)
<1> DEFINE T == {k \in Nat : ~\E fs : DevfsEq(fs, src, dest, k)}
<1> SUFFICES ASSUME T # {} PROVE FALSE
  OBVIOUS
<1>0. T \in SUBSET Nat
  OBVIOUS
<1>1. PICK x \in T : \A y \in T : x <= y
  <2> HIDE DEF T
  <2> QED BY <1>0, LeastNatural
<1>2. x \in Nat /\ ~\E fs : DevfsEq(fs, src, dest, x)
  OBVIOUS
<1>3. CASE x = 0
  <2>1. PICK g : g = [i \in 0 .. 0 |-> RamfsMounted(src, dest, "devfs")]
    OBVIOUS
  <2>2. \A i \in 0 .. 0 : DevfsAt(g, src, dest, i) = RamfsMounted(src, dest, "devfs")
    BY DEF DevfsAt
  <2>3. DevfsEq(g, src, dest, 0)
    BY ONLY <2>1, <2>2 DEF DevfsEq
  <2> QED BY <1>2, <1>3, <2>3
<1>4. CASE x # 0
  <2>1. x - 1 \in Nat /\ x - 1 \notin T
    BY <1>1, <1>2, <1>4
  <2>2. PICK f : DevfsEq(f, src, dest, x - 1)
    BY <2>1
  <2>3. PICK z : z = DevfsAt(f, src, dest, x)
    OBVIOUS
  <2>4. PICK g : g = [i \in 0 .. x |-> IF i = x THEN z ELSE f[i]]
    OBVIOUS
  <2>5. \A i \in 0 .. x - 1 : f[i] = DevfsAt(f, src, dest, i)
    BY ONLY <2>2 DEF DevfsEq
  <2>6. ASSUME NEW i \in 0 .. x PROVE g[i] = DevfsAt(g, src, dest, i)
    <3>1. i # 0 => g[i - 1] = f[i - 1]
      BY ONLY <1>2, <2>4, i \in 0 .. x
    <3>2. DevfsAt(g, src, dest, i) = DevfsAt(f, src, dest, i)
      BY ONLY <3>1 DEF DevfsAt
    <3>3. CASE i = x
      BY ONLY <2>3, <2>4, <3>2, <3>3, i \in 0 .. x
    <3>4. CASE i # x
      <4>1. i \in 0 .. x - 1 /\ g[i] = f[i]
        BY ONLY <1>2, <2>4, <3>4, i \in 0 .. x
      <4> QED BY ONLY <2>5, <3>2, <4>1
    <3> QED BY <3>3, <3>4
  <2>7. g = [i \in 0 .. x |-> g[i]]
    BY ONLY <2>4
  <2>8. DevfsEq(g, src, dest, x)
    BY ONLY <2>6, <2>7 DEF DevfsEq
  <2> QED BY <1>2, <2>8
<1> QED BY <1>3, <1>4

\* What devfs_init makes of the registered entries.
EntriesAreNames ==
    /\ \E n \in Nat : entries = [i \in 1 .. n |-> entries[i]]
    /\ \A i \in DOMAIN entries : \E name \in DevNames : entries[i] = <<"/">> \o name

LEMMA EntriesAreSeq ==
    ASSUME EntriesAreNames
    PROVE  entries \in Seq({entries[i] : i \in DOMAIN entries})
           /\ DOMAIN entries = 1 .. Len(entries) /\ Len(entries) \in Nat
<1>1. PICK k \in Nat : entries = [i \in 1 .. k |-> entries[i]]
  BY DEF EntriesAreNames
<1>2. DOMAIN entries = 1 .. k
  BY <1>1
<1>3. entries \in [1 .. k -> {entries[i] : i \in DOMAIN entries}]
  BY <1>1, <1>2
<1>4. entries \in Seq({entries[i] : i \in DOMAIN entries})
  BY <1>3
<1> QED BY <1>2, <1>4

LEMMA DevfsMakesDevices ==
    ASSUME EntriesAreNames, NEW src, NEW dest \in MountPoints
    PROVE  DevfsAfter(DevfsMounted(src, dest), dest, Len(entries))
<1> DEFINE fs == CHOOSE g : DevfsEq(g, src, dest, Len(entries))
<1>1. Len(entries) \in Nat /\ DOMAIN entries = 1 .. Len(entries)
  BY EntriesAreSeq
<1>2. DevfsMounted(src, dest) = fs[Len(entries)]
  BY DEF DevfsMounted, DevfsEq, DevfsAt
<1>3. DevfsEq(fs, src, dest, Len(entries))
  BY <1>1, DevfsExists
<1> HIDE DEF fs
<1>4. \A i \in 0 .. Len(entries) : fs[i] = DevfsAt(fs, src, dest, i)
  BY ONLY <1>3 DEF DevfsEq
<1> DEFINE T == {k \in Nat : k <= Len(entries) /\ ~DevfsAfter(fs[k], dest, k)}
<1>5. ASSUME T # {} PROVE FALSE
  <2>0. T \in SUBSET Nat
    OBVIOUS
  <2>1. PICK x \in T : \A y \in T : x <= y
    <3> HIDE DEF T
    <3> QED BY <1>5, <2>0, LeastNatural
  <2>2. x \in Nat /\ x <= Len(entries) /\ ~DevfsAfter(fs[x], dest, x) /\ x \in 0 .. Len(entries)
    BY <1>1
  <2>3. CASE x = 0
    <3>1. fs[0] = RamfsMounted(src, dest, "devfs")
      BY <1>4, <2>2, <2>3 DEF DevfsAt
    <3> QED BY ONLY <2>2, <2>3, <3>1, DevfsStarts
  <2>4. CASE x # 0
    <3>1. x - 1 \in Nat /\ DevfsAfter(fs[x - 1], dest, x - 1)
      BY <1>1, <2>1, <2>2, <2>4
    <3>2. PICK j \in Nat : j = x - 1
      BY <3>1
    <3>3. x = j + 1 /\ x \in 1 .. Len(entries)
      BY ONLY <1>1, <2>2, <2>4, <3>2
    <3>4. PICK name \in DevNames : entries[j + 1] = <<"/">> \o name
      BY <1>1, <3>3 DEF EntriesAreNames
    <3>5. fs[x] = WithDevice(MkfileIn(fs[j], dest \o <<"/">> \o entries[j + 1]), j + 1)
      BY ONLY <1>4, <2>2, <2>4, <3>2, <3>3 DEF DevfsAt
    <3>6. DevfsAfter(fs[x], dest, j + 1)
      <4>1. PICK f : f = fs[j]
        OBVIOUS
      <4>2. DevfsAfter(f, dest, j)
        BY ONLY <3>1, <3>2, <4>1
      <4>3. PICK made : made = MkfileIn(f, dest \o <<"/">> \o entries[j + 1])
        OBVIOUS
      <4>4. PICK new : new = WithDevice(made, j + 1)
        OBVIOUS
      <4>5. DevfsAfter(new, dest, j + 1)
        BY ONLY <3>2, <3>4, <4>2, <4>3, <4>4, dest \in MountPoints, DevfsGoesOn
      <4> QED BY ONLY <3>5, <4>1, <4>3, <4>4, <4>5
    <3> QED BY ONLY <2>2, <3>3, <3>6
  <2> QED BY <2>3, <2>4
<1>6. DevfsAfter(fs[Len(entries)], dest, Len(entries))
  BY <1>1, <1>5
<1> QED BY <1>2, <1>6


-----------------------------------------------------------------------------
\* The mounted filesystems: the first D entries have their files in devfs, and
\* two files with one number are neighbours.
IsList(s) == \E k \in Nat : s = [i \in 1 .. k |-> s[i]]
Neighbours(s, D) ==
    \A k, l \in 1 .. D + 1 :
        s[k].n = s[l].n => k = l \/ (D >= StartingFiles /\ (k = l + 1 \/ l = k + 1))
Answers(s, D, es) ==
    /\ D \in Nat /\ D <= Len(es) /\ D + 1 <= Len(s)
    /\ Neighbours(s, D)
    /\ DeviceFiles(s, es, D)
FsInv(fs, es) ==
    /\ IsFs(fs)
    /\ fs.driver = "devfs" => IsNodes(fs.nodes) /\ Answers(fs.nodes, fs.devices, es)
FsList(s, es) == IsList(s) /\ \A i \in 1 .. Len(s) : FsInv(s[i], es)
FilesInv == EntriesAreNames /\ FsList(mounts, entries)

LEMMA ListIsSeq ==
    ASSUME NEW s, IsList(s)
    PROVE  s \in Seq({s[i] : i \in DOMAIN s}) /\ DOMAIN s = 1 .. Len(s) /\ Len(s) \in Nat
<1>1. PICK k \in Nat : s = [i \in 1 .. k |-> s[i]]
  BY DEF IsList
<1>2. DOMAIN s = 1 .. k
  BY <1>1
<1>3. s \in [1 .. k -> {s[i] : i \in DOMAIN s}]
  BY <1>1, <1>2
<1>4. s \in Seq({s[i] : i \in DOMAIN s})
  <2>1. PICK D : D = {s[i] : i \in DOMAIN s}
    OBVIOUS
  <2>2. s \in [1 .. k -> D]
    BY ONLY <1>3, <2>1
  <2>3. s \in Seq(D)
    BY ONLY <2>2, k \in Nat
  <2> QED BY ONLY <2>1, <2>3
<1> QED BY <1>2, <1>4

LEMMA SeqIsList ==
    ASSUME NEW S, NEW s \in Seq(S)
    PROVE  IsList(s)
<1>1. s = [i \in 1 .. Len(s) |-> s[i]]
  BY AsFunction
<1>2. Len(s) \in Nat
  OBVIOUS
<1> QED BY <1>1, <1>2 DEF IsList

LEMMA FsListsJoined ==
    ASSUME NEW es, NEW a, NEW b, FsList(a, es), FsList(b, es), NEW c, c = a \o b
    PROVE  FsList(c, es)
<1> DEFINE S == {a[i] : i \in DOMAIN a} \cup {b[i] : i \in DOMAIN b}
<1>1. a \in Seq({a[i] : i \in DOMAIN a}) /\ Len(a) \in Nat
  BY ListIsSeq DEF FsList
<1>2. b \in Seq({b[i] : i \in DOMAIN b}) /\ Len(b) \in Nat
  BY ListIsSeq DEF FsList
<1>3. a \in Seq(S) /\ b \in Seq(S)
  BY <1>1, <1>2
<1> HIDE DEF S
<1>4. JoinedOf(S, a, b, c)
  BY <1>3, Joined
<1>5. c \in Seq(S) /\ Len(c) = Len(a) + Len(b) /\ (\A i \in 1 .. Len(a) : c[i] = a[i])
      /\ \A i \in 1 .. Len(b) : c[i + Len(a)] = b[i]
  BY <1>4 DEF JoinedOf
<1>6. IsList(c)
  BY <1>5, SeqIsList
<1>7. ASSUME NEW i \in 1 .. Len(c) PROVE FsInv(c[i], es)
  <2>1. CASE i \in 1 .. Len(a)
    BY <1>5, <2>1 DEF FsList
  <2>2. CASE i \notin 1 .. Len(a)
    <3>1. i - Len(a) \in 1 .. Len(b) /\ (i - Len(a)) + Len(a) = i
      BY <1>1, <1>2, <1>5, <2>2
    <3>2. c[i] = b[i - Len(a)]
      BY <1>5, <3>1
    <3> QED BY <3>1, <3>2 DEF FsList
  <2> QED BY <2>1, <2>2
<1> QED BY <1>6, <1>7 DEF FsList

\* What a driver's init makes.
LEMMA DevfsAnswers ==
    ASSUME EntriesAreNames, NEW src, NEW dest \in MountPoints
    PROVE  FsInv(DevfsMounted(src, dest), entries)
<1> PICK fs : fs = DevfsMounted(src, dest)
  OBVIOUS
<1>1. DevfsAfter(fs, dest, Len(entries))
  BY DevfsMakesDevices
<1>2. Len(entries) \in Nat
  BY EntriesAreSeq
<1>3. PICK D \in Nat : D = Len(entries)
  BY <1>2
<1>4. /\ IsFs(fs) /\ IsNodes(fs.nodes) /\ Len(fs.nodes) = D + 1 /\ fs.devices = D
      /\ Numbers(fs.nodes, fs.meta, D) /\ DeviceFiles(fs.nodes, entries, D)
  BY ONLY <1>1, <1>3 DEF DevfsAfter
<1>5. Neighbours(fs.nodes, D)
  <2> SUFFICES ASSUME NEW k \in 1 .. D + 1, NEW l \in 1 .. D + 1,
                      fs.nodes[k].n = fs.nodes[l].n, k # l
               PROVE  D >= StartingFiles /\ (k = l + 1 \/ l = k + 1)
    BY DEF Neighbours
  <2>1. fs.nodes[k].n \in Nat /\ fs.nodes[l].n \in Nat
    BY ONLY <1>4, k \in 1 .. D + 1, l \in 1 .. D + 1 DEF Numbers
  <2>2. (k + 1 < l => fs.nodes[k].n < fs.nodes[l].n) /\ (l + 1 < k => fs.nodes[l].n < fs.nodes[k].n)
    BY ONLY <1>4, k \in 1 .. D + 1, l \in 1 .. D + 1 DEF Numbers
  <2>3. ~(k + 1 < l) /\ ~(l + 1 < k)
    BY ONLY <2>1, <2>2, fs.nodes[k].n = fs.nodes[l].n
  <2>4. k = l + 1 \/ l = k + 1
    BY ONLY <2>3, k # l, k \in 1 .. D + 1, l \in 1 .. D + 1, D \in Nat
  <2>5. ~(D + 1 <= StartingFiles)
    <3>1. D + 1 <= StartingFiles => fs.nodes[k].n = k /\ fs.nodes[l].n = l
      BY ONLY <1>4, k \in 1 .. D + 1, l \in 1 .. D + 1 DEF Numbers
    <3> QED BY ONLY <3>1, fs.nodes[k].n = fs.nodes[l].n, k # l
  <2>6. D >= StartingFiles
    BY ONLY <2>5, D \in Nat, FilesAssumption
  <2> QED BY <2>4, <2>6
<1>6. Answers(fs.nodes, fs.devices, entries)
  <2>1. D <= Len(entries) /\ D + 1 <= Len(fs.nodes)
    BY ONLY <1>3, <1>4, D \in Nat
  <2> QED BY ONLY <1>4, <1>5, <2>1, D \in Nat DEF Answers
<1> QED BY <1>4, <1>6 DEF FsInv

LEMMA MountedFs ==
    ASSUME EntriesAreNames, NEW src, NEW dest \in MountPoints, NEW d \in Drivers
    PROVE  FsInv(Mounted(d, src, dest), entries)
<1>1. CASE d = "devfs"
  <2>1. Mounted(d, src, dest) = DevfsMounted(src, dest)
    BY <1>1 DEF Mounted
  <2> QED BY <2>1, DevfsAnswers
<1>2. CASE d = "ramfs"
  <2> PICK fs : fs = RamfsMounted(src, dest, "ramfs")
    OBVIOUS
  <2>1. Mounted(d, src, dest) = fs
    BY <1>2 DEF Mounted
  <2>2. fs = [src |-> src, dest |-> dest, driver |-> "ramfs", nodes |-> <<RootNode("ramfs")>>,
              meta |-> RamfsInit(StartingFiles), devices |-> 0]
    BY DEF RamfsMounted, NewFs
  <2>3. IsFs(fs) /\ fs.driver = "ramfs"
    BY <2>2 DEF IsFs
  <2> QED BY <2>1, <2>3 DEF FsInv
<1>3. CASE d = "fatfs"
  <2> PICK fs : fs = FatMounted(src, dest)
    OBVIOUS
  <2>1. Mounted(d, src, dest) = fs
    BY <1>3 DEF Mounted
  <2> PICK ns : ns = <<RootNode("fatfs")>>
            \o SetToSeq({[path |-> f, n |-> 0, dir |-> FALSE, ops |-> <<"fatfs", 0>>]
                            : f \in VolumeFiles})
    OBVIOUS
  <2>2. fs = [src |-> src, dest |-> dest, driver |-> "fatfs", nodes |-> ns,
              meta |-> RamfsInit(StartingFiles), devices |-> 0]
    BY DEF FatMounted, NewFs
  <2>3. IsFs(fs) /\ fs.driver = "fatfs"
    BY <2>2 DEF IsFs
  <2> QED BY <2>1, <2>3 DEF FsInv
<1> QED BY <1>1, <1>2, <1>3 DEF Drivers

LEMMA MountResultFs ==
    ASSUME EntriesAreNames, NEW src, NEW dest \in MountPoints, NEW type
    PROVE  FsList(MountResult(src, dest, type), entries)
<1> PICK r : r = MountResult(src, dest, type)
  OBVIOUS
<1>1. CASE ~\E d \in DriverFor(type) : InitSucceeds(d, src)
  <2>1. r = <<>>
    BY <1>1 DEF MountResult
  <2>2. r \in Seq(Nat) /\ Len(r) = 0
    BY <2>1
  <2>3. IsList(r)
    BY ONLY <2>2, SeqIsList
  <2> QED BY <2>2, <2>3 DEF FsList
<1>2. CASE \E d \in DriverFor(type) : InitSucceeds(d, src)
  <2> DEFINE d == CHOOSE d \in DriverFor(type) : TRUE
  <2>1. r = <<Mounted(d, src, dest)>>
    BY <1>2 DEF MountResult
  <2>2. d \in Drivers
    BY <1>2 DEF DriverFor
  <2> HIDE DEF d
  <2>3. PICK fs : fs = Mounted(d, src, dest)
    OBVIOUS
  <2>4. FsInv(fs, entries)
    BY <2>2, <2>3, MountedFs
  <2>5. r \in Seq({fs}) /\ Len(r) = 1 /\ r[1] = fs
    BY ONLY <2>1, <2>3
  <2>6. IsList(r)
    BY ONLY <2>5, SeqIsList
  <2>7. \A i \in 1 .. Len(r) : i = 1
    BY ONLY <2>5
  <2>8. FsList(r, entries)
    BY ONLY <2>4, <2>5, <2>6, <2>7 DEF FsList
  <2> QED BY ONLY <2>8, r = MountResult(src, dest, type)
<1> QED BY <1>1, <1>2


\* A new file on a mounted filesystem.
LEMMA MkfileKeepsFs ==
    ASSUME NEW es, NEW fs, FsInv(fs, es), NEW p, NEW made, made = MkfileIn(fs, p)
    PROVE  FsInv(made, es)
<1>1. IsFs(fs)
  BY DEF FsInv
<1>2. CASE fs.driver # "devfs"
  <2>1. \E meta, nodes : made = [fs EXCEPT !.meta = meta, !.nodes = nodes]
    BY DEF MkfileIn, RamMkfile
  <2>2. PICK meta, nodes : made = [fs EXCEPT !.meta = meta, !.nodes = nodes]
    BY <2>1
  <2>3. made = [src |-> fs.src, dest |-> fs.dest, driver |-> fs.driver, nodes |-> nodes,
                meta |-> meta, devices |-> fs.devices]
    BY ONLY <1>1, <2>2 DEF IsFs
  <2>4. IsFs(made) /\ made.driver = fs.driver
    BY ONLY <2>3 DEF IsFs
  <2> QED BY ONLY <1>2, <2>4 DEF FsInv
<1>3. CASE fs.driver = "devfs"
  <2>1. IsNodes(fs.nodes) /\ Answers(fs.nodes, fs.devices, es)
    BY <1>3 DEF FsInv
  <2>2. MadeIn(fs, p, made)
    BY <1>1, <2>1, MkfileGrows
  <2>3. PICK v : Grown(fs.nodes, v, made.nodes)
    BY ONLY <2>2 DEF MadeIn
  <2>4. IsFs(made) /\ made.driver = "devfs" /\ made.devices = fs.devices
    BY ONLY <1>3, <2>2 DEF MadeIn
  <2>5. /\ IsNodes(made.nodes) /\ Len(made.nodes) = Len(fs.nodes) + 1
        /\ \A i \in 1 .. Len(fs.nodes) : made.nodes[i] = fs.nodes[i]
    BY ONLY <2>3 DEF Grown
  <2>6. Len(fs.nodes) \in Nat
    BY ONLY <2>1, NodesAreSeq
  <2>7. PICK D \in Nat : /\ D = fs.devices /\ D <= Len(es) /\ D + 1 <= Len(fs.nodes)
                        /\ Neighbours(fs.nodes, D) /\ DeviceFiles(fs.nodes, es, D)
    BY ONLY <2>1 DEF Answers
  <2>8. \A k \in 1 .. D + 1 : made.nodes[k] = fs.nodes[k]
    <3>1. \A k \in 1 .. D + 1 : k \in 1 .. Len(fs.nodes)
      BY ONLY <2>6, <2>7, D \in Nat
    <3> QED BY ONLY <2>5, <3>1
  <2>9. Neighbours(made.nodes, D)
    BY ONLY <2>7, <2>8 DEF Neighbours
  <2>10. DeviceFiles(made.nodes, es, D)
    <3>1. \A k \in 1 .. D : k + 1 \in 1 .. D + 1
      BY ONLY D \in Nat
    <3>2. \A k \in 1 .. D : made.nodes[k + 1] = fs.nodes[k + 1]
                            /\ (OwnNumber(made.nodes, D, k) => OwnNumber(fs.nodes, D, k))
      BY ONLY <2>8, <3>1 DEF OwnNumber
    <3> QED BY ONLY <2>7, <3>2 DEF DeviceFiles
  <2>11. D + 1 <= Len(made.nodes)
    BY ONLY <2>5, <2>6, <2>7, D \in Nat
  <2>12. Answers(made.nodes, made.devices, es)
    BY ONLY <2>4, <2>7, <2>9, <2>10, <2>11, D \in Nat DEF Answers
  <2> QED BY ONLY <2>4, <2>5, <2>12 DEF FsInv
<1> QED BY <1>2, <1>3

\* Another entry leaves what the mounted ones answer.
LEMMA EntriesGrow ==
    ASSUME EntriesAreNames, NEW name \in DevNames, NEW es, es = Append(entries, <<"/">> \o name)
    PROVE  /\ \E n \in Nat : es = [i \in 1 .. n |-> es[i]]
           /\ \A i \in DOMAIN es : \E nm \in DevNames : es[i] = <<"/">> \o nm
           /\ Len(es) = Len(entries) + 1
           /\ \A i \in 1 .. Len(entries) : es[i] = entries[i]
<1> PICK e : e = <<"/">> \o name
  OBVIOUS
<1> DEFINE S == {entries[i] : i \in DOMAIN entries} \cup {e}
<1>1. entries \in Seq({entries[i] : i \in DOMAIN entries}) /\ DOMAIN entries = 1 .. Len(entries)
      /\ Len(entries) \in Nat
  BY EntriesAreSeq
<1>2. entries \in Seq(S) /\ e \in S
  BY <1>1
<1> HIDE DEF S
<1>3. es \in Seq(S) /\ Len(es) = Len(entries) + 1 /\ es[Len(entries) + 1] = e
      /\ \A i \in 1 .. Len(entries) : es[i] = entries[i]
  BY <1>1, <1>2
<1>4. es = [i \in 1 .. Len(es) |-> es[i]] /\ Len(es) \in Nat
  <2>1. Len(es) \in Nat
    BY ONLY <1>1, <1>3
  <2> QED BY ONLY <1>3, <2>1, AsFunction
<1>5. DOMAIN es = 1 .. Len(entries) + 1
  BY ONLY <1>3, <1>4
<1>6. ASSUME NEW i \in DOMAIN es PROVE \E nm \in DevNames : es[i] = <<"/">> \o nm
  <2>1. CASE i = Len(entries) + 1
    BY <1>3, <2>1
  <2>2. CASE i # Len(entries) + 1
    <3>1. i \in 1 .. Len(entries)
      BY ONLY <1>1, <1>5, <2>2, i \in DOMAIN es
    <3> QED BY <1>1, <1>3, <3>1 DEF EntriesAreNames
  <2> QED BY <2>1, <2>2
<1> QED BY <1>3, <1>4, <1>6

LEMMA FsListEntriesGrow ==
    ASSUME NEW s, NEW es, NEW fs, FsList(s, es), Len(es) \in Nat, Len(fs) \in Nat,
           Len(fs) >= Len(es), \A i \in 1 .. Len(es) : fs[i] = es[i]
    PROVE  FsList(s, fs)
<1>1. ASSUME NEW nodes, NEW D, Answers(nodes, D, es) PROVE Answers(nodes, D, fs)
  <2>1. D \in Nat /\ D <= Len(es) /\ D + 1 <= Len(nodes) /\ Neighbours(nodes, D)
        /\ DeviceFiles(nodes, es, D)
    BY ONLY <1>1 DEF Answers
  <2>2. D <= Len(fs) /\ \A i \in 1 .. D : i \in 1 .. Len(es)
    BY <2>1
  <2>3. DeviceFiles(nodes, fs, D)
    BY <2>1, <2>2 DEF DeviceFiles
  <2> QED BY ONLY <2>1, <2>2, <2>3 DEF Answers
<1> QED BY <1>1 DEF FsList, FsInv

\* A filesystem less.
LEMMA FsRemoved ==
    ASSUME NEW es, NEW s, FsList(s, es), NEW k \in 1 .. Len(s), NEW r, r = RemoveAt(s, k)
    PROVE  FsList(r, es)
<1> DEFINE S == {s[i] : i \in DOMAIN s}
           a == SubSeq(s, 1, k - 1)
           b == SubSeq(s, k + 1, Len(s))
<1>1. s \in Seq(S) /\ Len(s) \in Nat
  BY ListIsSeq DEF FsList
<1>2. a = [i \in 1 .. k - 1 |-> s[i]]
  BY <1>1
<1>3. b = [i \in 1 .. Len(s) - k |-> s[i + k]]
  BY <1>1
<1>4. r = a \o b
  BY DEF RemoveAt
<1> HIDE DEF a, b, S
<1>5. FsList(a, es)
  <2>1. k - 1 \in Nat /\ Len(a) = k - 1
    BY <1>1, <1>2
  <2>2. \A i \in 1 .. k - 1 : i \in 1 .. Len(s) /\ a[i] = s[i]
    BY <1>1, <1>2
  <2>3. a = [i \in 1 .. k - 1 |-> a[i]]
    BY ONLY <1>2
  <2> QED BY <2>1, <2>2, <2>3 DEF FsList, IsList
<1>6. FsList(b, es)
  <2>1. Len(s) - k \in Nat /\ Len(b) = Len(s) - k
    BY <1>1, <1>3
  <2>2. \A i \in 1 .. Len(s) - k : i + k \in 1 .. Len(s) /\ b[i] = s[i + k]
    BY <1>1, <1>3
  <2>3. b = [i \in 1 .. Len(s) - k |-> b[i]]
    BY ONLY <1>3
  <2> QED BY <2>1, <2>2, <2>3 DEF FsList, IsList
<1> QED BY <1>4, <1>5, <1>6, FsListsJoined

\* A filesystem replaced by another.
LEMMA FsReplaced ==
    ASSUME NEW es, NEW s, FsList(s, es), NEW m, NEW fs, m \in 1 .. Len(s) => FsInv(fs, es),
           NEW r, r = [s EXCEPT ![m] = fs]
    PROVE  FsList(r, es)
<1>1. PICK k \in Nat : s = [i \in 1 .. k |-> s[i]]
  BY DEF FsList, IsList
<1>2. DOMAIN s = 1 .. Len(s) /\ Len(s) \in Nat
  BY ListIsSeq DEF FsList
<1>3. Len(s) = k
  <2>1. DOMAIN s = 1 .. k
    BY ONLY <1>1
  <2>2. (k > 0 => k \in 1 .. Len(s)) /\ (Len(s) > 0 => Len(s) \in 1 .. k)
    BY ONLY <1>2, <2>1, k \in Nat
  <2>3. PICK l \in Nat : l = Len(s)
    BY ONLY <1>2
  <2>4. l = k
    BY ONLY <2>2, <2>3, k \in Nat
  <2> QED BY ONLY <2>3, <2>4
<1>4. r = [i \in 1 .. k |-> IF i = m THEN fs ELSE s[i]]
  BY <1>1
<1>5. r = [i \in 1 .. k |-> r[i]] /\ \A i \in 1 .. k : r[i] = IF i = m THEN fs ELSE s[i]
  BY ONLY <1>4
<1>6. IsList(r)
  BY ONLY <1>5, k \in Nat DEF IsList
<1>7. Len(r) = k
  <2>1. DOMAIN r = 1 .. k
    BY ONLY <1>4
  <2>2. DOMAIN r = 1 .. Len(r) /\ Len(r) \in Nat
    BY ONLY <1>6, ListIsSeq
  <2> QED BY ONLY <2>1, <2>2, k \in Nat
<1>8. ASSUME NEW i \in 1 .. k PROVE FsInv(r[i], es)
  <2>1. FsInv(s[i], es)
    BY <1>3 DEF FsList
  <2>2. CASE i = m
    BY <1>3, <1>5, <2>2
  <2>3. CASE i # m
    BY ONLY <1>5, <2>1, <2>3, i \in 1 .. k
  <2> QED BY <2>2, <2>3
<1> QED BY ONLY <1>6, <1>7, <1>8 DEF FsList


-----------------------------------------------------------------------------
LEMMA FilesStarts == FilesInit => FilesInv
<1> SUFFICES ASSUME FilesInit PROVE FilesInv
  OBVIOUS
<1>1. entries = <<>> /\ mounts = <<>>
  BY DEF FilesInit
<1>2. ASSUME NEW s, s = <<>> PROVE s = [i \in 1 .. 0 |-> s[i]] /\ DOMAIN s = {} /\ Len(s) = 0
  BY <1>2
<1>3. IsList(mounts) /\ Len(mounts) = 0
  BY <1>1, <1>2 DEF IsList
<1>4. EntriesAreNames
  <2>1. 0 \in Nat
    OBVIOUS
  <2> QED BY ONLY <1>1, <1>2, <2>1 DEF EntriesAreNames
<1> QED BY <1>3, <1>4 DEF FilesInv, FsList

LEMMA FilesStep == FilesInv /\ [FilesNext]_filesVars => FilesInv'
<1> SUFFICES ASSUME FilesInv, [FilesNext]_filesVars PROVE FilesInv'
  OBVIOUS
<1>1. EntriesAreNames /\ FsList(mounts, entries)
  BY DEF FilesInv
<1>2. ASSUME UNCHANGED entries, FsList(mounts', entries) PROVE FilesInv'
  <2>1. EntriesAreNames'
    BY <1>1, <1>2 DEF EntriesAreNames
  <2>2. FsList(mounts', entries')
    BY <1>2
  <2> QED BY <2>1, <2>2 DEF FilesInv
<1>3. ASSUME NEW d, RegisterDriver(d) \/ UnregisterDriver(d) PROVE FilesInv'
  BY <1>1, <1>2, <1>3 DEF RegisterDriver, UnregisterDriver
<1>4. ASSUME NEW name \in DevNames, DevfsRegister(name) PROVE FilesInv'
  <2>1. entries' = Append(entries, <<"/">> \o name) /\ mounts' = mounts
    BY <1>4 DEF DevfsRegister
  <2>0. PICK es : es = entries'
    OBVIOUS
  <2>2. /\ \E n \in Nat : es = [i \in 1 .. n |-> es[i]]
        /\ \A i \in DOMAIN es : \E nm \in DevNames : es[i] = <<"/">> \o nm
        /\ Len(es) = Len(entries) + 1
        /\ \A i \in 1 .. Len(entries) : es[i] = entries[i]
    <3>1. es = Append(entries, <<"/">> \o name)
      BY ONLY <2>0, <2>1
    <3> QED BY ONLY <1>1, <3>1, name \in DevNames, EntriesGrow
  <2>3. EntriesAreNames'
    BY <2>0, <2>2 DEF EntriesAreNames
  <2>4. Len(entries) \in Nat
    BY <1>1, EntriesAreSeq
  <2>5. Len(es) \in Nat /\ Len(es) >= Len(entries)
    BY ONLY <2>2, <2>4
  <2>6. FsList(mounts, es)
    BY ONLY <1>1, <2>2, <2>4, <2>5, FsListEntriesGrow
  <2> QED BY <2>0, <2>1, <2>3, <2>6 DEF FilesInv
<1>5. ASSUME VfsInit PROVE FilesInv'
  <2>1. UNCHANGED entries
        /\ mounts' = MountResult(<<"hdap0">>, <<"/">>, "any")
                        \o MountResult(<<"devfs">>, DevMount, "devfs")
    BY <1>5 DEF VfsInit
  <2>2. FsList(MountResult(<<"hdap0">>, <<"/">>, "any"), entries)
    BY <1>1, FilesAssumption, MountResultFs
  <2>3. FsList(MountResult(<<"devfs">>, DevMount, "devfs"), entries)
    BY <1>1, FilesAssumption, MountResultFs
  <2>4. FsList(mounts', entries)
    BY <2>1, <2>2, <2>3, FsListsJoined
  <2> QED BY <1>2, <2>1, <2>4
<1>6. ASSUME NEW src \in Sources, NEW dest \in MountPoints, NEW type, Mount(src, dest, type)
      PROVE  FilesInv'
  <2>1. /\ UNCHANGED entries
        /\ mounts' = mounts \/ mounts' = mounts \o MountResult(src, dest, type)
    BY <1>6 DEF Mount
  <2>2. FsList(MountResult(src, dest, type), entries)
    BY <1>1, MountResultFs
  <2>3. FsList(mounts', entries)
    BY <1>1, <2>1, <2>2, FsListsJoined
  <2> QED BY <1>2, <2>1, <2>3
<1>7. ASSUME NEW x, Unmount(x) PROVE FilesInv'
  <2> PICK i : i = FindBySrcOrDest(x)
    OBVIOUS
  <2>1. UNCHANGED entries /\ i # 0 /\ (mounts' = mounts \/ mounts' = RemoveAt(mounts, i))
    BY <1>7 DEF Unmount
  <2>2. i \in 1 .. Len(mounts)
    <3> DEFINE I == {j \in 1 .. Len(mounts) : x \in {mounts[j].src, mounts[j].dest}}
    <3>1. i = IF I # {} THEN Min(I) ELSE 0
      BY DEF FindBySrcOrDest, SelectInSeq
    <3>2. Len(mounts) \in Nat
      BY <1>1, ListIsSeq DEF FsList
    <3>3. I \in SUBSET Nat /\ I \subseteq 1 .. Len(mounts)
      BY <3>2
    <3> HIDE DEF I
    <3>4. I # {}
      BY <2>1, <3>1
    <3>5. \E k \in I : \A j \in I : k <= j
      BY <3>3, <3>4, LeastNatural
    <3>6. Min(I) \in I
      BY <3>5 DEF Min
    <3> QED BY <3>1, <3>3, <3>4, <3>6
  <2>3. FsList(mounts', entries)
    BY <1>1, <2>1, <2>2, FsRemoved
  <2> QED BY <1>2, <2>1, <2>3
<1>8. ASSUME NEW p, OpenNew(p) PROVE FilesInv'
  <2> PICK m : m = Topmost(p)
    OBVIOUS
  <2> PICK made : made = MkfileIn(mounts[m], p)
    OBVIOUS
  <2>1. UNCHANGED entries /\ (mounts' = mounts \/ mounts' = [mounts EXCEPT ![m] = made])
    BY <1>8 DEF OpenNew
  <2>2. m \in 1 .. Len(mounts) => FsInv(made, entries)
    BY <1>1, MkfileKeepsFs DEF FsList
  <2>3. FsList(mounts', entries)
    BY <1>1, <2>1, <2>2, FsReplaced
  <2> QED BY <1>2, <2>1, <2>3
<1>9. CASE UNCHANGED filesVars
  BY <1>1, <1>2, <1>9 DEF filesVars
<1> QED BY <1>3, <1>4, <1>5, <1>6, <1>7, <1>8, <1>9 DEF FilesNext

\* Every entry registered when devfs was mounted has its file, which answers with
\* its own device's operations unless its number is also a neighbour's
\* (devfs_init, ramfs_mkfile, fs_ino_to_vnode); numbers are shared only if the
\* slots ramfs_init makes did not suffice.  That holds for any number of entries
\* and of slots, and whatever is registered, mounted and created afterwards.
THEOREM DevicesAlwaysAnswer == FilesSpec => []DevicesAnswer
<1>1. FilesInv => DevicesAnswer
  <2> SUFFICES ASSUME FilesInv, NEW m \in 1 .. Len(mounts), mounts[m].driver = "devfs",
                      NEW i \in 1 .. mounts[m].devices
               PROVE  LET S == {j \in 0 .. mounts[m].devices :
                                    mounts[m].nodes[j + 1].n = mounts[m].nodes[i + 1].n}
                      IN  /\ mounts[m].nodes[i + 1].path = entries[i] /\ ~mounts[m].nodes[i + 1].dir
                          /\ S = {i} => mounts[m].nodes[i + 1].ops = <<"device", i>>
                          /\ mounts[m].devices < StartingFiles => S = {i}
                          /\ S \subseteq {i - 1, i, i + 1}
    BY DEF DevicesAnswer
  <2> PICK D : D = mounts[m].devices
    OBVIOUS
  <2> PICK s : s = mounts[m].nodes
    OBVIOUS
  <2> PICK S : S = {j \in 0 .. D : s[j + 1].n = s[i + 1].n}
    OBVIOUS
  <2> SUFFICES /\ s[i + 1].path = entries[i] /\ ~s[i + 1].dir
               /\ S = {i} => s[i + 1].ops = <<"device", i>>
               /\ D < StartingFiles => S = {i}
               /\ S \subseteq {i - 1, i, i + 1}
    OBVIOUS
  <2>1. FsInv(mounts[m], entries)
    BY DEF FilesInv, FsList
  <2>2. D \in Nat /\ Neighbours(s, D) /\ DeviceFiles(s, entries, D)
    BY <2>1 DEF FsInv, Answers
  <2>3. s[i + 1].path = entries[i] /\ s[i + 1].dir = FALSE
        /\ (OwnNumber(s, D, i) => s[i + 1].ops = <<"device", i>>)
    BY ONLY <2>2, i \in 1 .. D DEF DeviceFiles
  <2>4. ASSUME NEW j \in S
        PROVE  j = i \/ (D >= StartingFiles /\ (j = i - 1 \/ j = i + 1))
    <3>1. j \in 0 .. D /\ s[j + 1].n = s[i + 1].n
      OBVIOUS
    <3>2. j + 1 \in 1 .. D + 1 /\ i + 1 \in 1 .. D + 1
      BY ONLY <2>2, <3>1, i \in 1 .. D
    <3>3. j + 1 = i + 1 \/ (D >= StartingFiles /\ (j + 1 = (i + 1) + 1 \/ i + 1 = (j + 1) + 1))
      BY ONLY <2>2, <3>1, <3>2 DEF Neighbours
    <3> QED BY ONLY <2>2, <3>1, <3>3, i \in 1 .. D
  <2>5. i \in S
    BY <2>2
  <2>6. S \subseteq {i - 1, i, i + 1}
    BY ONLY <2>4
  <2>7. D < StartingFiles => S = {i}
    <3>1. D < StartingFiles => ~(D >= StartingFiles)
      BY ONLY <2>2, FilesAssumption
    <3> QED BY ONLY <2>4, <2>5, <3>1
  <2>8. ASSUME S = {i} PROVE OwnNumber(s, D, i)
    <3> SUFFICES ASSUME NEW j \in 1 .. D + 1, s[j].n = s[i + 1].n PROVE j = i + 1
      BY DEF OwnNumber
    <3>1. j - 1 \in 0 .. D /\ (j - 1) + 1 = j
      BY ONLY <2>2, j \in 1 .. D + 1
    <3>2. j - 1 \in S
      BY <3>1
    <3>3. j - 1 = i
      BY ONLY <2>8, <3>2
    <3> QED BY ONLY <2>2, <3>3, j \in 1 .. D + 1, i \in 1 .. D
  <2> QED BY ONLY <2>3, <2>6, <2>7, <2>8
<1> QED BY <1>1, FilesStarts, FilesStep, PTL DEF FilesSpec
=============================================================================

-------------------------------- MODULE Vfs ---------------------------------
(***************************************************************************)
(* Files, descriptors and processes: the virtual file system               *)
(* (kernel/fs/vfs.c), its system-wide descriptor table (vfs_fdt.c), the    *)
(* reference counts of vnodes (vnode.c), the descriptor numbers of a       *)
(* process (kernel/proc/proc.c) and the slots of a ram filesystem (Ramfs). *)
(*                                                                         *)
(* One filesystem is mounted.  A vnode is named by its path; a descriptor  *)
(* points to the vnode that has its path or, once that vnode is freed, to  *)
(* freed memory.  The kernel is not preempted: a call is one step.         *)
(***************************************************************************)
EXTENDS Ramfs

CONSTANTS
    Pids,           \* pids, used again by later processes
    Files,          \* paths of regular files
    FdStep,         \* the STEP of proc_enlarge_fds (4)
    MaxFds,         \* bound on the descriptor numbers of a process
    MaxFiles,       \* bound on the capacity of the ram filesystem
    MaxRefs,        \* bound on the reference count of a vnode
    NoFile,         \* no such entry in the descriptor table
    Freed           \* a pointer to a vnode that has been freed

ASSUME VfsAssumption ==
    /\ IsFiniteSet(Pids)
    /\ FdStep \in Nat \ {0}
    /\ StartingFiles \in Nat \ {0}
    /\ MaxFds \in Nat
    /\ MaxFiles \in Nat
    /\ MaxRefs \in Nat
    /\ NoFile \notin Files
    /\ Freed \notin Files \cup {NoFile}

VARIABLES
    vnode,      \* the vnode of a path: present, n, ref_count, VNODE_PENDING_RM
    files,      \* RamFsMetadata of the filesystem
    alive,      \* the pids that have a process
    fds,        \* by pid, the numbers whose entry in Process.fds is true
    fdCount,    \* by pid, Process.fd_count
    fdIdx,      \* by pid, Process.fd_last_free_idx
    sysfd,      \* g_sys_fd_hashtable: the vnode of <<fd, pid>>
    orphan      \* the entries whose opener has been freed

vars == <<vnode, files, alive, fds, fdCount, fdIdx, sysfd, orphan>>

Keys == (0 .. MaxFds - 1) \X Pids

Absent == [present |-> FALSE, n |-> 0, ref |-> 0, pending |-> FALSE]

\* The keys of the descriptors that point to the vnode of f.
Open(f) == {key \in Keys : sysfd[key] = f}

-----------------------------------------------------------------------------
\* A mounted, empty filesystem and no process.
Init ==
    /\ vnode = [f \in Files |-> Absent]
    /\ files = RamfsInit(StartingFiles)
    /\ alive = {}
    /\ fds = [p \in Pids |-> {}]
    /\ fdCount = [p \in Pids |-> 0]
    /\ fdIdx = [p \in Pids |-> 0]
    /\ sysfd = [key \in Keys |-> NoFile]
    /\ orphan = {}

\* Wrong variant: a number in use is not passed over.
IsNewFd_NotSkipped(p, k) == k = fdIdx[p] % fdCount[p]

\* proc_new_fd: the first number from fd_last_free_idx on that is not in use,
\* or the one where the search leaves the array.
IsNewFd(p, k) ==
    /\ k >= fdIdx[p]
    /\ k \notin fds[p]
    /\ k <= fdCount[p]
    /\ \A j \in 0 .. MaxFds : fdIdx[p] <= j /\ j < k => j \in fds[p]

\* What proc_new_fd leaves when it succeeds, apart from the mark.
FdTaken(p, k) ==
    /\ fdCount' = [fdCount EXCEPT
                    ![p] = IF k = @ THEN @ + FdStep ELSE @]
    /\ fdIdx' = [fdIdx EXCEPT ![p] = k + 1]

\* vfs_open up to the answer of proc_new_fd, for a file that exists.
OpenFinds(p, f, k) ==
    /\ p \in alive
    /\ vnode[f].present
    /\ k \in 0 .. MaxFds - 1
    /\ IsNewFd(p, k)

\* vfs_open succeeds.  An entry that is already under this key is replaced.
OpenFile(p, f, k) ==
    /\ OpenFinds(p, f, k)
    /\ vnode[f].ref < MaxRefs
    /\ FdTaken(p, k)
    /\ fds' = [fds EXCEPT ![p] = @ \cup {k}]
    /\ sysfd' = [sysfd EXCEPT ![<<k, p>>] = f]
    /\ orphan' = orphan \ {<<k, p>>}
    /\ vnode' = [vnode EXCEPT ![f].ref = @ + 1]
    /\ UNCHANGED <<files, alive>>

\* proc_enlarge_fds runs out of memory: the search has moved the index.
OpenNoFd(p, f, k) ==
    /\ OpenFinds(p, f, k)
    /\ k = fdCount[p]
    /\ fdIdx' = [fdIdx EXCEPT ![p] = k]
    /\ UNCHANGED <<vnode, files, alive, fds, fdCount, sysfd, orphan>>

\* vfs_fdt_new_sysfd runs out of memory: the number is given back, the index
\* stays past it.
OpenNoSysfd(p, f, k) ==
    /\ OpenFinds(p, f, k)
    /\ FdTaken(p, k)
    /\ UNCHANGED <<vnode, files, alive, fds, sysfd, orphan>>

\* Wrong variant: the entry made for the descriptor stays in the table.
OpenRefused_KeepsSysfd(p, f, k) ==
    /\ OpenFinds(p, f, k)
    /\ FdTaken(p, k)
    /\ sysfd' = [sysfd EXCEPT ![<<k, p>>] = f]
    /\ orphan' = orphan \ {<<k, p>>}
    /\ UNCHANGED <<vnode, files, alive, fds>>

\* The open operation of the vnode fails: number and entry are given back,
\* the entry that was under the key before with them.
OpenRefused(p, f, k) ==
    /\ OpenFinds(p, f, k)
    /\ FdTaken(p, k)
    /\ sysfd' = [sysfd EXCEPT ![<<k, p>>] = NoFile]
    /\ orphan' = orphan \ {<<k, p>>}
    /\ UNCHANGED <<vnode, files, alive, fds>>

\* vfs_open with O_CREAT of a file that does not exist: the file is made, and
\* the answer is -ENOENT all the same.
OpenCreate(p, f) ==
    LET made == MkNode(files) IN
    /\ p \in alive
    /\ ~vnode[f].present
    /\ made.meta.cap <= MaxFiles
    /\ files' = made.meta
    /\ vnode' = [vnode EXCEPT
                  ![f] = [Absent EXCEPT !.present = TRUE, !.n = made.ino]]
    /\ UNCHANGED <<alive, fds, fdCount, fdIdx, sysfd, orphan>>

\* The same when ramfs_enlarge_files runs out of memory.
OpenCreateFails(p, f) ==
    /\ p \in alive
    /\ ~vnode[f].present
    /\ Unused(files) = {}
    /\ files' = MkNodeFails(files)
    /\ UNCHANGED <<vnode, alive, fds, fdCount, fdIdx, sysfd, orphan>>

\* rmnode of the driver: slot and vnode of f are freed.  Descriptors that
\* still pointed to the vnode point to freed memory, except the one in gone.
RmVnode(f, gone) ==
    /\ files' = RmNode(files, vnode[f].n)
    /\ vnode' = [vnode EXCEPT ![f] = Absent]
    /\ sysfd' = [key \in Keys |->
                    IF key \in gone THEN NoFile
                    ELSE IF sysfd[key] = f THEN Freed ELSE sysfd[key]]

\* Wrong variant: a pending file is removed by the first close.
LastRef_AnyClose(f) == vnode[f].pending

\* The condition of vnode_decrease_refcount for the removal of the vnode.
LastRef(f) == vnode[f].ref = 1 /\ vnode[f].pending

\* vfs_close.
Close(p, k) ==
    LET key == <<k, p>>
        f   == sysfd[key]
    IN
    /\ p \in alive
    /\ f \in Files
    /\ IF LastRef(f)
       THEN RmVnode(f, {key})
       ELSE /\ vnode' = [vnode EXCEPT ![f].ref = @ - 1]
            /\ sysfd' = [sysfd EXCEPT ![key] = NoFile]
            /\ UNCHANGED files
    /\ fds' = [fds EXCEPT ![p] = @ \ {k}]
    /\ orphan' = orphan \ {key}
    /\ UNCHANGED <<alive, fdCount, fdIdx>>

\* vfs_rmfile of a regular file.
Rmfile(f) ==
    /\ vnode[f].present
    /\ IF vnode[f].ref = 0
       THEN RmVnode(f, {})
       ELSE /\ vnode' = [vnode EXCEPT ![f].pending = TRUE]
            /\ UNCHANGED <<files, sysfd>>
    /\ UNCHANGED <<alive, fds, fdCount, fdIdx, orphan>>

\* proc_free of a process that has exited: its descriptor numbers go, its
\* entries in the system-wide table stay.
Exit(p) ==
    /\ p \in alive
    /\ alive' = alive \ {p}
    /\ fds' = [fds EXCEPT ![p] = {}]
    /\ fdCount' = [fdCount EXCEPT ![p] = 0]
    /\ fdIdx' = [fdIdx EXCEPT ![p] = 0]
    /\ orphan' = orphan \cup {key \in Keys : key[2] = p /\ sysfd[key] # NoFile}
    /\ UNCHANGED <<vnode, files, sysfd>>

\* proc_init of a process that is given this pid.
Spawn(p) ==
    /\ p \notin alive
    /\ alive' = alive \cup {p}
    /\ fdCount' = [fdCount EXCEPT ![p] = FdStep]
    /\ UNCHANGED <<vnode, files, fds, fdIdx, sysfd, orphan>>

Next ==
    \/ \E p \in Pids, f \in Files, k \in 0 .. MaxFds - 1 :
        \/ OpenFile(p, f, k)
        \/ OpenNoFd(p, f, k)
        \/ OpenNoSysfd(p, f, k)
        \/ OpenRefused(p, f, k)
    \/ \E p \in Pids, f \in Files : OpenCreate(p, f) \/ OpenCreateFails(p, f)
    \/ \E p \in Pids, k \in 0 .. MaxFds - 1 : Close(p, k)
    \/ \E f \in Files : Rmfile(f)
    \/ \E p \in Pids : Exit(p) \/ Spawn(p)

Spec == Init /\ [][Next]_vars

-----------------------------------------------------------------------------
\* Type correctness.  It includes that the search of proc_new_fd starts inside
\* the array or at its end, which is what keeps the write to fds[...] inside.
TypeOK ==
    /\ vnode \in [Files -> [present : BOOLEAN, n : Nat,
                            ref : Nat, pending : BOOLEAN]]
    /\ files \in Meta
    /\ alive \subseteq Pids
    /\ fds \in [Pids -> SUBSET (0 .. MaxFds - 1)]
    /\ fdCount \in [Pids -> Nat]
    /\ fdIdx \in [Pids -> Nat]
    /\ \A p \in Pids : fdIdx[p] <= fdCount[p]
    /\ sysfd \in [Keys -> Files \cup {NoFile, Freed}]
    /\ orphan \subseteq Keys

\* No use after free: a descriptor never points to a freed vnode, because the
\* reference count of a vnode is at least the number of its descriptors, in
\* spite of refused opens, of entries replaced in the table and of pids that
\* are used again (vfs_open, vfs_close, vnode_decrease_refcount).
NoDangling ==
    /\ \A key \in Keys : sysfd[key] # Freed
    /\ \A f \in Files : Cardinality(Open(f)) <= vnode[f].ref

\* A file pending removal is referenced: neither vfs_rmfile nor vfs_close
\* leaves a removed file behind that nothing will free.
PendingIsReferenced ==
    \A f \in Files : vnode[f].pending => vnode[f].present /\ vnode[f].ref > 0

\* The two halves of a descriptor agree: the numbers a process has in use
\* (Process.fds) are those of the entries it has made in the system-wide
\* table, and all inside its array.
FdsMatchTable ==
    \A p \in alive :
        /\ fds[p] = {k \in 0 .. MaxFds - 1 :
                        sysfd[<<k, p>>] # NoFile /\ <<k, p>> \notin orphan}
        /\ \A k \in fds[p] : k < fdCount[p]

\* The slot of a vnode is inside the array of the ram filesystem, whatever
\* made or removed other files (the unchecked index of ramfs_read).
InoInRange ==
    \A f \in Files : vnode[f].present => vnode[f].n \in 1 .. files.cap

\* Numbers and entries agree for every pid, whether it has a process or not.
FdsAgree ==
    \A p \in Pids, k \in 0 .. MaxFds - 1 :
        k \in fds[p] <=> sysfd[<<k, p>>] # NoFile /\ <<k, p>> \notin orphan

\* A number in use is behind fd_last_free_idx, where proc_new_fd does not come
\* back, and a pid without a process starts afresh.
FdsBehindIndex ==
    /\ \A p \in Pids : \A k \in fds[p] : k < fdIdx[p]
    /\ \A p \in Pids \ alive : fds[p] = {} /\ fdIdx[p] = 0

\* A path without a vnode has no references, and is not pending removal.
AbsentIsUnused == \A f \in Files : ~vnode[f].present => vnode[f] = Absent

\* The inductive invariant: what makes the two halves of a descriptor and the
\* reference counts stay right whatever open, close, remove and exit do.
VfsInv ==
    /\ NoDangling
    /\ PendingIsReferenced
    /\ InoInRange
    /\ FdsAgree
    /\ FdsBehindIndex
    /\ AbsentIsUnused
    /\ files.cap > 0

\* vfs_open never gives out a number the process has open: what a descriptor
\* points to changes only by being closed.
OwnDescriptorKept ==
    [][\A key \in Keys \ orphan :
        sysfd[key] # NoFile => sysfd'[key] \in {sysfd[key], NoFile}]_vars

-----------------------------------------------------------------------------
\* "The PID of the process that opened the file. This combined with 'fd' makes
\* this FileDescriptor unique." (include/dxgmx/fs/fd.h): a descriptor that a
\* process reaches with its pid is one the process has opened.
\* The code does not keep this.
FdBelongsToOpener ==
    \A key \in Keys : key[2] \in alive => key \notin orphan

\* "Arbitrarily unique number for the 'owner' filesystem."
\* (include/dxgmx/fs/vnode.h): no two files of a ram filesystem share a slot.
\* The code does not keep this.
InoUnique ==
    \A f, g \in Files :
        vnode[f].present /\ vnode[g].present /\ f # g => vnode[f].n # vnode[g].n
=============================================================================

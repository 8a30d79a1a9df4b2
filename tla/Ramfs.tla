------------------------------- MODULE Ramfs --------------------------------
(***************************************************************************)
(* The slots of a ram filesystem (drivers/fs/ramfs/ramfs.c), which devfs   *)
(* shares.  An inode number is a slot's index in files plus one.           *)
(***************************************************************************)
EXTENDS Integers, FiniteSets

CONSTANT StartingFiles  \* STARTING_FILES_COUNT of ramfs_init (8)

\* RamFsMetadata: file_capacity, the inode numbers of the used slots, and
\* file_cursor.
Meta == [cap : Nat, used : SUBSET Nat, cursor : Nat]

\* ramfs_init with room for n files: the root directory takes the first slot.
RamfsInit(n) == [cap |-> n, used |-> {1}, cursor |-> 1]

\* The slots the loop of ramfs_find_next_avail_fd would take.
Unused(r) == {i \in r.cursor .. r.cap - 1 : i + 1 \notin r.used}

\* ramfs_find_next_avail_fd and what ramfs_mkfile does with its answer: the
\* first unused slot from the cursor on.  When there is none the array is
\* doubled and the answer is the cursor, the number of the last slot of the
\* old array.
MkNode(r) ==
    IF Unused(r) = {}
    THEN [ino |-> r.cap,
          meta |-> [cap |-> 2 * r.cap, used |-> r.used \cup {r.cap},
                    cursor |-> r.cap]]
    ELSE LET i == CHOOSE i \in Unused(r) : \A j \in Unused(r) : i <= j
         IN [ino |-> i + 1,
             meta |-> [cap |-> r.cap, used |-> r.used \cup {i + 1},
                       cursor |-> i + 1]]

\* The array cannot be doubled: the search has moved the cursor to its end.
MkNodeFails(r) == [r EXCEPT !.cursor = r.cap]

\* ramfs_rmnode of a file: its slot is the next one looked at.
RmNode(r, ino) ==
    [cap |-> r.cap, used |-> r.used \ {ino}, cursor |-> ino - 1]
=============================================================================

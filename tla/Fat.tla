--------------------------------- MODULE Fat ---------------------------------
(***************************************************************************)
(* The FAT filesystem (drivers/fs/fat) below one descriptor of the virtual *)
(* file system: a volume's geometry, the walk through its directories that *)
(* makes the vnodes when it is mounted, and reads at a file offset.        *)
(*                                                                         *)
(* A volume has a boot record, a table that gives the next cluster of a    *)
(* cluster, and directory clusters that hold entries.  A cluster of a file *)
(* holds bytes <<cluster, i>>.  A long name is a sequence of pieces, one   *)
(* from each of its entries.                                               *)
(***************************************************************************)
EXTENDS Integers, Sequences, SequencesExt, FiniteSets

CONSTANTS
    Images,         \* the volumes that may be mounted
    U32,            \* 2^32
    SectorSizes,    \* the sector sizes fat_validate accepts
    DiskSector,     \* the sector size of the disk
    EntrySize,      \* the size of a directory entry (32)
    Fat16From,      \* fewest clusters of a FAT16 volume (4085)
    Fat32From,      \* fewest clusters of a FAT32 volume (65525)
    OffHalf,        \* 2^31: off_t goes from -OffHalf to OffHalf - 1
    MaxRead,        \* bound on the bytes of one read
    MaxNodes,       \* the vnodes there is memory for
    MaxDepth,       \* the calls fat_enumerate_and_cache_dir has a stack for
    Eof             \* the mark of a chain's last cluster (0xFFFFFF8)

VARIABLES
    image,      \* the volume
    ctx,        \* FAT32Ctx
    walk,       \* the directories being enumerated, the innermost last
    lfn,        \* the pieces of a long name read so far and their number
    nodes,      \* the cached vnodes
    mount,      \* "probe", "walk", "mounted", "refused" or "panic"
    failed,     \* memory or the disk has failed the walk (history)
    fd,         \* the descriptor: the vnode it has open and its offset
    got         \* the last read: where it began and what it returned

fatVars == <<image, ctx, walk, lfn, nodes, mount, failed, fd, got>>

\* FAT32Ctx before fat_parse_metadata.
NoCtx == [sectors |-> 0]
NoLfn == [total |-> 0, pieces |-> <<>>]
NoFd  == [open |-> FALSE]
NoRead == [off |-> 0, data |-> <<>>]

-----------------------------------------------------------------------------
\* fat_validate.
Validates(b) ==
    /\ b.sectorsize = DiskSector
    /\ b.spf16 # 0 \/ b.spf32 # 0
    /\ b.sectorsize \in SectorSizes

\* Wrong variant: one table is counted.
ParseMetadata_OneFat(b) ==
    LET spf   == IF b.spf16 = 0 THEN b.spf32 ELSE b.count16
        count == Max({b.count16, b.count32})
        rootSectors == (b.rootEntries * EntrySize + b.sectorsize - 1)
                            \div b.sectorsize
        before == b.reserved + spf + rootSectors
        clusters == ((count - before) % U32) \div b.spc
    IN  [sectors |-> count, spc |-> b.spc, clusters |-> clusters,
         firstData |-> before, root |-> b.rootCluster,
         type |-> IF clusters < Fat16From THEN "FAT12"
                  ELSE IF clusters < Fat32From THEN "FAT16" ELSE "FAT32",
         clustersize |-> b.spc * b.sectorsize,
         entriesPerCluster |-> (b.spc * b.sectorsize) \div EntrySize]

\* fat_parse_metadata: the number of sectors of a table is taken from
\* sector_count16 when sectors_per_fat16 is set.
ParseMetadata(b) ==
    LET spf   == IF b.spf16 = 0 THEN b.spf32 ELSE b.count16
        count == Max({b.count16, b.count32})
        rootSectors == (b.rootEntries * EntrySize + b.sectorsize - 1)
                            \div b.sectorsize
        before == b.reserved + b.fats * spf + rootSectors
        clusters == ((count - before) % U32) \div b.spc
    IN  [sectors |-> count, spc |-> b.spc, clusters |-> clusters,
         firstData |-> before, root |-> b.rootCluster,
         type |-> IF clusters < Fat16From THEN "FAT12"
                  ELSE IF clusters < Fat32From THEN "FAT16" ELSE "FAT32",
         clustersize |-> b.spc * b.sectorsize,
         entriesPerCluster |-> (b.spc * b.sectorsize) \div EntrySize]

\* The volumes.  The fields of the boot record are unsigned and a cluster has
\* sectors; of a volume without FAT16 tables, the tables fit into it; no
\* cluster has the number of the end mark; the clusters of a directory lead to
\* others of it; and a file is no bigger than off_t can say and all clusters
\* can hold.  The code checks none of this.
WellFormed(im) ==
    LET b == im.boot
        g == ParseMetadata(b)
    IN
    /\ \A field \in {"spf16", "spf32", "count16", "count32", "rootEntries", "reserved", "fats"} :
        b[field] \in Nat
    /\ b.sectorsize \in Nat \ {0} /\ b.spc \in Nat \ {0}
    /\ b.spf16 = 0 => g.firstData <= g.sectors /\ g.sectors < U32
    /\ g.clusters < Eof /\ Eof \notin DOMAIN im.fat /\ IsFiniteSet(DOMAIN im.fat)
    /\ \A c \in DOMAIN im.fat : im.fat[c] \in Nat
    /\ g.root \in DOMAIN im.dir
    /\ \A c \in DOMAIN im.dir :
        /\ c \in DOMAIN im.fat /\ im.fat[c] \in 2 .. g.clusters => im.fat[c] \in DOMAIN im.dir
        /\ \A i \in 1 .. g.entriesPerCluster :
            LET e == im.dir[c][i] IN
            /\ e.kind = "dir" => e.cluster \in DOMAIN im.dir
            /\ e.kind # "lfn" =>
                /\ e.size \in 0 .. OffHalf - 1
                /\ e.size <= g.clustersize * Cardinality(DOMAIN im.fat)

ASSUME FatAssumption ==
    /\ U32 \in Nat \ {0} /\ EntrySize \in Nat \ {0} /\ OffHalf \in Nat \ {0} /\ Eof \in Nat
    /\ MaxRead \in Nat /\ MaxNodes \in Nat /\ MaxDepth \in Nat
    /\ \A s \in SectorSizes : s \in Nat /\ s >= EntrySize
    /\ \A im \in Images : WellFormed(im)

\* fat_cluster_to_sector.
ClusterToSector(c) == (c - 2) * ctx.spc + ctx.firstData

\* fat_entry_for_clus.
FatEntry(c) == IF c \in DOMAIN image.fat THEN image.fat[c] ELSE 0

\* The clusters fat_advance_loc_clus and fat_next_clus go on to.
IsNext(n) == n >= 2 /\ n <= ctx.clusters

\* fat_next_clus: the next cluster, or 0.
NextClus(c) == IF IsNext(FatEntry(c)) THEN FatEntry(c) ELSE 0

\* fat_cluster_type: whether a cluster belongs to a chain.
InChain(c) ==
    LET f == FatEntry(c) IN f = Eof \/ (f > 0 /\ f <= ctx.clusters)

\* Wrong variant: the end of the cluster is not noticed.
AdvanceLoc_NoNextCluster(loc) ==
    IF loc.offset + 1 = ctx.entriesPerCluster
    THEN [loc EXCEPT !.offset = 0, !.readNext = FALSE]
    ELSE [loc EXCEPT !.offset = @ + 1, !.readNext = FALSE]

\* fat_advance_loc.
AdvanceLoc(loc) ==
    IF loc.offset + 1 = ctx.entriesPerCluster
    THEN [loc EXCEPT !.offset = 0, !.readNext = TRUE]
    ELSE [loc EXCEPT !.offset = @ + 1, !.readNext = FALSE]

\* fat_advance_loc_clus and the check of the cluster it comes to, when the
\* cluster at loc is used up: the location, as a sequence, empty on error.
Located(loc) ==
    IF ~loc.readNext THEN <<loc>>
    ELSE LET n == NextClus(loc.cluster) IN
         IF n # 0 /\ InChain(n)
         THEN <<[loc EXCEPT !.cluster = n, !.readNext = FALSE]>>
         ELSE <<>>

\* The location of the first entry of a vnode's directory.
StartLoc(node, cluster) ==
    [node |-> node, cluster |-> cluster, offset |-> 0, readNext |-> FALSE]

\* The entries fat_dir_entry_to_vnode passes over: deleted ones, "." and "..",
\* and the volume's label.
IsSkipped(e) == e.kind \in {"deleted", "dot", "label"}

\* The name fat_copy_legacy_name makes.
LegacyName(e) == <<e.name>>

\* The number of pieces the first entry of a long name announces.
LfnEntriesCount(e) == e.order

\* fat_read_one_cluster and fat_read_one_entry.
EntryAt(loc) == image.dir[loc.cluster][loc.offset + 1]

-----------------------------------------------------------------------------
FatInit ==
    /\ image \in Images
    /\ ctx = NoCtx
    /\ walk = <<>>
    /\ lfn = NoLfn
    /\ nodes = <<>>
    /\ mount = "probe"
    /\ failed = FALSE
    /\ fd = NoFd
    /\ got = NoRead

\* fat_cache_root_vnode.
RootVnode(cluster) ==
    [name |-> <<"/">>, parent |-> 0, n |-> cluster, dir |-> TRUE, size |-> 0]

\* fat_init up to the enumeration, for a volume to be mounted at dest: the boot
\* record, the root directory's vnode and its lookup under "/", which is
\* asserted and finds it only in a volume mounted there.  Without the device,
\* memory or the disk the volume is refused.
InitFs(dest) ==
    /\ mount = "probe"
    /\ \/ mount' = "refused" /\ UNCHANGED <<ctx, nodes, walk>>
       \/ /\ Validates(image.boot)
          /\ ctx' = ParseMetadata(image.boot)
          /\ IF ctx'.type = "FAT32"
             THEN /\ mount' = IF dest = "/" THEN "walk" ELSE "panic"
                  /\ nodes' = <<RootVnode(ctx'.root)>>
                  /\ walk' = <<StartLoc(1, ctx'.root)>>
             ELSE mount' = "refused" /\ UNCHANGED <<nodes, walk>>
    /\ UNCHANGED <<image, lfn, failed, fd, got>>

Loc == Last(walk)
WithLoc(loc) == Append(Front(walk), loc)

\* The enumeration of a directory ends.  Only the root directory's error
\* counts: fat_destroy then reads through the list of vnodes it has emptied.
DirDone(ok) ==
    /\ walk' = Front(walk)
    /\ mount' = IF Len(walk) > 1 THEN "walk"
                ELSE IF ok THEN "mounted" ELSE "panic"
    /\ lfn' = NoLfn
    /\ UNCHANGED nodes

\* fat_dir_entry_to_vnode returns an error of the disk, or -ENOMEM.
EntryFails == DirDone(FALSE) /\ failed' = TRUE

\* fat_dir_entry_to_vnode returns a vnode for the entry at loc.  When there is
\* memory it is cached, and a directory is enumerated at once; the recursion
\* has no bound but the stack.  Without memory the entry is passed over.
CacheEntry(e, name, loc) ==
    LET node == [name |-> name, parent |-> loc.node, n |-> e.cluster,
                 dir |-> e.kind = "dir", size |-> e.size]
        sub  == StartLoc(Len(nodes) + 1, e.cluster)
    IN
    /\ \/ /\ Len(nodes) < MaxNodes
          /\ nodes' = Append(nodes, node)
          /\ walk' = IF node.dir THEN Append(WithLoc(AdvanceLoc(loc)), sub)
                     ELSE WithLoc(AdvanceLoc(loc))
          /\ mount' = IF node.dir /\ Len(walk) = MaxDepth THEN "panic" ELSE "walk"
          /\ UNCHANGED failed
       \/ /\ walk' = WithLoc(AdvanceLoc(loc))
          /\ failed' = TRUE
          /\ UNCHANGED <<nodes, mount>>
    /\ lfn' = NoLfn

\* There is no memory for a legacy name.  The error is set behind a goto, so
\* the vnode counts as made, and fs_new_vnode_cache copies from NULL.
NoLegacyName ==
    /\ mount' = "panic"
    /\ failed' = TRUE
    /\ UNCHANGED <<walk, lfn, nodes>>

\* The call fat_dir_entry_to_vnode makes for one entry that starts a file, or
\* that it skips.
FirstEntry ==
    LET at  == Located(Loc)
        loc == Head(at)
        e   == EntryAt(loc)
    IN
    /\ mount = "walk"
    /\ lfn = NoLfn
    /\ \/ EntryFails
       \/ at = <<>> /\ DirDone(FALSE) /\ UNCHANGED failed
       \/ /\ at # <<>>
          /\ \/ e.kind = "end" /\ DirDone(TRUE) /\ UNCHANGED failed
             \/ /\ IsSkipped(e)
                /\ walk' = WithLoc(AdvanceLoc(loc))
                /\ UNCHANGED <<lfn, nodes, mount, failed>>
             \/ /\ e.kind = "lfn"
                /\ walk' = WithLoc(AdvanceLoc(loc))
                /\ lfn' = [total |-> LfnEntriesCount(e), pieces |-> <<e.piece>>]
                /\ UNCHANGED <<nodes, mount, failed>>
             \/ e.kind \in {"file", "dir"} /\ NoLegacyName
             \/ e.kind \in {"file", "dir"} /\ CacheEntry(e, LegacyName(e), loc)
    /\ UNCHANGED <<image, ctx, fd, got>>

\* Wrong variant: the next cluster is not read inside a long name.
LfnEntry_NoNextCluster ==
    LET loc == Loc
        e   == EntryAt(loc)
    IN
    /\ mount = "walk"
    /\ lfn # NoLfn
    /\ \/ EntryFails
       \/ /\ e.kind = "lfn" /\ Len(lfn.pieces) >= lfn.total
          /\ DirDone(FALSE) /\ UNCHANGED failed
       \/ /\ e.kind = "lfn" /\ Len(lfn.pieces) < lfn.total
          /\ walk' = WithLoc(AdvanceLoc(loc))
          /\ lfn' = [lfn EXCEPT !.pieces = <<e.piece>> \o @]
          /\ UNCHANGED <<nodes, mount, failed>>
       \/ e.kind # "lfn" /\ CacheEntry(e, lfn.pieces, loc)
    /\ UNCHANGED <<image, ctx, fd, got>>

\* One round of the loop of fat_read_lfns: the entry after a piece of a long
\* name is another piece, which comes before it in the name, or the file's.
LfnEntry ==
    LET at  == Located(Loc)
        loc == Head(at)
        e   == EntryAt(loc)
    IN
    /\ mount = "walk"
    /\ lfn # NoLfn
    /\ \/ EntryFails
       \/ at = <<>> /\ DirDone(FALSE) /\ UNCHANGED failed
       \/ /\ at # <<>>
          /\ \/ /\ e.kind = "lfn" /\ Len(lfn.pieces) >= lfn.total
                /\ DirDone(FALSE) /\ UNCHANGED failed
             \/ /\ e.kind = "lfn" /\ Len(lfn.pieces) < lfn.total
                /\ walk' = WithLoc(AdvanceLoc(loc))
                /\ lfn' = [lfn EXCEPT !.pieces = <<e.piece>> \o @]
                /\ UNCHANGED <<nodes, mount, failed>>
             \/ e.kind # "lfn" /\ CacheEntry(e, lfn.pieces, loc)
    /\ UNCHANGED <<image, ctx, fd, got>>

-----------------------------------------------------------------------------
\* vfs_open of a cached vnode.
Open(i) ==
    /\ mount = "mounted"
    /\ fd = NoFd
    /\ ~nodes[i].dir
    /\ fd' = [open |-> TRUE, node |-> i, off |-> 0]
    /\ UNCHANGED <<image, ctx, walk, lfn, nodes, mount, failed, got>>

\* The cluster k steps after c that fat_next_clus leads to, or 0.
After(c, k) ==
    LET f[i \in 0 .. k] ==
            IF i = 0 THEN c ELSE IF f[i - 1] = 0 THEN 0 ELSE NextClus(f[i - 1])
    IN  f[k]

\* The number of clusters that hold the n bytes from off on.
Spanned(off, n) ==
    (n + (off % ctx.clustersize) + ctx.clustersize - 1) \div ctx.clustersize

\* Wrong variant: the first cluster is passed over.
ReadClusters_FromSecond(c, off, n) ==
    LET count == Spanned(off, n)
    IN  IF After(c, count) = 0 THEN <<>>
        ELSE [k \in 1 .. count |-> After(c, k)]

\* The clusters fat_read reads for n bytes from off, empty when it fails: it
\* looks for the next cluster after the last one too.
ReadClusters(c, off, n) ==
    LET skip  == off \div ctx.clustersize
        count == Spanned(off, n)
    IN  IF After(c, skip + count) = 0 THEN <<>>
        ELSE [k \in 1 .. count |-> After(c, skip + k - 1)]

Garbage == <<0, 0>>

\* What fat_read copies to the caller: n bytes from the offset on, counted
\* from the start of the clusters read.
Copied(clusters, off, n) ==
    [i \in 1 .. n |->
        LET at == off + i - 1
            k  == at \div ctx.clustersize + 1
        IN  IF k <= Len(clusters) THEN <<clusters[k], at % ctx.clustersize>>
            ELSE Garbage]

\* x as a value of off_t.
Off(x) ==
    LET m == x % (2 * OffHalf)
    IN  IF m < OffHalf THEN m ELSE m - 2 * OffHalf

Offs == - OffHalf .. OffHalf - 1

\* vfs_read of n > 0 bytes through fat_read: a failed read leaves the offset.
Read(n) ==
    LET node  == nodes[fd.node]
        m     == Min({n, node.size - fd.off})
        cs    == ReadClusters(node.n, fd.off, m)
    IN
    /\ mount = "mounted"
    /\ fd.open
    /\ IF fd.off >= node.size \/ cs = <<>>
       THEN got' = [off |-> fd.off, data |-> <<>>] /\ UNCHANGED fd
       ELSE /\ got' = [off |-> fd.off, data |-> Copied(cs, fd.off, m)]
            /\ fd' = [fd EXCEPT !.off = Off(@ + m)]
    /\ UNCHANGED <<image, ctx, walk, lfn, nodes, mount, failed>>

\* A read for which fat_read has no memory, or that fails on the disk.
ReadFails ==
    /\ mount = "mounted"
    /\ fd.open
    /\ got' = [off |-> fd.off, data |-> <<>>]
    /\ UNCHANGED <<image, ctx, walk, lfn, nodes, mount, failed, fd>>

\* The offset after vfs_lseek: a sum that is negative, as one that has wrapped
\* is, is refused.
SeekTarget(whence, off) ==
    LET res == CASE whence = "set" -> off
                 [] whence = "cur" -> Off(fd.off + off)
                 [] whence = "end" -> Off(nodes[fd.node].size + off)
    IN  IF res < 0 THEN fd.off ELSE res

\* vfs_lseek.
Lseek(whence, off) ==
    /\ mount = "mounted"
    /\ fd.open
    /\ fd' = [fd EXCEPT !.off = SeekTarget(whence, off)]
    /\ got' = NoRead
    /\ UNCHANGED <<image, ctx, walk, lfn, nodes, mount, failed>>

\* vfs_close.
Close ==
    /\ mount = "mounted"
    /\ fd.open
    /\ fd' = NoFd
    /\ got' = NoRead
    /\ UNCHANGED <<image, ctx, walk, lfn, nodes, mount, failed>>

\* fat_write, fat_mkfile and fat_rmnode are not written (TODO_FATAL), and
\* vfs_mmap finds no mmap operation.
Unsupported ==
    /\ mount = "mounted"
    /\ mount' = "panic"
    /\ UNCHANGED <<image, ctx, walk, lfn, nodes, failed, fd, got>>

FatNext ==
    \/ \E dest \in {"/", "elsewhere"} : InitFs(dest)
    \/ FirstEntry
    \/ LfnEntry
    \/ \E i \in 1 .. Len(nodes) : Open(i)
    \/ \E n \in 1 .. MaxRead : Read(n)
    \/ ReadFails
    \/ \E whence \in {"set", "cur", "end"}, off \in Offs : Lseek(whence, off)
    \/ Close
    \/ Unsupported

FatSpec == FatInit /\ [][FatNext]_fatVars /\ WF_fatVars(FirstEntry \/ LfnEntry)

-----------------------------------------------------------------------------
\* The clusters of the chain that starts at c, in order.
Chain(c) ==
    LET m == Cardinality(DOMAIN image.fat)
        f[k \in 0 .. m] ==
            IF k = 0 THEN c
            ELSE IF f[k - 1] = Eof THEN Eof ELSE image.fat[f[k - 1]]
    IN  [k \in 1 .. Cardinality({j \in 1 .. m : f[j - 1] # Eof}) |-> f[k - 1]]

\* The entries of the directory that starts at c, up to the end mark.
EntriesOf(c) ==
    LET all == FoldLeft(LAMBDA acc, d : acc \o image.dir[d], <<>>, Chain(c))
        end == SelectInSeq(all, LAMBDA e : e.kind = "end")
    IN  IF end = 0 THEN all ELSE SubSeq(all, 1, end - 1)

\* The name of the file entry i of es: the pieces before it, the nearest
\* first, or its own.
NameOf(es, i) ==
    LET lfns == {j \in 1 .. i - 1 :
                    \A k \in j .. i - 1 : es[k].kind = "lfn"}
    IN  IF lfns = {} THEN <<es[i].name>>
        ELSE [k \in 1 .. Cardinality(lfns) |-> es[i - k].piece]

\* The last cluster, number ctx.clusters + 1, is in no chain.
LastClusterFree == \A c \in DOMAIN image.fat : c <= ctx.clusters

\* The directories have an end: no chain of clusters of one leads back.
DirectoriesEnd ==
    \A c \in DOMAIN image.dir : image.fat[Last(Chain(c))] = Eof

\* The vnodes the directory that is vnode p describes: its files and
\* directories in order, with their names and sizes.
Described(p) ==
    LET es    == EntriesOf(nodes[p].n)
        files == SelectSeq([i \in 1 .. Len(es) |-> i],
                    LAMBDA i : es[i].kind \in {"file", "dir"})
    IN  [k \in 1 .. Len(files) |->
            LET e == es[files[k]] IN
            [name |-> NameOf(es, files[k]), parent |-> p, n |-> e.cluster,
             dir |-> e.kind = "dir", size |-> e.size]]

\* The cached vnodes below vnode p.
Kids(p) == SelectSeq(nodes, LAMBDA v : v.parent = p)

\* s is t without some of its elements.
IsSubsequence(s, t) ==
    \E h \in [DOMAIN s -> DOMAIN t] :
        /\ \A i, j \in DOMAIN s : i < j => h[i] < h[j]
        /\ \A i \in DOMAIN s : s[i] = t[h[i]]

VnodesMatchDirectories ==
    \A p \in 1 .. Len(nodes) : nodes[p].dir => Kids(p) = Described(p)

\* A mounted volume has exactly the vnodes its directories describe: every
\* file and directory once, below its parent and under its long name, wherever
\* entries, and the pieces of one name, go over from a cluster to the next,
\* among deleted entries and directories inside directories.  Where memory or
\* the disk failed the walk some are missing, but what is there is described,
\* in order and below its parent.  This is when the last cluster of the volume
\* is free and its directories end
\* (fat_enumerate_and_cache_dir, fat_dir_entry_to_vnode, fat_read_lfns).
EnumerationExact ==
    mount = "mounted" /\ LastClusterFree /\ DirectoriesEnd =>
        /\ ~failed => VnodesMatchDirectories
        /\ \A p \in 1 .. Len(nodes) :
            nodes[p].dir => IsSubsequence(Kids(p), Described(p))
        /\ \A i \in 2 .. Len(nodes) :
            nodes[i].parent \in 1 .. i - 1 /\ nodes[nodes[i].parent].dir

\* Mounting a volume whose directories end comes to an end, also when they lie
\* in each other: the walk reaches every end mark, or the kernel's stack or
\* memory ends it (fat_enumerate_and_cache_dir).  Nothing ends it where a
\* directory's chain leads back: fat_advance_loc_clus follows it for ever.
MountEnds ==
    mount = "walk" /\ DirectoriesEnd ~> mount \in {"mounted", "panic"}

\* A read that succeeds from an offset in the first cluster returns the bytes
\* of the file at that offset, however many clusters they are spread over
\* (fat_read), and what is added to an offset never makes it negative: a read
\* does not move it past the end, and a seek that wraps is refused.
ReadsAreExact ==
    /\ fd.open => fd.off >= 0
    /\ fd.open /\ got.data # <<>> /\ got.off < ctx.clustersize =>
           \A i \in 1 .. Len(got.data) :
               LET at == got.off + i - 1 IN
               got.data[i] = <<Chain(nodes[fd.node].n)[at \div ctx.clustersize + 1],
                               at % ctx.clustersize>>

\* The clusters of a FAT32 volume lie behind its tables and inside the volume,
\* and one more would not fit (fat_parse_metadata, fat_cluster_to_sector).
ClustersInsideVolume ==
    mount \in {"walk", "mounted"} /\ image.boot.spf16 = 0 =>
        LET b == image.boot IN
        /\ ClusterToSector(2) >= b.reserved + b.fats * b.spf32
        /\ ClusterToSector(ctx.clusters + 2) <= ctx.sectors
        /\ ClusterToSector(ctx.clusters + 3) > ctx.sectors

\* "If the fat entry (next cluster) is out of this range, it could either be an
\* EOF, reserved, corrupted or free." (drivers/fs/fat/fat.c): a chain is only
\* left where it ends, so a mounted volume has all its files.
\* The code does not keep this.
NextClusterIsKnown == mount = "mounted" => VnodesMatchDirectories

\* "We don't support FAT 12/16" (drivers/fs/fat/fat.c): a volume whose table
\* has sectors_per_fat16 sectors and too few clusters is refused.
\* The code does not keep this.
Fat16Refused ==
    LET b == image.boot
        clusters == (Max({b.count16, b.count32}) - b.reserved
                        - b.fats * b.spf16) \div b.spc
    IN  b.spf16 # 0 /\ clusters < Fat32From
            => mount \notin {"walk", "mounted", "panic"}

\* "Read from a file described by a vnode. ... Returns: Non negative integer
\* describing how many bytes were read on success." (include/dxgmx/fs/vnode.h):
\* a read inside a file of a sound disk returns something.
\* The code does not keep this.
ReadsReturnBytes ==
    [][\A n \in 1 .. MaxRead :
        Read(n) /\ fd.off < nodes[fd.node].size => got'.data # <<>>]_fatVars
=============================================================================

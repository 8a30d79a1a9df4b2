-------------------------------- MODULE Files --------------------------------
(***************************************************************************)
(* Filesystem drivers, mounted filesystems, the vnodes they have, and what *)
(* a path means (kernel/fs/vfs.c, kernel/fs/fs.c, drivers/fs/devfs,        *)
(* drivers/fs/ramfs).  Vfs has the life of descriptors and vnodes, Fat     *)
(* offsets and reads.                                                      *)
(***************************************************************************)
EXTENDS Path, Ramfs

CONSTANTS
    Chars,          \* the characters of paths
    MountPoints,    \* the mount points used, sequences of characters
    DevMount,       \* "/dev"
    Volumes,        \* the sources that hold a FAT volume
    Sources,        \* all sources
    VolumeFiles,    \* the paths of what a FAT volume holds below its root
    DevNames,       \* names of device files
    Paths,          \* the paths looked up
    NewPaths,       \* the paths opened with O_CREAT
    MaxMounts,      \* bound on the mounted filesystems
    MaxEntries,     \* bound on the registered device files
    MaxNodes        \* bound on the vnodes of a filesystem

\* A mount point is written as path_make_canonical would leave it, without
\* dots; a device file's name is one name without dots ("tty", "hdap0").
ASSUME FilesAssumption ==
    /\ Volumes \subseteq Sources
    /\ <<"/">> \in MountPoints /\ DevMount \in MountPoints
    /\ StartingFiles \in Nat \ {0} /\ "/" \in Chars
    /\ \A p \in MountPoints :
        /\ p \in Seq(Chars) /\ p # <<>> /\ p[1] = "/" /\ (Len(p) > 1 => p[Len(p)] # "/")
        /\ \A i \in DOMAIN p : p[i] # "." /\ ~(p[i] = "/" /\ i > 1 /\ p[i - 1] = "/")
    /\ \A name \in DevNames :
        /\ name \in Seq(Chars) /\ name # <<>>
        /\ \A i \in DOMAIN name : name[i] \notin {"/", "."}

VARIABLES
    drivers,    \* g_fs_drivers
    entries,    \* g_registered_entries of devfs: the names
    mounts,     \* g_filesystems_ll, in mount order
    phase       \* "boot" before vfs_init, then "up", and "panic"

filesVars == <<drivers, entries, mounts, phase>>

\* Wrong variant: the first of the longest mount points is kept.
Topmost_First(p) ==
    LET hits    == {i \in 1 .. Len(mounts) : IsPrefix(mounts[i].dest, p)}
        longest == {i \in hits : \A j \in hits :
                        Len(mounts[j].dest) <= Len(mounts[i].dest)}
    IN  Min(longest)

\* vfs_topmost_fs_for_path: of the filesystems whose mount point is a prefix
\* of the path the last one with the longest.
Topmost(p) ==
    LET hits    == {i \in 1 .. Len(mounts) : IsPrefix(mounts[i].dest, p)}
        longest == {i \in hits : \A j \in hits :
                        Len(mounts[j].dest) <= Len(mounts[i].dest)}
    IN  Max(longest)

\* fs_lookup_vnode_cached_relative: the first vnode with the path, or 0.
CachedNode(nodes, p) == SelectInSeq(nodes, LAMBDA v : v.path = p)

\* fs_lookup_vnode: the vnode of a path on a filesystem, or 0.
LookupNode(p, fs) ==
    LET c == Canonical(p) IN
    IF CanBeRelative(c, fs.dest)
    THEN CachedNode(fs.nodes, Relative(c, fs.dest))
    ELSE 0

\* fs_ino_to_vnode: the first vnode with the number.
InoToNode(nodes, ino) == SelectInSeq(nodes, LAMBDA v : v.n = ino)

\* The root directory that ramfs_init makes.
RootNode(driver) ==
    [path |-> <<"/">>, n |-> 1, dir |-> TRUE,
     ops |-> <<driver, 0>>]

\* ramfs_mkfile of a file with the path p: a slot and a vnode, at the end of
\* the list.  A file without a directory has its bare name for a path.
RamMkfile(fs, p, dir) ==
    LET made == MkNode(fs.meta)
        name == Filename(p)
        path == IF CachedNode(fs.nodes, dir) = 0 THEN name ELSE Join(dir, name)
    IN  [fs EXCEPT
            !.meta = made.meta,
            !.nodes = Append(@, [path |-> path, n |-> made.ino,
                                 dir |-> FALSE, ops |-> <<fs.driver, 0>>])]

\* fs_mkfile: the driver makes the file in the directory of its path.
MkfileIn(fs, p) ==
    LET rel == Relative(Canonical(p), fs.dest)
    IN  RamMkfile(fs, rel, DirOf(rel))

\* A filesystem as vfs_new_fs makes it, with the driver vfs_mount tries.
\* devices, how many entries devfs_init has made files for, is not in the code.
NewFs(src, dest, driver) ==
    [src |-> src, dest |-> dest, driver |-> driver, nodes |-> <<>>,
     meta |-> RamfsInit(StartingFiles), devices |-> 0]

\* ramfs_init.
RamfsMounted(src, dest, driver) ==
    [NewFs(src, dest, driver) EXCEPT !.nodes = <<RootNode(driver)>>]

\* Wrong variant: the operations go to the vnode made last.
DevfsMounted_OpsToLast(src, dest) ==
    LET fs[i \in 0 .. Len(entries)] ==
            IF i = 0 THEN RamfsMounted(src, dest, "devfs")
            ELSE [MkfileIn(fs[i - 1], dest \o <<"/">> \o entries[i])
                    EXCEPT !.nodes[Len(fs[i - 1].nodes)].ops = <<"device", i>>,
                           !.devices = i]
    IN  fs[Len(entries)]

\* devfs_init: a file for each registered entry, named mount point, '/' and
\* the entry's name, which starts with another '/'.  The vnode whose
\* operations are replaced is found by the number of the new file.
WithDevice(made, i) ==
    LET ino == made.nodes[Len(made.nodes)].n
    IN  [made EXCEPT !.nodes[InoToNode(made.nodes, ino)].ops = <<"device", i>>,
                     !.devices = i]
DevfsMounted(src, dest) ==
    LET fs[i \in 0 .. Len(entries)] ==
            IF i = 0 THEN RamfsMounted(src, dest, "devfs")
            ELSE WithDevice(MkfileIn(fs[i - 1], dest \o <<"/">> \o entries[i]), i)
    IN  fs[Len(entries)]

\* fat_init of a volume on / (module Fat has how it comes to its vnodes).
FatMounted(src, dest) ==
    [NewFs(src, dest, "fatfs") EXCEPT
        !.nodes = <<RootNode("fatfs")>>
            \o SetToSeq({[path |-> f, n |-> 0,
                          dir |-> FALSE, ops |-> <<"fatfs", 0>>]
                            : f \in VolumeFiles})]

Drivers == {"ramfs", "devfs", "fatfs"}

\* generic_probe of the drivers.
GenericProbe == {"fatfs"}

\* The driver vfs_mount gives the filesystem to: the one with the name, or
\* the first one that is probed, as no driver answers -ENOENT.
DriverFor(type) ==
    {d \in Drivers :
        /\ Contains(drivers, d)
        /\ IF type = "any" THEN d \in GenericProbe ELSE d = type}

\* Whether the driver's init succeeds, memory permitting.
InitSucceeds(d, src) == d = "fatfs" => src \in Volumes

\* The filesystem the driver's init makes.
Mounted(d, src, dest) ==
    CASE d = "ramfs" -> RamfsMounted(src, dest, d)
      [] d = "devfs" -> DevfsMounted(src, dest)
      [] d = "fatfs" -> FatMounted(src, dest)

\* The filesystem vfs_mount adds, as a sequence: empty when it fails.
MountResult(src, dest, type) ==
    IF \E d \in DriverFor(type) : InitSucceeds(d, src)
    THEN <<Mounted(CHOOSE d \in DriverFor(type) : TRUE, src, dest)>>
    ELSE <<>>

-----------------------------------------------------------------------------
FilesInit ==
    /\ drivers = <<>>
    /\ entries = <<>>
    /\ mounts = <<>>
    /\ phase = "boot"

\* vfs_register_fs_driver, called by the drivers' modules.
RegisterDriver(d) ==
    /\ phase = "boot"
    /\ ~Contains(drivers, d)
    /\ drivers' = Append(drivers, d)
    /\ UNCHANGED <<entries, mounts, phase>>

\* vfs_unregister_fs_driver of a driver no filesystem uses.
UnregisterDriver(d) ==
    /\ phase # "panic"
    /\ Contains(drivers, d)
    /\ \A i \in 1 .. Len(mounts) : mounts[i].driver # d
    /\ drivers' = SelectSeq(drivers, LAMBDA e : e # d)
    /\ UNCHANGED <<entries, mounts, phase>>

\* devfs_register: the name is kept with a '/' before it.
DevfsRegister(name) ==
    /\ phase # "panic"
    /\ Len(entries) < MaxEntries
    /\ entries' = Append(entries, <<"/">> \o name)
    /\ UNCHANGED <<drivers, mounts, phase>>

\* vfs_init: the volume "hdap0" on /, whatever its type, and devfs on /dev.
\* Without a root filesystem the kernel panics.
VfsInit ==
    LET root == MountResult(<<"hdap0">>, <<"/">>, "any")
        dev  == MountResult(<<"devfs">>, DevMount, "devfs")
    IN
    /\ phase = "boot"
    /\ phase' = IF root = <<>> THEN "panic" ELSE "up"
    /\ mounts' = root \o dev
    /\ UNCHANGED <<drivers, entries>>

\* fat_init ends by looking up "/" and asserting that it is found, but a path
\* shorter than the mount point is refused (path_make_relative).
MountPanics(made) == made.driver = "fatfs" /\ made.dest # <<"/">>

\* vfs_mount with a driver whose init gets through.
Mount(src, dest, type) ==
    LET made == MountResult(src, dest, type) IN
    /\ phase = "up"
    /\ Len(mounts) < MaxMounts
    /\ made # <<>>
    /\ IF MountPanics(made[1])
       THEN phase' = "panic" /\ UNCHANGED mounts
       ELSE mounts' = mounts \o made /\ UNCHANGED phase
    /\ UNCHANGED <<drivers, entries>>

\* vfs_find_fs_by_src_or_dest: the first filesystem with the source or mount
\* point x, or 0.
FindBySrcOrDest(x) == SelectInSeq(mounts, LAMBDA fs : x \in {fs.src, fs.dest})

\* Whether the driver's destroy comes back: fs_free_all_cached_vnodes, which
\* all end in, reads through the root of the list once more after it has
\* removed the last vnode.
DestroyReturns(fs) == fs.nodes = <<>>

\* vfs_unmount.
Unmount(x) ==
    LET i == FindBySrcOrDest(x) IN
    /\ phase = "up"
    /\ i # 0
    /\ IF DestroyReturns(mounts[i])
       THEN mounts' = RemoveAt(mounts, i) /\ UNCHANGED phase
       ELSE phase' = "panic" /\ UNCHANGED mounts
    /\ UNCHANGED <<drivers, entries>>

\* vfs_open with O_CREAT of a file that does not exist: a ram filesystem makes
\* it and the answer is -ENOENT.  The kernel panics on a FAT volume, where
\* fat_mkfile is not written, when the relative path has no '/'
\* (fs_get_dir_vnode_for_file), and when the new file cannot be found because
\* its directory does not exist.
OpenNew(p) ==
    LET m    == Topmost(p)
        fs   == mounts[m]
        rel  == Relative(Canonical(p), fs.dest)
        made == MkfileIn(fs, p)
    IN
    /\ phase = "up"
    /\ CanBeRelative(Canonical(p), fs.dest)
    /\ LookupNode(p, fs) = 0
    /\ Len(fs.nodes) < MaxNodes
    /\ IF fs.driver = "fatfs" \/ ~Contains(rel, "/")
          \/ CachedNode(made.nodes, rel) = 0
       THEN phase' = "panic" /\ UNCHANGED mounts
       ELSE mounts' = [mounts EXCEPT ![m] = made] /\ UNCHANGED phase
    /\ UNCHANGED <<drivers, entries>>

FilesNext ==
    \/ \E d \in Drivers : RegisterDriver(d) \/ UnregisterDriver(d)
    \/ \E name \in DevNames : DevfsRegister(name)
    \/ VfsInit
    \/ \E src \in Sources, dest \in MountPoints, type \in Drivers \cup {"any"} :
        Mount(src, dest, type)
    \/ \E x \in Sources \cup MountPoints : Unmount(x)
    \/ \E p \in NewPaths : OpenNew(p)

FilesSpec == FilesInit /\ [][FilesNext]_filesVars

-----------------------------------------------------------------------------
\* The filesystem a path is on: the one mounted last of those whose mount
\* point has the most names, all of them the path's first.
OwnerOf(cs) ==
    LET under(i) == IsPrefix(Components(mounts[i].dest), cs)
        hits     == {i \in 1 .. Len(mounts) : under(i)}
        deepest  == {i \in hits : \A j \in hits :
                        Len(Components(mounts[j].dest))
                            <= Len(Components(mounts[i].dest))}
    IN  Max(deepest)

\* Paths whose beginning can be compared with the mount points as it stands:
\* no "//" or "." before the last mount point, and no name that merely starts
\* with the name of one.
Comparable(p) ==
    \A i \in 1 .. Len(mounts) :
        /\ IsPrefix(mounts[i].dest, p)
                <=> IsPrefix(Components(mounts[i].dest), Components(p))

\* A path leads to the vnode it names, through shadowed mounts, mounts below
\* mounts, and superfluous slashes and dots: vfs_topmost_fs_for_path,
\* path_make_canonical, path_make_relative and the paths built from vnodes
\* agree with the meaning of a path as a list of names.
PathsLeadToVnodes ==
    phase = "up" =>
        \A p \in Paths :
            Canonicalisable(p) /\ Comparable(p) =>
                LET cs    == Components(p)
                    owner == OwnerOf(cs)
                    depth == Len(Components(mounts[owner].dest))
                    rest  == SubSeq(cs, depth + 1, Len(cs))
                IN  /\ Topmost(p) = owner
                    /\ rest # <<>> =>
                        LookupNode(p, mounts[owner])
                            = SelectInSeq(mounts[owner].nodes,
                                LAMBDA v : Components(v.path) = rest)

\* Every entry registered when devfs was mounted has its file, and the file
\* answers with its own device's operations, unless its number is also that of
\* the file before or behind it.  That happens only if there were too many
\* entries for the slots the ram filesystem starts with (ramfs_mkfile gives the
\* last number again when it doubles them); files made later spoil nothing.
DevicesAnswer ==
    \A m \in 1 .. Len(mounts) :
        mounts[m].driver = "devfs" =>
            LET D       == mounts[m].devices
                file(i) == mounts[m].nodes[i + 1]
                same(i) == {j \in 0 .. D : file(j).n = file(i).n}
            IN  \A i \in 1 .. D :
                    /\ file(i).path = entries[i] /\ ~file(i).dir
                    /\ same(i) = {i} => file(i).ops = <<"device", i>>
                    /\ D < StartingFiles => same(i) = {i}
                    /\ same(i) \subseteq {i - 1, i, i + 1}

\* Every device file answers with its own device's operations, however many
\* there are.
\* The code does not keep this.
EveryDeviceAnswers ==
    \A m \in 1 .. Len(mounts) :
        \A i \in 1 .. mounts[m].devices : mounts[m].nodes[i + 1].ops = <<"device", i>>

\* "Canonical in this case means: ... Resolving ../ in path, ex: /dev/dir/../
\* -> /dev" (include/dxgmx/fs/path.h): a path_make_canonical'd path has the
\* names that are left when "." and ".." are followed.
\* The code does not keep this.
CanonicalResolvesParents ==
    \A p \in Paths :
        LET up(acc, c) == IF c # <<".", ".">> THEN Append(acc, c)
                          ELSE IF acc = <<>> THEN acc ELSE Front(acc)
        IN  Canonical(p) = PathOf(FoldLeft(up, <<>>, Components(p)))
=============================================================================

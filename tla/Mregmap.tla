------------------------------- MODULE Mregmap -------------------------------
(***************************************************************************)
(* The map of available memory: filled from the bootloader's map           *)
(* (drivers/core/multiboot/multiboot.c), cut by the first MiB and the      *)
(* kernel image and aligned to pages (kernel/mem/mm.c, mregmap.c), then    *)
(* handed to the frame allocator (kernel/mem/falloc.c).  Addresses are in  *)
(* small units, modulo the range of u64.  mregmap_fix_overlaps and         *)
(* mregmap_add_reg call each other: their calls under way are a stack, and *)
(* a step looks at one region of the map.                                  *)
(***************************************************************************)
EXTENDS Integers, Sequences, FiniteSets, SequencesExt

CONSTANTS
    U64,            \* the range of an address
    Page,           \* PAGESIZE
    Mib,            \* the first MiB, where the kernel image begins
    KernelSizes,    \* kimg_size
    FirmwareMaps,   \* sequences of [start, size, available]
    Capacity        \* regions the map of the boot information has room for

\* A physical address has at most 52 bits: nothing ends at 2^64.
ASSUME MregmapAssumption ==
    /\ {U64, Page, Mib, Capacity} \subseteq Nat \ {0}
    /\ Mib % Page = 0
    /\ \A k \in KernelSizes : k \in Nat \ {0} /\ Mib + k < U64
    /\ \A m \in FirmwareMaps :
        /\ m \in Seq([start : Nat, size : Nat, available : BOOLEAN])
        /\ \A i \in DOMAIN m : m[i].start + m[i].size < U64

VARIABLES
    bootStep,   \* "parse", "lowmem", "kernel", "done" or "panic"
    firmware,   \* the bootloader's map, as far as it is not parsed
    reported,   \* the bootloader's map
    kernelSize,
    regions,    \* the map: a sequence of [start, size]
    calls       \* the calls of mregmap_fix_overlaps under way, the innermost last

mregVars == <<bootStep, firmware, reported, kernelSize, regions, calls>>

End(r) == (r.start + r.size) % U64

\* mreg_shrink: what is left of a region, or that it is to be removed.
ShouldRemove(size, r) == size >= r.size
Shrunk(size, r) == [r EXCEPT !.size = @ - size]

\* mregmap_enlarge: room for one more.  The array of the boot information is
\* not from kmalloc, so it cannot grow.
Room(map) == Len(map) < Capacity

\* The bubble sort of mregmap_add_reg, which keeps equal starts in order: the
\* place a region ends up in is the number of those that do not come after it.
SortedPlace(map, i) ==
    Cardinality({j \in DOMAIN map : \/ map[j].start < map[i].start
                                    \/ map[j].start = map[i].start /\ j <= i})
Sorted(map) ==
    [k \in DOMAIN map |-> map[CHOOSE i \in DOMAIN map : SortedPlace(map, i) = k]]

\* A call of mregmap_fix_overlaps for region r, that mregmap_add_reg makes
\* (adds) or mregmap_rm_reg; place is the loop's index.
FixOverlaps(r, adds) == [region |-> r, place |-> 1, adds |-> adds]
Low == [start |-> 0, size |-> Mib]

\* The kernel image, from kimg_paddr on.
Kernel == [start |-> Mib, size |-> kernelSize]

\* Whether r falls into t, which is then split.
Splits(r, t) == r.start > t.start /\ End(r) < End(t)

\* Wrong variant: the size is what comes behind the start of r.
Upper_Behind(t, r) == [start |-> End(r), size |-> (t.size - r.start) % U64]

\* What stays of t behind r: the code takes the new start off the size.
Upper(t, r) == [start |-> End(r), size |-> (t.size - End(r)) % U64]

\* One pass of the loop of mregmap_fix_overlaps, where nothing is split: the
\* region at place i keeps what r leaves of it.
Cut(map, i, size, start) ==
    IF ShouldRemove(size, map[i]) THEN RemoveAt(map, i)
    ELSE [map EXCEPT ![i] = [Shrunk(size, @) EXCEPT !.start = start]]
Fixed(r, map, i) ==
    LET t == map[i] IN
    CASE r.start > t.start /\ r.start < End(t) ->
            Cut(map, i, (End(t) - r.start) % U64, t.start)
      [] r.start <= t.start /\ End(r) >= End(t) -> RemoveAt(map, i)
      [] r.start <= t.start /\ End(r) < End(t) /\ End(r) > t.start ->
            Cut(map, i, (End(r) - t.start) % U64, End(r))
      [] OTHER -> map

\* Wrong variant: the start is rounded down to a page.
AlignStart_Down(r) == (r.start \div Page) * Page

\* mregmap_align_regs: the aligned start of a region.
AlignStart(r) == ((r.start + Page - 1) \div Page) * Page

\* mregmap_align_regs: it ends with the first region that it removes.
AlignRegs(map) ==
    LET Gap(i) == AlignStart(map[i]) - map[i].start
        Removes(i) == ShouldRemove(Gap(i), map[i])
        Aligned == [i \in DOMAIN map |->
            IF \E j \in 1 .. i : Removes(j) THEN map[i]
            ELSE [Shrunk(Gap(i), map[i]) EXCEPT !.start = AlignStart(map[i])]]
    IN  IF \E i \in DOMAIN map : Removes(i)
        THEN RemoveAt(Aligned, CHOOSE i \in DOMAIN map :
                                  Removes(i) /\ \A j \in 1 .. i - 1 : ~Removes(j))
        ELSE Aligned

MregInit ==
    /\ bootStep = "parse"
    /\ reported \in FirmwareMaps
    /\ firmware = reported
    /\ kernelSize \in KernelSizes
    /\ regions = <<>>
    /\ calls = <<>>

\* multiboot_parse_info, one entry of the map.
ParseEntry ==
    /\ bootStep = "parse" /\ calls = <<>>
    /\ firmware # <<>>
    /\ firmware' = Tail(firmware)
    /\ IF Len(regions) >= Capacity
       THEN bootStep' = "panic" /\ UNCHANGED calls
       ELSE /\ UNCHANGED bootStep
            /\ calls' = IF Head(firmware).available
                        THEN <<FixOverlaps([start |-> Head(firmware).start,
                                            size |-> Head(firmware).size], TRUE)>>
                        ELSE calls
    /\ UNCHANGED <<reported, kernelSize, regions>>

\* mm_setup_sys_mregmap.
RemoveLowMemory ==
    /\ bootStep = "parse" /\ calls = <<>>
    /\ firmware = <<>>
    /\ calls' = <<FixOverlaps(Low, FALSE)>>
    /\ bootStep' = "lowmem"
    /\ UNCHANGED <<firmware, reported, kernelSize, regions>>

RemoveKernel ==
    /\ bootStep = "lowmem" /\ calls = <<>>
    /\ calls' = <<FixOverlaps(Kernel, FALSE)>>
    /\ bootStep' = "kernel"
    /\ UNCHANGED <<firmware, reported, kernelSize, regions>>

AlignRegions ==
    /\ bootStep = "kernel" /\ calls = <<>>
    /\ regions' = AlignRegs(regions)
    /\ bootStep' = "done"
    /\ UNCHANGED <<firmware, reported, kernelSize, calls>>

\* The innermost call, and the same call at its next place.
Call == calls[Len(calls)]
Onward == [calls EXCEPT ![Len(calls)].place = @ + 1]

\* The loop of mregmap_fix_overlaps.  A region that is removed makes it skip
\* the one after it.
FixRegion ==
    /\ calls # <<>> /\ Call.place <= Len(regions)
    /\ ~Splits(Call.region, regions[Call.place])
    /\ regions' = Fixed(Call.region, regions, Call.place)
    /\ calls' = Onward
    /\ UNCHANGED <<bootStep, firmware, reported, kernelSize>>

\* A region that the call's region falls into: its upper part stays and its
\* lower part is added to the map.
SplitRegion ==
    /\ calls # <<>> /\ Call.place <= Len(regions)
    /\ Splits(Call.region, regions[Call.place])
    /\ LET t == regions[Call.place]
           lower == [start |-> t.start, size |-> Call.region.start - t.start]
       IN  /\ regions' = [regions EXCEPT ![Call.place] = Upper(t, Call.region)]
           /\ calls' = Append(Onward, FixOverlaps(lower, TRUE))
    /\ UNCHANGED <<bootStep, firmware, reported, kernelSize>>

\* The loop is over; mregmap_add_reg then adds its region if there is room.
EndCall ==
    /\ calls # <<>> /\ Call.place > Len(regions)
    /\ regions' = IF Call.adds /\ Room(regions)
                  THEN Sorted(Append(regions, Call.region)) ELSE regions
    /\ calls' = SubSeq(calls, 1, Len(calls) - 1)
    /\ UNCHANGED <<bootStep, firmware, reported, kernelSize>>

MregNext ==
    \/ ParseEntry \/ RemoveLowMemory \/ RemoveKernel \/ AlignRegions
    \/ FixRegion \/ SplitRegion \/ EndCall

MregSpec == MregInit /\ [][MregNext]_mregVars

\* pageframe_add_available: the frames a region is entered as.
FramesOf(r) == {f \in 0 .. U64 - 1 : f >= r.start /\ f < r.start + r.size
                                     /\ (f - r.start) % Page = 0}
Frames == UNION {FramesOf(regions[i]) : i \in DOMAIN regions}

-----------------------------------------------------------------------------
Overlap(a, b) == a.start < b.start + b.size /\ b.start < a.start + a.size
Available == {i \in DOMAIN reported : reported[i].available}

\* A map as firmware makes them: its entries not empty and apart from each
\* other, at most one available entry below 1 MiB and at most one that reaches
\* into the kernel image.  (An empty region at address 0 would be removed with
\* the first MiB, and the region after it passed over.)
Ordinary ==
    /\ \A i \in DOMAIN reported : reported[i].size > 0
    /\ \A i, j \in DOMAIN reported : i # j => ~Overlap(reported[i], reported[j])
    /\ \A r \in {Low, Kernel} :
        Cardinality({i \in Available : Overlap(r, reported[i])}) <= 1

\* A map whose available entries begin and end at pages.
PageBounded == \A i \in Available : reported[i].start % Page = 0 /\ reported[i].size % Page = 0

\* For an ordinary map, and any size of the kernel image, no frame that is
\* handed to the frame allocator touches the first MiB or the kernel image,
\* and every frame begins in memory the firmware reported as available; where
\* the entries are page bounded the whole frame is in that memory.
FramesOutsideReserved ==
    bootStep = "done" /\ Ordinary =>
        \A f \in Frames :
            /\ ~Overlap([start |-> f, size |-> Page], Low)
            /\ ~Overlap([start |-> f, size |-> Page], Kernel)
            /\ \E i \in Available :
                /\ f >= reported[i].start /\ f < reported[i].start + reported[i].size
                /\ PageBounded => f + Page <= reported[i].start + reported[i].size

\* The addresses in the entries or regions e[i], i \in I.
Covered(e, I) == UNION {e[i].start .. e[i].start + e[i].size - 1 : i \in I}
FallsInto(a, b) == a.start > b.start /\ a.start + a.size < b.start + b.size

\* A map whose available entries may overlap: of two that do, the later one in
\* the map has the higher start.
Ascending ==
    \A i, j \in Available :
        i < j /\ Overlap(reported[i], reported[j]) => reported[i].start < reported[j].start

\* One entry at most falls into another, and that one begins at address 0.
SplitAtZero ==
    \A i, j, k \in Available :
        i < j /\ FallsInto(reported[j], reported[i]) =>
            /\ reported[i].start = 0
            /\ k # j => ~FallsInto(reported[k], reported[i])

AllParsed == bootStep = "parse" /\ calls = <<>> /\ firmware = <<>> /\ Room(regions)
ExactlyAvailable ==
    /\ \A i, j \in DOMAIN regions : i < j => regions[i].start + regions[i].size <= regions[j].start
    /\ Covered(regions, DOMAIN regions) = Covered(reported, Available)

\* However the entries of such a map overlap, the cuts, splits and sorts of
\* mregmap_fix_overlaps and mregmap_add_reg, called by each other, leave
\* regions that are sorted and apart and cover the available memory exactly.
RegionsExact == AllParsed /\ Ascending /\ SplitAtZero => ExactlyAvailable

\* mregmap_fix_overlaps is to resolve overlaps, for any map: no memory is lost
\* and none made up.  The code does not keep this: a split off address 0 takes
\* the new start off the size of the remainder, which loses memory or wraps,
\* and a region that is removed makes the loop pass over the next one.
SplitsKeepMemory == AllParsed => ExactlyAvailable

\* mm_setup_sys_mregmap says "Remove the 1st MiB": no frame is in it.
\* The code does not keep this.
FirstMibRemoved ==
    bootStep = "done" => \A f \in Frames : f >= Mib
=============================================================================

------------------------------- MODULE Blkdev -------------------------------
(***************************************************************************)
(* Block devices and their partitions (kernel/storage/blkdevm.c,           *)
(* partition.c, mbr.c, blkdev_drv.c).  Devices and partitions are named by *)
(* their place in the list that holds them; a drive letter is a number, a  *)
(* name a pair of a letter and a partition number, as generate_drive_name  *)
(* and generate_suffix make them.                                          *)
(***************************************************************************)
EXTENDS Integers, Sequences, FiniteSets, SequencesExt

CONSTANTS Letters   \* drive letters there are (26)

ASSUME BlkdevAssumption == Letters \in Nat \ {0}

\* A sector 0: whether it has the signature 0xAA55, what its reserved field
\* holds and the four partition slots, each the place and size of a
\* partition, 0 when not used.
Mbr(N) ==
    [signature : {"AA55", "none"}, reserved : {0, 1},
     slots : [1 .. 4 -> [lba : N, count : N]]]

\* mbr_validate.  The second test asks for a signature 0x5A5A that the first
\* has excluded: any reserved value other than 0 is refused.
Valid(mbr) == mbr.signature = "AA55" /\ mbr.reserved = 0

VARIABLES
    blkdevs,    \* g_ata_driver.blkdevs, in order
    mblkdevs,   \* g_mountable_blkdevs, in order
    registered  \* whether g_blkdev_drivers holds the driver

blkdevVars == <<blkdevs, mblkdevs, registered>>

BlkdevInit ==
    /\ blkdevs = <<>>
    /\ mblkdevs = <<>>
    /\ registered = FALSE

\* ide_generate_drive_name: one more than the largest letter of the list.
NextLetter ==
    IF blkdevs = <<>> THEN 0
    ELSE 1 + Max({blkdevs[i].letter : i \in DOMAIN blkdevs})

Used(slot) == slot.lba # 0 /\ slot.count # 0

\* partitiontable_try_create_mbr: the used slots, in order.
Partitions(mbr) ==
    LET first[i \in 0 .. 4] ==   \* of the first i slots
            IF i = 0 THEN <<>>
            ELSE IF Used(mbr.slots[i]) THEN Append(first[i - 1], mbr.slots[i])
            ELSE first[i - 1]
    IN  first[4]

\* Wrong variant: the table is read by partition number, holes included.
MountablesOf_ByIndex(dev, mbr, n) ==
    [k \in 1 .. n |->
        [parent |-> dev, suffix |-> k - 1,
         offset |-> mbr.slots[k].lba, count |-> mbr.slots[k].count]]

\* blkdevm_enumerate_partitions: what it appends to the list for device dev
\* when memory lasts for n partitions.  The uuid made for a partition is not
\* copied.
MountablesOf(dev, mbr, n) ==
    [k \in 1 .. n |->
        [parent |-> dev, suffix |-> k - 1,
         offset |-> Partitions(mbr)[k].lba, count |-> Partitions(mbr)[k].count]]

\* The n of MountablesOf: all, or fewer when an allocation fails; none when
\* sector 0 has no valid MBR.
Counts(mbr) == IF Valid(mbr) THEN 0 .. Len(Partitions(mbr)) ELSE {0}

\* blkdevm_find_mountable_blkdev_by_name: the first of that name, 0 if none.
FindMountable(name) ==
    SelectInSeq(mblkdevs,
        LAMBDA m : blkdevs[m.parent].letter = name[1] /\ m.suffix = name[2])

\* blkdevm_find_raw_blkdev_by_name: among the devices of registered drivers.
FindRaw(letter) ==
    IF registered THEN SelectInSeq(blkdevs, LAMBDA d : d.letter = letter) ELSE 0

-----------------------------------------------------------------------------
\* Names find the device and the partition they were given to, whatever was
\* found on the buses and whatever allocation failed on the way: the letters
\* of generate_drive_name and the numbers of generate_suffix never repeat,
\* and a partition keeps the offset its slot of the MBR gave.
NamesFindPartitions ==
    /\ \A i \in DOMAIN mblkdevs :
        LET m == mblkdevs[i] IN
        /\ m.parent \in DOMAIN blkdevs
        /\ m.offset # 0 /\ m.count # 0
        /\ FindMountable(<<blkdevs[m.parent].letter, m.suffix>>) = i
        /\ \E s \in 1 .. 4 :
            /\ blkdevs[m.parent].mbr.slots[s] = [lba |-> m.offset, count |-> m.count]
            /\ Cardinality({t \in 1 .. s - 1 :
                    LET u == blkdevs[m.parent].mbr.slots[t] IN u.lba # 0 /\ u.count # 0})
               = m.suffix
    /\ \A i \in DOMAIN blkdevs :
        /\ blkdevs[i].letter < Letters
        /\ FindRaw(blkdevs[i].letter) = IF registered THEN i ELSE 0
=============================================================================

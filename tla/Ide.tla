--------------------------------- MODULE Ide ---------------------------------
(***************************************************************************)
(* Storage from the PCI bus to a partition: the walk over the bus (Pci),   *)
(* the IDE driver that looks for drives behind a controller                *)
(* (drivers/storage/ata/ide.c), the devices and partitions it registers    *)
(* (Blkdev) and the transfers their users ask for (Atapio).                *)
(***************************************************************************)
EXTENDS Pci, Blkdev, Atapio

CONSTANTS
    Machines,   \* what can be on the PCI bus: functions as pciHw
    Layouts,    \* the drives there can be in the slots: functions on Slots
    Lbas        \* sector numbers and counts of the transfers asked for

\* The master and the slave of the primary and of the secondary bus.
Slots == {"primary", "secondary"} \X {"master", "slave"}

\* An LBA28 drive counts its sectors in 28 bits.
ASSUME IdeAssumption ==
    /\ Lbas \subseteq Nat
    /\ \A l \in Layouts :
        l \in [Slots -> [kind : {"none", "ata"}, lba48 : BOOLEAN, count28 : 0 .. Lba28,
                       count48 : Nat, mbr : Mbr(Nat)]]

\* The machines pci_enumerate_bus is written for: host bridges other than
\* function 0 of their device are on bus 0, and each has a number, and so a
\* bus, of its own.
HostBridges(hw) == {p \in Places : p[3] > 0 /\ hw[p].class = "host"}
ASSUME MachinesAssumption ==
    \A hw \in Machines :
        /\ hw \in [Places -> Answer]
        /\ \A p \in HostBridges(hw) : p[1] = 0 /\ p[3] < Buses
        /\ \A p, q \in HostBridges(hw) : p[3] = q[3] => p = q

VARIABLES
    bootPc,     \* "pci", "ide" (probing), "register", "ready" or "failed"
    slots,      \* the hardware: the drive in each slot of the two buses
    todo        \* the slots ide_enumerate_bus has still to identify

vars == <<pciVars, blkdevVars, xferVars, bootPc, slots, todo>>

Init ==
    /\ pciHw \in Machines
    /\ slots \in Layouts
    /\ PciInit
    /\ BlkdevInit
    /\ AtapioInit
    /\ bootPc = "pci"
    /\ todo = <<>>

WalkBus ==
    /\ bootPc = "pci"
    /\ PciStep
    /\ UNCHANGED <<blkdevVars, xferVars, bootPc, slots, todo>>

\* ide_probe_pci_device of one controller: the compatibility ports, whatever
\* the controller is, so two controllers find the same drives twice.
ProbeOrder ==
    << <<"primary", "master">>, <<"primary", "slave">>,
       <<"secondary", "master">>, <<"secondary", "slave">> >>

\* The slots n controllers are probed for.
Probes(n) == [i \in 1 .. 4 * n |-> ProbeOrder[((i - 1) % 4) + 1]]

\* ide_main begins: pci_register_device_driver probes, or has no memory.
IdeMain ==
    /\ bootPc = "pci"
    /\ pciStack = <<>>
    /\ \/ /\ bootPc' = "ide"
          /\ todo' = Probes(Cardinality(Matching("ide")))
          /\ pciDevs' = Bound("ide")
       \/ /\ bootPc' = "failed"
          /\ UNCHANGED <<todo, pciDevs>>
    /\ UNCHANGED <<pciHw, pciStack, pciShort, blkdevVars, xferVars, slots>>

\* ide_identify_drive gives up: no drive, not an ATA drive, a drive that stays
\* busy or reports an error, no memory or no letter left.
GiveUp ==
    /\ bootPc = "ide"
    /\ todo # <<>>
    /\ todo' = Tail(todo)
    /\ UNCHANGED <<pciVars, blkdevVars, xferVars, bootPc, slots>>

\* The sectors of a drive as words 60-61, or 100-103 of an LBA48 drive, say.
SectorCount(d) == IF d.lba48 THEN d.count48 ELSE d.count28

\* What reading sector 0 gives: the MBR, or bytes that are none when the drive
\* was not ready.
Sector0(d) == {d.mbr, [d.mbr EXCEPT !.signature = "none"]}

\* ide_identify_drive finds a drive, which is added to the driver's list with
\* a letter, and blkdevm_enumerate_partitions adds its partitions.
IdentifyDrive ==
    /\ bootPc = "ide"
    /\ todo # <<>>
    /\ LET d == slots[Head(todo)]
           dev == [letter |-> NextLetter, slot |-> Head(todo), lba48 |-> d.lba48,
                   sectors |-> SectorCount(d), mbr |-> d.mbr]
       IN  /\ d.kind = "ata"
           /\ NextLetter < Letters
           /\ blkdevs' = Append(blkdevs, dev)
           /\ IF ValidRange(0, 1, dev.sectors)
              THEN \E mbr \in Sector0(d) : \E n \in Counts(mbr) :
                    mblkdevs' = mblkdevs \o MountablesOf(Len(blkdevs'), mbr, n)
              ELSE UNCHANGED mblkdevs
    /\ todo' = Tail(todo)
    /\ UNCHANGED <<pciVars, xferVars, bootPc, slots, registered>>

\* ide_main goes on with blkdevm_register_blkdev_driver.  The driver has no
\* init.  Without memory the PCI driver is taken back, the drives and their
\* partitions stay where they are.
RegisterDriver ==
    /\ bootPc = "ide"
    /\ todo = <<>>
    /\ \/ /\ bootPc' = "ready"
          /\ registered' = TRUE
          /\ UNCHANGED pciDevs
       \/ /\ bootPc' = "failed"
          /\ pciDevs' = Unbound("ide")
          /\ UNCHANGED registered
    /\ UNCHANGED <<pciHw, pciStack, pciShort, blkdevs, mblkdevs, xferVars, slots, todo>>

\* A user of a device that FindRaw gives asks for a transfer, or a user of a
\* partition: partition_generic_read and _write add the partition's offset
\* and leave the range to the device's own check.
UseDevice(op, i, lba, n) ==
    StartTransfer(op, blkdevs[i].lba48, blkdevs[i].sectors, lba, n)

UsePartition(op, k, lba, n) ==
    LET m == mblkdevs[k] IN UseDevice(op, m.parent, m.offset + lba, n)

Transfer ==
    /\ bootPc \in {"ready", "failed"}
    /\ \E op \in {"read", "write"}, lba \in Lbas, n \in Lbas :
        \/ \E i \in DOMAIN blkdevs : registered /\ UseDevice(op, i, lba, n)
        \/ \E k \in DOMAIN mblkdevs : UsePartition(op, k, lba, n)
    /\ UNCHANGED <<pciVars, blkdevVars, bootPc, slots, todo>>

TransferStep ==
    /\ AtapioStep
    /\ UNCHANGED <<pciVars, blkdevVars, bootPc, slots, todo>>

\* ide_exit: blkdevm_unregister_blkdev_driver.  The driver has no destroy, and
\* the devices and partitions are left.
IdeExit ==
    /\ bootPc = "ready"
    /\ registered
    /\ registered' = FALSE
    /\ UNCHANGED <<pciVars, blkdevs, mblkdevs, xferVars, bootPc, slots, todo>>

Next ==
    \/ WalkBus
    \/ IdeMain
    \/ GiveUp
    \/ IdentifyDrive
    \/ RegisterDriver
    \/ Transfer
    \/ TransferStep
    \/ IdeExit

\* The kernel goes on by itself, and the tick interrupt comes also while it
\* polls; the drive need never be ready.
Spec ==
    /\ Init
    /\ [][Next]_vars
    /\ WF_vars(TransferStep /\ KernelStep)
    /\ WF_vars(TransferStep /\ AtaTick)
=============================================================================

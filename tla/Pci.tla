-------------------------------- MODULE Pci ---------------------------------
(***************************************************************************)
(* The PCI bus (drivers/buses/pci/pci.c, pci_x86.c): the walk over the     *)
(* buses at boot, which recurses into the bus behind a host bridge, and    *)
(* the binding of drivers to devices.  The hardware is a function from     *)
(* <<bus, device, function>> to what answers there.                        *)
(***************************************************************************)
EXTENDS Integers, Sequences, FiniteSets, SequencesExt

CONSTANTS
    Buses, Devices, \* numbers of buses and of devices on a bus (32)
    Functions       \* functions of a device (8)

ASSUME PciAssumption ==
    /\ Buses \in Nat \ {0}
    /\ Devices \in Nat \ {0}
    /\ Functions \in Nat \ {0}

Places == (0 .. Buses - 1) \X (0 .. Devices - 1) \X (0 .. Functions - 1)

\* What the configuration space of a place says: its class and subclass, and
\* whether the multifunction bit of its header type is set.
Classes == {"absent", "host", "ide", "other"}
Answer == [class : Classes, multi : BOOLEAN]

VARIABLES
    pciHw,      \* the hardware: [Places -> Answer]
    pciStack,   \* the frames of pci_enumerate_bus that are running
    pciDevs,    \* g_pci_devs
    pciShort    \* a registration has run out of memory

pciVars == <<pciHw, pciStack, pciDevs, pciShort>>

\* pci_read_vendor_id of 0xFFFF: nothing answers.
Absent(p) == pciHw[p].class = "absent"

\* pci_device_is_multifunction looks at function 0 of the device.
IsMultifunction(p) == pciHw[<<p[1], p[2], 0>>].multi

\* pci_device_is_host_bridge.
IsHostBridge(p) == pciHw[p].class = "host"

\* pci_register_device.  The device comes from kmalloc and its driver field is
\* not written: it is whatever the memory held, NULL or not.
NewDevice(p, d) == [place |-> p, class |-> pciHw[p].class, driver |-> d]

\* The place after p in the loops of pci_enumerate_bus.
NextDevice(p) == <<p[1], p[2] + 1, 0>>
NextFunction(p) ==
    IF p[3] + 1 < Functions THEN <<p[1], p[2], p[3] + 1>> ELSE NextDevice(p)

\* pci_enumerate_devices.
PciInit ==
    /\ pciStack = IF pciHw[<<0, 0, 0>>].class = "absent" THEN <<>>
                  ELSE << <<0, 0, 0>> >>
    /\ pciDevs = <<>>
    /\ pciShort = FALSE

Frame == Head(pciStack)
Goto(p) == pciStack' = <<p>> \o Tail(pciStack)

\* The loop over the devices of a bus ends.
BusDone ==
    /\ pciStack # <<>>
    /\ Frame[2] = Devices
    /\ pciStack' = Tail(pciStack)
    /\ UNCHANGED <<pciHw, pciDevs, pciShort>>

\* Nothing there: the next device, or the next function of a device.
SkipPlace ==
    /\ pciStack # <<>>
    /\ Frame[2] < Devices
    /\ Absent(Frame)
    /\ Goto(IF Frame[3] = 0 THEN NextDevice(Frame) ELSE NextFunction(Frame))
    /\ UNCHANGED <<pciHw, pciDevs, pciShort>>

\* Wrong variant: a bridge sends the walk to the bus it is on.
AfterFunction_SameBus(p) ==
    LET rest == <<NextFunction(p)>> \o Tail(pciStack) IN
    IF IsHostBridge(p) /\ p[1] = 0 THEN << <<p[1], 1, 0>> >> \o rest ELSE rest

\* Where the walk goes on from a function other than 0: into the bus that has
\* the number of the function when it is a host bridge.
AfterFunction(p) ==
    LET rest == <<NextFunction(p)>> \o Tail(pciStack) IN
    IF IsHostBridge(p) THEN << <<p[3], 0, 0>> >> \o rest ELSE rest

\* A device is registered.
RegisterPlace ==
    /\ pciStack # <<>>
    /\ Frame[2] < Devices
    /\ ~Absent(Frame)
    /\ \E d \in {"none", "garbage"} : pciDevs' = Append(pciDevs, NewDevice(Frame, d))
    /\ IF Frame[3] > 0 THEN pciStack' = AfterFunction(Frame)
       ELSE Goto(IF IsMultifunction(Frame) THEN NextFunction(Frame)
                 ELSE NextDevice(Frame))
    /\ UNCHANGED <<pciHw, pciShort>>

\* Registration runs out of memory: of function 0, the rest of the bus is not
\* looked at; of another function, the walk goes on.
RegisterFails ==
    /\ pciStack # <<>>
    /\ Frame[2] < Devices
    /\ ~Absent(Frame)
    /\ pciStack' = IF Frame[3] > 0 THEN AfterFunction(Frame) ELSE Tail(pciStack)
    /\ pciShort' = TRUE
    /\ UNCHANGED <<pciHw, pciDevs>>

PciStep == BusDone \/ SkipPlace \/ RegisterPlace \/ RegisterFails

\* pci_register_device_driver: where the devices of a class that have no
\* driver are.  The break after a successful probe leaves the inner of the two
\* loops of FOR_EACH_ENTRY_IN_LL only, so every one of them is probed.
Matching(c) ==
    {i \in DOMAIN pciDevs : pciDevs[i].class = c /\ pciDevs[i].driver = "none"}
Bound(c) ==
    [i \in DOMAIN pciDevs |->
        IF i \in Matching(c) THEN [pciDevs[i] EXCEPT !.driver = c]
        ELSE pciDevs[i]]

\* pci_unregister_device_driver.
Unbound(c) ==
    [i \in DOMAIN pciDevs |->
        IF pciDevs[i].driver = c THEN [pciDevs[i] EXCEPT !.driver = "none"]
        ELSE pciDevs[i]]

-----------------------------------------------------------------------------
\* The places a machine has: those on bus 0 and on the buses that have the
\* number of a host bridge function other than 0.
OnBus(b) ==
    {p \in Places : /\ p[1] = b
                    /\ ~Absent(p)
                    /\ ~Absent(<<b, p[2], 0>>)
                    /\ p[3] > 0 => IsMultifunction(p)}
Bridged == {p[3] : p \in {q \in OnBus(0) : q[3] > 0 /\ IsHostBridge(q)}}
Reachable == OnBus(0) \cup UNION {OnBus(b) : b \in Bridged}

\* The walk of pci_enumerate_bus registers every function of the machine that
\* can be reached exactly once, across its recursion into other buses, and
\* never one that is not there; without memory it registers some of them.
PciExact ==
    LET places == [i \in DOMAIN pciDevs |-> pciDevs[i].place] IN
    /\ Range(places) \subseteq Reachable
    /\ IsInjective(places)
    /\ pciStack = <<>> /\ ~pciShort /\ ~Absent(<<0, 0, 0>>) =>
            Range(places) = Reachable
=============================================================================

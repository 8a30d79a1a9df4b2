------------------------------- MODULE Serialio -------------------------------
(***************************************************************************)
(* The registry of serial devices and drivers                              *)
(* (drivers/input/serialio/serialio.c).  Drivers and devices live at       *)
(* addresses the allocator hands out again once they are freed.            *)
(***************************************************************************)
EXTENDS Integers, Sequences, SequencesExt

CONSTANTS
    DriverSpecs,   \* the names and majors drivers register with
    DeviceSpecs,   \* the names, majors and minors of devices
    Address        \* where drivers and devices are allocated

NoMaj    == 0
NoName   == "no name"
NoDriver == 0

ASSUME SerialioAssumption ==
    /\ Address \subseteq Nat \ {NoDriver}
    /\ \A s \in DriverSpecs \cup DeviceSpecs : s.maj \in Nat

VARIABLES
    drvs,   \* g_serial_drvs
    devs,   \* g_serial_devs
    held,   \* <<driver, device>>: the device has been given to the driver by a
            \* try_link that succeeded and not been taken back by unlink
    tried   \* the devices some driver's try_link has been called on

serialioVars == <<drvs, devs, held, tried>>

SerialioInit == drvs = <<>> /\ devs = <<>> /\ held = {} /\ tried = {}

Free == Address \ ({d.at : d \in ToSet(drvs)} \cup {d.at : d \in ToSet(devs)})

CheckMatch(dev, drv) ==
    IF dev.maj = NoMaj /\ drv.maj = NoMaj THEN dev.name = drv.name
    ELSE dev.maj # NoMaj /\ drv.maj # NoMaj /\ dev.maj = drv.maj

\* Indices of the entries of a list for which something holds, first first.
FirstOf(S) == CHOOSE i \in S : \A j \in S : i <= j

-----------------------------------------------------------------------------
\* serialio_new_drv_from's refusals.
DrvRefused(spec) ==
    \/ spec.maj = NoMaj /\ spec.name = NoName
    \/ spec.maj # NoMaj /\ \E d \in ToSet(drvs) : d.maj = spec.maj
    \/ spec.name # NoName /\ \E d \in ToSet(drvs) : d.name = spec.name

\* serialio_new_drv_from: the new driver is offered the first device without
\* a driver that matches.  The driver stays registered if it declines.
NewDrv(spec, accepts) ==
    \E at \in Free :
        LET drv == [at |-> at, name |-> spec.name, maj |-> spec.maj]
            fit == {i \in DOMAIN devs : devs[i].driver = NoDriver /\ CheckMatch(devs[i], drv)}
            i   == FirstOf(fit)
        IN  /\ ~DrvRefused(spec)
            /\ drvs' = Append(drvs, drv)
            /\ IF fit = {} THEN UNCHANGED <<devs, held, tried>>
               ELSE /\ tried' = tried \cup {devs[i].at}
                    /\ devs' = IF accepts THEN [devs EXCEPT ![i].driver = at] ELSE devs
                    /\ held' = IF accepts THEN held \cup {<<at, devs[i].at>>} ELSE held

\* No memory, or refused.
NewDrvFails(spec) == DrvRefused(spec) /\ UNCHANGED serialioVars

\* Where in the list the devices linked to a driver are.
LinkedTo(drv) == {i \in DOMAIN devs : devs[i].driver = drv.at}

\* Wrong variant: the devices keep their links.
Unlinked_None(gone) == devs

\* The list of devices with those at the places in gone unlinked.
Unlinked(gone) ==
    [i \in DOMAIN devs |->
        IF i \in gone THEN [devs[i] EXCEPT !.driver = NoDriver] ELSE devs[i]]

\* serialio_delete_drv_by_name.  The driver gives back its devices in the order
\* of the list, up to one it refuses; it is deleted and freed if it refuses
\* none.
DeleteDrv(k, stop) ==
    LET drv  == drvs[k]
        gone == {i \in LinkedTo(drv) : i < stop}
    IN  /\ drv.name # NoName
        /\ devs' = Unlinked(gone)
        /\ held' = held \ {<<drv.at, devs[i].at>> : i \in gone}
        /\ drvs' = IF gone = LinkedTo(drv) THEN RemoveAt(drvs, k) ELSE drvs
        /\ UNCHANGED tried

-----------------------------------------------------------------------------
DevRefused(spec) ==
    \/ spec.maj = NoMaj /\ spec.name = NoName
    \/ spec.name # NoName /\ \E d \in ToSet(devs) : d.name = spec.name /\ d.min = spec.min
    \/ spec.maj # NoMaj /\ \E d \in ToSet(devs) : d.maj = spec.maj /\ d.min = spec.min

\* serialio_new_dev: the first driver that matches is asked.  The device stays
\* registered if the driver declines.
NewDev(spec, accepts) ==
    \E at \in Free :
        LET dev == [at |-> at, name |-> spec.name, maj |-> spec.maj, min |-> spec.min,
                    driver |-> NoDriver]
            fit == {i \in DOMAIN drvs : CheckMatch(dev, drvs[i])}
            drv == drvs[FirstOf(fit)]
        IN  /\ ~DevRefused(spec)
            /\ UNCHANGED drvs
            /\ IF fit = {}
               THEN devs' = Append(devs, dev) /\ tried' = tried \ {at} /\ UNCHANGED held
               ELSE /\ tried' = tried \cup {at}
                    /\ devs' = Append(devs, IF accepts THEN [dev EXCEPT !.driver = drv.at] ELSE dev)
                    /\ held' = IF accepts THEN held \cup {<<drv.at, at>>} ELSE held

NewDevFails(spec) == DevRefused(spec) /\ UNCHANGED serialioVars

\* serialio_delete_dev_by_name: the first device of that name.
DeleteDev(name, unlinks) ==
    LET named == {i \in DOMAIN devs : devs[i].name = name}
        i     == FirstOf(named)
        dev   == devs[i]
    IN  /\ named # {}
        /\ dev.driver # NoDriver => unlinks
        /\ devs' = RemoveAt(devs, i)
        /\ held' = held \ {<<dev.driver, dev.at>>}
        /\ tried' = tried \ {dev.at}
        /\ UNCHANGED drvs

DeleteDevFails(name) ==
    /\ \E d \in ToSet(devs) : d.name = name /\ d.driver # NoDriver
    /\ UNCHANGED serialioVars

SerialioNext ==
    \/ \E spec \in DriverSpecs : NewDrvFails(spec) \/ \E accepts \in BOOLEAN : NewDrv(spec, accepts)
    \/ \E spec \in DeviceSpecs : NewDevFails(spec) \/ \E accepts \in BOOLEAN : NewDev(spec, accepts)
    \/ \E k \in DOMAIN drvs : \E stop \in LinkedTo(drvs[k]) \cup {Len(devs) + 1} : DeleteDrv(k, stop)
    \/ \E spec \in DeviceSpecs :
            /\ spec.name # NoName
            /\ DeleteDevFails(spec.name) \/ DeleteDev(spec.name, TRUE)

-----------------------------------------------------------------------------
\* A device's driver is registered, holds the device, and is the only
\* registered driver that matches it; a driver holds no other devices.  Since
\* addresses are reused, this rules out a device left with the address of a
\* driver that was deleted, and drivers or devices registered twice.
LinksAgree ==
    /\ held = {<<d.driver, d.at>> : d \in {e \in ToSet(devs) : e.driver # NoDriver}}
    /\ \A dev \in ToSet(devs) : dev.driver # NoDriver =>
            {d.at : d \in {e \in ToSet(drvs) : CheckMatch(dev, e)}} = {dev.driver}
    /\ \A i, j \in DOMAIN devs : i # j =>
            /\ devs[i].at # devs[j].at
            /\ devs[i].min = devs[j].min /\ devs[i].maj = devs[j].maj => devs[i].maj = NoMaj
            /\ devs[i].min = devs[j].min /\ devs[i].name = devs[j].name => devs[i].name = NoName

\* Every device that matches a registered driver has been offered to it:
\* serialio.h says that try_link is called on a device that matches.
\* The code does not keep this.
MatchesAreTried ==
    \A dev \in ToSet(devs), drv \in ToSet(drvs) : CheckMatch(dev, drv) => dev.at \in tried
=============================================================================

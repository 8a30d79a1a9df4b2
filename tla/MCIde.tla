------------------------------- MODULE MCIde --------------------------------
(***************************************************************************)
(* Storage on small machines: two buses of two devices of two functions,   *)
(* with and without a bridge and a second IDE controller, a drive with a   *)
(* partition table that has a hole, one without a table.                   *)
(***************************************************************************)
EXTENDS Ide

\* A machine in which the places of f answer and the others do not.
Machine(f) ==
    [p \in Places |-> IF p \in DOMAIN f THEN f[p] ELSE [class |-> "absent", multi |-> FALSE]]

At(p, class, multi) == p :> [class |-> class, multi |-> multi]

MCMachines ==
    {Machine(At(<<0, 0, 0>>, "other", FALSE) @@ At(<<0, 1, 0>>, "ide", FALSE)),
     Machine(At(<<0, 0, 0>>, "host", TRUE) @@ At(<<0, 0, 1>>, "host", FALSE)
             @@ At(<<0, 1, 0>>, "ide", FALSE)
             @@ At(<<1, 1, 0>>, "ide", FALSE)),
     Machine(At(<<0, 1, 0>>, "ide", FALSE))}

Slot(lba, count) == [lba |-> lba, count |-> count]
Table == [signature |-> "AA55", reserved |-> 0,
          slots |-> <<Slot(1, 2), Slot(0, 0), Slot(3, 2), Slot(0, 0)>>]

NoDrive == [kind |-> "none", lba48 |-> FALSE, count28 |-> 0, count48 |-> 0, mbr |-> Table]
Parted == [NoDrive EXCEPT !.kind = "ata", !.count28 = 5]
Blank == [NoDrive EXCEPT !.kind = "ata", !.lba48 = TRUE, !.count48 = 5,
          !.mbr.signature = "none"]

Layout(a, b) ==
    [s \in Slots |-> CASE s = <<"primary", "master">> -> a
                      [] s = <<"secondary", "slave">> -> b
                      [] OTHER -> NoDrive]

MCLayouts == {Layout(Parted, Blank)}
=============================================================================

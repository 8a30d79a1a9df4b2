---------------------------- MODULE StorageProofs ----------------------------
(***************************************************************************)
(* Storage: transfers of sectors (TransferExact), the names of drives and  *)
(* partitions (NamesFindPartitions) and the walk over the PCI buses        *)
(* (PciExact), for every machine and layout of the drives; and a FAT       *)
(* volume, where its clusters are (ClustersInsideVolume) and what a read   *)
(* returns (ReadsAreExact).                                                *)
(***************************************************************************)
EXTENDS Ide, Fat, FiniteSetTheorems, WellFoundedInduction, TLAPS

\* Every set of natural numbers that has a member has a least one.
LEMMA LeastNatural ==
    ASSUME NEW T \in SUBSET Nat, T # {}
    PROVE  \E x \in T : \A y \in T : x <= y
<1>1. ASSUME NEW R, R = OpToRel(<, Nat)
      PROVE  IsWellFoundedOn(R, Nat) /\ \A x \in Nat, y \in Nat : y < x => <<y, x>> \in R
  <2>1. IsWellFoundedOn(R, Nat)
    BY <1>1, NatLessThanWellFounded, Zenon
  <2>2. \A x \in Nat, y \in Nat : y < x => <<y, x>> \in R
    BY <1>1, Zenon DEF OpToRel
  <2> QED BY <2>1, <2>2
<1>2. \E R : R = OpToRel(<, Nat)
  BY Zenon
<1>3. PICK R : IsWellFoundedOn(R, Nat) /\ \A x \in Nat, y \in Nat : y < x => <<y, x>> \in R
  BY <1>1, <1>2, Zenon
<1>4. PICK x \in T : \A y \in T : ~(<<y, x>> \in R)
  BY <1>3, WFMin
<1>5. \A y \in T : ~(y < x)
  BY <1>3, <1>4
<1> QED BY <1>5

LEMMA Elements ==
    ASSUME NEW S, NEW s \in Seq(S), NEW i \in 1 .. Len(s)
    PROVE  s[i] \in S
OBVIOUS

LEMMA Appended ==
    ASSUME NEW S, NEW s \in Seq(S), NEW e \in S
    PROVE  /\ Append(s, e) \in Seq(S) /\ Len(Append(s, e)) = Len(s) + 1
           /\ DOMAIN Append(s, e) = 1 .. Len(s) + 1
           /\ \A i \in 1 .. Len(s) : Append(s, e)[i] = s[i]
           /\ Append(s, e)[Len(s) + 1] = e
OBVIOUS

-----------------------------------------------------------------------------
(* Transfers (Atapio).                                                     *)

Runs == [at : Nat, n : Nat]
Transfers ==
    [st : {"command", "sector", "flush", "advance", "done"}, op : {"read", "write"},
     sectors : Nat, lba48 : BOOLEAN, first : Nat, asked : Nat \ {0}, lba : Nat, left : Nat,
     sector : Nat, clock : Nat, moved : Seq(Int), sent : Seq(Runs), heard : BOOLEAN]

\* The call is inside the drive, and a drive without LBA48 inside what LBA28
\* reaches; what is left begins where the loop is.
InRange ==
    /\ xfer.first + xfer.asked <= xfer.sectors
    /\ ~xfer.lba48 => xfer.sectors <= Lba28
    /\ xfer.lba + xfer.left = xfer.first + xfer.asked
    /\ xfer.lba >= xfer.first

MovedInOrder ==
    \A i \in DOMAIN xfer.moved : xfer.moved[i] = xfer.first + i - 1

\* How far the loops have come in each state.
Progress ==
    CASE xfer.st = "command" ->
            xfer.left > 0 /\ Len(xfer.moved) = xfer.lba - xfer.first
      [] xfer.st = "sector" ->
            xfer.sector < Working /\ Len(xfer.moved) = xfer.lba - xfer.first + xfer.sector
      [] xfer.st \in {"flush", "advance"} ->
            xfer.left > 0 /\ Len(xfer.moved) = xfer.lba - xfer.first + Working
      [] xfer.st = "done" ->
            Len(xfer.moved) = xfer.asked

\* Where the drive is: with the loop, and due what the loop has still to move
\* where both mean the same count.
InStep ==
    /\ xfer.st = "sector" =>
        /\ drive.due > 0 => drive.at = xfer.lba + xfer.sector
        /\ CountsAgree => drive.due = Working - xfer.sector
    /\ xfer.st \in {"flush", "advance", "done"} /\ CountsAgree => drive.due = 0

XferInv ==
    /\ drive \in [at : Nat, due : Nat]
    /\ \/ xfer = Idle
       \/ /\ xfer \in Transfers /\ InRange /\ (CountsAgree => SentInRange)
          /\ Clean => MovedInOrder /\ InStep
          /\ Progress

LEMMA XferInitial == AtapioInit => XferInv
BY DEF AtapioInit, AtRest, XferInv

LEMMA XferInvImplies == XferInv => TransferExact
<1> SUFFICES ASSUME XferInv PROVE TransferExact
  OBVIOUS
<1>1. CASE xfer = Idle
  <2>1. xfer.st = "idle" /\ xfer.moved = <<>> /\ xfer.sent = <<>>
    BY <1>1 DEF Idle
  <2> QED BY <2>1 DEF TransferExact, SentInRange
<1>2. CASE xfer # Idle
  <2>1. /\ xfer \in Transfers /\ (CountsAgree => SentInRange)
        /\ (Clean => MovedInOrder /\ InStep) /\ Progress
    BY <1>2 DEF XferInv
  <2>2. Clean /\ CountsAgree =>
            /\ xfer.st = "sector" => drive.due = Working - xfer.sector
            /\ xfer.st = "done" => drive.due = 0
    BY <2>1 DEF InStep
  <2>3. xfer.st = "done" => Len(xfer.moved) = xfer.asked
    BY <2>1 DEF Progress
  <2> QED BY <2>1, <2>2, <2>3 DEF TransferExact, MovedInOrder
<1> QED BY <1>1, <1>2

\* atapio_read and atapio_write up to their loop.
LEMMA StartKeeps ==
    ASSUME XferInv, NEW op \in {"read", "write"}, NEW lba48 \in BOOLEAN,
           NEW sectors \in Nat, NEW lba \in Nat, NEW n \in Nat,
           ~lba48 => sectors <= Lba28,
           StartTransfer(op, lba48, sectors, lba, n)
    PROVE  XferInv'
<1>1. /\ lba <= sectors /\ n # 0 /\ n <= sectors - lba
      /\ drive' \in [at : Nat, due : Nat]
  BY DEF StartTransfer, ValidRange, XferInv, AtRest
<1>2. xfer' = [st |-> "command", op |-> op, sectors |-> sectors, lba48 |-> lba48,
               first |-> lba, asked |-> n, lba |-> lba, left |-> n, sector |-> 0, clock |-> 0,
               moved |-> <<>>, sent |-> <<>>, heard |-> TRUE]
  BY DEF StartTransfer, Idle
<1>3. xfer' \in Transfers
  BY <1>1, <1>2 DEF Transfers
<1>4. InRange' /\ SentInRange' /\ MovedInOrder' /\ InStep'
  BY <1>1, <1>2 DEF InRange, SentInRange, MovedInOrder, InStep
<1>5. Progress'
  BY <1>1, <1>2 DEF Progress
<1> QED BY <1>1, <1>3, <1>4, <1>5 DEF XferInv

\* A call that is running, with its fields by name.
LEMMA XferFields ==
    ASSUME XferInv, xfer.st # "idle"
    PROVE  /\ xfer \in Transfers /\ InRange /\ (CountsAgree => SentInRange)
           /\ (Clean => MovedInOrder /\ InStep) /\ Progress
           /\ xfer.sectors \in Nat /\ xfer.first \in Nat /\ xfer.asked \in Nat \ {0} /\ xfer.lba \in Nat
           /\ xfer.left \in Nat /\ xfer.sector \in Nat /\ xfer.moved \in Seq(Int) /\ xfer.sent \in Seq(Runs)
           /\ Len(xfer.moved) \in Nat /\ DOMAIN xfer.moved = 1 .. Len(xfer.moved)
           /\ Len(xfer.sent) \in Nat /\ DOMAIN xfer.sent = 1 .. Len(xfer.sent)
           /\ drive.at \in Nat /\ drive.due \in Nat
           /\ Working \in Nat /\ Working <= xfer.left /\ Working <= Chunk
           /\ xfer.left > 0 => Working > 0
           /\ Chunk \in Nat \ {0} /\ Lba28 \in Nat \ {0}
<1>1. xfer # Idle
  BY DEF Idle
<1>2. /\ xfer \in Transfers /\ InRange /\ (CountsAgree => SentInRange)
      /\ (Clean => MovedInOrder /\ InStep) /\ Progress /\ drive \in [at : Nat, due : Nat]
  BY <1>1 DEF XferInv
<1>3. /\ xfer.sectors \in Nat /\ xfer.first \in Nat /\ xfer.asked \in Nat \ {0} /\ xfer.lba \in Nat
      /\ xfer.left \in Nat /\ xfer.sector \in Nat /\ xfer.moved \in Seq(Int) /\ xfer.sent \in Seq(Runs)
  BY <1>2 DEF Transfers
<1>4. /\ Len(xfer.moved) \in Nat /\ DOMAIN xfer.moved = 1 .. Len(xfer.moved)
      /\ Len(xfer.sent) \in Nat /\ DOMAIN xfer.sent = 1 .. Len(xfer.sent)
  BY <1>3
<1>5. Chunk \in Nat \ {0} /\ Lba28 \in Nat \ {0}
  BY AtapioAssumption
<1>6. /\ Working \in Nat /\ Working <= xfer.left /\ Working <= Chunk
      /\ xfer.left > 0 => Working > 0
  BY <1>3, <1>5 DEF Working
<1> QED BY <1>2, <1>3, <1>4, <1>5, <1>6

\* atapio_send_read_cmd and atapio_send_write_cmd: the command starts where
\* the loop is, in 28 bits too, and asks for what the loop is going to move.
LEMMA SendCommandKeeps == XferInv /\ SendCommand => XferInv'
<1> SUFFICES ASSUME XferInv, SendCommand PROVE XferInv'
  OBVIOUS
<1>1. xfer.st = "command"
  BY DEF SendCommand
<1> USE XferFields
<1>2. xfer.left > 0 /\ Len(xfer.moved) = xfer.lba - xfer.first
  BY <1>1 DEF Progress
<1>3. /\ xfer.first + xfer.asked <= xfer.sectors
      /\ ~xfer.lba48 => xfer.sectors <= Lba28
      /\ xfer.lba + xfer.left = xfer.first + xfer.asked
      /\ xfer.lba >= xfer.first
  BY <1>1 DEF InRange
<1>4. ~xfer.lba48 => xfer.lba % Lba28 = xfer.lba
  <2> SUFFICES ASSUME ~xfer.lba48 PROVE xfer.lba % Lba28 = xfer.lba
    OBVIOUS
  <2>1. PICK a, m : a = xfer.lba /\ m = Lba28
    OBVIOUS
  <2>2. a \in Nat /\ m \in Nat \ {0} /\ a < m
    BY <1>1, <1>2, <1>3, <2>1
  <2> HIDE XferFields
  <2>3. a % m = a
    BY <2>2
  <2> QED BY <2>1, <2>3
<1>5. PICK w : w = Working
  OBVIOUS
<1>6. w \in Nat /\ w > 0 /\ w <= xfer.left /\ w <= Chunk
  BY <1>1, <1>2, <1>5
<1>7. PICK d : /\ d \in Nat
               /\ DriveRun(xfer.lba48, xfer.lba, InternalSectors(w)) = [at |-> xfer.lba, due |-> d]
               /\ CountsAgree => d = w
  <2>1. Chunk48 \in Nat /\ Chunk \in Nat /\ xfer.lba48 \in BOOLEAN /\ xfer.left \in Nat
        /\ xfer.asked \in Nat
    <3>1. xfer \in Transfers
      BY <1>1
    <3> HIDE XferFields
    <3> QED BY <3>1, AtapioAssumption DEF Transfers
  <2>2. w <= xfer.asked
    BY <1>1, <1>3, <1>6
  <2> HIDE XferFields
  <2>3. PICK c : c = InternalSectors(w)
    OBVIOUS
  <2>4. c \in Nat /\ (c # 0 => c = w) /\ (c = 0 <=> w >= Chunk)
    BY ONLY <1>6, <2>1, <2>3 DEF InternalSectors
  <2>5. PICK d \in Nat : d = IF c # 0 THEN c ELSE IF xfer.lba48 THEN Chunk48 ELSE Chunk
    BY ONLY <2>1, <2>4
  <2>6. DriveRun(xfer.lba48, xfer.lba, InternalSectors(w)) = [at |-> xfer.lba, due |-> d]
    BY ONLY <2>3, <2>5 DEF DriveRun
  <2>7. CountsAgree => d = w
    <3>1. CASE c # 0
      BY ONLY <2>4, <2>5, <3>1
    <3>2. CASE c = 0
      <4>1. w = Chunk
        BY ONLY <1>6, <2>1, <2>4, <3>2
      <4>2. CountsAgree => ~xfer.lba48
        BY ONLY <2>1, <2>2, <4>1 DEF CountsAgree
      <4> QED BY ONLY <2>5, <3>2, <4>1, <4>2
    <3> QED BY ONLY <3>1, <3>2
  <2> QED BY ONLY <2>5, <2>6, <2>7
<1> DEFINE run == [at |-> xfer.lba, due |-> d]
           req == [at |-> xfer.lba, n |-> d]
<1>8. /\ drive' \in IF drive.due = 0 THEN {run} ELSE {drive, run, AtRest}
      /\ xfer' = [xfer EXCEPT !.st = "sector", !.sector = 0, !.clock = 0,
                  !.heard = @ /\ drive.due = 0, !.sent = Append(@, req)]
  <2> HIDE XferFields
  <2>1. PICK l : l = IF xfer.lba48 THEN xfer.lba ELSE xfer.lba % Lba28
    OBVIOUS
  <2>2. l = xfer.lba
    BY <1>4, <2>1
  <2>3. DriveRun(xfer.lba48, l, InternalSectors(Working)) = run
    BY <1>5, <1>7, <2>2
  <2>4. run.due = d
    OBVIOUS
  <2>5. PICK u : u = run
    OBVIOUS
  <2>6. DriveRun(xfer.lba48, l, InternalSectors(Working)) = u /\ u.due = d
    BY ONLY <2>3, <2>4, <2>5
  <2>7. /\ drive' \in IF drive.due = 0 THEN {u} ELSE {drive, u, AtRest}
        /\ xfer' = [xfer EXCEPT !.st = "sector", !.sector = 0, !.clock = 0,
                    !.heard = @ /\ drive.due = 0, !.sent = Append(@, [at |-> l, n |-> u.due])]
    BY ONLY <2>1, <2>6, SendCommand DEF SendCommand
  <2> QED BY ONLY <2>2, <2>5, <2>6, <2>7
<1>9. req \in Runs /\ run \in [at : Nat, due : Nat]
  BY <1>1, <1>7 DEF Runs
<1>17. drive' \in [at : Nat, due : Nat] /\ (drive.due = 0 => drive' = run)
  BY <1>8, <1>9 DEF AtRest, XferInv
<1>10. /\ Append(xfer.sent, req) \in Seq(Runs)
       /\ DOMAIN Append(xfer.sent, req) = 1 .. Len(xfer.sent) + 1
       /\ \A i \in 1 .. Len(xfer.sent) : Append(xfer.sent, req)[i] = xfer.sent[i]
       /\ Append(xfer.sent, req)[Len(xfer.sent) + 1] = req
  BY <1>1, <1>9, Appended
<1>18. PICK h \in BOOLEAN : h = (xfer.heard /\ drive.due = 0)
  OBVIOUS
<1>11. /\ xfer' \in Transfers
       /\ xfer'.st = "sector" /\ xfer'.sector = 0 /\ xfer'.sent = Append(xfer.sent, req)
       /\ xfer'.sectors = xfer.sectors /\ xfer'.lba48 = xfer.lba48 /\ xfer'.first = xfer.first
       /\ xfer'.asked = xfer.asked /\ xfer'.lba = xfer.lba /\ xfer'.left = xfer.left /\ xfer'.moved = xfer.moved
       /\ xfer'.heard = h
  <2>1. PICK q : q = Append(xfer.sent, req) /\ q \in Seq(Runs)
    BY <1>10
  <2>2. xfer' = [xfer EXCEPT !.st = "sector", !.sector = 0, !.clock = 0, !.heard = h, !.sent = q]
    BY <1>8, <1>18, <2>1
  <2>3. xfer \in Transfers
    BY <1>1
  <2> HIDE XferFields
  <2> QED BY <2>1, <2>2, <2>3 DEF Transfers
<1>12. InRange'
  BY <1>3, <1>11 DEF InRange
<1>19. CountsAgree' <=> CountsAgree
  BY <1>11 DEF CountsAgree
<1>13. CountsAgree' => SentInRange'
  <2> SUFFICES ASSUME CountsAgree, NEW i \in 1 .. Len(xfer.sent) + 1
               PROVE  /\ xfer'.sent[i].at >= xfer.first
                      /\ xfer'.sent[i].at + xfer'.sent[i].n <= xfer.first + xfer.asked
                      /\ xfer'.sent[i].at + xfer'.sent[i].n <= xfer.sectors
    BY <1>10, <1>11, <1>19 DEF SentInRange
  <2>1. CASE i = Len(xfer.sent) + 1
    <3>1. xfer'.sent[i] = req /\ req.at = xfer.lba /\ req.n = w
      BY <1>7, <1>10, <1>11, <2>1
    <3>2. xfer.lba >= xfer.first /\ xfer.lba + w <= xfer.first + xfer.asked
          /\ xfer.lba + w <= xfer.sectors
      <4>1. /\ xfer.lba \in Nat /\ xfer.left \in Nat /\ xfer.first \in Nat
            /\ xfer.asked \in Nat /\ xfer.sectors \in Nat
        BY <1>1 DEF Transfers
      <4> HIDE XferFields
      <4> QED BY ONLY <1>3, <1>6, <4>1
    <3> HIDE XferFields
    <3> QED BY ONLY <3>1, <3>2
  <2>2. CASE i \in 1 .. Len(xfer.sent)
    <3>1. i \in DOMAIN xfer.sent /\ xfer'.sent[i] = xfer.sent[i]
      BY <1>1, <1>10, <1>11, <2>2
    <3>2. SentInRange
      BY <1>1
    <3> HIDE XferFields
    <3>3. /\ xfer.sent[i].at >= xfer.first /\ xfer.sent[i].at + xfer.sent[i].n <= xfer.first + xfer.asked
          /\ xfer.sent[i].at + xfer.sent[i].n <= xfer.sectors
      BY <3>1, <3>2 DEF SentInRange
    <3> QED BY <3>1, <3>3, Zenon
  <2>3. i = Len(xfer.sent) + 1 \/ i \in 1 .. Len(xfer.sent)
    BY <1>1
  <2> QED BY <2>1, <2>2, <2>3, Zenon
<1>14. Clean' => Clean /\ drive' = run
  BY <1>11, <1>17, <1>18 DEF Clean
<1>20. Clean' => MovedInOrder'
  BY <1>1, <1>11, <1>14 DEF MovedInOrder
<1>15. Working' = w
  BY <1>5, <1>11 DEF Working
<1>21. Clean' => InStep'
  <2> SUFFICES ASSUME drive' = run PROVE InStep'
    BY <1>14
  <2>1. drive'.at = xfer.lba /\ drive'.due = d
    OBVIOUS
  <2> QED BY <1>1, <1>6, <1>7, <1>11, <1>15, <1>19, <2>1 DEF InStep
<1>16. Progress'
  BY <1>1, <1>2, <1>6, <1>11, <1>15, SMTT(30) DEF Progress
<1> QED BY <1>1, <1>11, <1>12, <1>13, <1>16, <1>17, <1>20, <1>21 DEF XferInv

LEMMA NextPlace ==
    ASSUME NEW lba \in Nat, NEW first \in Nat, NEW sector \in Nat, NEW w \in Nat, NEW len \in Nat,
           len = lba - first + sector
    PROVE  /\ lba + sector = first + (len + 1) - 1 /\ len + 1 = lba - first + (sector + 1)
           /\ lba + sector + 1 = lba + (sector + 1) /\ w - sector - 1 = w - (sector + 1)
OBVIOUS

\* A transfer after one more sector.
OneMore(x, s, q, st) == [x EXCEPT !.sector = s, !.moved = q, !.clock = 0, !.st = st]

\* A sector goes over the data port, or what an unready drive had.
LEMMA SectorMoved ==
    ASSUME XferInv, xfer.st = "sector", NEW e \in Int,
           xfer' = AfterSector([xfer EXCEPT !.sector = @ + 1, !.moved = Append(@, e)], Working),
           drive' \in [at : Nat, due : Nat],
           e # -1 /\ Clean =>
                /\ e = xfer.lba + xfer.sector
                /\ drive'.due > 0 => drive'.at = xfer.lba + xfer.sector + 1
                /\ CountsAgree => drive'.due = Working - xfer.sector - 1
    PROVE  XferInv'
<1>0. /\ xfer.first \in Nat /\ xfer.lba \in Nat /\ xfer.left \in Nat /\ xfer.sector \in Nat
      /\ Len(xfer.moved) \in Nat /\ Working \in Nat
  BY XferFields
<1> USE XferFields
<1>1. /\ xfer.sector < Working /\ Len(xfer.moved) = xfer.lba - xfer.first + xfer.sector
  BY DEF Progress
<1>2. PICK w : w = Working
  OBVIOUS
<1>3. w \in Nat /\ xfer.sector + 1 <= w
  BY <1>1, <1>2
<1>p. /\ xfer.lba + xfer.sector = xfer.first + (Len(xfer.moved) + 1) - 1
      /\ Len(xfer.moved) + 1 = xfer.lba - xfer.first + (xfer.sector + 1)
      /\ xfer.lba + xfer.sector + 1 = xfer.lba + (xfer.sector + 1)
      /\ w - xfer.sector - 1 = w - (xfer.sector + 1)
  <2>1. PICK a, b, c, l : a = xfer.lba /\ b = xfer.first /\ c = xfer.sector /\ l = Len(xfer.moved)
    OBVIOUS
  <2>2. a \in Nat /\ b \in Nat /\ c \in Nat /\ l \in Nat /\ l = a - b + c
    BY <1>0, <1>1, <2>1
  <2>3. a + c = b + (l + 1) - 1 /\ l + 1 = a - b + (c + 1) /\ a + c + 1 = a + (c + 1) /\ w - c - 1 = w - (c + 1)
    BY <1>3, <2>2, NextPlace
  <2> QED BY <2>1, <2>3
<1>4. PICK st : /\ st \in {"sector", "flush", "advance"}
                /\ st = "sector" <=> xfer.sector + 1 < w
                /\ xfer' = [xfer EXCEPT !.sector = @ + 1, !.moved = Append(@, e),
                            !.clock = 0, !.st = st]
  <2> DEFINE x == [xfer EXCEPT !.sector = @ + 1, !.moved = Append(@, e)]
  <2>1. x.sector = xfer.sector + 1
    BY DEF Transfers
  <2>2. \A st : [x EXCEPT !.clock = 0, !.st = st]
                 = [xfer EXCEPT !.sector = @ + 1, !.moved = Append(@, e), !.clock = 0, !.st = st]
    BY DEF Transfers
  <2>3. xfer' = [x EXCEPT !.clock = 0, !.st = IF x.sector < w THEN "sector"
                                             ELSE IF x.op = "write" THEN "flush" ELSE "advance"]
    BY <1>2 DEF AfterSector
  <2>4. PICK st : st = IF x.sector < w THEN "sector" ELSE IF x.op = "write" THEN "flush" ELSE "advance"
    OBVIOUS
  <2> HIDE DEF x
  <2> QED BY <2>1, <2>2, <2>3, <2>4
<1>5. /\ Append(xfer.moved, e) \in Seq(Int) /\ Len(Append(xfer.moved, e)) = Len(xfer.moved) + 1
      /\ DOMAIN Append(xfer.moved, e) = 1 .. Len(xfer.moved) + 1
      /\ \A i \in 1 .. Len(xfer.moved) : Append(xfer.moved, e)[i] = xfer.moved[i]
      /\ Append(xfer.moved, e)[Len(xfer.moved) + 1] = e
  BY Appended, SMTT(30)
<1>6. /\ xfer' \in Transfers
      /\ xfer'.st = st /\ xfer'.sector = xfer.sector + 1 /\ xfer'.moved = Append(xfer.moved, e)
      /\ xfer'.sectors = xfer.sectors /\ xfer'.lba48 = xfer.lba48 /\ xfer'.first = xfer.first
      /\ xfer'.asked = xfer.asked /\ xfer'.lba = xfer.lba /\ xfer'.left = xfer.left /\ xfer'.sent = xfer.sent
      /\ xfer'.heard = xfer.heard
  <2>1. PICK s, q : s = xfer.sector + 1 /\ q = Append(xfer.moved, e)
    OBVIOUS
  <2>2. xfer \in Transfers /\ s \in Nat /\ q \in Seq(Int)
    BY <1>5, <2>1, SMTT(30)
  <2>3. xfer' = OneMore(xfer, s, q, st)
    BY <1>4, <2>1 DEF OneMore
  <2>4. st \in {"sector", "flush", "advance"}
    BY <1>4
  <2>5. /\ xfer' \in Transfers /\ xfer'.st = st /\ xfer'.sector = s /\ xfer'.moved = q
        /\ \A f \in {"sectors", "lba48", "first", "asked", "lba", "left", "sent", "heard"} : xfer'[f] = xfer[f]
    <3>1. PICK x : x = xfer
      OBVIOUS
    <3>2. x \in Transfers
      BY <2>2, <3>1
    <3>3. OneMore(x, s, q, st) \in Transfers
      BY ONLY <2>2, <2>4, <3>2 DEF OneMore, Transfers
    <3>4. /\ OneMore(x, s, q, st).st = st /\ OneMore(x, s, q, st).sector = s
          /\ OneMore(x, s, q, st).moved = q
      BY ONLY <2>2, <2>4, <3>2 DEF OneMore, Transfers
    <3>5. \A f \in {"sectors", "lba48", "first", "asked", "lba", "left", "sent", "heard"} :
            OneMore(x, s, q, st)[f] = x[f]
      BY ONLY <2>2, <2>4, <3>2 DEF OneMore, Transfers
    <3> QED BY <2>3, <3>1, <3>3, <3>4, <3>5
  <2> HIDE XferFields
  <2> QED BY <2>1, <2>5
<1>7. InRange' /\ (CountsAgree' => SentInRange') /\ (CountsAgree' <=> CountsAgree)
  BY <1>6 DEF InRange, SentInRange, CountsAgree
<1>8. Working' = w
  BY <1>2, <1>6 DEF Working
<1>9. Clean' => Clean /\ e # -1
  <2> SUFFICES ASSUME Clean' PROVE Clean /\ e # -1
    OBVIOUS
  <2>1. PICK q : q = Append(xfer.moved, e)
    OBVIOUS
  <2>2. PICK l \in Nat : l = Len(xfer.moved)
    BY <1>0
  <2>3. /\ xfer'.heard /\ \A i \in 1 .. l + 1 : q[i] # -1
    BY <1>5, <1>6, <2>1, <2>2 DEF Clean
  <2>4. /\ \A i \in 1 .. l : q[i] = xfer.moved[i]
        /\ q[l + 1] = e /\ xfer'.heard = xfer.heard
        /\ DOMAIN xfer.moved = 1 .. l
    <3>1. xfer.moved \in Seq(Int)
      BY DEF Transfers
    <3> HIDE XferFields
    <3> QED BY <1>5, <1>6, <2>1, <2>2, <3>1
  <2>5. (\A i \in 1 .. l : i \in 1 .. l + 1) /\ l + 1 \in 1 .. l + 1
    BY ONLY l \in Nat
  <2> QED BY ONLY <2>3, <2>4, <2>5 DEF Clean
<1>10. Clean' => MovedInOrder'
  <2> SUFFICES ASSUME Clean', NEW i \in 1 .. Len(xfer.moved) + 1
               PROVE  Append(xfer.moved, e)[i] = xfer.first + i - 1
    BY <1>5, <1>6 DEF MovedInOrder
  <2>1. CASE i = Len(xfer.moved) + 1
    <3>1. e = xfer.lba + xfer.sector
      BY <1>9
    <3>2. xfer.lba + xfer.sector = xfer.first + i - 1
      BY <1>p, <2>1
    <3> QED BY <1>5, <2>1, <3>1, <3>2
  <2>2. CASE i \in 1 .. Len(xfer.moved)
    BY <1>5, <1>9, <2>2 DEF MovedInOrder
  <2> QED BY <2>1, <2>2
<1>11. Progress'
  <2>1. Len(xfer'.moved) = xfer.lba - xfer.first + (xfer.sector + 1)
    <3> HIDE XferFields
    <3> QED BY <1>p, <1>5, <1>6
  <2>2. xfer.left > 0
    BY <1>1
  <2>3. CASE st = "sector"
    BY <1>4, <1>6, <1>8, <2>1, <2>3 DEF Progress
  <2>4. CASE st # "sector"
    <3>1. xfer.sector + 1 = w /\ st \in {"flush", "advance"}
      BY <1>3, <1>4, <2>4
    <3> QED BY <1>6, <1>8, <2>1, <2>2, <3>1 DEF Progress
  <2> QED BY <2>3, <2>4
<1>12. Clean' => InStep'
  <2> SUFFICES ASSUME Clean' PROVE InStep'
    OBVIOUS
  <2>1. /\ drive'.due > 0 => drive'.at = xfer.lba + (xfer.sector + 1)
        /\ CountsAgree => drive'.due = w - (xfer.sector + 1)
    <3> HIDE XferFields
    <3> QED BY <1>2, <1>9, <1>p
  <2>2. st # "sector" /\ CountsAgree => drive'.due = 0
    <3>1. st # "sector" => xfer.sector + 1 = w
      BY <1>3, <1>4
    <3> QED BY <1>3, <2>1, <3>1
  <2>3. /\ xfer'.st = "sector" <=> st = "sector"
        /\ xfer'.lba = xfer.lba /\ xfer'.sector = xfer.sector + 1
    BY <1>6
  <2> HIDE XferFields
  <2> QED BY <1>7, <1>8, <2>1, <2>2, <2>3 DEF InStep
<1> QED BY <1>6, <1>7, <1>10, <1>11, <1>12 DEF XferInv

LEMMA MoveKeeps == XferInv /\ (MoveSector \/ MoveJunk) => XferInv'
<1> SUFFICES ASSUME XferInv, MoveSector \/ MoveJunk PROVE XferInv'
  OBVIOUS
<1>1. xfer.st = "sector"
  BY DEF MoveSector, MoveJunk
<1>2. drive \in [at : Nat, due : Nat] /\ drive.at \in Nat /\ drive.due \in Nat
  BY DEF XferInv
<1>3. CASE MoveSector
  <2>1. PICK e : e = drive.at
    OBVIOUS
  <2>2. /\ drive' = IF drive.due = 1 THEN AtRest ELSE [at |-> e + 1, due |-> drive.due - 1]
        /\ drive.due > 0
        /\ xfer' = AfterSector([xfer EXCEPT !.sector = @ + 1, !.moved = Append(@, e)], Working)
    BY <1>3, <2>1 DEF MoveSector
  <2>3. /\ drive' \in [at : Nat, due : Nat] /\ drive'.due = drive.due - 1 /\ e \in Int
        /\ drive'.due > 0 => drive'.at = e + 1
    BY <1>2, <2>1, <2>2 DEF AtRest
  <2>4. Clean => /\ drive.at = xfer.lba + xfer.sector
                 /\ CountsAgree => drive.due = Working - xfer.sector
    BY <1>1, <2>2, XferFields DEF InStep
  <2>5. Clean => /\ e = xfer.lba + xfer.sector
                 /\ drive'.due > 0 => drive'.at = xfer.lba + xfer.sector + 1
                 /\ CountsAgree => drive'.due = Working - xfer.sector - 1
    BY <2>1, <2>3, <2>4
  <2> QED BY <1>1, <2>2, <2>3, <2>5, SectorMoved
<1>4. CASE MoveJunk
  <2>1. PICK e : e = -1
    OBVIOUS
  <2>2. xfer' = AfterSector([xfer EXCEPT !.sector = @ + 1, !.moved = Append(@, e)], Working) /\ drive' = drive
    BY <1>4, <2>1 DEF MoveJunk
  <2>3. e \in Int /\ ~(e # -1)
    BY <2>1
  <2> QED BY <1>1, <1>2, <2>2, <2>3, SectorMoved
<1> QED BY <1>3, <1>4

\* The clock of a wait.
LEMMA TickKeeps == XferInv /\ AtaTick => XferInv'
<1> SUFFICES ASSUME XferInv, AtaTick PROVE XferInv'
  OBVIOUS
<1>1. xfer.st \in {"sector", "flush"} /\ drive' = drive /\ xfer' = [xfer EXCEPT !.clock = @ + 1]
  BY DEF AtaTick
<1>2. /\ xfer \in Transfers /\ InRange /\ (CountsAgree => SentInRange)
      /\ (Clean => MovedInOrder /\ InStep) /\ Progress /\ drive \in [at : Nat, due : Nat]
  BY <1>1 DEF XferInv, Idle
<1>3. /\ xfer' \in Transfers
      /\ \A f \in {"st", "sectors", "lba48", "first", "asked", "lba", "left", "sector", "moved",
                    "sent", "heard"} : xfer'[f] = xfer[f]
  <2>1. PICK c \in Nat : c = xfer.clock + 1
    <3>1. xfer.clock \in Nat
      BY ONLY <1>2 DEF Transfers
    <3> QED BY ONLY <3>1
  <2>2. xfer' = [xfer EXCEPT !.clock = c]
    BY ONLY <1>1, <2>1
  <2>3. xfer' \in Transfers
    BY ONLY <1>2, <2>2, c \in Nat DEF Transfers
  <2>4. DOMAIN xfer = {"st", "op", "sectors", "lba48", "first", "asked", "lba", "left", "sector",
                       "clock", "moved", "sent", "heard"}
    BY ONLY <1>2 DEF Transfers
  <2>5. ASSUME NEW f \in DOMAIN xfer, f # "clock" PROVE xfer'[f] = xfer[f]
    BY ONLY <2>2, <2>5
  <2> QED BY ONLY <2>3, <2>4, <2>5
<1>4. InRange' /\ (CountsAgree => SentInRange)' /\ (Clean => MovedInOrder)' /\ (Clean' <=> Clean)
  BY <1>2, <1>3 DEF InRange, SentInRange, CountsAgree, Clean, MovedInOrder
<1>5. Progress' /\ (InStep' <=> InStep)
  BY <1>1, <1>2, <1>3 DEF Progress, InStep, Working, CountsAgree
<1> QED BY <1>1, <1>2, <1>3, <1>4, <1>5 DEF XferInv

\* The flush, the end of the outer loop and the return.
LEMMA AfterCommandKeeps == XferInv /\ (Flush \/ Advance \/ Return) => XferInv'
<1> SUFFICES ASSUME XferInv, Flush \/ Advance \/ Return PROVE XferInv'
  OBVIOUS
<1>1. /\ drive \in [at : Nat, due : Nat] /\ drive' \in [at : Nat, due : Nat]
      /\ drive' = drive \/ drive'.due = 0 \/ Return
  BY DEF Flush, Advance, Return, XferInv, AtRest, LeftDue
<1>2. CASE Return
  BY <1>1, <1>2 DEF Return, XferInv
<1>3. CASE Flush
  <2>1. /\ xfer.st = "flush" /\ xfer' = [xfer EXCEPT !.st = "advance", !.clock = 0]
        /\ drive' = drive \/ drive'.due = 0
    BY <1>3 DEF Flush, AtRest
  <2> USE XferFields
  <2>2. /\ xfer' \in Transfers
        /\ xfer'.st = "advance" /\ xfer'.sector = xfer.sector /\ xfer'.moved = xfer.moved
        /\ xfer'.sectors = xfer.sectors /\ xfer'.lba48 = xfer.lba48 /\ xfer'.first = xfer.first
        /\ xfer'.asked = xfer.asked /\ xfer'.lba = xfer.lba /\ xfer'.left = xfer.left /\ xfer'.sent = xfer.sent
        /\ xfer'.heard = xfer.heard
    BY <2>1 DEF Transfers
  <2>3. InRange' /\ (CountsAgree => SentInRange)' /\ (Clean => MovedInOrder)'
    BY <2>1, <2>2 DEF InRange, SentInRange, CountsAgree, Clean, MovedInOrder
  <2>4. Working' = Working /\ (Clean' <=> Clean) /\ (CountsAgree' <=> CountsAgree)
    BY <2>2 DEF Working, Clean, CountsAgree
  <2>5. Progress'
    BY <2>1, <2>2, <2>4 DEF Progress
  <2>6. Clean' => InStep'
    BY <2>1, <2>2, <2>4 DEF InStep
  <2> QED BY <1>1, <2>2, <2>3, <2>5, <2>6 DEF XferInv
<1>4. CASE Advance
  <2>1. PICK w : w = Working
    OBVIOUS
  <2>2. PICK st : st = IF xfer.left = w THEN "done" ELSE "command"
    OBVIOUS
  <2>3. /\ xfer.st = "advance" /\ xfer' = [xfer EXCEPT !.left = @ - w, !.lba = @ + w, !.st = st]
        /\ drive' = drive
    BY <1>4, <2>1, <2>2 DEF Advance
  <2>0. /\ xfer.first \in Nat /\ xfer.lba \in Nat /\ xfer.left \in Nat /\ xfer.asked \in Nat
        /\ Len(xfer.moved) \in Nat /\ w \in Nat /\ InRange
    BY <2>1, <2>3, XferFields
  <2> USE XferFields
  <2>4. xfer.left > 0 /\ Len(xfer.moved) = xfer.lba - xfer.first + w
    BY <2>1, <2>3 DEF Progress
  <2>5. w \in Nat /\ w <= xfer.left /\ xfer.left - w \in Nat /\ xfer.lba + w \in Nat
    BY <2>1, <2>3
  <2>6. /\ xfer' \in Transfers
        /\ xfer'.st = st /\ xfer'.moved = xfer.moved
        /\ xfer'.sectors = xfer.sectors /\ xfer'.lba48 = xfer.lba48 /\ xfer'.first = xfer.first
        /\ xfer'.asked = xfer.asked /\ xfer'.lba = xfer.lba + w /\ xfer'.left = xfer.left - w /\ xfer'.sent = xfer.sent
        /\ xfer'.heard = xfer.heard
    BY <2>2, <2>3, <2>5 DEF Transfers
  <2>7. InRange'
    <3> HIDE XferFields
    <3>1. (xfer.lba + w) + (xfer.left - w) = xfer.lba + xfer.left /\ xfer.lba + w >= xfer.lba
      BY <2>0
    <3>2. /\ xfer.first + xfer.asked <= xfer.sectors
          /\ ~xfer.lba48 => xfer.sectors <= Lba28
          /\ xfer.lba + xfer.left = xfer.first + xfer.asked
          /\ xfer.lba + w >= xfer.first
      BY <2>0, <3>1 DEF InRange
    <3> QED BY <2>6, <3>1, <3>2 DEF InRange
  <2>8. /\ (CountsAgree => SentInRange)' /\ (Clean => MovedInOrder)'
        /\ (Clean' <=> Clean) /\ (CountsAgree' <=> CountsAgree)
    BY <2>3, <2>6 DEF SentInRange, CountsAgree, Clean, MovedInOrder
  <2>11. Clean' => InStep'
    <3>1. Clean /\ CountsAgree => drive.due = 0
      BY <2>3 DEF InStep
    <3>2. st # "sector"
      BY <2>2
    <3> HIDE XferFields
    <3> QED BY <2>3, <2>6, <2>8, <3>1, <3>2 DEF InStep
  <2>9. xfer.lba + xfer.left = xfer.first + xfer.asked
    BY <2>3 DEF InRange
  <2>10. Progress'
    <3>1. CASE xfer.left = w
      <4>1. Len(xfer.moved) = xfer.asked /\ st = "done"
        <5> HIDE XferFields
        <5> QED BY <2>0, <2>2, <2>4, <2>9, <3>1
      <4> QED BY <2>6, <4>1 DEF Progress
    <3>2. CASE xfer.left # w
      <4>1. xfer.left - w > 0 /\ Len(xfer.moved) = (xfer.lba + w) - xfer.first /\ st = "command"
        <5> HIDE XferFields
        <5> QED BY <2>0, <2>2, <2>4, <2>5, <3>2
      <4> QED BY <2>6, <4>1 DEF Progress
    <3> QED BY <3>1, <3>2
  <2> QED BY <1>1, <2>6, <2>7, <2>8, <2>10, <2>11 DEF XferInv
<1> QED BY <1>2, <1>3, <1>4

LEMMA XferStepKeeps == XferInv /\ AtapioStep => XferInv'
BY SendCommandKeeps, MoveKeeps, TickKeeps, AfterCommandKeeps
   DEF AtapioStep, KernelStep, DriveStep, DriveError, ReadyTimesOut, FlushDone, FlushTimesOut

LEMMA XferRests == XferInv /\ UNCHANGED xferVars => XferInv'
BY DEF XferInv, xferVars, InRange, SentInRange, CountsAgree, Clean, MovedInOrder, InStep,
       Progress, Working


-----------------------------------------------------------------------------
(* What the drives and partitions of the lists say.                        *)

Drives == [letter : Nat, slot : Slots, lba48 : BOOLEAN, sectors : Nat, mbr : Mbr(Nat)]
Mountables == [parent : Nat, suffix : Nat, offset : Nat, count : Nat]

\* How many of the first i slots of a table are used.
UsedBefore(mbr, i) == Cardinality({t \in 1 .. i : Used(mbr.slots[t])})

\* A partition is what slot s of the table says, and has its number among the
\* used ones.
FromSlot(m, mbr, s) ==
    /\ Used(mbr.slots[s])
    /\ m.offset = mbr.slots[s].lba /\ m.count = mbr.slots[s].count
    /\ m.suffix = UsedBefore(mbr, s - 1)

DrivesInv ==
    /\ slots \in Layouts
    /\ \E S : pciDevs \in Seq(S)
    /\ todo \in Seq(Slots)
    /\ registered \in BOOLEAN
    /\ blkdevs \in Seq(Drives) /\ mblkdevs \in Seq(Mountables)
    /\ \A i \in DOMAIN blkdevs :
        /\ blkdevs[i].letter = i - 1 /\ i <= Letters
        /\ ~blkdevs[i].lba48 => blkdevs[i].sectors <= Lba28
    /\ \A k \in DOMAIN mblkdevs :
        /\ mblkdevs[k].parent \in DOMAIN blkdevs
        /\ \E s \in 1 .. 4 : FromSlot(mblkdevs[k], blkdevs[mblkdevs[k].parent].mbr, s)
    /\ \A k, l \in DOMAIN mblkdevs :
        mblkdevs[k].parent = mblkdevs[l].parent /\ mblkdevs[k].suffix = mblkdevs[l].suffix
            => k = l

\* The first i slots of a table give the partitions q.
PartsOf(mbr, i, q) ==
    /\ q \in Seq([lba : Nat, count : Nat])
    /\ Len(q) = UsedBefore(mbr, i)
    /\ \A k \in 1 .. Len(q) : \E s \in 1 .. i :
            Used(mbr.slots[s]) /\ q[k] = mbr.slots[s] /\ UsedBefore(mbr, s - 1) = k - 1

LEMMA UsedBeforeType ==
    ASSUME NEW mbr \in Mbr(Nat), NEW i \in 0 .. 4
    PROVE  UsedBefore(mbr, i) \in Nat
<1>1. IsFiniteSet(1 .. i)
  BY FS_Interval
<1>2. IsFiniteSet({t \in 1 .. i : Used(mbr.slots[t])})
  BY <1>1, FS_Subset
<1> QED BY <1>2, FS_CardinalityType DEF UsedBefore

LEMMA UsedBeforeStep ==
    ASSUME NEW mbr \in Mbr(Nat), NEW i \in 1 .. 4
    PROVE  UsedBefore(mbr, i) = UsedBefore(mbr, i - 1) + (IF Used(mbr.slots[i]) THEN 1 ELSE 0)
<1> DEFINE B == {t \in 1 .. i - 1 : Used(mbr.slots[t])}
<1>1. IsFiniteSet(B)
  <2>1. IsFiniteSet(1 .. i - 1)
    BY FS_Interval
  <2> QED BY <2>1, FS_Subset
<1>0. Cardinality(B) \in Nat
  BY <1>1, FS_CardinalityType
<1>2. CASE Used(mbr.slots[i])
  <2>1. {t \in 1 .. i : Used(mbr.slots[t])} = B \cup {i}
    BY <1>2
  <2>2. i \notin B
    OBVIOUS
  <2>3. Cardinality(B \cup {i}) = Cardinality(B) + 1
    BY <1>1, <2>2, FS_AddElement
  <2> QED BY <1>2, <2>1, <2>3 DEF UsedBefore
<1>3. CASE ~Used(mbr.slots[i])
  <2>1. {t \in 1 .. i : Used(mbr.slots[t])} = B
    BY <1>3
  <2>2. UsedBefore(mbr, i) = Cardinality(B) /\ UsedBefore(mbr, i - 1) = Cardinality(B)
    BY <2>1 DEF UsedBefore
  <2> HIDE DEF B
  <2> QED BY <1>0, <1>3, <2>2
<1> QED BY <1>2, <1>3

\* The body of the loop of partitiontable_try_create_mbr.
LEMMA PartsStep ==
    ASSUME NEW mbr \in Mbr(Nat), NEW i \in 1 .. 4, NEW q, PartsOf(mbr, i - 1, q)
    PROVE  PartsOf(mbr, i, IF Used(mbr.slots[i]) THEN Append(q, mbr.slots[i]) ELSE q)
<1>0. mbr.slots[i] \in [lba : Nat, count : Nat]
  BY DEF Mbr
<1>1. /\ q \in Seq([lba : Nat, count : Nat]) /\ Len(q) = UsedBefore(mbr, i - 1)
      /\ \A k \in 1 .. Len(q) : \E s \in 1 .. i - 1 :
            Used(mbr.slots[s]) /\ q[k] = mbr.slots[s] /\ UsedBefore(mbr, s - 1) = k - 1
  BY DEF PartsOf
<1>2. UsedBefore(mbr, i) = UsedBefore(mbr, i - 1) + (IF Used(mbr.slots[i]) THEN 1 ELSE 0)
  BY UsedBeforeStep
<1>3. CASE ~Used(mbr.slots[i])
  <2>1. Len(q) \in Nat /\ 1 .. i - 1 \subseteq 1 .. i
    BY <1>1
  <2>2. Len(q) = UsedBefore(mbr, i)
    BY <1>1, <1>2, <1>3, <2>1
  <2>3. \A k \in 1 .. Len(q) : \E s \in 1 .. i :
            Used(mbr.slots[s]) /\ q[k] = mbr.slots[s] /\ UsedBefore(mbr, s - 1) = k - 1
    BY <1>1, <2>1
  <2> QED BY <1>1, <1>3, <2>2, <2>3 DEF PartsOf
<1>4. CASE Used(mbr.slots[i])
  <2> DEFINE r == Append(q, mbr.slots[i])
  <2>1. /\ r \in Seq([lba : Nat, count : Nat]) /\ Len(r) = Len(q) + 1 /\ Len(q) \in Nat
        /\ \A k \in 1 .. Len(q) : r[k] = q[k]
        /\ r[Len(q) + 1] = mbr.slots[i]
    BY <1>0, <1>1, Appended
  <2> HIDE DEF r
  <2>2. ASSUME NEW k \in 1 .. Len(r)
        PROVE  \E s \in 1 .. i : Used(mbr.slots[s]) /\ r[k] = mbr.slots[s] /\ UsedBefore(mbr, s - 1) = k - 1
    <3>1. CASE k \in 1 .. Len(q)
      <4>1. PICK s \in 1 .. i - 1 : Used(mbr.slots[s]) /\ q[k] = mbr.slots[s] /\ UsedBefore(mbr, s - 1) = k - 1
        BY <1>1, <3>1
      <4>2. s \in 1 .. i /\ r[k] = q[k]
        BY <2>1, <3>1
      <4> QED BY <4>1, <4>2
    <3>2. CASE k = Len(q) + 1
      <4>1. r[k] = mbr.slots[i] /\ UsedBefore(mbr, i - 1) = k - 1 /\ i \in 1 .. i
        BY <1>1, <2>1, <3>2
      <4> QED BY <1>4, <4>1
    <3>3. k \in 1 .. Len(q) \/ k = Len(q) + 1
      BY <2>1
    <3> QED BY <3>1, <3>2, <3>3
  <2>3. PartsOf(mbr, i, r)
    <3>1. Len(r) = UsedBefore(mbr, i)
      BY <1>1, <1>2, <1>4, <2>1
    <3> QED BY <2>1, <2>2, <3>1 DEF PartsOf
  <2> QED BY <1>4, <2>3 DEF r
<1> QED BY <1>3, <1>4

\* partitiontable_try_create_mbr.
LEMMA PartitionsExact ==
    ASSUME NEW mbr \in Mbr(Nat)
    PROVE  PartsOf(mbr, 4, Partitions(mbr))
<1> DEFINE Grown(q, i) == IF Used(mbr.slots[i]) THEN Append(q, mbr.slots[i]) ELSE q
           Body(g, i) == IF i = 0 THEN <<>> ELSE Grown(g[i - 1], i)
           p1 == Grown(<<>>, 1)
           p2 == Grown(p1, 2)
           p3 == Grown(p2, 3)
           p4 == Grown(p3, 4)
           first == CHOOSE g : g = [i \in 0 .. 4 |->
                IF i = 0 THEN <<>>
                ELSE IF Used(mbr.slots[i]) THEN Append(g[i - 1], mbr.slots[i]) ELSE g[i - 1]]
           h == [i \in 0 .. 4 |-> IF i = 0 THEN <<>> ELSE IF i = 1 THEN p1 ELSE IF i = 2 THEN p2
                                  ELSE IF i = 3 THEN p3 ELSE p4]
<1>1. Partitions(mbr) = first[4]
  BY DEF Partitions
<1>2. h = [i \in 0 .. 4 |-> Body(h, i)]
  <2>1. h[0] = <<>> /\ h[1] = p1 /\ h[2] = p2 /\ h[3] = p3 /\ h[4] = p4
    <3> HIDE DEF p1, p2, p3, p4
    <3> QED OBVIOUS
  <2>2. ASSUME NEW i \in 0 .. 4 PROVE h[i] = Body(h, i)
    <3>0. i = 0 \/ i = 1 \/ i = 2 \/ i = 3 \/ i = 4
      OBVIOUS
    <3> HIDE DEF h, Grown
    <3> QED BY <2>1, <3>0
  <2> QED BY <2>2
<1>3. first = [i \in 0 .. 4 |-> Body(first, i)]
  <2>1. \E g : g = [i \in 0 .. 4 |-> Body(g, i)]
    BY <1>2
  <2> QED BY <2>1
<1> HIDE DEF first, h, p1, p2, p3, p4
<1>4. /\ first[0] = <<>> /\ first[1] = Grown(first[0], 1) /\ first[2] = Grown(first[1], 2)
      /\ first[3] = Grown(first[2], 3) /\ first[4] = Grown(first[3], 4)
  <2> HIDE DEF Grown
  <2> QED BY <1>3
<1>5. PartsOf(mbr, 0, first[0])
  <2>1. {t \in 1 .. 0 : Used(mbr.slots[t])} = {}
    OBVIOUS
  <2>2. UsedBefore(mbr, 0) = 0
    BY <2>1, FS_EmptySet DEF UsedBefore
  <2> QED BY <1>4, <2>2 DEF PartsOf
<1>6. \A q : \A i \in 1 .. 4 : PartsOf(mbr, i - 1, q) => PartsOf(mbr, i, Grown(q, i))
  BY PartsStep
<1> HIDE DEF Grown
<1>7. PartsOf(mbr, 1, first[1])
  <2>1. 1 \in 1 .. 4 /\ 1 - 1 = 0
    OBVIOUS
  <2> QED BY <1>4, <1>5, <1>6, <2>1
<1>8. PartsOf(mbr, 2, first[2])
  <2>1. 2 \in 1 .. 4 /\ 2 - 1 = 1
    OBVIOUS
  <2> QED BY <1>4, <1>6, <1>7, <2>1
<1>9. PartsOf(mbr, 3, first[3])
  <2>1. 3 \in 1 .. 4 /\ 3 - 1 = 2
    OBVIOUS
  <2> QED BY <1>4, <1>6, <1>8, <2>1
<1>10. PartsOf(mbr, 4, first[4])
  <2>1. 4 \in 1 .. 4 /\ 4 - 1 = 3
    OBVIOUS
  <2> QED BY <1>4, <1>6, <1>9, <2>1
<1> QED BY <1>1, <1>10


\* The steps that leave the lists of drives and partitions alone.
LEMMA DrivesRest ==
    ASSUME DrivesInv, slots' = slots, blkdevs' = blkdevs, mblkdevs' = mblkdevs,
           registered' \in BOOLEAN, todo' \in Seq(Slots), \E S : pciDevs' \in Seq(S)
    PROVE  DrivesInv'
BY DEF DrivesInv

LEMMA DrivesInitial == Init => DrivesInv
<1> SUFFICES ASSUME Init PROVE DrivesInv
  OBVIOUS
<1>1. pciDevs \in Seq({}) /\ todo \in Seq(Slots) /\ registered \in BOOLEAN /\ slots \in Layouts
  <2>1. pciDevs = <<>> /\ todo = <<>> /\ registered = FALSE /\ slots \in Layouts
    BY DEF Init, PciInit, BlkdevInit
  <2>2. \A S : <<>> \in Seq(S)
    OBVIOUS
  <2> QED BY <2>1, <2>2
<1>2. blkdevs = <<>> /\ mblkdevs = <<>>
  BY DEF Init, BlkdevInit
<1> QED BY <1>1, <1>2 DEF DrivesInv

\* pci_enumerate_bus only adds to the list of devices.
LEMMA WalkKeepsDrives == DrivesInv /\ WalkBus => DrivesInv'
<1> SUFFICES ASSUME DrivesInv, WalkBus PROVE DrivesInv'
  OBVIOUS
<1>1. /\ slots' = slots /\ blkdevs' = blkdevs /\ mblkdevs' = mblkdevs
      /\ registered' \in BOOLEAN /\ todo' \in Seq(Slots)
  BY DEF WalkBus, blkdevVars, DrivesInv
<1>2. PICK S : pciDevs \in Seq(S)
  BY DEF DrivesInv
<1>3. pciDevs' = pciDevs \/ \E e : pciDevs' = Append(pciDevs, e)
  BY DEF WalkBus, PciStep, BusDone, SkipPlace, RegisterPlace, RegisterFails
<1>4. ASSUME NEW e, pciDevs' = Append(pciDevs, e) PROVE pciDevs' \in Seq(S \cup {e})
  BY <1>2, <1>4
<1>5. \E T : pciDevs' \in Seq(T)
  BY <1>2, <1>3, <1>4
<1> QED BY <1>1, <1>5, DrivesRest

LEMMA Relabelled ==
    ASSUME NEW S, NEW s \in Seq(S), NEW f, DOMAIN f = DOMAIN s, f = [i \in DOMAIN s |-> f[i]]
    PROVE  \E T : f \in Seq(T)
<1>1. f \in Seq({f[i] : i \in DOMAIN s})
  OBVIOUS
<1> QED BY <1>1

LEMMA ProbesType ==
    ASSUME NEW n \in Nat
    PROVE  Probes(n) \in Seq(Slots)
<1>1. \A j \in 1 .. 4 : ProbeOrder[j] \in Slots
  BY DEF ProbeOrder, Slots
<1>2. \A i \in 1 .. 4 * n : ((i - 1) % 4) + 1 \in 1 .. 4
  OBVIOUS
<1>3. 4 * n \in Nat
  OBVIOUS
<1> QED BY <1>1, <1>2, <1>3 DEF Probes

\* ide_main up to the end of the probes, and the registration of its driver.
LEMMA MainKeepsDrives == DrivesInv /\ (IdeMain \/ RegisterDriver) => DrivesInv'
<1> SUFFICES ASSUME DrivesInv, IdeMain \/ RegisterDriver PROVE DrivesInv'
  OBVIOUS
<1>1. PICK S : pciDevs \in Seq(S)
  BY DEF DrivesInv
<1>2. slots' = slots /\ blkdevs' = blkdevs /\ mblkdevs' = mblkdevs /\ registered' \in BOOLEAN
  BY DEF IdeMain, RegisterDriver, blkdevVars, DrivesInv
<1>3. \E T : pciDevs' \in Seq(T)
  <2>1. \E T : Bound("ide") \in Seq(T)
    BY <1>1, Relabelled DEF Bound
  <2>2. \E T : Unbound("ide") \in Seq(T)
    BY <1>1, Relabelled DEF Unbound
  <2>3. pciDevs' = pciDevs \/ pciDevs' = Bound("ide") \/ pciDevs' = Unbound("ide")
    BY DEF IdeMain, RegisterDriver
  <2> QED BY <1>1, <2>1, <2>2, <2>3
<1>4. Cardinality(Matching("ide")) \in Nat
  <2>1. IsFiniteSet(DOMAIN pciDevs)
    BY <1>1, FS_Interval
  <2>2. IsFiniteSet(Matching("ide"))
    BY <2>1, FS_Subset DEF Matching
  <2> QED BY <2>2, FS_CardinalityType
<1>5. todo' \in Seq(Slots)
  <2>1. todo' = todo \/ todo' = Probes(Cardinality(Matching("ide")))
    BY DEF IdeMain, RegisterDriver
  <2> QED BY <1>4, <2>1, ProbesType DEF DrivesInv
<1> QED BY <1>2, <1>3, <1>5, DrivesRest

LEMMA OthersKeepDrives ==
    DrivesInv /\ (GiveUp \/ Transfer \/ TransferStep \/ IdeExit) => DrivesInv'
<1> SUFFICES ASSUME DrivesInv, GiveUp \/ Transfer \/ TransferStep \/ IdeExit PROVE DrivesInv'
  OBVIOUS
<1>1. slots' = slots /\ blkdevs' = blkdevs /\ mblkdevs' = mblkdevs /\ pciDevs' = pciDevs
  BY DEF GiveUp, Transfer, TransferStep, IdeExit, blkdevVars, pciVars
<1>2. registered' \in BOOLEAN
  BY DEF GiveUp, Transfer, TransferStep, IdeExit, blkdevVars, DrivesInv
<1>3. todo' \in Seq(Slots)
  <2>1. todo' = todo \/ (todo # <<>> /\ todo' = Tail(todo))
    BY DEF GiveUp, Transfer, TransferStep, IdeExit
  <2>2. todo \in Seq(Slots)
    BY DEF DrivesInv
  <2>3. todo # <<>> => Tail(todo) \in Seq(Slots)
    <3> HIDE DEF Slots
    <3> QED BY <2>2
  <2> QED BY <2>1, <2>2, <2>3, Zenon
<1>4. \E S : pciDevs' \in Seq(S)
  BY <1>1 DEF DrivesInv
<1> QED BY <1>1, <1>2, <1>3, <1>4, DrivesRest

\* ide_generate_drive_name: the letters are handed out in order.
LEMMA LettersInOrder ==
    ASSUME DrivesInv
    PROVE  NextLetter = Len(blkdevs)
<1>1. /\ blkdevs \in Seq(Drives) /\ DOMAIN blkdevs = 1 .. Len(blkdevs) /\ Len(blkdevs) \in Nat
      /\ \A i \in DOMAIN blkdevs : blkdevs[i].letter = i - 1
  BY DEF DrivesInv
<1>2. PICK n : n = Len(blkdevs)
  OBVIOUS
<1>3. CASE n = 0
  BY <1>1, <1>2, <1>3 DEF NextLetter
<1>4. CASE n > 0
  <2>1. {blkdevs[i].letter : i \in DOMAIN blkdevs} = 0 .. n - 1
    <3>1. \A i \in 1 .. n : blkdevs[i].letter = i - 1
      BY <1>1, <1>2
    <3>2. \A j \in 0 .. n - 1 : j + 1 \in 1 .. n /\ (j + 1) - 1 = j
      BY <1>1, <1>2
    <3>3. {blkdevs[i].letter : i \in 1 .. n} = 0 .. n - 1
      <4>1. \A j \in 0 .. n - 1 : j \in {blkdevs[i].letter : i \in 1 .. n}
        BY <3>1, <3>2
      <4>2. \A i \in 1 .. n : blkdevs[i].letter \in 0 .. n - 1
        BY <1>1, <1>2, <3>1
      <4> QED BY <4>1, <4>2
    <3> QED BY <1>1, <1>2, <3>3
  <2>2. n - 1 \in 0 .. n - 1 /\ \A y \in 0 .. n - 1 : n - 1 >= y
    BY <1>1, <1>2, <1>4
  <2>3. Max(0 .. n - 1) = n - 1
    <3> DEFINE M == CHOOSE x \in 0 .. n - 1 : \A y \in 0 .. n - 1 : x >= y
    <3>1. M \in 0 .. n - 1 /\ \A y \in 0 .. n - 1 : M >= y
      BY <2>2
    <3>2. M >= n - 1 /\ M <= n - 1
      BY <1>1, <1>2, <2>2, <3>1
    <3> QED BY <1>1, <1>2, <3>1, <3>2 DEF Max
  <2>4. blkdevs # <<>>
    BY <1>2, <1>4
  <2>5. NextLetter = 1 + Max({blkdevs[i].letter : i \in DOMAIN blkdevs})
    BY <2>4 DEF NextLetter
  <2>6. NextLetter = 1 + (n - 1)
    BY <2>1, <2>3, <2>5, Zenon
  <2> QED BY <1>1, <1>2, <2>6
<1> QED BY <1>1, <1>2, <1>3, <1>4


LEMMA ListedSeq ==
    ASSUME NEW S, NEW n \in Nat, NEW q, DOMAIN q = 1 .. n, q = [k \in 1 .. n |-> q[k]],
           \A k \in 1 .. n : q[k] \in S
    PROVE  q \in Seq(S) /\ Len(q) = n
OBVIOUS

\* blkdevm_enumerate_partitions: numbered in order, each with the place and
\* size of its slot, whatever number of them there is memory for.
LEMMA MountablesExact ==
    ASSUME NEW table \in Mbr(Nat), NEW mbr, mbr = table \/ ~Valid(mbr),
           NEW n \in Counts(mbr), NEW dev \in Nat, NEW q, q = MountablesOf(dev, mbr, n)
    PROVE  /\ q \in Seq(Mountables)
           /\ \A k \in 1 .. Len(q) : /\ q[k].parent = dev /\ q[k].suffix = k - 1
                                     /\ \E s \in 1 .. 4 : FromSlot(q[k], table, s)
<1>1. CASE n = 0
  <2>1. q = <<>>
    BY <1>1 DEF MountablesOf
  <2> QED BY <2>1
<1>2. CASE n # 0
  <2>1. Valid(mbr) /\ n \in 0 .. Len(Partitions(mbr))
    BY <1>2 DEF Counts
  <2>2. mbr = table
    BY <2>1
  <2>3. PICK p : p = Partitions(table)
    OBVIOUS
  <2>4. PartsOf(table, 4, p)
    BY <2>3, PartitionsExact
  <2>5. n \in 0 .. Len(p)
    BY <2>1, <2>2, <2>3
  <2>6. /\ p \in Seq([lba : Nat, count : Nat]) /\ Len(p) \in Nat
        /\ \A k \in 1 .. Len(p) : \E s \in 1 .. 4 :
            Used(table.slots[s]) /\ p[k] = table.slots[s] /\ UsedBefore(table, s - 1) = k - 1
    BY <2>4 DEF PartsOf
  <2>7. q = [k \in 1 .. n |-> [parent |-> dev, suffix |-> k - 1, offset |-> p[k].lba, count |-> p[k].count]]
    BY <2>2, <2>3 DEF MountablesOf
  <2>8. ASSUME NEW k \in 1 .. n
        PROVE  p[k] \in [lba : Nat, count : Nat] /\ p[k].lba \in Nat /\ p[k].count \in Nat /\ k - 1 \in Nat
    <3>1. k \in 1 .. Len(p) /\ k - 1 \in Nat
      BY <2>5, <2>6
    <3>2. p[k] \in [lba : Nat, count : Nat]
      BY <2>6, <3>1, Elements
    <3> QED BY <3>1, <3>2
  <2>9. \A k \in 1 .. n : q[k] \in Mountables
    BY <2>7, <2>8 DEF Mountables
  <2>10. n \in Nat /\ q \in Seq(Mountables) /\ Len(q) = n
    <3>1. n \in Nat /\ DOMAIN q = 1 .. n /\ q = [k \in 1 .. n |-> q[k]]
      BY <2>5, <2>6, <2>7
    <3> QED BY <2>9, <3>1, ListedSeq
  <2>11. ASSUME NEW k \in 1 .. n PROVE /\ q[k].parent = dev /\ q[k].suffix = k - 1
                                       /\ \E s \in 1 .. 4 : FromSlot(q[k], table, s)
    <3>1. q[k] = [parent |-> dev, suffix |-> k - 1, offset |-> p[k].lba, count |-> p[k].count]
      BY <2>7
    <3>2. PICK s \in 1 .. 4 : Used(table.slots[s]) /\ p[k] = table.slots[s] /\ UsedBefore(table, s - 1) = k - 1
      <4>1. k \in 1 .. Len(p)
        BY <2>5, <2>6
      <4> QED BY <2>6, <4>1, Zenon
    <3>3. FromSlot(q[k], table, s)
      BY <3>1, <3>2 DEF FromSlot
    <3> QED BY <3>1, <3>3
  <2> QED BY <2>10, <2>11
<1> QED BY <1>1, <1>2

LEMMA Joined ==
    ASSUME NEW S, NEW s \in Seq(S), NEW t \in Seq(S)
    PROVE  /\ s \o t \in Seq(S) /\ Len(s \o t) = Len(s) + Len(t)
           /\ DOMAIN (s \o t) = 1 .. Len(s) + Len(t)
           /\ \A i \in 1 .. Len(s) : (s \o t)[i] = s[i]
           /\ \A i \in Len(s) + 1 .. Len(s) + Len(t) :
                i - Len(s) \in 1 .. Len(t) /\ (s \o t)[i] = t[i - Len(s)]
OBVIOUS

\* What ide_identify_drive adds to the lists.
LEMMA IdentifyAdds ==
    ASSUME DrivesInv, IdentifyDrive
    PROVE  \E dev \in Drives, q \in Seq(Mountables) :
                /\ blkdevs' = Append(blkdevs, dev) /\ mblkdevs' = mblkdevs \o q
                /\ dev.letter = Len(blkdevs) /\ Len(blkdevs) < Letters
                /\ ~dev.lba48 => dev.sectors <= Lba28
                /\ \A k \in 1 .. Len(q) : /\ q[k].parent = Len(blkdevs) + 1 /\ q[k].suffix = k - 1
                                          /\ \E s \in 1 .. 4 : FromSlot(q[k], dev.mbr, s)
<1>1. /\ blkdevs \in Seq(Drives) /\ mblkdevs \in Seq(Mountables) /\ todo \in Seq(Slots) /\ slots \in Layouts
      /\ Len(blkdevs) \in Nat
  BY DEF DrivesInv
<1>2. PICK h : h = Head(todo)
  OBVIOUS
<1>3. h \in Slots
  <2>1. todo # <<>>
    BY DEF IdentifyDrive
  <2> HIDE DEF Slots
  <2> QED BY <1>1, <1>2, <2>1
<1>4. PICK d : d = slots[h]
  OBVIOUS
<1>5. d \in [kind : {"none", "ata"}, lba48 : BOOLEAN, count28 : 0 .. Lba28, count48 : Nat, mbr : Mbr(Nat)]
  BY <1>1, <1>3, <1>4, IdeAssumption
<1>6. d.lba48 \in BOOLEAN /\ d.count28 \in 0 .. Lba28 /\ d.count48 \in Nat /\ d.mbr \in Mbr(Nat) /\ Lba28 \in Nat
  BY <1>5, AtapioAssumption
<1>7. PICK c : c = SectorCount(d)
  OBVIOUS
<1>8. c \in Nat /\ (~d.lba48 => c <= Lba28)
  BY <1>6, <1>7 DEF SectorCount
<1>9. PICK table : table = d.mbr
  OBVIOUS
<1>10. PICK dev : dev = [letter |-> Len(blkdevs), slot |-> h, lba48 |-> d.lba48, sectors |-> c, mbr |-> table]
  OBVIOUS
<1>11. /\ dev \in Drives /\ dev.letter = Len(blkdevs) /\ dev.lba48 = d.lba48 /\ dev.sectors = c /\ dev.mbr = table
  BY <1>1, <1>3, <1>6, <1>8, <1>9, <1>10 DEF Drives
<1>12. NextLetter = Len(blkdevs)
  BY LettersInOrder
<1>13. /\ blkdevs' = Append(blkdevs, dev) /\ Len(blkdevs) < Letters
       /\ IF ValidRange(0, 1, dev.sectors)
          THEN \E mbr \in Sector0(d) : \E n \in Counts(mbr) :
                    mblkdevs' = mblkdevs \o MountablesOf(Len(blkdevs'), mbr, n)
          ELSE mblkdevs' = mblkdevs
  BY <1>2, <1>4, <1>7, <1>9, <1>10, <1>12 DEF IdentifyDrive
<1>14. Len(blkdevs') = Len(blkdevs) + 1
  BY <1>1, <1>11, <1>13
<1>15. \E q \in Seq(Mountables) :
            /\ mblkdevs' = mblkdevs \o q
            /\ \A k \in 1 .. Len(q) : /\ q[k].parent = Len(blkdevs) + 1 /\ q[k].suffix = k - 1
                                      /\ \E s \in 1 .. 4 : FromSlot(q[k], table, s)
  <2>1. CASE mblkdevs' = mblkdevs
    <3>1. PICK e : e = <<>>
      OBVIOUS
    <3>2. e \in Seq(Mountables) /\ (\A k \in 1 .. Len(e) : FALSE) /\ mblkdevs \o e = mblkdevs
      BY <1>1, <3>1
    <3> QED BY <2>1, <3>2
  <2>2. CASE \E mbr \in Sector0(d) : \E n \in Counts(mbr) :
                    mblkdevs' = mblkdevs \o MountablesOf(Len(blkdevs) + 1, mbr, n)
    <3>0. PICK mbr \in Sector0(d) : \E n \in Counts(mbr) :
                    mblkdevs' = mblkdevs \o MountablesOf(Len(blkdevs) + 1, mbr, n)
      BY <2>2
    <3>1. PICK n \in Counts(mbr) : mblkdevs' = mblkdevs \o MountablesOf(Len(blkdevs) + 1, mbr, n)
      BY <3>0
    <3>2. PICK q, at : at = Len(blkdevs) + 1 /\ q = MountablesOf(at, mbr, n)
      OBVIOUS
    <3>3. (mbr = table \/ ~Valid(mbr)) /\ table \in Mbr(Nat)
      BY <1>6, <1>9 DEF Sector0, Valid, Mbr
    <3>4. at \in Nat
      BY <1>1, <3>2
    <3>5. /\ q \in Seq(Mountables)
          /\ \A k \in 1 .. Len(q) : /\ q[k].parent = at /\ q[k].suffix = k - 1
                                    /\ \E s \in 1 .. 4 : FromSlot(q[k], table, s)
      <4>1. n \in Counts(mbr) /\ q = MountablesOf(at, mbr, n)
        BY <3>1, <3>2
      <4>2. table \in Mbr(Nat) /\ (mbr = table \/ ~Valid(mbr))
        BY <3>3
      <4> QED BY ONLY <4>1, <4>2, <3>4, MountablesExact, SMTT(30)
    <3> QED BY <3>1, <3>2, <3>5
  <2> QED BY <1>13, <1>14, <2>1, <2>2
<1>16. PICK q \in Seq(Mountables) :
            /\ mblkdevs' = mblkdevs \o q
            /\ \A k \in 1 .. Len(q) : /\ q[k].parent = Len(blkdevs) + 1 /\ q[k].suffix = k - 1
                                      /\ \E s \in 1 .. 4 : FromSlot(q[k], table, s)
  BY <1>15
<1> QED BY <1>8, <1>11, <1>13, <1>16


\* ide_identify_drive: a new letter, and names that no partition has.
LEMMA IdentifyKeepsDrives == DrivesInv /\ IdentifyDrive => DrivesInv'
<1> SUFFICES ASSUME DrivesInv, IdentifyDrive PROVE DrivesInv'
  OBVIOUS
<1>1. PICK dev \in Drives, q \in Seq(Mountables) :
                /\ blkdevs' = Append(blkdevs, dev) /\ mblkdevs' = mblkdevs \o q
                /\ dev.letter = Len(blkdevs) /\ Len(blkdevs) < Letters
                /\ ~dev.lba48 => dev.sectors <= Lba28
                /\ \A k \in 1 .. Len(q) : /\ q[k].parent = Len(blkdevs) + 1 /\ q[k].suffix = k - 1
                                          /\ \E s \in 1 .. 4 : FromSlot(q[k], dev.mbr, s)
  BY IdentifyAdds
<1>2. PICK nb, nm, nq : nb = Len(blkdevs) /\ nm = Len(mblkdevs) /\ nq = Len(q)
  OBVIOUS
<1>3. /\ blkdevs \in Seq(Drives) /\ mblkdevs \in Seq(Mountables) /\ nb \in Nat /\ nm \in Nat /\ nq \in Nat
      /\ DOMAIN blkdevs = 1 .. nb /\ DOMAIN mblkdevs = 1 .. nm
  BY <1>1, <1>2 DEF DrivesInv
<1>4. slots' \in Layouts /\ registered' \in BOOLEAN /\ (\E S : pciDevs' \in Seq(S))
  BY DEF IdentifyDrive, DrivesInv, pciVars
<1>5. todo' \in Seq(Slots)
  <2>1. todo # <<>> /\ todo' = Tail(todo) /\ todo \in Seq(Slots)
    BY DEF IdentifyDrive, DrivesInv
  <2> HIDE DEF Slots
  <2> QED BY <2>1
<1>6. /\ blkdevs' \in Seq(Drives) /\ DOMAIN blkdevs' = 1 .. nb + 1
      /\ \A i \in 1 .. nb : blkdevs'[i] = blkdevs[i]
      /\ blkdevs'[nb + 1] = dev
  BY <1>1, <1>2, <1>3, Appended
<1>7. /\ mblkdevs' \in Seq(Mountables) /\ DOMAIN mblkdevs' = 1 .. nm + nq
      /\ \A k \in 1 .. nm : mblkdevs'[k] = mblkdevs[k]
      /\ \A k \in nm + 1 .. nm + nq : k - nm \in 1 .. nq /\ mblkdevs'[k] = q[k - nm]
  BY <1>1, <1>2, <1>3, Joined
<1>8. \A i \in 1 .. nb + 1 : i \in 1 .. nb \/ i = nb + 1
  BY <1>3
<1>9. \A k \in 1 .. nm + nq : k \in 1 .. nm \/ k \in nm + 1 .. nm + nq
  BY <1>3
<1>10. ASSUME NEW i \in DOMAIN blkdevs'
       PROVE  /\ blkdevs'[i].letter = i - 1 /\ i <= Letters
              /\ ~blkdevs'[i].lba48 => blkdevs'[i].sectors <= Lba28
  <2>1. CASE i \in 1 .. nb
    BY <1>3, <1>6, <2>1 DEF DrivesInv
  <2>2. CASE i = nb + 1
    <3>1. blkdevs'[i] = dev /\ dev.letter = i - 1 /\ i <= Letters
      BY <1>1, <1>2, <1>3, <1>6, <2>2, BlkdevAssumption
    <3> QED BY <1>1, <3>1
  <2> QED BY <1>6, <1>8, <2>1, <2>2
<1>11. ASSUME NEW k \in 1 .. nm
       PROVE  /\ mblkdevs[k].parent \in 1 .. nb
              /\ \E s \in 1 .. 4 : FromSlot(mblkdevs[k], blkdevs[mblkdevs[k].parent].mbr, s)
  BY <1>3 DEF DrivesInv
<1>12. ASSUME NEW k \in nm + 1 .. nm + nq
       PROVE  /\ mblkdevs'[k].parent = nb + 1 /\ mblkdevs'[k].suffix = k - nm - 1
              /\ \E s \in 1 .. 4 : FromSlot(mblkdevs'[k], dev.mbr, s)
  <2>1. k - nm \in 1 .. nq /\ mblkdevs'[k] = q[k - nm]
    BY <1>7
  <2>2. PICK j : j = k - nm
    OBVIOUS
  <2>3. /\ q[j].parent = nb + 1 /\ q[j].suffix = j - 1
        /\ \E s \in 1 .. 4 : FromSlot(q[j], dev.mbr, s)
    BY <1>1, <1>2, <2>1, <2>2
  <2> QED BY <2>1, <2>2, <2>3
<1>13. ASSUME NEW k \in DOMAIN mblkdevs'
       PROVE  /\ mblkdevs'[k].parent \in DOMAIN blkdevs'
              /\ \E s \in 1 .. 4 : FromSlot(mblkdevs'[k], blkdevs'[mblkdevs'[k].parent].mbr, s)
  <2>1. CASE k \in 1 .. nm
    <3>1. PICK p : p = mblkdevs[k].parent
      OBVIOUS
    <3>2. p \in 1 .. nb /\ \E s \in 1 .. 4 : FromSlot(mblkdevs[k], blkdevs[p].mbr, s)
      BY <1>11, <2>1, <3>1
    <3>3. mblkdevs'[k] = mblkdevs[k] /\ blkdevs'[p] = blkdevs[p] /\ p \in DOMAIN blkdevs'
      BY <1>3, <1>6, <1>7, <2>1, <3>2
    <3> QED BY <3>1, <3>2, <3>3
  <2>2. CASE k \in nm + 1 .. nm + nq
    <3>1. nb + 1 \in DOMAIN blkdevs'
      BY <1>3, <1>6
    <3> QED BY <1>6, <1>12, <2>2, <3>1
  <2> QED BY <1>7, <1>9, <2>1, <2>2
<1>14. ASSUME NEW k \in DOMAIN mblkdevs', NEW l \in DOMAIN mblkdevs',
              mblkdevs'[k].parent = mblkdevs'[l].parent, mblkdevs'[k].suffix = mblkdevs'[l].suffix
       PROVE  k = l
  <2>1. \A j \in 1 .. nm : mblkdevs'[j].parent \in 1 .. nb
    BY <1>7, <1>11
  <2>2. \A j \in nm + 1 .. nm + nq : mblkdevs'[j].parent = nb + 1 /\ mblkdevs'[j].suffix = j - nm - 1
    BY <1>12
  <2>3. nb + 1 \notin 1 .. nb
    BY <1>3
  <2>4. CASE k \in 1 .. nm /\ l \in 1 .. nm
    <3>1. mblkdevs[k].parent = mblkdevs[l].parent /\ mblkdevs[k].suffix = mblkdevs[l].suffix
      BY <1>7, <1>14, <2>4
    <3> QED BY <1>3, <2>4, <3>1 DEF DrivesInv
  <2>5. CASE k \in nm + 1 .. nm + nq /\ l \in nm + 1 .. nm + nq
    <3>1. k - nm - 1 = l - nm - 1
      BY <1>14, <2>2, <2>5
    <3> QED BY <1>3, <2>5, <3>1
  <2>6. ~(k \in 1 .. nm /\ l \in nm + 1 .. nm + nq) /\ ~(l \in 1 .. nm /\ k \in nm + 1 .. nm + nq)
    BY <1>14, <2>1, <2>2, <2>3
  <2> QED BY <1>7, <1>9, <2>4, <2>5, <2>6
<1> QED BY <1>4, <1>5, <1>6, <1>7, <1>10, <1>13, <1>14 DEF DrivesInv

LEMMA DrivesStep == DrivesInv /\ [Next]_vars => DrivesInv'
<1> SUFFICES ASSUME DrivesInv, [Next]_vars PROVE DrivesInv'
  OBVIOUS
<1>1. CASE UNCHANGED vars
  BY <1>1, DrivesRest DEF vars, pciVars, blkdevVars, DrivesInv
<1>2. CASE Next
  BY <1>2, WalkKeepsDrives, MainKeepsDrives, OthersKeepDrives, IdentifyKeepsDrives DEF Next
<1> QED BY <1>1, <1>2

\* partition_generic_read and _write, and the users of a drive, reach the
\* loop with a range of the drive.
LEMMA TransferKeeps == XferInv /\ DrivesInv /\ Transfer => XferInv'
<1> SUFFICES ASSUME XferInv, DrivesInv, Transfer PROVE XferInv'
  OBVIOUS
<1>1. ASSUME NEW op \in {"read", "write"}, NEW i \in DOMAIN blkdevs, NEW a \in Nat, NEW n \in Nat, UseDevice(op, i, a, n)
      PROVE  XferInv'
  <2>1. blkdevs \in Seq(Drives) /\ i \in Nat /\ blkdevs[i] \in Drives
    <3>1. blkdevs \in Seq(Drives)
      BY DEF DrivesInv
    <3>2. DOMAIN blkdevs = 1 .. Len(blkdevs) /\ Len(blkdevs) \in Nat
      BY <3>1
    <3> QED BY <3>1, <3>2, Elements
  <2>2. blkdevs[i].lba48 \in BOOLEAN /\ blkdevs[i].sectors \in Nat
    BY <2>1 DEF Drives
  <2>3. ~blkdevs[i].lba48 => blkdevs[i].sectors <= Lba28
    BY DEF DrivesInv
  <2>4. StartTransfer(op, blkdevs[i].lba48, blkdevs[i].sectors, a, n)
    BY <1>1 DEF UseDevice
  <2> QED BY <2>1, <2>2, <2>3, <2>4, StartKeeps
<1>2. PICK op \in {"read", "write"}, lba \in Lbas, n \in Lbas :
        \/ \E i \in DOMAIN blkdevs : registered /\ UseDevice(op, i, lba, n)
        \/ \E k \in DOMAIN mblkdevs : UsePartition(op, k, lba, n)
  BY DEF Transfer
<1>3. lba \in Nat /\ n \in Nat
  BY IdeAssumption
<1>4. CASE \E i \in DOMAIN blkdevs : registered /\ UseDevice(op, i, lba, n)
  BY <1>1, <1>3, <1>4
<1>5. CASE \E k \in DOMAIN mblkdevs : UsePartition(op, k, lba, n)
  <2>1. PICK k \in DOMAIN mblkdevs : UsePartition(op, k, lba, n)
    BY <1>5
  <2>2. mblkdevs \in Seq(Mountables) /\ mblkdevs[k].parent \in DOMAIN blkdevs
    BY DEF DrivesInv
  <2>3. mblkdevs[k] \in Mountables
    <3>1. DOMAIN mblkdevs = 1 .. Len(mblkdevs)
      BY <2>2
    <3> QED BY <2>2, <3>1, Elements
  <2>4. PICK a : a = mblkdevs[k].offset + lba
    OBVIOUS
  <2>5. a \in Nat
    BY <1>3, <2>3, <2>4 DEF Mountables
  <2>6. UseDevice(op, mblkdevs[k].parent, a, n)
    BY <2>1, <2>4 DEF UsePartition
  <2> QED BY <1>1, <1>3, <2>2, <2>5, <2>6
<1> QED BY <1>2, <1>4, <1>5

LEMMA XferStep == XferInv /\ DrivesInv /\ [Next]_vars => XferInv'
<1> SUFFICES ASSUME XferInv, DrivesInv, [Next]_vars PROVE XferInv'
  OBVIOUS
<1>1. CASE Transfer
  BY <1>1, TransferKeeps
<1>2. CASE TransferStep
  BY <1>2, XferStepKeeps DEF TransferStep
<1>3. CASE UNCHANGED xferVars
  BY <1>3, XferRests
<1> QED BY <1>1, <1>2, <1>3 DEF Next, WalkBus, IdeMain, GiveUp, IdentifyDrive, RegisterDriver, IdeExit, vars

\* For every machine and every layout of the drives: a read or a write moves
\* exactly the sectors asked for, and where the drive takes the count as the
\* driver means it, no command of atapio_read or atapio_write leaves the range
\* of the call or of the drive.
THEOREM TransfersStayExact == Spec => []TransferExact
<1>1. Init => XferInv
  BY XferInitial DEF Init
<1>2. Init => DrivesInv
  BY DrivesInitial
<1>3. XferInv /\ DrivesInv /\ [Next]_vars => (XferInv /\ DrivesInv)'
  BY XferStep, DrivesStep
<1>4. XferInv => TransferExact
  BY XferInvImplies
<1> QED BY <1>1, <1>2, <1>3, <1>4, PTL DEF Spec


LEMMA OnlyOne ==
    ASSUME NEW n \in Nat, NEW i \in 1 .. n, NEW I, I = {i}
    PROVE  (IF I # {} THEN Min(I) ELSE 0) = i
<1>1. i \in Nat
  OBVIOUS
<1> QED BY <1>1 DEF Min

\* What the lists hold makes every name the name of one thing.
LEMMA DrivesInvImplies == DrivesInv => NamesFindPartitions
<1> SUFFICES ASSUME DrivesInv PROVE NamesFindPartitions
  OBVIOUS
<1>1. /\ blkdevs \in Seq(Drives) /\ mblkdevs \in Seq(Mountables)
      /\ Len(blkdevs) \in Nat /\ DOMAIN blkdevs = 1 .. Len(blkdevs)
      /\ Len(mblkdevs) \in Nat /\ DOMAIN mblkdevs = 1 .. Len(mblkdevs)
      /\ \A i \in DOMAIN blkdevs : blkdevs[i].letter = i - 1 /\ i <= Letters
  BY DEF DrivesInv
<1>2. ASSUME NEW i \in DOMAIN blkdevs
      PROVE  blkdevs[i].letter < Letters /\ FindRaw(blkdevs[i].letter) = IF registered THEN i ELSE 0
  <2>1. blkdevs[i].letter < Letters
    BY <1>1, BlkdevAssumption
  <2>2. {j \in 1 .. Len(blkdevs) : blkdevs[j].letter = blkdevs[i].letter} = {i}
    BY <1>1
  <2>3. SelectInSeq(blkdevs, LAMBDA d : d.letter = blkdevs[i].letter) = i
    BY <1>1, <2>2, OnlyOne DEF SelectInSeq
  <2> QED BY <2>1, <2>3 DEF FindRaw
<1>3. ASSUME NEW i \in DOMAIN mblkdevs, NEW m, m = mblkdevs[i]
      PROVE  /\ m.parent \in DOMAIN blkdevs
             /\ m.offset # 0 /\ m.count # 0
             /\ FindMountable(<<blkdevs[m.parent].letter, m.suffix>>) = i
             /\ \E s \in 1 .. 4 :
                /\ blkdevs[m.parent].mbr.slots[s] = [lba |-> m.offset, count |-> m.count]
                /\ Cardinality({t \in 1 .. s - 1 :
                        LET u == blkdevs[m.parent].mbr.slots[t] IN u.lba # 0 /\ u.count # 0})
                   = m.suffix
  <2>1. m.parent \in DOMAIN blkdevs
    BY <1>3 DEF DrivesInv
  <2>2. PICK table : table = blkdevs[m.parent].mbr
    OBVIOUS
  <2>3. table \in Mbr(Nat)
    <3>1. blkdevs[m.parent] \in Drives
      BY <1>1, <2>1, Elements
    <3> QED BY <2>2, <3>1 DEF Drives
  <2>4. PICK s \in 1 .. 4 : FromSlot(m, table, s)
    BY <1>3, <2>2 DEF DrivesInv
  <2>5. m.offset # 0 /\ m.count # 0
    BY <2>4 DEF FromSlot, Used
  <2>6. table.slots[s] = [lba |-> m.offset, count |-> m.count]
    <3>1. table.slots[s] \in [lba : Nat, count : Nat]
      BY <2>3 DEF Mbr
    <3>2. m.offset = table.slots[s].lba /\ m.count = table.slots[s].count
      BY <2>4 DEF FromSlot
    <3> QED BY <3>1, <3>2
  <2>7. Cardinality({t \in 1 .. s - 1 : LET u == table.slots[t] IN u.lba # 0 /\ u.count # 0}) = m.suffix
    <3>1. UsedBefore(table, s - 1) = m.suffix
      BY <2>4 DEF FromSlot
    <3> QED BY <3>1 DEF UsedBefore, Used
  <2>8. FindMountable(<<blkdevs[m.parent].letter, m.suffix>>) = i
    <3>1. PICK a, b : a = blkdevs[m.parent].letter /\ b = m.suffix
      OBVIOUS
    <3>2. ASSUME NEW j \in 1 .. Len(mblkdevs), blkdevs[mblkdevs[j].parent].letter = a, mblkdevs[j].suffix = b
          PROVE  j = i
      <4>1. mblkdevs[j].parent \in DOMAIN blkdevs
        BY <1>1 DEF DrivesInv
      <4>2. mblkdevs[j].parent - 1 = m.parent - 1
        BY <1>1, <2>1, <3>1, <3>2, <4>1
      <4>3. mblkdevs[j].parent = mblkdevs[i].parent
        BY <1>1, <1>3, <2>1, <4>1, <4>2
      <4>4. mblkdevs[j].suffix = mblkdevs[i].suffix
        BY <1>3, <3>1, <3>2
      <4> QED BY <1>1, <4>3, <4>4 DEF DrivesInv
    <3>3. {j \in 1 .. Len(mblkdevs) : blkdevs[mblkdevs[j].parent].letter = a /\ mblkdevs[j].suffix = b} = {i}
      BY <1>1, <1>3, <3>1, <3>2
    <3>4. <<a, b>>[1] = a /\ <<a, b>>[2] = b
      OBVIOUS
    <3>5. SelectInSeq(mblkdevs, LAMBDA x : blkdevs[x.parent].letter = <<a, b>>[1] /\ x.suffix = <<a, b>>[2]) = i
      BY <1>1, <3>3, <3>4, OnlyOne, ZenonT(30) DEF SelectInSeq
    <3> QED BY <3>1, <3>5 DEF FindMountable
  <2> QED BY <2>1, <2>2, <2>5, <2>6, <2>7, <2>8
<1> QED BY <1>2, <1>3 DEF NamesFindPartitions

\* For every layout of the drives and whatever memory lasts for: the letters
\* of ide_generate_drive_name and the suffixes of generate_suffix never
\* repeat, so a look-up by name finds what the name was given to, and a
\* partition has the place and the number of its slot of the MBR.
THEOREM NamesStayUnique == Spec => []NamesFindPartitions
<1>1. Init => DrivesInv
  BY DrivesInitial
<1>2. DrivesInv /\ [Next]_vars => DrivesInv'
  BY DrivesStep
<1>3. DrivesInv => NamesFindPartitions
  BY DrivesInvImplies
<1> QED BY <1>1, <1>2, <1>3, PTL DEF Spec

-----------------------------------------------------------------------------
(* The walk over the PCI buses (Pci).                                      *)

\* The order of the two loops of pci_enumerate_bus.
Precedes(p, q) == p[2] < q[2] \/ (p[2] = q[2] /\ p[3] < q[3])

\* Where a frame of pci_enumerate_bus can be: at a function other than 0 only
\* if function 0 answers and says that there are others.
FrameOK(q) ==
    /\ q \in (0 .. Buses - 1) \X (0 .. Devices) \X (0 .. Functions - 1)
    /\ q[2] = Devices => q[3] = 0
    /\ q[3] > 0 => ~Absent(<<q[1], q[2], 0>>) /\ IsMultifunction(q)

\* Where the frame goes on.
Onward(q) ==
    IF q[3] = 0 /\ (Absent(q) \/ ~IsMultifunction(q)) THEN NextDevice(q) ELSE NextFunction(q)

\* r is a bridge that leads to bus b.
Bridge(r, b) == r \in OnBus(0) /\ r[3] > 0 /\ IsHostBridge(r) /\ r[3] = b

\* What the frame q of bus 0 has behind it: the places before it, and the buses
\* of the bridges before it.
BehindRoot(q, p) ==
    IF p[1] = 0 THEN Precedes(p, q) ELSE \E r : Bridge(r, p[1]) /\ Precedes(r, q)

\* At most two frames run, since a bridge is on bus 0.
StackOK(st) ==
    \/ st = <<>>
    \/ \E q : st = <<q>> /\ FrameOK(q) /\ q[1] = 0
    \/ \E q1, q0 :
        /\ st = <<q1, q0>> /\ FrameOK(q1) /\ FrameOK(q0)
        /\ q0[1] = 0 /\ q1[1] > 0
        /\ \E r : Bridge(r, q1[1]) /\ Precedes(r, q0)

\* The walk has been at p.
Passed(st, p) ==
    \/ st = <<>>
    \/ /\ BehindRoot(st[Len(st)], p)
       /\ Len(st) = 2 /\ p[1] = st[1][1] => Precedes(p, st[1])

LEMMA OnBusFacts ==
    ASSUME NEW b, NEW p \in OnBus(b)
    PROVE  /\ p \in Places /\ p[1] = b /\ ~Absent(p) /\ ~Absent(<<b, p[2], 0>>)
           /\ p[3] > 0 => IsMultifunction(p)
BY DEF OnBus

LEMMA Triple ==
    ASSUME NEW A, NEW B, NEW C, NEW p \in A \X B \X C
    PROVE  p = <<p[1], p[2], p[3]>> /\ p[1] \in A /\ p[2] \in B /\ p[3] \in C
OBVIOUS

LEMMA FrameFacts ==
    ASSUME NEW q, FrameOK(q)
    PROVE  /\ q = <<q[1], q[2], q[3]>>
           /\ q[1] \in 0 .. Buses - 1 /\ q[2] \in 0 .. Devices /\ q[3] \in 0 .. Functions - 1
BY Triple DEF FrameOK

\* One step of the loops passes one place.
LEMMA AfterPasses ==
    ASSUME NEW q, FrameOK(q), q[2] < Devices, NEW p \in OnBus(q[1])
    PROVE  Precedes(p, Onward(q)) <=> Precedes(p, q) \/ p = q
<1>1. PICK b \in Nat, d \in Nat, f \in Nat : q = <<b, d, f>> /\ d < Devices /\ f < Functions
  BY FrameFacts, PciAssumption
<1>2. PICK e \in Nat, g \in Nat : p = <<b, e, g>> /\ g < Functions
  <2>1. p \in Places /\ p[1] = b
    BY <1>1, OnBusFacts
  <2> QED BY <2>1, Triple, PciAssumption DEF Places
<1>3. p = q <=> e = d /\ g = f
  BY <1>1, <1>2
<1>4. Precedes(p, q) <=> e < d \/ (e = d /\ g < f)
  BY <1>1, <1>2 DEF Precedes
<1>5. Functions \in Nat /\ Functions > 0
  BY PciAssumption
<1>6. CASE f = 0 /\ (Absent(q) \/ ~IsMultifunction(q))
  <2>1. Onward(q) = <<b, d + 1, 0>>
    BY <1>1, <1>6 DEF Onward, NextDevice
  <2>2. e = d => g = 0
    <3> SUFFICES ASSUME e = d, g > 0 PROVE FALSE
      BY <1>2
    <3>1. ~Absent(<<b, d, 0>>) /\ IsMultifunction(p)
      BY <1>1, <1>2, OnBusFacts
    <3>2. IsMultifunction(p) <=> IsMultifunction(q)
      BY <1>1, <1>2 DEF IsMultifunction
    <3> QED BY <1>1, <1>6, <3>1, <3>2
  <2>3. Precedes(p, Onward(q)) <=> e < d + 1 \/ (e = d + 1 /\ g < 0)
    BY <1>2, <2>1 DEF Precedes
  <2> QED BY <1>1, <1>2, <1>3, <1>4, <1>6, <2>2, <2>3
<1>7. CASE ~(f = 0 /\ (Absent(q) \/ ~IsMultifunction(q)))
  <2>1. Onward(q) = NextFunction(q)
    BY <1>1, <1>7 DEF Onward
  <2>2. CASE f + 1 < Functions
    <3>1. Onward(q) = <<b, d, f + 1>>
      BY <1>1, <2>1, <2>2 DEF NextFunction
    <3>2. Precedes(p, Onward(q)) <=> e < d \/ (e = d /\ g < f + 1)
      BY <1>2, <3>1 DEF Precedes
    <3> QED BY <1>1, <1>2, <1>3, <1>4, <3>2
  <2>3. CASE ~(f + 1 < Functions)
    <3>1. Onward(q) = <<b, d + 1, 0>>
      BY <1>1, <2>1, <2>3 DEF NextFunction, NextDevice
    <3>2. Precedes(p, Onward(q)) <=> e < d + 1 \/ (e = d + 1 /\ g < 0)
      BY <1>2, <3>1 DEF Precedes
    <3> QED BY <1>1, <1>2, <1>3, <1>4, <1>5, <2>3, <3>2
  <2> QED BY <2>2, <2>3
<1> QED BY <1>6, <1>7

\* The frame stays where a frame can be.
LEMMA AfterOK ==
    ASSUME NEW q, FrameOK(q), q[2] < Devices
    PROVE  FrameOK(Onward(q)) /\ Onward(q)[1] = q[1]
<1>1. PICK b \in 0 .. Buses - 1, d \in 0 .. Devices - 1, f \in 0 .. Functions - 1 : q = <<b, d, f>>
  BY FrameFacts, PciAssumption
<1>2. Devices \in Nat /\ Functions \in Nat /\ Functions > 0
  BY PciAssumption
<1>3. FrameOK(<<b, d + 1, 0>>)
  BY <1>1, <1>2 DEF FrameOK
<1>4. CASE Onward(q) = <<b, d + 1, 0>>
  BY <1>1, <1>3, <1>4
<1>5. CASE Onward(q) # <<b, d + 1, 0>>
  <2>1. /\ Onward(q) = <<b, d, f + 1>> /\ f + 1 < Functions
        /\ ~(f = 0 /\ (Absent(q) \/ ~IsMultifunction(q)))
    BY <1>1, <1>5 DEF Onward, NextFunction, NextDevice
  <2>2. ~Absent(<<b, d, 0>>) /\ IsMultifunction(q)
    BY <1>1, <2>1 DEF FrameOK
  <2>3. IsMultifunction(<<b, d, f + 1>>)
    BY <1>1, <2>2 DEF IsMultifunction
  <2>4. f + 1 \in 0 .. Functions - 1 /\ d \in 0 .. Devices /\ d # Devices
    BY <1>1, <1>2, <2>1
  <2>5. FrameOK(<<b, d, f + 1>>)
    BY <1>1, <2>2, <2>3, <2>4 DEF FrameOK
  <2> QED BY <1>1, <2>1, <2>5
<1> QED BY <1>4, <1>5

LEMMA FrameOnBus ==
    ASSUME NEW q, FrameOK(q), q[2] < Devices, ~Absent(q)
    PROVE  q \in OnBus(q[1])
<1>1. PICK b \in 0 .. Buses - 1, d \in 0 .. Devices - 1, f \in 0 .. Functions - 1 : q = <<b, d, f>>
  BY FrameFacts, PciAssumption
<1>2. f > 0 => ~Absent(<<b, d, 0>>) /\ IsMultifunction(q)
  BY <1>1 DEF FrameOK
<1>3. ~Absent(<<b, d, 0>>)
  BY <1>1, <1>2
<1> QED BY <1>1, <1>2, <1>3 DEF OnBus, Places

LEMMA ReachableFacts ==
    ASSUME NEW p
    PROVE  p \in Reachable <=>
            p \in OnBus(0) \/ \E r : Bridge(r, p[1]) /\ p \in OnBus(p[1])
<1>1. ASSUME NEW b, b \in Bridged, p \in OnBus(b)
      PROVE  p[1] = b /\ \E r : Bridge(r, b)
  BY <1>1, OnBusFacts DEF Bridged, Bridge
<1>2. ASSUME NEW r, Bridge(r, p[1]) PROVE p[1] \in Bridged
  BY <1>2 DEF Bridged, Bridge
<1> QED BY <1>1, <1>2 DEF Reachable

LEMMA SameTuple ==
    ASSUME NEW S, NEW s \in Seq(S), NEW t \in Seq(S), Len(s) = Len(t),
           \A i \in 1 .. Len(s) : s[i] = t[i]
    PROVE  s = t
OBVIOUS

LEMMA ShortStacks ==
    ASSUME NEW x, NEW y
    PROVE  /\ Head(<<x>>) = x /\ Tail(<<x>>) = <<>> /\ Head(<<x, y>>) = x
           /\ Tail(<<x, y>>) = <<y>>
           /\ <<x>> \o <<>> = <<x>> /\ <<x>> \o <<y>> = <<x, y>>
<1> DEFINE S == {x, y}
<1>1. <<x>> \in Seq(S) /\ <<y>> \in Seq(S) /\ <<x, y>> \in Seq(S) /\ <<>> \in Seq(S)
  OBVIOUS
<1>2. Head(<<x>>) = x /\ Head(<<x, y>>) = x /\ Len(<<x>>) = 1 /\ Len(<<x, y>>) = 2 /\ Len(<<y>>) = 1
  OBVIOUS
<1>3. Tail(<<x>>) = <<>>
  OBVIOUS
<1>4. Tail(<<x, y>>) = <<y>>
  <2>1. Tail(<<x, y>>) \in Seq(S) /\ Len(Tail(<<x, y>>)) = 1 /\ Tail(<<x, y>>)[1] = y
    OBVIOUS
  <2> HIDE DEF S
  <2> QED BY <1>1, <1>2, <2>1, SameTuple
<1>5. <<x>> \o <<>> = <<x>>
  OBVIOUS
<1>6. <<x>> \o <<y>> = <<x, y>>
  <2> DEFINE s == <<x>> \o <<y>>
             t == <<x, y>>
  <2>1. s \in Seq(S) /\ Len(s) = 2 /\ s[1] = x /\ s[2] = y
    BY <1>1
  <2>2. t \in Seq(S) /\ Len(t) = 2 /\ t[1] = x /\ t[2] = y
    OBVIOUS
  <2> HIDE DEF s, t, S
  <2>3. \A i \in 1 .. Len(s) : s[i] = t[i]
    BY <2>1, <2>2
  <2>4. s = t
    BY <2>1, <2>2, <2>3, SameTuple
  <2> QED BY <2>4 DEF s, t
<1> QED BY <1>2, <1>3, <1>4, <1>5, <1>6

LEMMA PassedCases ==
    ASSUME NEW p, NEW q, NEW q1
    PROVE  /\ Passed(<<>>, p)
           /\ Passed(<<q>>, p) <=> BehindRoot(q, p)
           /\ Passed(<<q1, q>>, p) <=>
                BehindRoot(q, p) /\ (p[1] = q1[1] => Precedes(p, q1))
<1>1. <<q>> # <<>> /\ Len(<<q>>) = 1 /\ <<q>>[1] = q
  OBVIOUS
<1>2. <<q1, q>> # <<>> /\ Len(<<q1, q>>) = 2 /\ <<q1, q>>[1] = q1 /\ <<q1, q>>[2] = q
  OBVIOUS
<1> QED BY <1>1, <1>2 DEF Passed

\* The bridges of a machine of Machines.
LEMMA BridgesOnce ==
    ASSUME pciHw \in Machines, NEW b, NEW r, Bridge(r, b), NEW q, Bridge(q, b)
    PROVE  r = q
<1>1. r \in HostBridges(pciHw) /\ q \in HostBridges(pciHw) /\ r[3] = q[3]
  BY OnBusFacts DEF Bridge, IsHostBridge, HostBridges
<1> QED BY <1>1, MachinesAssumption

\* A step on bus 0 that does not descend.
LEMMA RootMoves ==
    ASSUME NEW q, FrameOK(q), q[1] = 0, q[2] < Devices, ~Bridge(q, q[3])
    PROVE  /\ StackOK(<<Onward(q)>>)
           /\ \A p \in Reachable : Passed(<<Onward(q)>>, p) <=> Passed(<<q>>, p) \/ p = q
<1>1. StackOK(<<Onward(q)>>)
  BY AfterOK DEF StackOK
<1>2. ASSUME NEW p \in Reachable PROVE BehindRoot(Onward(q), p) <=> BehindRoot(q, p) \/ p = q
  <2>1. CASE p[1] = 0
    <3>1. p \in OnBus(0)
      BY <2>1, ReachableFacts
    <3>2. Precedes(p, Onward(q)) <=> Precedes(p, q) \/ p = q
      BY <3>1, AfterPasses
    <3> QED BY <2>1, <3>2 DEF BehindRoot
  <2>2. CASE p[1] # 0
    <3>1. ASSUME NEW r, Bridge(r, p[1])
          PROVE  Precedes(r, Onward(q)) <=> Precedes(r, q)
      <4>1. r \in OnBus(q[1]) /\ r # q
        BY <3>1 DEF Bridge
      <4> QED BY <4>1, AfterPasses
    <3>2. p # q
      BY <2>2
    <3> QED BY <2>2, <3>1, <3>2 DEF BehindRoot
  <2> QED BY <2>1, <2>2
<1> QED BY <1>1, <1>2, PassedCases

\* A step on a bus behind a bridge.
LEMMA BranchMoves ==
    ASSUME NEW q1, NEW q0, StackOK(<<q1, q0>>), q1[2] < Devices
    PROVE  /\ StackOK(<<Onward(q1), q0>>)
           /\ \A p \in Reachable :
                Passed(<<Onward(q1), q0>>, p) <=> Passed(<<q1, q0>>, p) \/ p = q1
<1>1. /\ FrameOK(q1) /\ FrameOK(q0) /\ q0[1] = 0 /\ q1[1] > 0
      /\ \E r : Bridge(r, q1[1]) /\ Precedes(r, q0)
  <2>1. <<q1, q0>> # <<>> /\ \A q : <<q1, q0>> # <<q>>
    OBVIOUS
  <2>2. \A x, y : <<q1, q0>> = <<x, y>> => x = q1 /\ y = q0
    OBVIOUS
  <2> QED BY <2>1, <2>2 DEF StackOK
<1>2. FrameOK(Onward(q1)) /\ Onward(q1)[1] = q1[1]
  BY <1>1, AfterOK
<1>3. StackOK(<<Onward(q1), q0>>)
  BY <1>1, <1>2 DEF StackOK
<1>4. ASSUME NEW p \in Reachable
      PROVE  Passed(<<Onward(q1), q0>>, p) <=> Passed(<<q1, q0>>, p) \/ p = q1
  <2>1. CASE p[1] = q1[1]
    <3>1. p[1] # 0 /\ BehindRoot(q0, p)
      BY <1>1, <2>1, FrameFacts DEF BehindRoot
    <3>2. p \in OnBus(q1[1])
      BY <2>1, <3>1, ReachableFacts, OnBusFacts
    <3>3. Precedes(p, Onward(q1)) <=> Precedes(p, q1) \/ p = q1
      BY <1>1, <3>2, AfterPasses
    <3> QED BY <1>2, <2>1, <3>1, <3>3, PassedCases
  <2>2. CASE p[1] # q1[1]
    BY <1>2, <2>2, PassedCases
  <2> QED BY <2>1, <2>2
<1> QED BY <1>3, <1>4

\* Into the bus behind a bridge.
LEMMA Descends ==
    ASSUME pciHw \in Machines, NEW q, FrameOK(q), q[1] = 0, q[2] < Devices, Bridge(q, q[3])
    PROVE  /\ StackOK(<< <<q[3], 0, 0>>, Onward(q)>>)
           /\ \A p \in Reachable :
                Passed(<< <<q[3], 0, 0>>, Onward(q)>>, p) <=> Passed(<<q>>, p) \/ p = q
<1> DEFINE first == <<q[3], 0, 0>>
<1>0. q[3] > 0 /\ q[3] < Buses /\ q[3] \in Nat /\ q \in OnBus(q[1])
  <2>1. q \in HostBridges(pciHw)
    BY OnBusFacts DEF Bridge, IsHostBridge, HostBridges
  <2> QED BY <2>1, MachinesAssumption, FrameFacts, PciAssumption DEF Bridge
<1>1. FrameOK(first) /\ first[1] = q[3] /\ first[2] = 0 /\ first[3] = 0
  BY <1>0, PciAssumption DEF FrameOK
<1>2. FrameOK(Onward(q)) /\ Onward(q)[1] = 0
  BY AfterOK
<1>3. \A r \in OnBus(0) : Precedes(r, Onward(q)) <=> Precedes(r, q) \/ r = q
  BY AfterPasses
<1>4. StackOK(<<first, Onward(q)>>)
  <2>1. Bridge(q, first[1]) /\ Precedes(q, Onward(q))
    BY <1>0, <1>1, <1>3
  <2> QED BY <1>0, <1>1, <1>2, <2>1 DEF StackOK
<1>5. ASSUME NEW p \in Reachable
      PROVE  BehindRoot(Onward(q), p) /\ (p[1] = first[1] => Precedes(p, first))
                <=> BehindRoot(q, p) \/ p = q
  <2>1. CASE p[1] = 0
    <3>1. p \in OnBus(0) /\ p[1] # first[1]
      BY <1>0, <1>1, <2>1, ReachableFacts
    <3> QED BY <1>3, <2>1, <3>1 DEF BehindRoot
  <2>2. CASE p[1] # 0 /\ p[1] # q[3]
    <3>1. ASSUME NEW r, Bridge(r, p[1])
          PROVE  Precedes(r, Onward(q)) <=> Precedes(r, q)
      <4>1. r \in OnBus(0) /\ r # q
        BY <2>2, <3>1 DEF Bridge
      <4> QED BY <1>3, <4>1
    <3> QED BY <1>1, <2>2, <3>1 DEF BehindRoot
  <2>3. CASE p[1] = q[3]
    <3>1. p \in Places
      BY ReachableFacts, OnBusFacts
    <3>2. ~Precedes(p, first)
      BY <1>1, <3>1, Triple DEF Places, Precedes
    <3>3. ~BehindRoot(q, p)
      <4> SUFFICES ASSUME NEW r, Bridge(r, q[3]), Precedes(r, q) PROVE FALSE
        BY <1>0, <2>3 DEF BehindRoot
      <4>1. r = q
        BY BridgesOnce
      <4>2. q[2] \in Int /\ q[3] \in Int
        BY FrameFacts
      <4> QED BY <4>1, <4>2 DEF Precedes
    <3>4. p # q
      BY <1>0, <2>3
    <3> QED BY <1>1, <2>3, <3>2, <3>3, <3>4
  <2> QED BY <2>1, <2>2, <2>3
<1> HIDE DEF first
<1>6. \A p \in Reachable : Passed(<<first, Onward(q)>>, p) <=> Passed(<<q>>, p) \/ p = q
  BY <1>5, PassedCases
<1> QED BY <1>4, <1>6 DEF first

\* The frame on top, where it can be and that its place is still to come.
LEMMA TopFrame ==
    ASSUME pciHw \in Machines, NEW st, StackOK(st), st # <<>>
    PROVE  /\ FrameOK(Head(st)) /\ ~Passed(st, Head(st))
           /\ \/ st = <<Head(st)>> /\ Head(st)[1] = 0
              \/ \E q0 : st = <<Head(st), q0>> /\ Head(st)[1] # 0
           /\ Head(st)[2] < Devices /\ ~Absent(Head(st)) => Head(st) \in Reachable
<1>1. CASE \E q : st = <<q>> /\ FrameOK(q) /\ q[1] = 0
  <2>1. PICK q : st = <<q>> /\ FrameOK(q) /\ q[1] = 0
    BY <1>1
  <2>2. Head(st) = q
    BY <2>1
  <2>3. ~Precedes(q, q)
    BY <2>1, FrameFacts DEF Precedes
  <2>4. ~Passed(<<q>>, q)
    BY <2>1, <2>3, PassedCases DEF BehindRoot
  <2>5. q[2] < Devices /\ ~Absent(q) => q \in Reachable
    BY <2>1, FrameOnBus, ReachableFacts
  <2> QED BY <2>1, <2>2, <2>4, <2>5
<1>2. CASE \E q1, q0 : /\ st = <<q1, q0>> /\ FrameOK(q1) /\ FrameOK(q0)
                       /\ q0[1] = 0 /\ q1[1] > 0
                       /\ \E r : Bridge(r, q1[1]) /\ Precedes(r, q0)
  <2>1. PICK q1, q0 : /\ st = <<q1, q0>> /\ FrameOK(q1) /\ q1[1] > 0
                      /\ \E r : Bridge(r, q1[1])
    BY <1>2
  <2>2. Head(st) = q1 /\ q1[1] # 0
    BY <2>1, FrameFacts
  <2>3. ~Precedes(q1, q1)
    BY <2>1, FrameFacts DEF Precedes
  <2>4. ~Passed(<<q1, q0>>, q1)
    BY <2>3, PassedCases
  <2>5. q1[2] < Devices /\ ~Absent(q1) => q1 \in Reachable
    BY <2>1, FrameOnBus, ReachableFacts
  <2> QED BY <2>1, <2>2, <2>4, <2>5
<1> QED BY <1>1, <1>2 DEF StackOK

LEMMA OnlyRootBridges ==
    ASSUME pciHw \in Machines, NEW q, FrameOK(q), q[2] < Devices, q[3] > 0, IsHostBridge(q)
    PROVE  q[1] = 0 /\ Bridge(q, q[3])
<1>1. q \in Places /\ q \in HostBridges(pciHw) /\ ~Absent(q)
  <2>1. q \in Places
    BY FrameFacts, PciAssumption DEF Places
  <2> QED BY <2>1 DEF HostBridges, IsHostBridge, Absent
<1>2. q[1] = 0
  BY <1>1, MachinesAssumption
<1> QED BY <1>1, <1>2, FrameOnBus DEF Bridge

\* The loops go on, at the place after the frame's.
LEMMA LoopMoves ==
    ASSUME pciHw \in Machines, NEW st, StackOK(st), st # <<>>, Head(st)[2] < Devices,
           ~(Head(st)[3] > 0 /\ IsHostBridge(Head(st)))
    PROVE  LET n == <<Onward(Head(st))>> \o Tail(st) IN
           /\ StackOK(n)
           /\ \A p \in Reachable : Passed(n, p) <=> Passed(st, p) \/ p = Head(st)
<1> DEFINE q == Head(st)
<1>1. FrameOK(q) /\ ~Bridge(q, q[3])
  BY TopFrame DEF Bridge
<1>2. ASSUME st = <<q>>, q[1] = 0 PROVE LET n == <<Onward(q)>> \o Tail(st) IN
           /\ StackOK(n)
           /\ \A p \in Reachable : Passed(n, p) <=> Passed(st, p) \/ p = q
  <2>1. q[2] < Devices
    OBVIOUS
  <2> HIDE DEF q
  <2>2. <<Onward(q)>> \o Tail(st) = <<Onward(q)>>
    BY <1>2, ShortStacks
  <2>3. /\ StackOK(<<Onward(q)>>)
        /\ \A p \in Reachable : Passed(<<Onward(q)>>, p) <=> Passed(<<q>>, p) \/ p = q
    BY <1>1, <1>2, <2>1, RootMoves
  <2>4. \A p : Passed(st, p) <=> Passed(<<q>>, p)
    BY <1>2
  <2> QED BY ONLY <2>2, <2>3, <2>4, Zenon
<1>3. ASSUME NEW q0, st = <<q, q0>> PROVE LET n == <<Onward(q)>> \o Tail(st) IN
           /\ StackOK(n)
           /\ \A p \in Reachable : Passed(n, p) <=> Passed(st, p) \/ p = q
  <2> HIDE DEF q
  <2>1. Tail(<<q, q0>>) = <<q0>> /\ <<Onward(q)>> \o <<q0>> = <<Onward(q), q0>>
    BY ShortStacks
  <2>2. <<Onward(q)>> \o Tail(st) = <<Onward(q), q0>>
    BY <1>3, <2>1
  <2>3. q[2] < Devices
    BY DEF q
  <2>4. StackOK(<<q, q0>>) /\ \A p : Passed(st, p) <=> Passed(<<q, q0>>, p)
    BY <1>3
  <2>5. /\ StackOK(<<Onward(q), q0>>)
        /\ \A p \in Reachable :
            Passed(<<Onward(q), q0>>, p) <=> Passed(<<q, q0>>, p) \/ p = q
    BY <2>3, <2>4, BranchMoves
  <2> QED BY ONLY <2>2, <2>4, <2>5, Zenon
<1> QED BY <1>2, <1>3, TopFrame

\* The recursion into the bus behind a bridge.
LEMMA LoopDescends ==
    ASSUME pciHw \in Machines, NEW st, StackOK(st), st # <<>>, Head(st)[2] < Devices,
           Head(st)[3] > 0, IsHostBridge(Head(st))
    PROVE  LET n == << <<Head(st)[3], 0, 0>> >> \o (<<Onward(Head(st))>> \o Tail(st)) IN
           /\ StackOK(n)
           /\ \A p \in Reachable : Passed(n, p) <=> Passed(st, p) \/ p = Head(st)
<1> DEFINE q == Head(st)
<1>1. FrameOK(q)
  BY TopFrame
<1>2. q[1] = 0 /\ Bridge(q, q[3])
  BY <1>1, OnlyRootBridges
<1>3. st = <<q>>
  BY <1>2, TopFrame
<1>4. <<Onward(q)>> \o Tail(st) = <<Onward(q)>>
  BY <1>3, ShortStacks
<1>5. << <<q[3], 0, 0>> >> \o <<Onward(q)>> = << <<q[3], 0, 0>>, Onward(q)>>
  BY ShortStacks
<1>6. q[2] < Devices
  OBVIOUS
<1> HIDE DEF q
<1>7. /\ StackOK(<< <<q[3], 0, 0>>, Onward(q)>>)
      /\ \A p \in Reachable :
            Passed(<< <<q[3], 0, 0>>, Onward(q)>>, p) <=> Passed(<<q>>, p) \/ p = q
  BY <1>1, <1>2, <1>6, Descends
<1> QED BY <1>3, <1>4, <1>5, <1>7 DEF q

\* A frame returns: nothing is un-passed, and nothing new is passed when the
\* loop over the devices is over.
LEMMA LoopReturns ==
    ASSUME pciHw \in Machines, NEW st, StackOK(st), st # <<>>
    PROVE  /\ StackOK(Tail(st))
           /\ \A p \in Reachable : Passed(st, p) => Passed(Tail(st), p)
           /\ Head(st)[2] = Devices =>
                \A p \in Reachable : Passed(Tail(st), p) => Passed(st, p)
<1>0. \A p \in Reachable : p \in Places /\ p[2] < Devices
  <2> TAKE p \in Reachable
  <2>1. p \in Places
    BY ReachableFacts, OnBusFacts
  <2> QED BY <2>1, Triple, PciAssumption DEF Places
<1>a. ASSUME NEW q, FrameOK(q), q[2] = Devices, NEW p, p \in Places
      PROVE  Precedes(p, q)
  BY <1>a, Triple, PciAssumption DEF Places, Precedes
<1>1. ASSUME NEW q, st = <<q>>, FrameOK(q), q[1] = 0
      PROVE  /\ Tail(st) = <<>>
             /\ q[2] = Devices => \A p \in Reachable : Passed(st, p)
  <2>1. Tail(st) = <<>>
    BY <1>1
  <2>2. ASSUME q[2] = Devices, NEW p \in Reachable PROVE BehindRoot(q, p)
    <3>1. CASE p[1] = 0
      BY <1>0, <1>1, <1>a, <2>2, <3>1 DEF BehindRoot
    <3>2. CASE p[1] # 0
      <4>1. PICK r : Bridge(r, p[1])
        BY <3>2, ReachableFacts, OnBusFacts
      <4>2. r \in Places
        BY <4>1, OnBusFacts DEF Bridge
      <4> QED BY <1>1, <1>a, <2>2, <3>2, <4>1, <4>2 DEF BehindRoot
    <3> QED BY <3>1, <3>2
  <2> QED BY <1>1, <2>1, <2>2, PassedCases
<1>2. ASSUME NEW q1, NEW q0, st = <<q1, q0>>, FrameOK(q1), FrameOK(q0), q0[1] = 0
      PROVE  /\ Tail(st) = <<q0>> /\ StackOK(<<q0>>)
             /\ \A p \in Reachable : Passed(st, p) => Passed(<<q0>>, p)
             /\ q1[2] = Devices => \A p \in Reachable : Passed(<<q0>>, p) => Passed(st, p)
  <2>1. Tail(st) = <<q0>>
    BY <1>2, ShortStacks
  <2>2. StackOK(<<q0>>)
    BY <1>2 DEF StackOK
  <2>3. \A p \in Reachable : Passed(st, p) => Passed(<<q0>>, p)
    BY <1>2, PassedCases
  <2>4. ASSUME q1[2] = Devices, NEW p \in Reachable, Passed(<<q0>>, p) PROVE Passed(st, p)
    BY <1>0, <1>2, <1>a, <2>4, PassedCases
  <2> QED BY <2>1, <2>2, <2>3, <2>4
<1>3. CASE \E q : st = <<q>> /\ FrameOK(q) /\ q[1] = 0
  <2>1. PICK q : st = <<q>> /\ FrameOK(q) /\ q[1] = 0
    BY <1>3
  <2>2. Head(st) = q
    BY <2>1
  <2>3. \A p : Passed(<<>>, p)
    BY DEF Passed
  <2> QED BY <1>1, <2>1, <2>2, <2>3 DEF StackOK
<1>4. CASE \E q1, q0 : /\ st = <<q1, q0>> /\ FrameOK(q1) /\ FrameOK(q0)
                       /\ q0[1] = 0 /\ q1[1] > 0
                       /\ \E r : Bridge(r, q1[1]) /\ Precedes(r, q0)
  <2>1. PICK q1, q0 : st = <<q1, q0>> /\ FrameOK(q1) /\ FrameOK(q0) /\ q0[1] = 0
    BY <1>4
  <2>2. Head(st) = q1
    BY <2>1
  <2> QED BY <1>2, <2>1, <2>2
<1> QED BY <1>3, <1>4 DEF StackOK

\* The invariant of the walk: what is registered has been passed and once only,
\* and as long as memory lasts all that has been passed is registered.
PciDevices == [place : Places, class : Classes, driver : {"none", "garbage", "ide"}]
RegisteredAt == {pciDevs[i].place : i \in DOMAIN pciDevs}

PciInv ==
    /\ pciHw \in Machines
    /\ StackOK(pciStack)
    /\ pciDevs \in Seq(PciDevices)
    /\ \A p \in RegisteredAt : p \in Reachable /\ Passed(pciStack, p)
    /\ \A i, j \in DOMAIN pciDevs : pciDevs[i].place = pciDevs[j].place => i = j
    /\ ~pciShort /\ ~Absent(<<0, 0, 0>>) =>
        \A p \in Reachable : Passed(pciStack, p) => p \in RegisteredAt

\* What a step of the walk does to the stack, seen from the places of the
\* machine: it passes none, it passes the one it registers, or it runs out of
\* memory.
PassesNone(st) ==
    /\ pciDevs' = pciDevs /\ pciShort' = pciShort
    /\ \A p \in Reachable : Passed(st, p) <=> Passed(pciStack, p)
PassesOne(st) ==
    /\ pciShort' = pciShort
    /\ \E q \in Reachable :
        /\ ~Passed(pciStack, q)
        /\ \A p \in Reachable : Passed(st, p) <=> Passed(pciStack, p) \/ p = q
        /\ \E e \in PciDevices : e.place = q /\ pciDevs' = Append(pciDevs, e)
RunsShort(st) ==
    /\ pciDevs' = pciDevs /\ pciShort' = TRUE
    /\ \A p \in Reachable : Passed(pciStack, p) => Passed(st, p)

LEMMA WalkPasses ==
    ASSUME pciHw \in Machines, StackOK(pciStack), PciStep
    PROVE  /\ pciHw' = pciHw /\ StackOK(pciStack')
           /\ PassesNone(pciStack') \/ PassesOne(pciStack') \/ RunsShort(pciStack')
<1> DEFINE q == Frame
           n == <<Onward(Frame)>> \o Tail(pciStack)
<1>0. pciStack # <<>> /\ pciHw' = pciHw
  BY DEF PciStep, BusDone, SkipPlace, RegisterPlace, RegisterFails
<1>1. /\ FrameOK(q) /\ ~Passed(pciStack, q)
      /\ q[2] < Devices /\ ~Absent(q) => q \in Reachable
  BY <1>0, TopFrame DEF Frame
<1>2. ASSUME q[2] < Devices, ~(q[3] > 0 /\ IsHostBridge(q))
      PROVE  /\ StackOK(n)
             /\ \A p \in Reachable : Passed(n, p) <=> Passed(pciStack, p) \/ p = q
  BY <1>0, <1>2, LoopMoves DEF Frame
<1>3. ASSUME q[2] < Devices, q[3] > 0, IsHostBridge(q)
      PROVE  /\ StackOK(<< <<q[3], 0, 0>> >> \o n)
             /\ \A p \in Reachable :
                    Passed(<< <<q[3], 0, 0>> >> \o n, p) <=> Passed(pciStack, p) \/ p = q
  BY <1>0, <1>3, LoopDescends DEF Frame
<1>4. /\ StackOK(Tail(pciStack))
      /\ \A p \in Reachable : Passed(pciStack, p) => Passed(Tail(pciStack), p)
      /\ q[2] = Devices =>
            \A p \in Reachable : Passed(Tail(pciStack), p) => Passed(pciStack, p)
  BY <1>0, LoopReturns DEF Frame
<1>5. q[2] < Devices /\ q[3] > 0 =>
        AfterFunction(q) = IF IsHostBridge(q) THEN << <<q[3], 0, 0>> >> \o n ELSE n
  <2>1. q[3] > 0 => Onward(q) = NextFunction(q)
    BY <1>1, FrameFacts DEF Onward
  <2> HIDE DEF q
  <2> QED BY <2>1 DEF AfterFunction, q
<1>6. ASSUME q[2] < Devices, q[3] > 0, NEW st, st = AfterFunction(q)
      PROVE  /\ StackOK(st)
             /\ \A p \in Reachable : Passed(st, p) <=> Passed(pciStack, p) \/ p = q
  <2>1. CASE IsHostBridge(q)
    <3>1. st = << <<q[3], 0, 0>> >> \o n
      BY <1>5, <1>6, <2>1
    <3> HIDE DEF q, n
    <3> QED BY <1>3, <1>6, <2>1, <3>1
  <2>2. CASE ~IsHostBridge(q)
    <3>1. st = n
      BY <1>5, <1>6, <2>2
    <3> HIDE DEF q, n
    <3> QED BY <1>2, <1>6, <2>2, <3>1
  <2> QED BY <2>1, <2>2
<1>7. CASE BusDone
  <2>1. pciStack' = Tail(pciStack) /\ q[2] = Devices /\ pciDevs' = pciDevs /\ pciShort' = pciShort
    BY <1>7 DEF BusDone
  <2> HIDE DEF q
  <2> QED BY <1>0, <1>4, <2>1 DEF PassesNone
<1>8. CASE SkipPlace
  <2>1. /\ q[2] < Devices /\ Absent(q) /\ pciDevs' = pciDevs /\ pciShort' = pciShort
        /\ pciStack' = <<IF q[3] = 0 THEN NextDevice(q) ELSE NextFunction(q)>> \o Tail(pciStack)
    BY <1>8 DEF SkipPlace, Goto
  <2>2. ~IsHostBridge(q)
    BY <2>1 DEF Absent, IsHostBridge
  <2>3. pciStack' = n
    BY <2>1 DEF Onward
  <2>4. \A p \in Reachable : p # q
    BY <2>1, ReachableFacts, OnBusFacts
  <2> HIDE DEF q, n
  <2> QED BY <1>0, <1>2, <2>1, <2>2, <2>3, <2>4 DEF PassesNone
<1>9. CASE RegisterPlace
  <2>1. /\ q[2] < Devices /\ ~Absent(q) /\ pciShort' = pciShort
        /\ \E d \in {"none", "garbage"} : pciDevs' = Append(pciDevs, NewDevice(q, d))
        /\ q[3] > 0 => pciStack' = AfterFunction(q)
        /\ ~(q[3] > 0) => pciStack' = <<IF IsMultifunction(q) THEN NextFunction(q)
                                        ELSE NextDevice(q)>> \o Tail(pciStack)
    BY <1>9 DEF RegisterPlace, Goto
  <2>2. \E e \in PciDevices : e.place = q /\ pciDevs' = Append(pciDevs, e)
    <3>1. q \in Places
      BY <1>1, <2>1, ReachableFacts, OnBusFacts
    <3>2. pciHw[q].class \in Classes
      BY <3>1, MachinesAssumption DEF Answer
    <3> HIDE DEF q
    <3>3. \A d \in {"none", "garbage"} : NewDevice(q, d) \in PciDevices /\ NewDevice(q, d).place = q
      BY <3>1, <3>2 DEF NewDevice, PciDevices
    <3> QED BY <2>1, <3>3
  <2>3. q[3] = 0 => pciStack' = n
    BY <2>1 DEF Onward
  <2>4. q[3] = 0 \/ q[3] > 0
    BY <1>1, FrameFacts
  <2>5. /\ StackOK(pciStack')
        /\ \A p \in Reachable : Passed(pciStack', p) <=> Passed(pciStack, p) \/ p = q
    <3>1. CASE q[3] > 0
      <4> HIDE DEF q, n
      <4> QED BY <1>6, <2>1, <3>1
    <3>2. CASE q[3] = 0
      <4>1. ~(q[3] > 0 /\ IsHostBridge(q))
        BY <3>2
      <4> HIDE DEF q, n
      <4> QED BY <1>2, <2>1, <2>3, <3>2, <4>1
    <3> QED BY <2>4, <3>1, <3>2
  <2> HIDE DEF q, n
  <2> QED BY <1>0, <1>1, <2>1, <2>2, <2>5 DEF PassesOne
<1>10. CASE RegisterFails
  <2>1. /\ q[2] < Devices /\ pciShort' = TRUE /\ pciDevs' = pciDevs
        /\ pciStack' = IF q[3] > 0 THEN AfterFunction(q) ELSE Tail(pciStack)
    BY <1>10 DEF RegisterFails
  <2> HIDE DEF q, n
  <2>2. CASE q[3] > 0
    BY <1>0, <1>6, <2>1, <2>2 DEF RunsShort
  <2>3. CASE ~(q[3] > 0)
    BY <1>0, <1>4, <2>1, <2>3 DEF RunsShort
  <2> QED BY <2>2, <2>3
<1> QED BY <1>7, <1>8, <1>9, <1>10 DEF PciStep

\* The machine does not change, and so neither does what the walk can reach.
LEMMA SameMachine ==
    ASSUME pciHw' = pciHw
    PROVE  /\ Reachable' = Reachable /\ (Absent(<<0, 0, 0>>)' <=> Absent(<<0, 0, 0>>))
           /\ StackOK(pciStack)' <=> StackOK(pciStack')
           /\ \A p : Passed(pciStack, p)' <=> Passed(pciStack', p)
<1>1. \A p : Absent(p)' <=> Absent(p)
  BY DEF Absent
<1>2. \A p : IsMultifunction(p)' <=> IsMultifunction(p)
  BY DEF IsMultifunction
<1>3. \A p : IsHostBridge(p)' <=> IsHostBridge(p)
  BY DEF IsHostBridge
<1>4. \A b : OnBus(b)' = OnBus(b)
  BY <1>1, <1>2 DEF OnBus
<1>5. Bridged' = Bridged
  BY <1>3, <1>4 DEF Bridged
<1>6. Reachable' = Reachable
  BY <1>4, <1>5 DEF Reachable
<1>7. \A r, b : Bridge(r, b)' <=> Bridge(r, b)
  BY <1>3, <1>4 DEF Bridge
<1>8. \A q : FrameOK(q)' <=> FrameOK(q)
  BY <1>1, <1>2 DEF FrameOK
<1>9. \A q, p : BehindRoot(q, p)' <=> BehindRoot(q, p)
  BY <1>7 DEF BehindRoot
<1>10. StackOK(pciStack)' <=> StackOK(pciStack')
  BY <1>7, <1>8 DEF StackOK
<1>11. \A p : Passed(pciStack, p)' <=> Passed(pciStack', p)
  BY <1>9 DEF Passed
<1> QED BY <1>1, <1>6, <1>10, <1>11

LEMMA WalkKeepsPci == PciInv /\ WalkBus => PciInv'
<1> SUFFICES ASSUME PciInv, WalkBus PROVE PciInv'
  OBVIOUS
<1>1. /\ pciHw' = pciHw /\ StackOK(pciStack')
      /\ PassesNone(pciStack') \/ PassesOne(pciStack') \/ RunsShort(pciStack')
  BY WalkPasses DEF PciInv, WalkBus
<1>2. /\ Reachable' = Reachable /\ (Absent(<<0, 0, 0>>)' <=> Absent(<<0, 0, 0>>))
      /\ StackOK(pciStack)' <=> StackOK(pciStack')
      /\ \A p : Passed(pciStack, p)' <=> Passed(pciStack', p)
  BY <1>1, SameMachine
<1>3. CASE pciDevs' = pciDevs
  <2>1. RegisteredAt' = RegisteredAt
    BY <1>3 DEF RegisteredAt
  <2>2. \A p \in Reachable : Passed(pciStack, p) => Passed(pciStack', p)
    BY <1>1 DEF PassesNone, PassesOne, RunsShort
  <2>3. \A p \in RegisteredAt' : p \in Reachable' /\ Passed(pciStack, p)'
    BY <1>2, <2>1, <2>2 DEF PciInv
  <2>4. ~pciShort' /\ ~Absent(<<0, 0, 0>>)' =>
            \A p \in Reachable' : Passed(pciStack, p)' => p \in RegisteredAt'
    <3>1. CASE PassesNone(pciStack')
      BY <1>2, <2>1, <3>1 DEF PciInv, PassesNone
    <3>2. CASE PassesOne(pciStack')
      <4>1. PICK e : pciDevs' = Append(pciDevs, e)
        BY <3>2 DEF PassesOne
      <4>2. pciDevs \in Seq(PciDevices)
        BY DEF PciInv
      <4>3. Len(Append(pciDevs, e)) = Len(pciDevs) + 1 /\ Len(pciDevs) \in Nat
        BY <4>2
      <4>4. FALSE
        BY <1>3, <4>1, <4>3
      <4> QED BY <4>4
    <3>3. CASE RunsShort(pciStack')
      BY <3>3 DEF RunsShort
    <3> QED BY <1>1, <3>1, <3>2, <3>3
  <2>5. \A i, j \in DOMAIN pciDevs' : pciDevs'[i].place = pciDevs'[j].place => i = j
    BY <1>3 DEF PciInv
  <2>6. pciDevs' \in Seq(PciDevices)
    BY <1>3 DEF PciInv
  <2> QED BY <1>1, <1>2, <2>3, <2>4, <2>5, <2>6 DEF PciInv
<1>4. CASE PassesOne(pciStack')
  <2>1. PICK q \in Reachable :
            /\ ~Passed(pciStack, q)
            /\ \A p \in Reachable : Passed(pciStack', p) <=> Passed(pciStack, p) \/ p = q
            /\ \E e \in PciDevices : e.place = q /\ pciDevs' = Append(pciDevs, e)
    BY <1>4 DEF PassesOne
  <2>2. PICK e \in PciDevices : e.place = q /\ pciDevs' = Append(pciDevs, e)
    BY <2>1
  <2>3. pciDevs \in Seq(PciDevices)
    BY DEF PciInv
  <2> DEFINE k == Len(pciDevs) + 1
  <2>4. /\ pciDevs' \in Seq(PciDevices) /\ DOMAIN pciDevs' = DOMAIN pciDevs \cup {k}
        /\ k \notin DOMAIN pciDevs /\ pciDevs'[k] = e
        /\ \A i \in DOMAIN pciDevs : pciDevs'[i] = pciDevs[i]
    BY <2>2, <2>3
  <2> HIDE DEF k
  <2>5. RegisteredAt' = RegisteredAt \cup {q}
    BY <2>2, <2>4 DEF RegisteredAt
  <2>6. q \notin RegisteredAt
    BY <2>1 DEF PciInv
  <2>7. \A p \in RegisteredAt' : p \in Reachable' /\ Passed(pciStack, p)'
    BY <1>2, <2>1, <2>5 DEF PciInv
  <2>8. \A i, j \in DOMAIN pciDevs' : pciDevs'[i].place = pciDevs'[j].place => i = j
    <3>1. \A i \in DOMAIN pciDevs : pciDevs[i].place # q
      BY <2>6 DEF RegisteredAt
    <3>2. \A i, j \in DOMAIN pciDevs : pciDevs[i].place = pciDevs[j].place => i = j
      BY DEF PciInv
    <3> QED BY <2>2, <2>4, <3>1, <3>2
  <2>9. ~pciShort' /\ ~Absent(<<0, 0, 0>>)' =>
            \A p \in Reachable' : Passed(pciStack, p)' => p \in RegisteredAt'
    BY <1>2, <1>4, <2>1, <2>5 DEF PciInv, PassesOne
  <2> QED BY <1>1, <1>2, <2>4, <2>7, <2>8, <2>9 DEF PciInv
<1> QED BY <1>1, <1>3, <1>4 DEF PassesNone, RunsShort

\* Drivers are bound to devices and taken from them; where they are and how
\* many there are stays.
LEMMA BindingKeepsPci ==
    ASSUME PciInv, UNCHANGED <<pciHw, pciStack, pciShort>>,
           \/ pciDevs' = pciDevs
           \/ pciDevs' = Bound("ide")
           \/ pciDevs' = Unbound("ide")
    PROVE  PciInv'
<1>1. /\ Reachable' = Reachable /\ (Absent(<<0, 0, 0>>)' <=> Absent(<<0, 0, 0>>))
      /\ StackOK(pciStack)' <=> StackOK(pciStack)
      /\ \A p : Passed(pciStack, p)' <=> Passed(pciStack, p)
  BY SameMachine
<1>2. pciDevs \in Seq(PciDevices)
  BY DEF PciInv
<1>3. /\ DOMAIN pciDevs' = DOMAIN pciDevs
      /\ \A i \in DOMAIN pciDevs : pciDevs'[i].place = pciDevs[i].place
  <2>1. \A i \in DOMAIN pciDevs :
            /\ [pciDevs[i] EXCEPT !.driver = "ide"].place = pciDevs[i].place
            /\ [pciDevs[i] EXCEPT !.driver = "none"].place = pciDevs[i].place
    BY <1>2, Elements DEF PciDevices
  <2>2. \/ pciDevs' = pciDevs
        \/ pciDevs' = Bound("ide")
        \/ pciDevs' = Unbound("ide")
    OBVIOUS
  <2>3. CASE pciDevs' = pciDevs
    BY <2>3
  <2>4. CASE pciDevs' = Bound("ide")
    BY <2>1, <2>4 DEF Bound
  <2>5. CASE pciDevs' = Unbound("ide")
    BY <2>1, <2>5 DEF Unbound
  <2> QED BY <2>2, <2>3, <2>4, <2>5
<1>4. pciDevs' \in Seq(PciDevices)
  <2>1. \A e \in PciDevices : /\ [e EXCEPT !.driver = "ide"] \in PciDevices
                             /\ [e EXCEPT !.driver = "none"] \in PciDevices
    BY DEF PciDevices
  <2>2. /\ DOMAIN pciDevs = 1 .. Len(pciDevs) /\ Len(pciDevs) \in Nat
        /\ \A i \in DOMAIN pciDevs : pciDevs[i] \in PciDevices
    BY <1>2, Elements
  <2>3. \A f \in [1 .. Len(pciDevs) -> PciDevices] : f \in Seq(PciDevices)
    BY <2>2
  <2>4. Bound("ide") \in [1 .. Len(pciDevs) -> PciDevices]
    BY <2>1, <2>2 DEF Bound
  <2>5. Unbound("ide") \in [1 .. Len(pciDevs) -> PciDevices]
    BY <2>1, <2>2 DEF Unbound
  <2> QED BY <1>2, <2>3, <2>4, <2>5
<1>5. RegisteredAt' = RegisteredAt
  BY <1>3 DEF RegisteredAt
<1>6. \A i, j \in DOMAIN pciDevs' : pciDevs'[i].place = pciDevs'[j].place => i = j
  BY <1>3 DEF PciInv
<1> QED BY <1>1, <1>4, <1>5, <1>6 DEF PciInv

LEMMA PciKeeps == PciInv /\ [Next]_vars => PciInv'
<1> SUFFICES ASSUME PciInv, [Next]_vars PROVE PciInv'
  OBVIOUS
<1>1. CASE WalkBus
  BY <1>1, WalkKeepsPci
<1>2. CASE IdeMain \/ RegisterDriver
  BY <1>2, BindingKeepsPci DEF IdeMain, RegisterDriver
<1>3. CASE GiveUp \/ IdentifyDrive \/ Transfer \/ TransferStep \/ IdeExit \/ UNCHANGED vars
  <2>1. UNCHANGED <<pciHw, pciStack, pciShort>> /\ pciDevs' = pciDevs
    BY <1>3 DEF GiveUp, IdentifyDrive, Transfer, TransferStep, IdeExit, vars, pciVars
  <2> QED BY <2>1, BindingKeepsPci
<1> QED BY <1>1, <1>2, <1>3 DEF Next

LEMMA PciInitial == Init => PciInv
<1> SUFFICES ASSUME Init PROVE PciInv
  OBVIOUS
<1>1. pciHw \in Machines /\ pciDevs = <<>> /\ pciShort = FALSE
  BY DEF Init, PciInit
<1>2. RegisteredAt = {} /\ pciDevs \in Seq(PciDevices)
  BY <1>1 DEF RegisteredAt
<1>3. CASE Absent(<<0, 0, 0>>)
  <2>1. pciStack = <<>>
    BY <1>3 DEF Init, PciInit, Absent
  <2> QED BY <1>1, <1>2, <1>3, <2>1 DEF PciInv, StackOK
<1>4. CASE ~Absent(<<0, 0, 0>>)
  <2> DEFINE q == <<0, 0, 0>>
  <2>1. pciStack = <<q>>
    BY <1>4 DEF Init, PciInit, Absent
  <2>2. FrameOK(q) /\ q[1] = 0 /\ q[2] = 0 /\ q[3] = 0
    BY PciAssumption DEF FrameOK
  <2> HIDE DEF q
  <2>3. \A p \in Places : ~Precedes(p, q)
    BY <2>2, Triple, PciAssumption DEF Precedes, Places
  <2>4. ASSUME NEW p \in Reachable PROVE ~BehindRoot(q, p)
    <3>1. p \in Places
      BY ReachableFacts, OnBusFacts
    <3>2. \A r : Bridge(r, p[1]) => r \in Places
      BY OnBusFacts DEF Bridge
    <3> QED BY <2>3, <3>1, <3>2 DEF BehindRoot
  <2>5. \A p \in Reachable : ~Passed(pciStack, p)
    BY <2>1, <2>4, PassedCases
  <2>6. StackOK(pciStack)
    BY <2>1, <2>2 DEF StackOK
  <2> QED BY <1>1, <1>2, <2>5, <2>6 DEF PciInv
<1> QED BY <1>3, <1>4

LEMMA PciInvImplies == PciInv => PciExact
<1> SUFFICES ASSUME PciInv PROVE PciExact
  OBVIOUS
<1> DEFINE places == [i \in DOMAIN pciDevs |-> pciDevs[i].place]
<1>1. Range(places) = RegisteredAt
  BY DEF Range, RegisteredAt
<1>2. IsInjective(places)
  BY DEF IsInjective, PciInv
<1>3. pciStack = <<>> => \A p : Passed(pciStack, p)
  BY DEF Passed
<1> HIDE DEF places
<1>4. /\ Range(places) \subseteq Reachable
      /\ pciStack = <<>> /\ ~pciShort /\ ~Absent(<<0, 0, 0>>) => Range(places) = Reachable
  BY <1>1, <1>3 DEF PciInv
<1> QED BY <1>2, <1>4 DEF PciExact, places

\* For every machine whose further host bridges are on bus 0, each with a bus
\* of its own: pci_enumerate_bus, with its recursion, registers every function
\* that can be reached exactly once and nothing else, and binding a driver
\* keeps the list; when memory runs out it registers some of them, none twice.
THEOREM BusesWalkedOnce == Spec => []PciExact
<1>1. Init => PciInv
  BY PciInitial
<1>2. PciInv /\ [Next]_vars => PciInv'
  BY PciKeeps
<1>3. PciInv => PciExact
  BY PciInvImplies
<1> QED BY <1>1, <1>2, <1>3, PTL DEF Spec

-----------------------------------------------------------------------------
(* A FAT volume (Fat).                                                     *)

LEMMA Quotient ==
    ASSUME NEW x \in Nat, NEW d \in Nat \ {0}
    PROVE  x \div d \in Nat /\ d * (x \div d) <= x /\ x < d * (x \div d) + d
OBVIOUS

LEMMA ProductGrows ==
    ASSUME NEW p \in Nat, NEW q \in Nat, NEW d \in Nat \ {0}, p < q
    PROVE  d * p + d <= d * q
<1>1. PICK r \in Nat : q = p + 1 + r
  BY q - p - 1 \in Nat /\ q = p + 1 + (q - p - 1)
<1>2. d * q = d * p + d + d * r
  BY <1>1
<1>3. d * r \in Nat /\ d * p \in Nat
  OBVIOUS
<1> QED BY <1>2, <1>3

LEMMA QuotientOrder ==
    ASSUME NEW x \in Nat, NEW y \in Nat, NEW d \in Nat \ {0}, x + d <= y
    PROVE  (x \div d) + 1 <= y \div d
<1>1. PICK p \in Nat, q \in Nat : p = x \div d /\ q = y \div d
  BY Quotient
<1>2. d * p <= x /\ y < d * q + d
  BY <1>1, Quotient
<1>3. d * p \in Nat /\ d * q \in Nat
  OBVIOUS
<1>4. ~(q < p)
  <2> SUFFICES ASSUME q < p PROVE FALSE
    OBVIOUS
  <2>1. d * q + d <= d * p
    BY ProductGrows
  <2> QED BY <1>2, <1>3, <2>1
<1>5. q # p
  BY <1>2, <1>3
<1> QED BY <1>1, <1>4, <1>5

LEMMA QuotientBound ==
    ASSUME NEW x \in Nat, NEW m \in Nat, NEW d \in Nat \ {0}, x <= d * m
    PROVE  (x + d - 1) \div d <= m
<1>1. PICK q \in Nat : q = (x + d - 1) \div d
  BY Quotient, x + d - 1 \in Nat
<1>2. d * q <= x + d - 1
  BY <1>1, Quotient, x + d - 1 \in Nat
<1>3. d * q \in Nat /\ d * m \in Nat
  OBVIOUS
<1>4. ~(m < q)
  <2> SUFFICES ASSUME m < q PROVE FALSE
    OBVIOUS
  <2>1. d * m + d <= d * q
    BY ProductGrows
  <2> QED BY <1>2, <1>3, <2>1
<1> QED BY <1>1, <1>4

LEMMA MaxOfTwo ==
    ASSUME NEW a \in Int, NEW b \in Int
    PROVE  Max({a, b}) = IF a >= b THEN a ELSE b
<1>1. \E x \in {a, b} : \A y \in {a, b} : x >= y
  OBVIOUS
<1>2. \A x \in {a, b} : (\A y \in {a, b} : x >= y) => x = IF a >= b THEN a ELSE b
  OBVIOUS
<1> QED BY <1>1, <1>2 DEF Max

LEMMA MinOfTwo ==
    ASSUME NEW a \in Int, NEW b \in Int
    PROVE  Min({a, b}) = IF a <= b THEN a ELSE b
<1>1. \E x \in {a, b} : \A y \in {a, b} : x <= y
  OBVIOUS
<1>2. \A x \in {a, b} : (\A y \in {a, b} : x <= y) => x = IF a <= b THEN a ELSE b
  OBVIOUS
<1> QED BY <1>1, <1>2 DEF Min

\* The functions that After and Chain define by recursion.
AfterEq(f, c, k) ==
    f = [i \in 0 .. k |-> IF i = 0 THEN c ELSE IF f[i - 1] = 0 THEN 0 ELSE NextClus(f[i - 1])]
ChainEq(f, c, m) ==
    f = [k \in 0 .. m |-> IF k = 0 THEN c
                          ELSE IF f[k - 1] = Eof THEN Eof ELSE image.fat[f[k - 1]]]

LEMMA AfterExists ==
    ASSUME NEW c, NEW k \in Nat
    PROVE  \E f : AfterEq(f, c, k)
<1> DEFINE T == {n \in Nat : ~\E f : AfterEq(f, c, n)}
<1> SUFFICES ASSUME T # {} PROVE FALSE
  OBVIOUS
<1>1. PICK x \in T : \A y \in T : x <= y
  BY LeastNatural
<1>2. x \in Nat /\ ~\E f : AfterEq(f, c, x)
  OBVIOUS
<1>3. CASE x = 0
  <2>1. AfterEq([i \in 0 .. 0 |-> c], c, 0)
    BY DEF AfterEq
  <2> QED BY <1>2, <1>3, <2>1
<1>4. CASE x # 0
  <2>1. x - 1 \in Nat /\ x - 1 \notin T
    BY <1>1, <1>2, <1>4
  <2>2. PICK f : AfterEq(f, c, x - 1)
    BY <2>1
  <2>3. PICK z : z = IF f[x - 1] = 0 THEN 0 ELSE NextClus(f[x - 1])
    OBVIOUS
  <2>4. PICK g : g = [i \in 0 .. x |-> IF i = x THEN z ELSE f[i]]
    OBVIOUS
  <2>5. \A i \in 0 .. x - 1 :
            f[i] = IF i = 0 THEN c ELSE IF f[i - 1] = 0 THEN 0 ELSE NextClus(f[i - 1])
    BY <2>2 DEF AfterEq
  <2>6. ASSUME NEW i \in 0 .. x
        PROVE  g[i] = IF i = 0 THEN c ELSE IF g[i - 1] = 0 THEN 0 ELSE NextClus(g[i - 1])
    <3>1. i # 0 => g[i - 1] = f[i - 1]
      BY <1>2, <2>4
    <3>2. CASE i = x
      BY <1>4, <2>3, <2>4, <3>1, <3>2
    <3>3. CASE i # x
      <4>1. i \in 0 .. x - 1 /\ g[i] = f[i]
        BY <1>2, <2>4, <3>3
      <4> QED BY <2>5, <3>1, <4>1
    <3> QED BY <3>2, <3>3
  <2>7. g = [i \in 0 .. x |-> g[i]]
    BY <2>4
  <2>8. AfterEq(g, c, x)
    BY <2>6, <2>7 DEF AfterEq
  <2> QED BY <1>2, <2>8
<1> QED BY <1>3, <1>4

LEMMA ChainExists ==
    ASSUME NEW c, NEW k \in Nat
    PROVE  \E f : ChainEq(f, c, k)
<1> DEFINE T == {n \in Nat : ~\E f : ChainEq(f, c, n)}
<1> SUFFICES ASSUME T # {} PROVE FALSE
  OBVIOUS
<1>1. PICK x \in T : \A y \in T : x <= y
  BY LeastNatural
<1>2. x \in Nat /\ ~\E f : ChainEq(f, c, x)
  OBVIOUS
<1>3. CASE x = 0
  <2>1. ChainEq([i \in 0 .. 0 |-> c], c, 0)
    BY DEF ChainEq
  <2> QED BY <1>2, <1>3, <2>1
<1>4. CASE x # 0
  <2>1. x - 1 \in Nat /\ x - 1 \notin T
    BY <1>1, <1>2, <1>4
  <2>2. PICK f : ChainEq(f, c, x - 1)
    BY <2>1
  <2>3. PICK z : z = IF f[x - 1] = Eof THEN Eof ELSE image.fat[f[x - 1]]
    OBVIOUS
  <2>4. PICK g : g = [i \in 0 .. x |-> IF i = x THEN z ELSE f[i]]
    OBVIOUS
  <2>5. \A i \in 0 .. x - 1 :
            f[i] = IF i = 0 THEN c ELSE IF f[i - 1] = Eof THEN Eof ELSE image.fat[f[i - 1]]
    BY <2>2 DEF ChainEq
  <2>6. ASSUME NEW i \in 0 .. x
        PROVE  g[i] = IF i = 0 THEN c ELSE IF g[i - 1] = Eof THEN Eof ELSE image.fat[g[i - 1]]
    <3>1. i # 0 => g[i - 1] = f[i - 1]
      BY <1>2, <2>4
    <3>2. CASE i = x
      BY <1>4, <2>3, <2>4, <3>1, <3>2
    <3>3. CASE i # x
      <4>1. i \in 0 .. x - 1 /\ g[i] = f[i]
        BY <1>2, <2>4, <3>3
      <4> QED BY <2>5, <3>1, <4>1
    <3> QED BY <3>2, <3>3
  <2>7. g = [i \in 0 .. x |-> g[i]]
    BY <2>4
  <2>8. ChainEq(g, c, x)
    BY <2>6, <2>7 DEF ChainEq
  <2> QED BY <1>2, <2>8
<1> QED BY <1>3, <1>4

\* The cluster k steps on is the one After meets there on its way further.
LEMMA AfterOnTheWay ==
    ASSUME NEW c, NEW n \in Nat, NEW g, AfterEq(g, c, n), NEW k \in 0 .. n
    PROVE  After(c, k) = g[k]
<1> DEFINE f == CHOOSE h : AfterEq(h, c, k)
<1>1. After(c, k) = f[k]
  BY DEF After, AfterEq
<1>2. AfterEq(f, c, k)
  BY AfterExists
<1> HIDE DEF f
<1>3. \A i \in 0 .. k :
        f[i] = IF i = 0 THEN c ELSE IF f[i - 1] = 0 THEN 0 ELSE NextClus(f[i - 1])
  BY <1>2 DEF AfterEq
<1>4. \A i \in 0 .. k :
        g[i] = IF i = 0 THEN c ELSE IF g[i - 1] = 0 THEN 0 ELSE NextClus(g[i - 1])
  BY DEF AfterEq
<1>5. \A i \in 0 .. k : f[i] = g[i]
  <2> DEFINE T == {i \in 0 .. k : f[i] # g[i]}
  <2> SUFFICES ASSUME T # {} PROVE FALSE
    OBVIOUS
  <2>1. PICK x \in T : \A y \in T : x <= y
    <3>1. T \in SUBSET Nat
      OBVIOUS
    <3> HIDE DEF T
    <3> QED BY <3>1, LeastNatural
  <2>2. x \in 0 .. k /\ f[x] # g[x]
    OBVIOUS
  <2>3. x # 0
    BY <1>3, <1>4, <2>2
  <2>4. x - 1 \in 0 .. k /\ x - 1 \notin T
    BY <2>1, <2>2, <2>3
  <2>5. f[x - 1] = g[x - 1]
    BY <2>4
  <2> QED BY <1>3, <1>4, <2>2, <2>3, <2>5
<1> QED BY <1>1, <1>5

LEMMA FatEntryFacts ==
    ASSUME NEW d, NextClus(d) # 0
    PROVE  d \in DOMAIN image.fat /\ NextClus(d) = image.fat[d]
<1>1. IsNext(FatEntry(d)) /\ NextClus(d) = FatEntry(d)
  BY DEF NextClus
<1>2. ~IsNext(0)
  BY DEF IsNext
<1> QED BY <1>1, <1>2 DEF FatEntry

\* As long as fat_next_clus goes on, it follows the chain.
LEMMA ChainFollowed ==
    ASSUME image \in Images, NEW c, NEW n \in Nat, After(c, n) # 0,
           n <= Cardinality(DOMAIN image.fat), NEW k \in 1 .. n
    PROVE  Chain(c)[k] = After(c, k - 1)
<1> DEFINE m == Cardinality(DOMAIN image.fat)
           h == CHOOSE f : ChainEq(f, c, m)
           L == {j \in 1 .. m : h[j - 1] # Eof}
<1>0. m \in Nat /\ Eof \notin DOMAIN image.fat
  <2>1. WellFormed(image)
    BY FatAssumption
  <2>2. IsFiniteSet(DOMAIN image.fat) /\ Eof \notin DOMAIN image.fat
    BY <2>1 DEF WellFormed
  <2> QED BY <2>2, FS_CardinalityType
<1>1. Chain(c) = [i \in 1 .. Cardinality(L) |-> h[i - 1]]
  BY DEF Chain, ChainEq
<1>2. ChainEq(h, c, m)
  BY <1>0, ChainExists
<1>3. PICK g : AfterEq(g, c, n)
  BY AfterExists
<1>4. \A i \in 0 .. n : After(c, i) = g[i]
  BY <1>3, AfterOnTheWay
<1>n. n <= m
  OBVIOUS
<1> HIDE DEF h, m
<1>5. \A i \in 0 .. n :
        g[i] = IF i = 0 THEN c ELSE IF g[i - 1] = 0 THEN 0 ELSE NextClus(g[i - 1])
  BY <1>3 DEF AfterEq
<1>6. \A i \in 0 .. m :
        h[i] = IF i = 0 THEN c ELSE IF h[i - 1] = Eof THEN Eof ELSE image.fat[h[i - 1]]
  BY <1>2 DEF ChainEq
<1>7. \A i \in 0 .. n : g[i] # 0
  <2> DEFINE T == {i \in 0 .. n : g[n - i] = 0}
  <2> SUFFICES ASSUME T # {} PROVE FALSE
    <3>1. \A i \in 0 .. n : n - i \in 0 .. n /\ n - (n - i) = i
      OBVIOUS
    <3> QED BY <3>1
  <2>1. PICK x \in T : \A y \in T : x <= y
    <3>1. T \in SUBSET Nat
      OBVIOUS
    <3> HIDE DEF T
    <3> QED BY <3>1, LeastNatural
  <2>2. x \in 0 .. n /\ g[n - x] = 0
    OBVIOUS
  <2>3. g[n] # 0
    BY <1>4
  <2>4. x # 0
    BY <2>2, <2>3
  <2>5. x - 1 \in 0 .. n /\ x - 1 \notin T
    BY <2>1, <2>2, <2>4
  <2>6. n - (x - 1) \in 0 .. n /\ n - (x - 1) # 0 /\ (n - (x - 1)) - 1 = n - x
    BY <2>2, <2>4
  <2>7. g[n - (x - 1)] = 0
    BY <1>5, <2>2, <2>6
  <2> QED BY <2>5, <2>7
<1>8. \A i \in 0 .. n - 1 : g[i] \in DOMAIN image.fat /\ g[i + 1] = image.fat[g[i]] /\ g[i] # Eof
  <2> TAKE i \in 0 .. n - 1
  <2>1. i \in 0 .. n /\ i + 1 \in 0 .. n /\ (i + 1) - 1 = i /\ i + 1 # 0
    OBVIOUS
  <2>2. g[i + 1] = NextClus(g[i]) /\ NextClus(g[i]) # 0
    BY <1>5, <1>7, <2>1
  <2> QED BY <1>0, <2>2, FatEntryFacts
<1>9. \A i \in 0 .. n - 1 : h[i] = g[i]
  <2> DEFINE T == {i \in 0 .. n - 1 : h[i] # g[i]}
  <2> SUFFICES ASSUME T # {} PROVE FALSE
    OBVIOUS
  <2>1. PICK x \in T : \A y \in T : x <= y
    <3>1. T \in SUBSET Nat
      OBVIOUS
    <3> HIDE DEF T
    <3> QED BY <3>1, LeastNatural
  <2>2. x \in 0 .. n - 1 /\ h[x] # g[x]
    OBVIOUS
  <2>3. x # 0
    BY <1>0, <1>5, <1>6, <2>2
  <2>4. x - 1 \in 0 .. n - 1 /\ x - 1 \notin T /\ (x - 1) + 1 = x /\ x \in 0 .. m
    BY <1>0, <1>n, <2>1, <2>2, <2>3
  <2>5. h[x - 1] = g[x - 1]
    BY <2>4
  <2>6. g[x] = image.fat[g[x - 1]] /\ g[x - 1] # Eof
    BY <1>8, <2>4
  <2> QED BY <1>6, <2>2, <2>3, <2>4, <2>5, <2>6
<1>10. 1 .. n \subseteq L
  <2> SUFFICES ASSUME NEW j \in 1 .. n PROVE j \in L
    OBVIOUS
  <2>1. j - 1 \in 0 .. n - 1 /\ j \in 1 .. m
    BY <1>0, <1>n
  <2> QED BY <1>8, <1>9, <2>1
<1>11. n <= Cardinality(L) /\ Cardinality(L) \in Nat
  <2>1. IsFiniteSet(1 .. m)
    BY <1>0, FS_Interval
  <2>2. IsFiniteSet(L)
    BY <2>1, FS_Subset
  <2>3. Cardinality(1 .. n) = n
    BY FS_Interval
  <2>4. Cardinality(1 .. n) <= Cardinality(L)
    BY <1>10, <2>2, FS_Subset
  <2> QED BY <2>2, <2>3, <2>4, FS_CardinalityType
<1> HIDE DEF L
<1>12. k \in 1 .. Cardinality(L) /\ k - 1 \in 0 .. n - 1 /\ k - 1 \in 0 .. n
  BY <1>11
<1> QED BY <1>1, <1>4, <1>9, <1>12

\* What fat_parse_metadata computes.
LEMMA Geometry ==
    ASSUME NEW im \in Images, NEW g, g = ParseMetadata(im.boot)
    PROVE  /\ g.clusters \in Nat /\ g.spc \in Nat \ {0} /\ g.firstData \in Nat /\ g.sectors \in Nat
           /\ g.clustersize \in Nat \ {0}
           /\ im.boot.sectorsize \in SectorSizes => g.entriesPerCluster \in Nat \ {0}
           /\ im.boot.spf16 = 0 =>
                /\ g.firstData >= im.boot.reserved + im.boot.fats * im.boot.spf32
                /\ g.clusters * g.spc + g.firstData <= g.sectors
                /\ (g.clusters + 1) * g.spc + g.firstData > g.sectors
<1> DEFINE b == im.boot
<1>1. /\ \A field \in {"spf16", "spf32", "count16", "count32", "rootEntries", "reserved", "fats"} :
            b[field] \in Nat
      /\ b.sectorsize \in Nat \ {0} /\ b.spc \in Nat \ {0}
      /\ b.spf16 = 0 => ParseMetadata(b).firstData <= ParseMetadata(b).sectors
                        /\ ParseMetadata(b).sectors < U32
  <2>1. WellFormed(im)
    BY FatAssumption
  <2> QED BY <2>1 DEF WellFormed
<1>2. PICK ss, spc, res, fats, re, c16, c32, s32, s16 :
        /\ ss = b.sectorsize /\ spc = b.spc /\ res = b.reserved /\ fats = b.fats /\ s16 = b.spf16
        /\ re = b.rootEntries /\ c16 = b.count16 /\ c32 = b.count32 /\ s32 = b.spf32
  OBVIOUS
<1>3. /\ ss \in Nat \ {0} /\ spc \in Nat \ {0} /\ res \in Nat /\ fats \in Nat /\ re \in Nat
      /\ c16 \in Nat /\ c32 \in Nat /\ s32 \in Nat /\ s16 \in Nat
  BY <1>1, <1>2
<1>4. PICK count, root, spf :
        /\ count = Max({c16, c32}) /\ root = (re * EntrySize + ss - 1) \div ss
        /\ spf = IF s16 = 0 THEN s32 ELSE c16
  OBVIOUS
<1>5. count \in Nat /\ root \in Nat /\ spf \in Nat
  <2>1. count \in Nat /\ spf \in Nat
    BY <1>3, <1>4, MaxOfTwo
  <2>2. re * EntrySize \in Nat
    BY <1>3, FatAssumption
  <2>3. re * EntrySize + ss - 1 \in Nat
    BY <1>3, <2>2
  <2>4. root \in Nat
    BY <1>3, <1>4, <2>3, Quotient
  <2> QED BY <2>1, <2>4
<1>6. PICK before : before = res + fats * spf + root
  OBVIOUS
<1>7. before \in Nat /\ fats * spf \in Nat /\ before >= res + fats * spf
  BY <1>3, <1>5, <1>6
<1>8. PICK data : data = (count - before) % U32
  OBVIOUS
<1>9. data \in Nat
  BY <1>5, <1>7, <1>8, FatAssumption
<1>10. PICK clusters : clusters = data \div spc
  OBVIOUS
<1>11. clusters \in Nat /\ spc * clusters <= data /\ data < spc * clusters + spc
  BY <1>3, <1>9, <1>10, Quotient
<1>12. /\ g.sectors = count /\ g.spc = spc /\ g.clusters = clusters /\ g.firstData = before
       /\ g.clustersize = spc * ss /\ g.entriesPerCluster = (spc * ss) \div EntrySize
  BY <1>2, <1>4, <1>6, <1>8, <1>10 DEF ParseMetadata
<1>13. spc * ss \in Nat \ {0}
  BY <1>3
<1>14. ss \in SectorSizes => (spc * ss) \div EntrySize \in Nat \ {0}
  <2> SUFFICES ASSUME ss \in SectorSizes PROVE (spc * ss) \div EntrySize \in Nat \ {0}
    OBVIOUS
  <2>1. EntrySize \in Nat \ {0} /\ ss >= EntrySize
    BY FatAssumption
  <2>2. spc * ss >= ss
    BY <1>3
  <2>3. 0 + EntrySize <= spc * ss
    BY <1>3, <1>13, <2>1, <2>2
  <2>4. (0 \div EntrySize) + 1 <= (spc * ss) \div EntrySize
    BY <1>13, <2>1, <2>3, QuotientOrder
  <2>5. 0 \div EntrySize \in Nat /\ (spc * ss) \div EntrySize \in Nat
    BY <1>13, <2>1, Quotient
  <2> QED BY <2>4, <2>5
<1>15. ASSUME s16 = 0
       PROVE  /\ before >= res + fats * s32
              /\ clusters * spc + before <= count
              /\ (clusters + 1) * spc + before > count
  <2>1. before <= count /\ count < U32
    BY <1>1, <1>2, <1>12, <1>15
  <2>2. data = count - before
    <3>1. count - before \in 0 .. U32 - 1
      BY <1>5, <1>7, <2>1, FatAssumption
    <3> QED BY <1>8, <3>1, FatAssumption
  <2>3. spc * clusters \in Nat /\ clusters * spc = spc * clusters
        /\ (clusters + 1) * spc = spc * clusters + spc
    BY <1>3, <1>11
  <2>4. spf = s32
    BY <1>4, <1>15
  <2> QED BY <1>3, <1>5, <1>7, <1>11, <2>2, <2>3, <2>4
<1> QED BY <1>2, <1>3, <1>5, <1>7, <1>11, <1>12, <1>13, <1>14, <1>15

\* fat_read of n bytes from an offset in the first cluster, when it succeeds.
ReadsFirst(c, off, n, cs) ==
    /\ image \in Images /\ ctx = ParseMetadata(image.boot)
    /\ off \in Nat /\ n \in Nat \ {0} /\ off < ctx.clustersize
    /\ off + n <= ctx.clustersize * Cardinality(DOMAIN image.fat)
    /\ cs = ReadClusters(c, off, n) /\ cs # <<>>

LEMMA FirstClusterRead ==
    ASSUME NEW c, NEW off, NEW n, NEW cs, ReadsFirst(c, off, n, cs), NEW i \in 1 .. n
    PROVE  Copied(cs, off, n)[i] =
            <<Chain(c)[(off + i - 1) \div ctx.clustersize + 1], (off + i - 1) % ctx.clustersize>>
<1> USE DEF ReadsFirst
<1>1. PICK size, m : size = ctx.clustersize /\ m = Cardinality(DOMAIN image.fat)
  OBVIOUS
<1>2. size \in Nat \ {0}
  BY <1>1, Geometry
<1>3. m \in Nat
  <2>1. WellFormed(image)
    BY FatAssumption
  <2>2. IsFiniteSet(DOMAIN image.fat)
    BY <2>1 DEF WellFormed
  <2> QED BY <1>1, <2>2, FS_CardinalityType
<1>4. PICK count : count = Spanned(off, n)
  OBVIOUS
<1>5. count = (off + n + size - 1) \div size
  <2>1. off % size = off
    BY <1>1, <1>2
  <2>2. n + off + size - 1 = off + n + size - 1
    BY <1>2
  <2> QED BY <1>1, <1>4, <2>1, <2>2 DEF Spanned
<1>6. count \in Nat /\ count <= m
  <2>1. off + n \in Nat /\ off + n <= size * m /\ off + n + size - 1 \in Nat
    BY <1>1, <1>2
  <2> QED BY <1>2, <1>3, <1>5, <2>1, Quotient, QuotientBound
<1>7. off \div size = 0
  BY <1>1, <1>2
<1>8. After(c, count) # 0 /\ cs = [k \in 1 .. count |-> After(c, k - 1)]
  <2>1. 0 + count = count /\ \A k \in 1 .. count : 0 + k - 1 = k - 1
    BY <1>6
  <2>2. cs = IF After(c, 0 + count) = 0 THEN <<>>
             ELSE [k \in 1 .. count |-> After(c, 0 + k - 1)]
    BY <1>1, <1>4, <1>7 DEF ReadClusters
  <2> QED BY <2>1, <2>2
<1>9. PICK at, k : at = off + i - 1 /\ k = at \div size + 1
  OBVIOUS
<1>10. at \in Nat /\ at + size <= off + n + size - 1 /\ off + n + size - 1 \in Nat
  BY <1>2, <1>9
<1>11. k \in 1 .. count
  <2>1. at \div size \in Nat
    BY <1>2, <1>10, Quotient
  <2>2. at \div size + 1 <= count
    BY <1>2, <1>5, <1>10, QuotientOrder
  <2> QED BY <1>6, <1>9, <2>1, <2>2
<1>12. Len(cs) = count
  BY <1>6, <1>8
<1>13. Copied(cs, off, n)[i] = <<cs[k], at % size>>
  BY <1>1, <1>9, <1>11, <1>12 DEF Copied
<1>14. cs[k] = After(c, k - 1)
  BY <1>8, <1>11
<1>15. Chain(c)[k] = After(c, k - 1)
  BY <1>1, <1>6, <1>8, <1>11, ChainFollowed
<1> QED BY <1>1, <1>9, <1>13, <1>14, <1>15

-----------------------------------------------------------------------------
\* The invariant: the geometry is the boot record's, the walk stays in the
\* directories' clusters, sizes are an entry's, and the descriptor has an
\* offset that off_t can say.
Locs ==
    [node : Nat, cluster : DOMAIN image.dir, offset : 0 .. ctx.entriesPerCluster - 1,
     readNext : BOOLEAN]
SizeOK(n) ==
    n \in 0 .. OffHalf - 1 /\ n <= ctx.clustersize * Cardinality(DOMAIN image.fat)
FdOK ==
    \/ fd = NoFd /\ got = NoRead
    \/ /\ fd \in [open : {TRUE}, node : 1 .. Len(nodes), off : 0 .. OffHalf - 1]
       /\ mount \in {"mounted", "panic"}
VolumeRead ==
    /\ ctx = ParseMetadata(image.boot) /\ image.boot.sectorsize \in SectorSizes
    /\ walk \in Seq(Locs)
    /\ \E S : nodes \in Seq(S)
    /\ \A i \in 1 .. Len(nodes) : SizeOK(nodes[i].size)
GotExact ==
    fd.open /\ got.data # <<>> /\ got.off < ctx.clustersize =>
       \A i \in 1 .. Len(got.data) :
           LET at == got.off + i - 1 IN
           got.data[i] = <<Chain(nodes[fd.node].n)[at \div ctx.clustersize + 1],
                           at % ctx.clustersize>>

FatInv ==
    /\ image \in Images
    /\ mount \in {"probe", "walk", "mounted", "refused", "panic"}
    /\ FdOK
    /\ mount \in {"walk", "mounted", "panic"} => VolumeRead
    /\ mount = "walk" => walk # <<>>
    /\ GotExact

LEMMA FatInitial == FatInit => FatInv
<1> SUFFICES ASSUME FatInit PROVE FatInv
  OBVIOUS
<1>1. fd.open = FALSE
  BY DEF FatInit, NoFd
<1> QED BY <1>1 DEF FatInit, FatInv, FdOK, GotExact

LEMMA FatInvImplies == FatInv => ReadsAreExact /\ ClustersInsideVolume
<1> SUFFICES ASSUME FatInv PROVE ReadsAreExact /\ ClustersInsideVolume
  OBVIOUS
<1>1. fd.open => fd.off >= 0
  <2>1. CASE fd = NoFd
    BY <2>1 DEF NoFd
  <2>2. CASE fd # NoFd
    <3>1. fd \in [open : {TRUE}, node : 1 .. Len(nodes), off : 0 .. OffHalf - 1]
      BY <2>2 DEF FatInv, FdOK
    <3>2. fd.off \in 0 .. OffHalf - 1
      BY <3>1
    <3> QED BY <3>2, FatAssumption
  <2> QED BY <2>1, <2>2
<1>2. ReadsAreExact
  BY <1>1 DEF ReadsAreExact, FatInv, GotExact
<1>3. ASSUME mount \in {"walk", "mounted"}, image.boot.spf16 = 0
      PROVE  LET b == image.boot IN
             /\ ClusterToSector(2) >= b.reserved + b.fats * b.spf32
             /\ ClusterToSector(ctx.clusters + 2) <= ctx.sectors
             /\ ClusterToSector(ctx.clusters + 3) > ctx.sectors
  <2>1. image \in Images /\ ctx = ParseMetadata(image.boot)
    BY <1>3 DEF FatInv, VolumeRead
  <2>2. PICK n, s, f, t : n = ctx.clusters /\ s = ctx.spc /\ f = ctx.firstData /\ t = ctx.sectors
    OBVIOUS
  <2>3. /\ n \in Nat /\ s \in Nat \ {0} /\ f \in Nat /\ t \in Nat
        /\ f >= image.boot.reserved + image.boot.fats * image.boot.spf32
        /\ n * s + f <= t /\ (n + 1) * s + f > t
    BY <1>3, <2>1, <2>2, Geometry
  <2>4. (2 - 2) * s + f = f /\ (n + 2) - 2 = n /\ (n + 3) - 2 = n + 1
    BY <2>3
  <2> QED BY <2>2, <2>3, <2>4 DEF ClusterToSector
<1> QED BY <1>2, <1>3 DEF ClustersInsideVolume

\* fat_init up to the enumeration.
LEMMA InitKeeps == FatInv /\ (\E dest \in {"/", "elsewhere"} : InitFs(dest)) => FatInv'
<1> SUFFICES ASSUME FatInv, NEW dest \in {"/", "elsewhere"}, InitFs(dest) PROVE FatInv'
  OBVIOUS
<1>1. /\ mount = "probe" /\ image' = image /\ fd' = fd /\ got' = got /\ image \in Images
      /\ mount' \in {"walk", "refused", "panic"}
  BY DEF InitFs, FatInv
<1>2. fd = NoFd /\ got = NoRead
  BY <1>1 DEF FatInv, FdOK
<1>3. FdOK' /\ GotExact'
  <2>1. fd'.open = FALSE
    BY <1>1, <1>2 DEF NoFd
  <2> QED BY <1>1, <1>2, <2>1 DEF FdOK, GotExact
<1>4. CASE mount' = "refused"
  BY <1>1, <1>3, <1>4 DEF FatInv
<1>5. CASE mount' \in {"walk", "panic"}
  <2>1. /\ Validates(image.boot) /\ ctx' = ParseMetadata(image.boot)
        /\ nodes' = <<[name |-> <<"/">>, parent |-> 0, n |-> ctx'.root, dir |-> TRUE, size |-> 0]>>
        /\ walk' = <<StartLoc(1, ctx'.root)>>
    BY <1>5 DEF InitFs, RootVnode
  <2>2. image.boot.sectorsize \in SectorSizes
    BY <2>1 DEF Validates
  <2>3. /\ ctx'.entriesPerCluster \in Nat \ {0} /\ ctx'.clustersize \in Nat \ {0}
        /\ ctx'.root \in DOMAIN image.dir /\ Cardinality(DOMAIN image.fat) \in Nat
    <3>1. WellFormed(image)
      BY <1>1, FatAssumption
    <3>2. ctx'.root \in DOMAIN image.dir /\ IsFiniteSet(DOMAIN image.fat)
      BY <2>1, <3>1 DEF WellFormed
    <3> QED BY <1>1, <2>1, <2>2, <3>2, Geometry, FS_CardinalityType
  <2>4. StartLoc(1, ctx'.root) \in Locs'
    BY <1>1, <2>3 DEF StartLoc, Locs
  <2>5. walk' \in Seq(Locs') /\ walk' # <<>>
    BY <2>1, <2>4
  <2>6. PICK v : v = [name |-> <<"/">>, parent |-> 0, n |-> ctx'.root, dir |-> TRUE, size |-> 0]
    OBVIOUS
  <2>7. v.size = 0 /\ nodes' = <<v>>
    BY <2>1, <2>6
  <2>8. nodes' \in Seq({v}) /\ \A i \in 1 .. Len(nodes') : nodes'[i].size = 0
    BY <2>7
  <2>9. SizeOK(0)'
    BY <1>1, <2>3, FatAssumption DEF SizeOK
  <2>10. VolumeRead'
    BY <1>1, <2>1, <2>2, <2>5, <2>8, <2>9 DEF VolumeRead
  <2> QED BY <1>1, <1>3, <1>5, <2>5, <2>10 DEF FatInv
<1> QED BY <1>1, <1>4, <1>5

LEMMA FrontFacts ==
    ASSUME NEW S, NEW s \in Seq(S), s # <<>>
    PROVE  Front(s) \in Seq(S) /\ Len(Front(s)) = Len(s) - 1
<1>1. Len(s) - 1 \in Nat /\ \A i \in 1 .. Len(s) - 1 : s[i] \in S
  OBVIOUS
<1>2. Front(s) = [i \in 1 .. Len(s) - 1 |-> s[i]]
  BY <1>1 DEF Front
<1> QED BY <1>1, <1>2

\* Where the walk is.
LEMMA WalkFacts ==
    ASSUME FatInv, mount = "walk"
    PROVE  /\ image \in Images /\ VolumeRead /\ fd = NoFd /\ got = NoRead
           /\ walk # <<>> /\ Len(walk) \in Nat \ {0}
           /\ Loc \in Locs /\ Front(walk) \in Seq(Locs) /\ Len(Front(walk)) = Len(walk) - 1
<1>1. image \in Images /\ VolumeRead /\ walk # <<>> /\ walk \in Seq(Locs) /\ fd = NoFd /\ got = NoRead
  BY DEF FatInv, FdOK, VolumeRead
<1> HIDE DEF Locs
<1>2. Len(walk) \in Nat \ {0}
  BY <1>1
<1>3. Loc \in Locs
  BY <1>1, <1>2 DEF Loc, Last
<1>4. Front(walk) \in Seq(Locs) /\ Len(Front(walk)) = Len(walk) - 1
  BY <1>1, FrontFacts
<1> QED BY <1>1, <1>2, <1>3, <1>4

\* fat_advance_loc and fat_advance_loc_clus.
LEMMA LocatedFacts ==
    ASSUME image \in Images, VolumeRead, NEW at \in Locs, Located(at) # <<>>, NEW loc, loc = Head(Located(at))
    PROVE  loc \in Locs /\ AdvanceLoc(loc) \in Locs
<1>1. ctx.entriesPerCluster \in Nat \ {0} /\ WellFormed(image)
  BY Geometry, FatAssumption DEF VolumeRead
<1>2. loc \in Locs
  <2>1. CASE ~at.readNext
    BY <2>1 DEF Located
  <2>2. CASE at.readNext
    <3>1. PICK n : n = NextClus(at.cluster)
      OBVIOUS
    <3>2. n # 0 /\ loc = [at EXCEPT !.cluster = n, !.readNext = FALSE]
      BY <2>2, <3>1 DEF Located
    <3>3. at.cluster \in DOMAIN image.dir
      BY DEF Locs
    <3>4. at.cluster \in DOMAIN image.fat /\ n = image.fat[at.cluster] /\ IsNext(n) /\ n \in Int
      <4>1. at.cluster \in DOMAIN image.fat /\ n = image.fat[at.cluster]
        BY <3>1, <3>2, FatEntryFacts
      <4>2. IsNext(n)
        BY <3>1, <3>2 DEF NextClus
      <4> QED BY <1>1, <4>1, <4>2 DEF WellFormed
    <3>5. n \in DOMAIN image.dir
      <4>1. n \in 2 .. ctx.clusters
        BY <3>4, Geometry DEF IsNext, VolumeRead
      <4> QED BY <1>1, <3>3, <3>4, <4>1 DEF WellFormed, VolumeRead
    <3> QED BY <3>2, <3>5 DEF Locs
  <2> QED BY <2>1, <2>2
<1>3. AdvanceLoc(loc) \in Locs
  <2>1. loc.offset \in 0 .. ctx.entriesPerCluster - 1
    BY <1>2 DEF Locs
  <2>2. PICK o : o = IF loc.offset + 1 = ctx.entriesPerCluster THEN 0 ELSE loc.offset + 1
    OBVIOUS
  <2>3. o \in 0 .. ctx.entriesPerCluster - 1
    BY <1>1, <2>1, <2>2
  <2>4. \E r \in BOOLEAN : AdvanceLoc(loc) = [loc EXCEPT !.offset = o, !.readNext = r]
    BY <1>2, <2>2 DEF AdvanceLoc, Locs
  <2> QED BY <1>2, <2>3, <2>4 DEF Locs
<1> QED BY <1>2, <1>3

\* A step of the walk, from what it does to the walk and to the vnodes.
LEMMA WalkingKeeps ==
    ASSUME FatInv, mount = "walk", UNCHANGED <<image, ctx, fd, got>>,
           mount' \in {"walk", "mounted", "panic"}, walk' \in Seq(Locs),
           mount' = "walk" => walk' # <<>>,
           \E S : nodes' \in Seq(S), \A i \in 1 .. Len(nodes') : SizeOK(nodes'[i].size)
    PROVE  FatInv'
<1>1. image \in Images /\ VolumeRead /\ fd = NoFd /\ got = NoRead
  BY WalkFacts
<1>2. FdOK' /\ GotExact'
  <2>1. fd'.open = FALSE
    BY <1>1 DEF NoFd
  <2> QED BY <1>1, <2>1 DEF FdOK, GotExact
<1>3. Locs' = Locs /\ \A n : SizeOK(n)' <=> SizeOK(n)
  BY DEF Locs, SizeOK
<1>4. VolumeRead'
  BY <1>1, <1>3 DEF VolumeRead
<1> QED BY <1>1, <1>2, <1>4 DEF FatInv

LEMMA DirDoneKeeps ==
    ASSUME FatInv, mount = "walk", UNCHANGED <<image, ctx, fd, got>>, NEW ok, DirDone(ok)
    PROVE  FatInv'
<1>1. /\ walk' = Front(walk) /\ nodes' = nodes
      /\ mount' = IF Len(walk) > 1 THEN "walk" ELSE IF ok THEN "mounted" ELSE "panic"
  BY DEF DirDone
<1>2. VolumeRead /\ Front(walk) \in Seq(Locs) /\ Len(Front(walk)) = Len(walk) - 1
      /\ Len(walk) \in Nat
  BY WalkFacts
<1>3. mount' = "walk" => Len(Front(walk)) # 0
  BY <1>1, <1>2
<1>4. mount' = "walk" => walk' # <<>>
  BY <1>1, <1>3
<1>5. mount' \in {"walk", "mounted", "panic"}
  BY <1>1
<1>6. (\E S : nodes' \in Seq(S)) /\ \A i \in 1 .. Len(nodes') : SizeOK(nodes'[i].size)
  BY <1>1, <1>2 DEF VolumeRead
<1> QED BY <1>1, <1>2, <1>4, <1>5, <1>6, WalkingKeeps

LEMMA AppendedTo ==
    ASSUME NEW S, NEW s \in Seq(S), NEW e \in S
    PROVE  Append(s, e) \in Seq(S) /\ Append(s, e) # <<>>
<1>1. Append(s, e) \in Seq(S) /\ Len(Append(s, e)) = Len(s) + 1 /\ Len(s) \in Nat
  OBVIOUS
<1> QED BY <1>1

LEMMA MoveOnKeeps ==
    ASSUME FatInv, mount = "walk", UNCHANGED <<image, ctx, fd, got>>, NEW loc \in Locs,
           walk' = WithLoc(loc), nodes' = nodes, mount' = mount
    PROVE  FatInv'
<1>1. VolumeRead /\ Front(walk) \in Seq(Locs)
  BY WalkFacts
<1>2. walk' \in Seq(Locs) /\ walk' # <<>>
  BY <1>1, AppendedTo DEF WithLoc
<1>3. (\E S : nodes' \in Seq(S)) /\ \A i \in 1 .. Len(nodes') : SizeOK(nodes'[i].size)
  BY <1>1 DEF VolumeRead
<1>4. mount' \in {"walk", "mounted", "panic"}
  OBVIOUS
<1> QED BY <1>2, <1>3, <1>4, WalkingKeeps

LEMMA CacheKeeps ==
    ASSUME FatInv, mount = "walk", UNCHANGED <<image, ctx, fd, got>>, NEW loc \in Locs,
           AdvanceLoc(loc) \in Locs, NEW e, e = EntryAt(loc), e.kind # "lfn",
           NEW name, CacheEntry(e, name, loc), nodes' # nodes
    PROVE  FatInv'
<1>1. image \in Images /\ VolumeRead /\ Front(walk) \in Seq(Locs)
  BY WalkFacts
<1>2. PICK node : node = [name |-> name, parent |-> loc.node, n |-> e.cluster,
                          dir |-> e.kind = "dir", size |-> e.size]
  OBVIOUS
<1>3. PICK sub : sub = StartLoc(Len(nodes) + 1, e.cluster)
  OBVIOUS
<1>4. /\ nodes' = Append(nodes, node) /\ mount' \in {"walk", "panic"}
      /\ walk' = IF node.dir THEN Append(WithLoc(AdvanceLoc(loc)), sub)
                 ELSE WithLoc(AdvanceLoc(loc))
  BY <1>2, <1>3 DEF CacheEntry
<1>5. (e.kind = "dir" => e.cluster \in DOMAIN image.dir) /\ SizeOK(e.size)
  <2>1. WellFormed(image) /\ ctx = ParseMetadata(image.boot)
    BY <1>1, FatAssumption DEF VolumeRead
  <2>2. PICK d, j : d = loc.cluster /\ j = loc.offset + 1
    OBVIOUS
  <2>3. d \in DOMAIN image.dir /\ j \in 1 .. ctx.entriesPerCluster /\ e = image.dir[d][j]
    <3>1. ctx.entriesPerCluster \in Nat
      BY <1>1, Geometry DEF VolumeRead
    <3> QED BY <2>2, <3>1 DEF Locs, EntryAt
  <2>4. /\ e.kind = "dir" => e.cluster \in DOMAIN image.dir
        /\ e.size \in 0 .. OffHalf - 1
        /\ e.size <= ctx.clustersize * Cardinality(DOMAIN image.fat)
    BY <2>1, <2>3 DEF WellFormed
  <2> QED BY <2>4 DEF SizeOK
<1>6. walk' \in Seq(Locs) /\ walk' # <<>>
  <2>1. WithLoc(AdvanceLoc(loc)) \in Seq(Locs) /\ WithLoc(AdvanceLoc(loc)) # <<>>
    BY <1>1, AppendedTo DEF WithLoc
  <2>2. CASE node.dir
    <3>1. e.kind = "dir" /\ e.cluster \in DOMAIN image.dir
      BY <1>2, <1>5, <2>2
    <3>2. Len(nodes) \in Nat /\ ctx.entriesPerCluster \in Nat \ {0}
      BY <1>1, Geometry DEF VolumeRead
    <3>3. sub \in Locs
      BY <1>3, <3>1, <3>2 DEF StartLoc, Locs
    <3>4. walk' = Append(WithLoc(AdvanceLoc(loc)), sub)
      BY <1>4, <2>2
    <3> QED BY <2>1, <3>3, <3>4, AppendedTo
  <2>3. CASE ~node.dir
    BY <1>4, <2>1, <2>3
  <2> QED BY <2>2, <2>3
<1>7. PICK S : nodes \in Seq(S)
  BY <1>1 DEF VolumeRead
<1>8. /\ nodes' \in Seq(S \cup {node}) /\ Len(nodes') = Len(nodes) + 1 /\ Len(nodes) \in Nat
      /\ nodes'[Len(nodes) + 1] = node /\ \A i \in 1 .. Len(nodes) : nodes'[i] = nodes[i]
  BY <1>4, <1>7
<1>9. \A i \in 1 .. Len(nodes') : SizeOK(nodes'[i].size)
  <2> TAKE i \in 1 .. Len(nodes')
  <2>1. CASE i = Len(nodes) + 1
    BY <1>2, <1>5, <1>8, <2>1
  <2>2. CASE i # Len(nodes) + 1
    <3>1. i \in 1 .. Len(nodes) /\ nodes'[i] = nodes[i]
      BY <1>8, <2>2
    <3> QED BY <1>1, <3>1 DEF VolumeRead
  <2> QED BY <2>1, <2>2
<1>10. mount' \in {"walk", "mounted", "panic"}
  BY <1>4
<1> QED BY <1>6, <1>8, <1>9, <1>10, WalkingKeeps

\* fat_dir_entry_to_vnode and fat_read_lfns.
LEMMA EntryKeeps == FatInv /\ (FirstEntry \/ LfnEntry) => FatInv'
<1> SUFFICES ASSUME FatInv, FirstEntry \/ LfnEntry PROVE FatInv'
  OBVIOUS
<1>1. mount = "walk" /\ UNCHANGED <<image, ctx, fd, got>>
  BY DEF FirstEntry, LfnEntry
<1>2. PICK at, loc, e : at = Located(Loc) /\ loc = Head(at) /\ e = EntryAt(loc)
  OBVIOUS
<1>3. \/ \E ok : DirDone(ok)
      \/ mount' = "panic" /\ walk' = walk /\ nodes' = nodes
      \/ at # <<>> /\ walk' = WithLoc(AdvanceLoc(loc)) /\ nodes' = nodes /\ mount' = mount
      \/ at # <<>> /\ \E name : e.kind # "lfn" /\ CacheEntry(e, name, loc) /\ nodes' # nodes
  <2>1. \/ \E ok : DirDone(ok)
        \/ mount' = "panic" /\ walk' = walk /\ nodes' = nodes
        \/ at # <<>> /\ walk' = WithLoc(AdvanceLoc(loc)) /\ nodes' = nodes /\ mount' = mount
        \/ at # <<>> /\ \E name : e.kind # "lfn" /\ CacheEntry(e, name, loc)
    <3>1. CASE FirstEntry
      BY <1>2, <3>1 DEF FirstEntry, EntryFails, NoLegacyName
    <3>2. CASE LfnEntry
      BY <1>2, <3>2 DEF LfnEntry, EntryFails
    <3> QED BY <3>1, <3>2
  <2>2. ASSUME NEW name, CacheEntry(e, name, loc), nodes' = nodes
        PROVE  walk' = WithLoc(AdvanceLoc(loc)) /\ mount' = mount
    <3>1. \A v : Append(nodes, v) # nodes
      <4>1. PICK S : nodes \in Seq(S)
        BY <1>1, WalkFacts DEF VolumeRead
      <4> TAKE v
      <4>2. Len(Append(nodes, v)) = Len(nodes) + 1 /\ Len(nodes) \in Nat
        BY <4>1
      <4> QED BY <4>2
    <3> QED BY <2>2, <3>1 DEF CacheEntry
  <2> QED BY <2>1, <2>2
<1>4. at # <<>> => loc \in Locs /\ AdvanceLoc(loc) \in Locs
  BY <1>1, <1>2, WalkFacts, LocatedFacts
<1>5. CASE \E ok : DirDone(ok)
  BY <1>1, <1>5, DirDoneKeeps
<1>6. CASE at # <<>> /\ walk' = WithLoc(AdvanceLoc(loc)) /\ nodes' = nodes /\ mount' = mount
  BY <1>1, <1>4, <1>6, MoveOnKeeps
<1>7. CASE at # <<>> /\ \E name : e.kind # "lfn" /\ CacheEntry(e, name, loc) /\ nodes' # nodes
  BY <1>1, <1>2, <1>4, <1>7, CacheKeeps
<1>8. CASE mount' = "panic" /\ walk' = walk /\ nodes' = nodes
  <2>1. VolumeRead /\ walk' \in Seq(Locs)
    BY <1>1, <1>8, WalkFacts DEF VolumeRead
  <2>2. (\E S : nodes' \in Seq(S)) /\ \A i \in 1 .. Len(nodes') : SizeOK(nodes'[i].size)
    BY <1>8, <2>1 DEF VolumeRead
  <2> QED BY <1>1, <1>8, <2>1, <2>2, WalkingKeeps
<1> QED BY <1>3, <1>5, <1>6, <1>7, <1>8

\* Calls on the mounted volume.
LEMMA CallKeeps ==
    ASSUME FatInv, mount = "mounted", UNCHANGED <<image, ctx, walk, nodes>>,
           mount' \in {"mounted", "panic"}, FdOK', GotExact'
    PROVE  FatInv'
<1>1. VolumeRead /\ image \in Images
  BY DEF FatInv
<1>2. Locs' = Locs /\ \A n : SizeOK(n)' <=> SizeOK(n)
  BY DEF Locs, SizeOK
<1>3. VolumeRead'
  BY <1>1, <1>2 DEF VolumeRead
<1> QED BY <1>1, <1>3 DEF FatInv

LEMMA OffRange ==
    ASSUME NEW x \in Int
    PROVE  /\ Off(x) \in -OffHalf .. OffHalf - 1
           /\ x \in 0 .. OffHalf - 1 => Off(x) = x
<1>1. PICK h \in Nat \ {0} : h = OffHalf
  BY FatAssumption
<1>2. PICK m : m = x % (2 * h)
  OBVIOUS
<1>3. m \in 0 .. 2 * h - 1 /\ (x \in 0 .. h - 1 => m = x)
  BY <1>1, <1>2
<1>4. Off(x) = IF m < h THEN m ELSE m - 2 * h
  BY <1>1, <1>2 DEF Off
<1> QED BY <1>1, <1>3, <1>4

LEMMA OpenFd ==
    ASSUME FatInv, mount = "mounted", fd.open
    PROVE  /\ fd \in [open : {TRUE}, node : 1 .. Len(nodes), off : 0 .. OffHalf - 1]
           /\ fd.node \in 1 .. Len(nodes) /\ fd.off \in 0 .. OffHalf - 1
           /\ SizeOK(nodes[fd.node].size)
<1>1. fd # NoFd
  BY DEF NoFd
<1>2. fd \in [open : {TRUE}, node : 1 .. Len(nodes), off : 0 .. OffHalf - 1]
  BY <1>1 DEF FatInv, FdOK
<1> QED BY <1>2 DEF FatInv, VolumeRead

\* vfs_read through fat_read.
LEMMA ReadKeeps ==
    ASSUME FatInv, NEW n \in 1 .. MaxRead, Read(n)
    PROVE  FatInv'
<1>1. mount = "mounted" /\ fd.open /\ UNCHANGED <<image, ctx, walk, nodes, mount>>
  BY DEF Read
<1>2. /\ fd \in [open : {TRUE}, node : 1 .. Len(nodes), off : 0 .. OffHalf - 1]
      /\ fd.node \in 1 .. Len(nodes) /\ fd.off \in 0 .. OffHalf - 1
      /\ SizeOK(nodes[fd.node].size)
  BY <1>1, OpenFd
<1>3. PICK node, off, m, cs : /\ node = nodes[fd.node] /\ off = fd.off
                              /\ m = Min({n, node.size - off})
                              /\ cs = ReadClusters(node.n, off, m)
  OBVIOUS
<1>4. CASE off >= node.size \/ cs = <<>>
  <2>1. got' = [off |-> off, data |-> <<>>] /\ fd' = fd
    BY <1>3, <1>4 DEF Read
  <2>2. got'.data = <<>>
    BY <2>1
  <2>3. FdOK' /\ GotExact'
    BY <1>1, <1>2, <2>1, <2>2 DEF FdOK, GotExact
  <2> QED BY <1>1, <2>3, CallKeeps
<1>5. CASE ~(off >= node.size \/ cs = <<>>)
  <2>1. got' = [off |-> off, data |-> Copied(cs, off, m)] /\ fd' = [fd EXCEPT !.off = Off(off + m)]
    BY <1>3, <1>5 DEF Read
  <2>2. PICK size \in 0 .. OffHalf - 1 : size = node.size
    BY <1>2, <1>3 DEF SizeOK
  <2>3. off \in Nat /\ off < size /\ OffHalf \in Nat /\ n \in Nat \ {0}
    BY <1>2, <1>3, <1>5, <2>2, FatAssumption
  <2>4. m \in Nat \ {0} /\ off + m <= size
    <3>1. n \in Int /\ size - off \in Int /\ m = Min({n, size - off})
      BY <1>3, <2>2, <2>3
    <3>2. m = IF n <= size - off THEN n ELSE size - off
      BY <3>1, MinOfTwo
    <3> QED BY <2>2, <2>3, <3>2
  <2>5. Off(off + m) = off + m /\ off + m \in 0 .. OffHalf - 1
    <3>1. off + m \in 0 .. OffHalf - 1
      BY <2>2, <2>3, <2>4
    <3> QED BY <3>1, OffRange
  <2>6. FdOK'
    <3>1. fd' \in [open : {TRUE}, node : 1 .. Len(nodes), off : 0 .. OffHalf - 1]
      BY <1>2, <2>1, <2>5
    <3> QED BY <1>1, <3>1 DEF FdOK
  <2>7. GotExact'
    <3>1. /\ got'.off = off /\ got'.data = Copied(cs, off, m) /\ fd'.node = fd.node
          /\ Len(Copied(cs, off, m)) = m
      <4>1. got'.off = off /\ got'.data = Copied(cs, off, m)
        BY <2>1
      <4>2. fd'.node = fd.node
        BY <1>2, <2>1
      <4>3. Len(Copied(cs, off, m)) = m
        BY <2>4 DEF Copied
      <4> QED BY <4>1, <4>2, <4>3
    <3>2. image \in Images /\ ctx = ParseMetadata(image.boot)
      BY <1>1 DEF FatInv, VolumeRead
    <3>3. off + m <= ctx.clustersize * Cardinality(DOMAIN image.fat)
      <4>1. ctx.clustersize \in Nat /\ Cardinality(DOMAIN image.fat) \in Nat
        <5>1. WellFormed(image)
          BY <3>2, FatAssumption
        <5>2. IsFiniteSet(DOMAIN image.fat)
          BY <5>1 DEF WellFormed
        <5> QED BY <3>2, <5>2, Geometry, FS_CardinalityType
      <4>2. PICK z : z = ctx.clustersize * Cardinality(DOMAIN image.fat)
        OBVIOUS
      <4>3. z \in Nat /\ size <= z
        BY <1>2, <1>3, <2>2, <4>1, <4>2 DEF SizeOK
      <4> QED BY <2>2, <2>3, <2>4, <4>2, <4>3
    <3>4. ASSUME off < ctx.clustersize, NEW i \in 1 .. m
          PROVE  Copied(cs, off, m)[i] =
                    <<Chain(node.n)[(off + i - 1) \div ctx.clustersize + 1],
                      (off + i - 1) % ctx.clustersize>>
      <4>1. PICK c : c = node.n
        OBVIOUS
      <4>2. ReadsFirst(c, off, m, cs)
        BY <1>3, <1>5, <2>3, <2>4, <3>2, <3>3, <3>4, <4>1 DEF ReadsFirst
      <4>3. Copied(cs, off, m)[i] =
                <<Chain(c)[(off + i - 1) \div ctx.clustersize + 1],
                  (off + i - 1) % ctx.clustersize>>
        BY ONLY <3>4, <4>2, FirstClusterRead
      <4> QED BY ONLY <4>1, <4>3
    <3>5. Chain(node.n)' = Chain(node.n)
      BY <1>1 DEF Chain
    <3>6. nodes'[fd'.node].n = node.n
      BY <1>1, <1>3, <3>1
    <3> SUFFICES ASSUME off < ctx.clustersize, NEW i \in 1 .. m
                 PROVE  got'.data[i] =
                            <<Chain(nodes[fd.node].n)'[(off + i - 1) \div ctx.clustersize + 1],
                              (off + i - 1) % ctx.clustersize>>
      BY <1>1, <3>1 DEF GotExact
    <3>7. Chain(nodes[fd.node].n)' = Chain(node.n)
      BY <1>1, <3>6 DEF Chain
    <3> QED BY <3>1, <3>4, <3>7
  <2> QED BY <1>1, <2>6, <2>7, CallKeeps
<1> QED BY <1>4, <1>5

\* vfs_open of a cached vnode.
LEMMA OpenKeeps ==
    ASSUME FatInv, NEW i \in 1 .. Len(nodes), Open(i)
    PROVE  FatInv'
<1>1. /\ mount = "mounted" /\ fd = NoFd /\ UNCHANGED <<image, ctx, walk, nodes, mount, got>>
      /\ fd' = [open |-> TRUE, node |-> i, off |-> 0]
  BY DEF Open
<1>2. fd # [open |-> TRUE, node |-> i, off |-> 0] /\ fd.open = FALSE
  BY <1>1 DEF NoFd
<1>3. got = NoRead
  <2>1. fd \notin [open : {TRUE}, node : 1 .. Len(nodes), off : 0 .. OffHalf - 1]
    BY <1>2
  <2> QED BY <2>1 DEF FatInv, FdOK
<1>4. got'.data = <<>>
  BY <1>1, <1>3 DEF NoRead
<1>5. FdOK'
  <2>1. fd' \in [open : {TRUE}, node : 1 .. Len(nodes), off : 0 .. OffHalf - 1]
    BY <1>1, FatAssumption
  <2> QED BY <1>1, <2>1 DEF FdOK
<1>6. GotExact'
  BY <1>4 DEF GotExact
<1> QED BY <1>1, <1>5, <1>6, CallKeeps

\* vfs_lseek: a sum that has wrapped is negative and refused.
LEMMA LseekKeeps ==
    ASSUME FatInv, NEW whence \in {"set", "cur", "end"}, NEW off \in Offs, Lseek(whence, off)
    PROVE  FatInv'
<1>1. /\ mount = "mounted" /\ fd.open /\ UNCHANGED <<image, ctx, walk, nodes, mount>>
      /\ got' = NoRead /\ fd' = [fd EXCEPT !.off = SeekTarget(whence, off)]
  BY DEF Lseek
<1>2. /\ fd \in [open : {TRUE}, node : 1 .. Len(nodes), off : 0 .. OffHalf - 1]
      /\ fd.node \in 1 .. Len(nodes) /\ fd.off \in 0 .. OffHalf - 1
      /\ SizeOK(nodes[fd.node].size)
  BY <1>1, OpenFd
<1>3. PICK h \in Nat \ {0} : h = OffHalf
  BY FatAssumption
<1>4. PICK at, size : at = fd.off /\ size = nodes[fd.node].size
  OBVIOUS
<1>5. at \in 0 .. h - 1 /\ size \in 0 .. h - 1 /\ off \in -h .. h - 1
  BY <1>2, <1>3, <1>4 DEF SizeOK, Offs
<1>6. PICK res : res = CASE whence = "set" -> off
                        [] whence = "cur" -> Off(at + off)
                        [] whence = "end" -> Off(size + off)
  OBVIOUS
<1>7. res \in -h .. h - 1
  <2>1. at + off \in Int /\ size + off \in Int
    BY <1>3, <1>5
  <2>2. Off(at + off) \in -h .. h - 1 /\ Off(size + off) \in -h .. h - 1
    BY <1>3, <2>1, OffRange
  <2> QED BY <1>5, <1>6, <2>2
<1>8. SeekTarget(whence, off) = IF res < 0 THEN at ELSE res
  BY <1>4, <1>6 DEF SeekTarget
<1>9. SeekTarget(whence, off) \in 0 .. h - 1
  BY <1>3, <1>5, <1>7, <1>8
<1>10. FdOK'
  <2>1. fd' \in [open : {TRUE}, node : 1 .. Len(nodes), off : 0 .. OffHalf - 1]
    BY <1>1, <1>2, <1>3, <1>9
  <2> QED BY <1>1, <2>1 DEF FdOK
<1>11. GotExact'
  BY <1>1 DEF GotExact, NoRead
<1> QED BY <1>1, <1>10, <1>11, CallKeeps

\* vfs_close.
LEMMA CloseKeeps == FatInv /\ Close => FatInv'
<1> SUFFICES ASSUME FatInv, Close PROVE FatInv'
  OBVIOUS
<1>1. /\ mount = "mounted" /\ UNCHANGED <<image, ctx, walk, nodes, mount>>
      /\ fd' = NoFd /\ got' = NoRead
  BY DEF Close
<1>2. FdOK' /\ GotExact'
  BY <1>1 DEF FdOK, GotExact, NoFd
<1> QED BY <1>1, <1>2, CallKeeps

\* A failed read.
LEMMA ReadFailsKeeps == FatInv /\ ReadFails => FatInv'
<1> SUFFICES ASSUME FatInv, ReadFails PROVE FatInv'
  OBVIOUS
<1>1. /\ mount = "mounted" /\ UNCHANGED <<image, ctx, walk, nodes, mount, fd>>
      /\ got' = [off |-> fd.off, data |-> <<>>] /\ fd.open
  BY DEF ReadFails
<1>2. FdOK'
  <2>1. fd # NoFd
    BY ONLY <1>1 DEF NoFd
  <2> QED BY ONLY <1>1, <2>1, FatInv DEF FatInv, FdOK
<1>3. GotExact'
  <2>1. got'.data = <<>>
    BY <1>1
  <2> QED BY <2>1 DEF GotExact
<1> QED BY <1>1, <1>2, <1>3, CallKeeps

\* An operation that is not written halts the kernel.
LEMMA UnsupportedKeeps == FatInv /\ Unsupported => FatInv'
<1> SUFFICES ASSUME FatInv, Unsupported PROVE FatInv'
  OBVIOUS
<1>1. /\ mount = "mounted" /\ mount' = "panic"
      /\ UNCHANGED <<image, ctx, walk, nodes, fd, got>>
  BY DEF Unsupported
<1>2. FdOK'
  BY <1>1 DEF FatInv, FdOK
<1>3. GotExact'
  <2>1. \A c : Chain(c)' = Chain(c)
    BY <1>1 DEF Chain
  <2> QED BY <1>1, <2>1 DEF FatInv, GotExact
<1> QED BY <1>1, <1>2, <1>3, CallKeeps

\* What changes none of the variables.
LEMMA FatStutter == FatInv /\ UNCHANGED fatVars => FatInv'
<1> SUFFICES ASSUME FatInv, UNCHANGED fatVars PROVE FatInv'
  OBVIOUS
<1>1. UNCHANGED <<image, ctx, walk, nodes, mount, fd, got>>
  BY DEF fatVars
<1>2. Locs' = Locs /\ \A n : SizeOK(n)' <=> SizeOK(n)
  BY <1>1 DEF Locs, SizeOK
<1>3. VolumeRead' <=> VolumeRead
  BY <1>1, <1>2 DEF VolumeRead
<1>4. FdOK'
  BY <1>1 DEF FatInv, FdOK
<1>5. GotExact'
  <2>1. \A c : Chain(c)' = Chain(c)
    BY <1>1 DEF Chain
  <2> QED BY <1>1, <2>1 DEF FatInv, GotExact
<1> QED BY <1>1, <1>3, <1>4, <1>5 DEF FatInv

LEMMA FatStep == FatInv /\ [FatNext]_fatVars => FatInv'
<1> SUFFICES ASSUME FatInv, [FatNext]_fatVars PROVE FatInv'
  OBVIOUS
<1>1. CASE \E dest \in {"/", "elsewhere"} : InitFs(dest)
  BY <1>1, InitKeeps
<1>2. CASE FirstEntry \/ LfnEntry
  BY <1>2, EntryKeeps
<1>3. CASE \E i \in 1 .. Len(nodes) : Open(i)
  BY <1>3, OpenKeeps
<1>4. CASE \E n \in 1 .. MaxRead : Read(n)
  BY <1>4, ReadKeeps
<1>5. CASE \E whence \in {"set", "cur", "end"}, off \in Offs : Lseek(whence, off)
  BY <1>5, LseekKeeps
<1>6. CASE Close
  BY <1>6, CloseKeeps
<1>7. CASE Unsupported
  BY <1>7, UnsupportedKeeps
<1>8. CASE ReadFails
  BY <1>8, ReadFailsKeeps
<1>9. CASE UNCHANGED fatVars
  BY <1>9, FatStutter
<1> QED BY <1>1, <1>2, <1>3, <1>4, <1>5, <1>6, <1>7, <1>8, <1>9 DEF FatNext

\* On every volume whose directories and sizes are in order, what a read from
\* the first cluster returns are the file's bytes at the descriptor's offset,
\* over as many clusters as they take, and no sum of offsets is ever negative
\* (fat_read, vfs_read, vfs_lseek).
THEOREM ReadsStayExact == FatSpec => []ReadsAreExact
<1>1. FatInv => ReadsAreExact
  BY FatInvImplies
<1> QED BY <1>1, FatInitial, FatStep, PTL DEF FatSpec

\* On every volume of any geometry whose tables fit into it, the clusters that
\* fat_parse_metadata counts lie behind the tables and end inside the volume,
\* and one more would not fit.
THEOREM ClustersStayInside == FatSpec => []ClustersInsideVolume
<1>1. FatInv => ClustersInsideVolume
  BY FatInvImplies
<1> QED BY <1>1, FatInitial, FatStep, PTL DEF FatSpec
=============================================================================

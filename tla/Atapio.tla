------------------------------- MODULE Atapio -------------------------------
(***************************************************************************)
(* Transfers of sectors between memory and an ATA drive by programmed I/O  *)
(* (drivers/storage/ata/atapio.c), and the drive as the driver uses it: a  *)
(* command starts a run of sectors, each of which the drive hands over     *)
(* when it is ready.  A count of 0 means the largest run, which is longer  *)
(* for an LBA48 command, whose count has 16 bits.                          *)
(***************************************************************************)
EXTENDS Integers, Sequences

CONSTANTS
    Chunk,      \* sectors one command can move (256)
    Chunk48,    \* sectors an LBA48 drive moves for a count of 0 (65536)
    Lba28,      \* sectors an LBA28 command can address (2^28)
    Timeout     \* the milliseconds the kernel waits for the drive (200)

ASSUME AtapioAssumption ==
    /\ Chunk \in Nat \ {0, 1} /\ Chunk48 \in Nat /\ Chunk48 > Chunk
    /\ Lba28 \in Nat \ {0} /\ Timeout \in Nat

VARIABLES
    xfer,   \* the call of atapio_read or atapio_write that is running
    drive   \* the drive it talks to: the next sector, and how many are due

xferVars == <<xfer, drive>>

\* first and asked are the arguments of the call; clock is the time since the
\* timer of the wait was started; moved is what went over the data port, a
\* sector number or -1 for what was read from, or written to, a drive that was
\* not ready; sent are the runs of sectors commands asked for; heard says
\* whether every command came to a drive that had nothing due.
Idle ==
    [st |-> "idle", op |-> "read", sectors |-> 0, lba48 |-> FALSE,
     first |-> 0, asked |-> 0, lba |-> 0, left |-> 0, sector |-> 0, clock |-> 0,
     moved |-> <<>>, sent |-> <<>>, heard |-> TRUE]

AtRest == [at |-> 0, due |-> 0]

AtapioInit == xfer = Idle /\ drive = AtRest

\* atapio_is_valid_range.
ValidRange(lba, n, sectors) == lba <= sectors /\ n # 0 /\ n <= sectors - lba

\* atapio_internal_sectors.
InternalSectors(n) == IF n >= Chunk THEN 0 ELSE n

\* workingsectors, min(sectors, 256).
Working == IF xfer.left < Chunk THEN xfer.left ELSE Chunk

\* The drive starts a run of sectors.
DriveRun(lba48, lba, count) ==
    [at |-> lba,
     due |-> IF count # 0 THEN count ELSE IF lba48 THEN Chunk48 ELSE Chunk]

\* A transfer is asked for: it begins, or is out of range and returns -EINVAL.
\* The drive is the one of the call before, with what is still due, or another.
StartTransfer(op, lba48, sectors, lba, n) ==
    /\ xfer.st = "idle"
    /\ ValidRange(lba, n, sectors)
    /\ xfer' = [Idle EXCEPT !.st = "command", !.op = op,
                !.sectors = sectors, !.lba48 = lba48,
                !.first = lba, !.asked = n, !.lba = lba, !.left = n]
    /\ drive' \in {drive, AtRest}

\* atapio_send_read_cmd and atapio_send_write_cmd: an LBA28 command takes the
\* low 28 bits of the address.  Their bool result is never negative.  What a
\* drive makes of a command while it has sectors due is not determined: it
\* goes on, begins anew or gives up.
SendCommand ==
    /\ xfer.st = "command"
    /\ LET lba == IF xfer.lba48 THEN xfer.lba ELSE xfer.lba % Lba28
           run == DriveRun(xfer.lba48, lba, InternalSectors(Working))
       IN  /\ drive' \in IF drive.due = 0 THEN {run} ELSE {drive, run, AtRest}
           /\ xfer' = [xfer EXCEPT !.st = "sector", !.sector = 0, !.clock = 0,
                       !.heard = @ /\ drive.due = 0,
                       !.sent = Append(@, [at |-> lba, n |-> run.due])]

\* The tick interrupt while the kernel polls the drive.
AtaTick ==
    /\ xfer.st \in {"sector", "flush"}
    /\ xfer.clock <= Timeout
    /\ xfer' = [xfer EXCEPT !.clock = @ + 1]
    /\ UNCHANGED drive

\* Wrong variant: the timer is started again in every round of the polling.
TimedOut_Never == FALSE

\* timer_elapsed_ms(&t) > timeout_ms.
TimedOut == xfer.clock > Timeout

\* The end of the loop over the sectors of a command: a write is flushed.  The
\* next wait starts its own timer.
AfterSector(x, working) ==
    [x EXCEPT !.clock = 0,
              !.st = IF x.sector < working THEN "sector"
                     ELSE IF x.op = "write" THEN "flush" ELSE "advance"]

\* The drive is ready and a sector goes over the data port.
MoveSector ==
    /\ xfer.st = "sector"
    /\ drive.due > 0
    /\ drive' = IF drive.due = 1 THEN AtRest
                ELSE [at |-> drive.at + 1, due |-> drive.due - 1]
    /\ xfer' = AfterSector([xfer EXCEPT !.sector = @ + 1,
                            !.moved = Append(@, drive.at)], Working)

\* The result of atapio_wait_for_ready is a bool, so "st < 0" does not see
\* that it failed and the loop moves 256 words all the same.
MoveJunk ==
    /\ xfer.st = "sector"
    /\ xfer' = AfterSector([xfer EXCEPT !.sector = @ + 1,
                            !.moved = Append(@, -1)], Working)
    /\ UNCHANGED drive

\* atapio_wait_for_ready sees an error of the drive, or times out.
DriveError    == MoveJunk
ReadyTimesOut == TimedOut /\ MoveJunk

\* The end of atapio_flush_sectors, which the drive may have understood as any
\* command if it has sectors due.  The caller cannot tell how it ended.
Flush ==
    /\ xfer.st = "flush"
    /\ xfer' = [xfer EXCEPT !.st = "advance", !.clock = 0]
    /\ drive' \in {drive, AtRest}

\* The drive is not busy, or the wait for it times out.
FlushDone     == Flush
FlushTimesOut == TimedOut /\ Flush

\* Wrong variant: the address is not advanced with the count.
Advance_SameLba ==
    /\ xfer.st = "advance"
    /\ xfer' = [xfer EXCEPT !.left = @ - Working,
                !.st = IF xfer.left = Working THEN "done" ELSE "command"]
    /\ UNCHANGED drive

\* The end of the outer loop.  The buffer is not advanced: every sector is
\* read into, or written from, its first 512 bytes.
Advance ==
    /\ xfer.st = "advance"
    /\ xfer' = [xfer EXCEPT !.left = @ - Working, !.lba = @ + Working,
                !.st = IF xfer.left = Working THEN "done" ELSE "command"]
    /\ UNCHANGED drive

\* What a call leaves behind in the drive: one sector stands for all.
LeftDue == IF drive.due = 0 THEN AtRest ELSE [at |-> 0, due |-> 1]

\* The call returns sectors, which is 0 by now.
Return ==
    /\ xfer.st = "done"
    /\ xfer' = Idle
    /\ drive' = LeftDue

\* What the kernel does by itself, and what the drive does when it will.
KernelStep == SendCommand \/ ReadyTimesOut \/ FlushTimesOut \/ Advance \/ Return
DriveStep  == MoveSector \/ DriveError \/ FlushDone

AtapioStep == KernelStep \/ DriveStep \/ AtaTick

-----------------------------------------------------------------------------
\* Nothing went wrong that the driver does not see.
Clean == xfer.heard /\ \A i \in DOMAIN xfer.moved : xfer.moved[i] # -1

\* The calls whose counts the drive takes for what the driver means.
CountsAgree == ~xfer.lba48 \/ xfer.asked < Chunk

SentInRange ==
    \A i \in DOMAIN xfer.sent :
        /\ xfer.sent[i].at >= xfer.first
        /\ xfer.sent[i].at + xfer.sent[i].n <= xfer.first + xfer.asked
        /\ xfer.sent[i].at + xfer.sent[i].n <= xfer.sectors

\* Over any number of commands atapio_read and atapio_write move the sectors
\* that were asked for, each once and in order.  Of an LBA28 drive, or below 256
\* sectors, the drive is due exactly what the inner loop is still going to
\* move, and no command, not even after a sector the drive was not ready for,
\* asks for a sector outside of the range of the call.
TransferExact ==
    /\ Clean => /\ \A i \in DOMAIN xfer.moved : xfer.moved[i] = xfer.first + i - 1
                /\ xfer.st = "done" => Len(xfer.moved) = xfer.asked
    /\ CountsAgree =>
        /\ Clean => /\ xfer.st = "sector" => drive.due = Working - xfer.sector
                    /\ xfer.st = "done" => drive.due = 0
        /\ SentInRange

\* Every transfer comes back although the drive may stay busy: the timer of
\* each wait runs out, whatever the drive does (atapio_wait_for_ready,
\* atapio_flush_sectors).
TransferEnds == (xfer.st # "idle") ~> (xfer.st = "idle")

\* "ATAPIO drives interpret a sector count of 0 as 256." (drivers/storage/ata/
\* atapio.c): a command asks for sectors of the call's range only.
\* The code does not keep this.
CommandsStayInRange == SentInRange
=============================================================================

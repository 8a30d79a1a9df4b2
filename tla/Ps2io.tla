-------------------------------- MODULE Ps2io --------------------------------
(***************************************************************************)
(* The PS/2 controller driver's main (drivers/buses/ps2io): it sets the    *)
(* controller up, resets the first device, asks it what it is and          *)
(* registers a keyboard with serialio.                                     *)
(*                                                                         *)
(* The device (external) answers each command with bytes it sends when it  *)
(* pleases, one at a time: a byte waits in the controller until it is      *)
(* read.  A read without a look at the status gives the last byte again    *)
(* when there is no new one.                                               *)
(***************************************************************************)
EXTENDS Serialio

CONSTANTS
    Ids,        \* the answers of devices to the identify command
    Timeout     \* clock ticks dev_timeout lasts

\* A device answers with at most two bytes.
ASSUME Ps2ioAssumption ==
    \A id \in Ids : id = <<>> \/ id = <<id[1]>> \/ id = <<id[1], id[2]>>

Ack    == "FA"
Passed == "AA"
Failed == "FC"
NoData == "00"   \* the value of a read that timed out, and ident_data[1]
Unset  == "FF"   \* ident_data[0]

Kbd       == [name |-> "ps2kbd", maj |-> NoMaj, min |-> 1]
Keyboards == {<<"AB", "83">>, <<"AB", "C1">>}

VARIABLES
    pc,         \* where ps2io_main is
    step,       \* the next of the controller's set-up steps
    device,     \* what is connected: its id and how it takes a reset
    queue,      \* the bytes the device has not sent yet
    latch,      \* the controller's data register
    full,       \* whether it holds a byte not read yet (status bit 0)
    ack,        \* of the loop that is running
    ident, prev,   \* ident_data up to its cursor, prev_data
    waited,     \* ticks since TIMEOUT_START
    failed      \* whether a loop has timed out, a command could not be written
                \* or there was no memory

ps2Vars == <<pc, step, device, queue, latch, full, ack, ident, prev, waited, failed>>

\* The set-up of the controller, in order: what fails ends main, but for
\* writing the configuration back and the second round after the self test.
SetUp ==
    <<[does |-> "disable and flush", checked |-> TRUE],
      [does |-> "read config", checked |-> TRUE],
      [does |-> "write config", checked |-> FALSE],
      [does |-> "self test", checked |-> TRUE],
      [does |-> "disable and flush", checked |-> FALSE],
      [does |-> "write config", checked |-> FALSE],
      [does |-> "test port", checked |-> TRUE],
      [does |-> "enable", checked |-> TRUE],
      [does |-> "disable scanning", checked |-> TRUE]>>

Ps2Init ==
    /\ pc = "controller" /\ step = 1
    /\ device \in [id : Ids, reset : {<<Ack, Passed>>, <<Ack, Failed>>, <<>>}]
    /\ queue = <<>> /\ latch = NoData /\ full = FALSE
    /\ ack = FALSE /\ ident = <<>> /\ prev = NoData /\ waited = 0 /\ failed = FALSE

\* The device's answer to a command.  A device that takes no reset takes no
\* command.
Answers(bytes) == IF device.reset = <<>> THEN <<>> ELSE bytes

\* ps2io_init_controller, up to the reset.  Disabling scanning reads the data
\* register at once, whether or not the answer is there.
SetUpStep ==
    /\ pc = "controller"
    /\ step' = step + 1
    /\ pc' = IF step = Len(SetUp) THEN "reset" ELSE pc
    /\ queue' = IF SetUp[step].does = "disable scanning" THEN queue \o Answers(<<Ack>>) ELSE queue
    /\ full' = IF SetUp[step].does \in {"disable and flush", "disable scanning"} THEN FALSE ELSE full
    /\ UNCHANGED <<device, latch, ack, ident, prev, waited, failed>>

\* A command that cannot be written, no answer to it, or a bad one.
SetUpFails ==
    /\ pc = "controller"
    /\ IF SetUp[step].checked THEN pc' = "done" /\ failed' = TRUE /\ UNCHANGED step
                              ELSE step' = step + 1 /\ UNCHANGED <<pc, failed>>
    /\ UNCHANGED <<device, queue, latch, full, ack, ident, prev, waited>>

\* The device sends its next byte (external).
DeviceSends ==
    /\ queue # <<>> /\ ~full
    /\ latch' = Head(queue) /\ queue' = Tail(queue)
    /\ full' = TRUE
    /\ UNCHANGED <<pc, step, device, ack, ident, prev, waited, failed>>

\* The clock, as far as dev_timeout looks at it.
ClockTick ==
    /\ pc \in {"resetting", "identifying"} /\ waited <= Timeout
    /\ waited' = waited + 1
    /\ UNCHANGED <<pc, step, device, queue, latch, full, ack, ident, prev, failed>>

\* Wrong variant: the loops never look at the time.
TimeoutDone_Never == FALSE

TimeoutDone == waited > Timeout

\* ps2io_reset_device sends the command and starts its timeout.
Reset ==
    /\ pc = "reset"
    /\ queue' = queue \o device.reset
    /\ pc' = "resetting" /\ ack' = FALSE /\ waited' = 0
    /\ UNCHANGED <<step, device, latch, full, ident, prev, failed>>

\* One round of its loop: a byte that is there in time, or 0.
ResetPoll ==
    LET data == IF full THEN latch ELSE NoData
    IN  /\ pc = "resetting" /\ ~TimeoutDone
        /\ full' = FALSE
        /\ ack' = (ack \/ data = Ack)
        /\ pc' = CASE ack /\ data = Failed -> "done"
                   [] ack /\ data = Passed -> "scanning off"
                   [] OTHER -> pc
        /\ UNCHANGED <<step, device, queue, latch, ident, prev, waited, failed>>

\* The reset, or disabling scanning after it, cannot be written.
CommandFails ==
    /\ pc \in {"reset", "scanning off"}
    /\ pc' = "done" /\ failed' = TRUE
    /\ UNCHANGED <<step, device, queue, latch, full, ack, ident, prev, waited>>

\* Disabling scanning once more, then the identify command: whether that
\* could be written is not looked at.
Identify(written) ==
    /\ pc = "scanning off"
    /\ queue' = queue \o Answers(<<Ack>>) \o (IF written THEN Answers(<<Ack>> \o device.id) ELSE <<>>)
    /\ full' = FALSE
    /\ pc' = "identifying" /\ ack' = FALSE /\ waited' = 0
    /\ ident' = <<>> /\ prev' = NoData
    /\ UNCHANGED <<step, device, latch, failed>>

\* Wrong variant: a byte read again counts as the next byte.
IsNew_Always(data) == TRUE

IsNew(data) == data # prev

\* One round of ps2io_identify_device's loop.
IdentifyPoll ==
    /\ pc = "identifying" /\ ~TimeoutDone
    /\ full' = FALSE
    /\ IF latch = Ack
       THEN ack' = TRUE /\ UNCHANGED <<pc, ident, prev>>
       ELSE /\ UNCHANGED ack
            /\ pc' = IF ack /\ Len(ident) >= 2 THEN "identified" ELSE pc
            /\ ident' = IF ack /\ Len(ident) < 2 /\ IsNew(latch) THEN Append(ident, latch) ELSE ident
            /\ prev' = IF ack /\ Len(ident) < 2 THEN latch ELSE prev
    /\ UNCHANGED <<step, device, queue, latch, waited, failed>>

\* The timeout of either loop.
GiveUp ==
    /\ pc \in {"resetting", "identifying"} /\ TimeoutDone
    /\ pc' = IF pc = "resetting" THEN "done" ELSE "identified"
    /\ failed' = TRUE
    /\ UNCHANGED <<step, device, queue, latch, full, ack, ident, prev, waited>>

IdentData == <<IF Len(ident) > 0 THEN ident[1] ELSE Unset, IF Len(ident) > 1 THEN ident[2] ELSE NoData>>

\* The end of ps2io_identify_device, with the keyboard driver's try_link when
\* that driver is registered.
RegisterDevice(accepts) ==
    /\ pc = "identified" /\ IdentData \in Keyboards
    /\ NewDev(Kbd, accepts)
    /\ pc' = "done"
    /\ UNCHANGED <<step, device, queue, latch, full, ack, ident, prev, waited, failed>>

\* Another device, whose error is only logged, or no memory.
NoKeyboard ==
    /\ pc = "identified"
    /\ pc' = "done"
    /\ failed' = (failed \/ IdentData \in Keyboards)
    /\ UNCHANGED <<serialioVars, step, device, queue, latch, full, ack, ident, prev, waited>>

\* The main of the keyboard driver's module, before or after this one's.
Ps2kbdMain(accepts) ==
    /\ NewDrv([name |-> "ps2kbd", maj |-> NoMaj], accepts)
    /\ UNCHANGED ps2Vars

Ps2Polls == ResetPoll \/ IdentifyPoll \/ GiveUp
Ps2Steps ==
    \/ SetUpStep \/ SetUpFails \/ Reset \/ CommandFails
    \/ \E written \in BOOLEAN : Identify(written)

Ps2Next ==
    \/ /\ Ps2Steps \/ Ps2Polls \/ DeviceSends \/ ClockTick
       /\ UNCHANGED serialioVars
    \/ NoKeyboard
    \/ \E accepts \in BOOLEAN : RegisterDevice(accepts) \/ Ps2kbdMain(accepts)

-----------------------------------------------------------------------------
\* A keyboard is registered only for a device that says it is one, and when
\* nothing fails for every such device that passes its reset:
\* acknowledgements of earlier commands that come late, and bytes read twice,
\* never change what the device is taken for.
KeyboardIdentified ==
    /\ (\E d \in ToSet(devs) : d.name = Kbd.name) => device.id \in Keyboards /\ device.reset = <<Ack, Passed>>
    /\ (pc = "done" /\ ~failed /\ device.id \in Keyboards
            /\ device.reset = <<Ack, Passed>>)
            => (\E d \in ToSet(devs) : d.name = Kbd.name)
=============================================================================

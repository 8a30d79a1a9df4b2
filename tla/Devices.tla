------------------------------- MODULE Devices -------------------------------
(***************************************************************************)
(* The boot and the devices around the kernel: its modules and symbols     *)
(* (Boot), its output (Console), its clock and timers (Timer), and the     *)
(* serial devices (Serialio, Ps2io).  They share no state: a behaviour     *)
(* uses one of them.                                                       *)
(***************************************************************************)
EXTENDS Console, Timer, Ps2io, Boot

VARIABLE part   \* the part this behaviour uses

Parts == {"boot", "console", "timer", "serialio", "ps2io"}

vars == <<part, consoleVars, timerVars, serialioVars, ps2Vars, bootVars>>

Init ==
    /\ part \in Parts
    /\ ConsoleInit /\ TimerInit /\ SerialioInit /\ Ps2Init /\ BootInit
    /\ part # "ps2io" => device = [id |-> <<>>, reset |-> <<>>]

Next ==
    /\ UNCHANGED part
    /\ \/ /\ part = "boot" /\ BootNext
          /\ UNCHANGED <<consoleVars, timerVars, serialioVars, ps2Vars>>
       \/ /\ part = "console" /\ ConsoleNext
          /\ UNCHANGED <<timerVars, serialioVars, ps2Vars, bootVars>>
       \/ /\ part = "timer" /\ TimerNext
          /\ UNCHANGED <<consoleVars, serialioVars, ps2Vars, bootVars>>
       \/ /\ part = "serialio" /\ SerialioNext
          /\ UNCHANGED <<consoleVars, timerVars, ps2Vars, bootVars>>
       \/ /\ part = "ps2io" /\ Ps2Next
          /\ UNCHANGED <<consoleVars, timerVars, bootVars>>

\* ps2io_main goes on whenever it can, and the clock runs while it waits.
Fairness ==
    /\ WF_vars(part = "ps2io" /\ (Ps2Steps \/ Ps2Polls) /\ UNCHANGED
                <<part, consoleVars, timerVars, serialioVars, bootVars>>)
    /\ WF_vars(part = "ps2io" /\ NoKeyboard /\ UNCHANGED
                <<part, consoleVars, timerVars, bootVars>>)
    /\ WF_vars(part = "ps2io" /\ ClockTick /\ UNCHANGED
                <<part, consoleVars, timerVars, serialioVars, bootVars>>)

Spec == Init /\ [][Next]_vars /\ Fairness

\* Whatever is or is not connected, however late and with what bytes it
\* answers, ps2io_main returns: each of its loops ends by its timeout.  The
\* boot goes on behind it.
Ps2ioEnds == part = "ps2io" ~> pc = "done"
=============================================================================

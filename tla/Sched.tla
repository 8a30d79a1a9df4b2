------------------------------- MODULE Sched --------------------------------
(***************************************************************************)
(* What the process manager and its scheduler promise: of the processes    *)
(* that have not exited, one at a time has the CPU; it keeps it until it   *)
(* yields or exits; only a process that has not exited gets it then.       *)
(***************************************************************************)
CONSTANTS Slots, Nobody

VARIABLES
    alive,      \* processes that have been spawned and have not exited
    running     \* the one that has the CPU, or Nobody

vars == <<alive, running>>

Init == \E s \in Slots : alive = {s} /\ running = s

Spawn(s) ==
    /\ running # Nobody
    /\ s \in Slots \ alive
    /\ alive' = alive \cup {s}
    /\ UNCHANGED running

Yield ==
    /\ running # Nobody
    /\ running' = Nobody
    /\ UNCHANGED alive

Exit ==
    /\ running # Nobody
    /\ alive' = alive \ {running}
    /\ running' = Nobody

Dispatch(s) ==
    /\ running = Nobody
    /\ s \in alive
    /\ running' = s
    /\ UNCHANGED alive

Next ==
    \/ \E s \in Slots : Spawn(s)
    \/ Yield
    \/ Exit
    \/ \E s \in Slots : Dispatch(s)

Spec == Init /\ [][Next]_vars
=============================================================================

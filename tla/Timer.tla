-------------------------------- MODULE Timer --------------------------------
(***************************************************************************)
(* Timers: the clock the PIT's interrupt advances                          *)
(* (drivers/timers/pit/pit.c), the choice of a time source                 *)
(* (kernel/time/timekeep.c) and a timer that measures with it              *)
(* (kernel/time/timer.c).                                                  *)
(*                                                                         *)
(* pit_now returns a copy of the clock.  On a 32-bit machine the copy is   *)
(* made of three accesses, the two halves of the 64-bit seconds and the    *)
(* nanoseconds, in an order of the compiler's, and interrupts are on: any  *)
(* number of ticks may come between.                                       *)
(***************************************************************************)
EXTENDS Integers

CONSTANTS
    Second,     \* nanoseconds in a second
    TickNs,     \* nanoseconds the PIT's interrupt adds
    LowRange,   \* the range of the low half of tv_sec (2^32)
    Rounding,   \* what adding them in single precision may be off by
    MaxTicks    \* bound on the interrupts

ASSUME TimerAssumption ==
    /\ Second \in Nat \ {0} /\ LowRange \in Nat \ {0} /\ MaxTicks \in Nat
    /\ TickNs \in Nat /\ Rounding \subseteq Int
    /\ \A e \in Rounding : TickNs + e \in Nat

VARIABLES
    clock,      \* g_periodic_int_timespec
    pit,        \* "off", "listed" in g_timepit, or "unlisted" again
    best,       \* g_best_timesource: "none" or "pit"
    timer,      \* a timer: where it reads the time, and when it was started
    copying,    \* the call that copies the clock, or "none"
    copy, left, \* the copy, and the parts of it still to be read
    elapsed,    \* what timer_elapsed returned last
    ticks, counted,         \* interrupts so far, and the time they stand for
    made, started, asked    \* when the copy was made, when the one that started
                            \* the timer and the last one asked for

timerVars == <<clock, pit, best, timer, copying, copy, left, elapsed, ticks, counted,
               made, started, asked>>

Zero  == [sec |-> 0, nsec |-> 0]
Accesses == {"low", "high", "nsec"}
\* When a copy was made: the seconds on the clock at its first and at its last
\* access, and the time at which it read the nanoseconds.
Never == [first |-> 0, at |-> 0, last |-> 0]
NoCopy == [low |-> 0, high |-> 0, nsec |-> 0]

TimerInit ==
    /\ clock = Zero /\ pit = "off" /\ best = "none"
    /\ timer = [now |-> "stub", start |-> Zero]   \* TIMER_DORMANT
    /\ copying = "none" /\ copy = NoCopy /\ left = {}
    /\ elapsed = Zero /\ ticks = 0 /\ counted = 0
    /\ made = Never /\ started = Never /\ asked = Never

\* Wrong variant: a full second of nanoseconds is left without a carry.
Carry_Late(c) ==
    [sec |-> c.sec + (c.nsec - 1) \div Second, nsec |-> ((c.nsec - 1) % Second) + 1]

\* The loop of pit_isr that carries seconds.
Carry(c) == [sec |-> c.sec + c.nsec \div Second, nsec |-> c.nsec % Second]

\* pit_isr, once the PIT is registered: pit_init starts the interrupt.
PitIsr ==
    /\ pit # "off" /\ ticks < MaxTicks
    /\ \E e \in Rounding :
        /\ clock' = Carry([clock EXCEPT !.nsec = @ + TickNs + e])
        /\ counted' = counted + TickNs + e
    /\ ticks' = ticks + 1
    /\ UNCHANGED <<pit, best, timer, copying, copy, left, elapsed, made, started, asked>>

\* timekeep_register_timesource and pit_init.
RegisterPit ==
    /\ pit = "off"
    /\ pit' = "listed"
    /\ UNCHANGED <<clock, best, timer, copying, copy, left, elapsed, ticks, counted, made, started, asked>>

\* timekeep_unregister_timesource: the interrupt stays on, and so does the
\* choice timekeep_init made.
UnregisterPit ==
    /\ pit = "listed"
    /\ pit' = "unlisted"
    /\ UNCHANGED <<clock, best, timer, copying, copy, left, elapsed, ticks, counted, made, started, asked>>

\* timekeep_init.  Without a source it panics.
TimekeepInit ==
    /\ best = "none" /\ pit = "listed"
    /\ best' = "pit"
    /\ UNCHANGED <<clock, pit, timer, copying, copy, left, elapsed, ticks, counted, made, started, asked>>

\* timer_start or timer_elapsed calls pit_now.
BeginCopy(caller) ==
    /\ copying = "none" /\ best = "pit"
    /\ caller = "elapsed" => timer.now = "pit"
    /\ copying' = caller /\ left' = Accesses
    /\ UNCHANGED <<clock, pit, best, timer, copy, elapsed, ticks, counted, made, started, asked>>

\* One access of the copy.
PartOf(c) == [low |-> c.sec % LowRange, high |-> c.sec \div LowRange, nsec |-> c.nsec]

CopyPart(p) ==
    /\ copying # "none" /\ p \in left
    /\ copy' = [copy EXCEPT ![p] = PartOf(clock)[p]]
    /\ left' = left \ {p}
    /\ made' = [first |-> IF left = Accesses THEN clock.sec ELSE made.first,
                at    |-> IF p = "nsec" THEN counted ELSE made.at,
                last  |-> clock.sec]
    /\ UNCHANGED <<clock, pit, best, timer, copying, elapsed, ticks, counted, started, asked>>

Copy == [sec |-> copy.high * LowRange + copy.low, nsec |-> copy.nsec]

\* The rest of timer_start.
StartTimer ==
    /\ copying = "start" /\ left = {}
    /\ timer' = [now |-> "pit", start |-> Copy]
    /\ started' = made /\ asked' = made
    /\ elapsed' = Zero
    /\ copying' = "none" /\ copy' = NoCopy /\ made' = Never
    /\ UNCHANGED <<clock, pit, best, left, ticks, counted>>

Elapsed(now, start) ==
    LET nsecdiff == now.nsec - start.nsec
    IN  IF nsecdiff < 0
        THEN [sec |-> now.sec - start.sec - 1, nsec |-> Second + nsecdiff]
        ELSE [sec |-> now.sec - start.sec, nsec |-> nsecdiff]

\* The rest of timer_elapsed.
TimerElapsed ==
    /\ copying = "elapsed" /\ left = {}
    /\ elapsed' = Elapsed(Copy, timer.start)
    /\ asked' = made
    /\ copying' = "none" /\ copy' = NoCopy /\ made' = Never
    /\ UNCHANGED <<clock, pit, best, timer, left, ticks, counted, started>>

\* timer_elapsed of a timer that was never started: the uptime before
\* timekeep_init.
DormantElapsed ==
    /\ timer.now = "stub" /\ copying = "none"
    /\ elapsed' = Elapsed(Zero, timer.start)
    /\ UNCHANGED <<clock, pit, best, timer, copying, copy, left, ticks, counted, made, started, asked>>

TimerNext ==
    \/ PitIsr \/ RegisterPit \/ UnregisterPit \/ TimekeepInit
    \/ \E caller \in {"start", "elapsed"} : BeginCopy(caller)
    \/ \E p \in Accesses : CopyPart(p)
    \/ StartTimer \/ TimerElapsed \/ DormantElapsed

-----------------------------------------------------------------------------
\* How many seconds passed between the accesses of a copy, and whether the
\* low half of the seconds did not wrap.
Late(x)     == x.last - x.first
HighStands(x) == x.first \div LowRange = x.last \div LowRange

\* How far a timer is off: what it says has elapsed less what the interrupts
\* counted between the copy that started it and the one it was asked with.
Off == (elapsed.sec * Second + elapsed.nsec) - (asked.at - started.at)

\* A timer is exact, in spite of carries and borrows, when no second passed
\* between the accesses of its two copies of the clock.  Torn copies put it
\* off by whole seconds, and by no more of them than passed between the
\* accesses, unless the low half of the seconds wrapped there.
ElapsedExact ==
    /\ elapsed.nsec \in 0 .. Second - 1
    /\ Off % Second = 0
    /\ HighStands(started) /\ HighStands(asked) =>
            /\ Off <= Second * (Late(started) + Late(asked))
            /\ -Off <= Second * (Late(started) + Late(asked))

\* timer_elapsed gives the time elapsed since the timer was started, as
\* include/dxgmx/timer.h says.  The code does not keep this.
TimerTellsTime == Off = 0
=============================================================================

------------------------------- MODULE Ps2kbd -------------------------------
(***************************************************************************)
(* The PS/2 keyboard driver (drivers/input/ps2kbd/ps2kbd.c): the interrupt *)
(* handler that decodes scan codes of set 2 and caches events in a ring,   *)
(* and the read system call that searches the ring.                        *)
(*                                                                         *)
(* A system call enters through a trap gate, with interrupts on: kbd_isr   *)
(* runs between any two accesses of the reader to the ring.  Time is the   *)
(* uptime in milliseconds, as TIMESPEC_IS_FIRST_BIGGER compares it.        *)
(***************************************************************************)
EXTENDS Integers, Sequences

CONSTANTS
    CachedEvents,   \* CACHED_EVENT_COUNT (64)
    MaxEntries,     \* bound on the events one read asks for
    MaxTime         \* bound on the uptime

ASSUME Ps2kbdAssumption ==
    /\ CachedEvents \in Nat \ {0}
    /\ MaxEntries \in Nat \ {0}
    /\ MaxTime \in Nat

-----------------------------------------------------------------------------
\* What the keyboard sends for one press or release, scan code set 2.  "K"
\* stands for the codes the driver does not look at.
Codes ==
    [press      |-> <<"K">>,
     release    |-> <<"F0", "K">>,
     xpress     |-> <<"E0", "K">>,
     xrelease   |-> <<"E0", "F0", "K">>,
     lshift     |-> <<"12">>,
     lshiftUp   |-> <<"F0", "12">>,
     asterisk   |-> <<"7C">>,
     asteriskUp |-> <<"F0", "7C">>,
     print      |-> <<"E0", "12", "E0", "7C">>,
     printUp    |-> <<"E0", "F0", "7C", "E0", "F0", "12">>,
     pause      |-> <<"E1", "14", "77", "E1", "F0", "14", "F0", "77">>]

Event(action, value) == [action |-> action, value |-> value]

\* The events each of them means.
Meaning ==
    [press      |-> <<Event("press", "K")>>,
     release    |-> <<Event("release", "K")>>,
     xpress     |-> <<Event("press", "special K")>>,
     xrelease   |-> <<Event("release", "special K")>>,
     lshift     |-> <<Event("press", "12")>>,
     lshiftUp   |-> <<Event("release", "12")>>,
     asterisk   |-> <<Event("press", "7C")>>,
     asteriskUp |-> <<Event("release", "7C")>>,
     print      |-> <<Event("press", "KEY_SS")>>,
     printUp    |-> <<Event("release", "KEY_SS")>>,
     pause      |-> <<Event("press", "KEY_BREAK"),
                      Event("release", "KEY_BREAK")>>]

Strokes == DOMAIN Codes

VARIABLES
    now,        \* timekeep_uptime
    stroke,     \* the press or release the keyboard is sending, or sent last
    rest,       \* the bytes of it still to come
    emitted,    \* the events cached for it
    decoder,    \* g_special_key, g_release_modif, g_ongoing_sequence and
                \* g_sequence_count
    ring,       \* g_cached_events, times only
    next,       \* g_cached_event_idx
    info,       \* the LastReadInfo vnode->data points to
    phase,      \* of the read system call
    mine,       \* the LastReadInfo the read has fetched
    shared,     \* whether that is still the one of the vnode
    pos,        \* how many slots the search has passed
    asked,      \* the events the read was called for
    found,      \* the events it has copied
    buf,        \* the entries of the user's buffer the read has written
    last        \* time of the event copied last with that LastReadInfo

isrVars  == <<stroke, rest, emitted, decoder, ring, next>>
readVars == <<info, phase, mine, shared, pos, asked, found, buf, last>>
vars     == <<now, isrVars, readVars>>

Idle == [special |-> FALSE, release |-> FALSE, ongoing |-> FALSE, count |-> 0]

\* The devfs entry has been opened before anything was typed; stroke and
\* emitted stand for one that is done with.
Init ==
    /\ now = 0
    /\ stroke = "press"
    /\ rest = <<>>
    /\ emitted = Meaning[stroke]
    /\ decoder = Idle
    /\ ring = [i \in 0 .. CachedEvents - 1 |-> 0]
    /\ next = 0
    /\ info = [idx |-> 0, time |-> 0]
    /\ phase = "user"
    /\ mine = info
    /\ shared = TRUE
    /\ pos = 0
    /\ asked = 0
    /\ found = 0
    /\ buf = {}
    /\ last = 0

-----------------------------------------------------------------------------
\* The slot ps2kbd_cache_event writes to.
Slot(i) == IF i >= CachedEvents THEN 0 ELSE i

\* ps2kbd_cache_event for each of the events in turn.
Cache(events) ==
    LET first   == Slot(next)
        second  == Slot(first + 1)
        written == CASE Len(events) = 0 -> {}
                     [] Len(events) = 1 -> {first}
                     [] Len(events) = 2 -> {first, second}
    IN
    /\ emitted' = emitted \o events
    /\ next' = CASE Len(events) = 0 -> next
                 [] Len(events) = 1 -> first + 1
                 [] Len(events) = 2 -> second + 1
    /\ ring' = [i \in DOMAIN ring \cup written |->
                    IF i \in written THEN now ELSE ring[i]]

\* kbd_isr inside a sequence.
Sequence(byte) ==
    LET d == [decoder EXCEPT !.count = @ + 1] IN
    CASE d.count = 8 /\ byte = "77" ->
            /\ decoder' = [d EXCEPT !.count = 0, !.ongoing = FALSE]
            /\ Cache(Meaning.pause)
      [] d.count = 8 /\ byte # "77" ->
            /\ decoder' = [d EXCEPT !.count = 0, !.ongoing = FALSE]
            /\ Cache(<<>>)
      [] d.count = 6 /\ byte = "12" ->
            /\ decoder' = Idle
            /\ Cache(Meaning.printUp)
      [] d.count = 4 /\ byte = "7C" ->
            /\ decoder' = [Idle EXCEPT !.release = d.release]
            /\ Cache(Meaning.print)
      [] OTHER ->
            /\ decoder' = d
            /\ Cache(<<>>)

\* The default case: a code of its own.
Plain(byte) ==
    LET action == IF decoder.release THEN "release" ELSE "press"
        value  == IF decoder.special THEN "special K" ELSE byte
    IN  /\ decoder' = [decoder EXCEPT !.special = FALSE, !.release = FALSE]
        /\ Cache(<<Event(action, value)>>)

Begin(count) ==
    /\ decoder' = [decoder EXCEPT !.ongoing = TRUE, !.count = count]
    /\ Cache(<<>>)

\* Wrong variant: the second half of a print screen release is not awaited.
Single_NoPrintUp(byte) ==
    CASE byte = "E1" -> Begin(1)
      [] byte = "E0" -> decoder' = [decoder EXCEPT !.special = TRUE]
                        /\ Cache(<<>>)
      [] byte = "F0" -> decoder' = [decoder EXCEPT !.release = TRUE]
                        /\ Cache(<<>>)
      [] byte = "12" /\ decoder.special -> Begin(2)
      [] OTHER -> Plain(byte)

\* The switch of kbd_isr.
Single(byte) ==
    CASE byte = "E1" -> Begin(1)
      [] byte = "E0" -> decoder' = [decoder EXCEPT !.special = TRUE]
                        /\ Cache(<<>>)
      [] byte = "F0" -> decoder' = [decoder EXCEPT !.release = TRUE]
                        /\ Cache(<<>>)
      [] byte = "12" /\ decoder.special -> Begin(2)
      [] byte = "7C" /\ decoder.special /\ decoder.release -> Begin(3)
      [] OTHER -> Plain(byte)

\* kbd_isr takes the next byte of what the keyboard is sending.
KbdIsr ==
    /\ rest # <<>>
    /\ rest' = Tail(rest)
    /\ IF decoder.ongoing THEN Sequence(Head(rest)) ELSE Single(Head(rest))
    /\ UNCHANGED <<now, stroke, readVars>>

\* A key is pressed or released.
Type(s) ==
    /\ rest = <<>>
    /\ stroke' = s
    /\ rest' = Codes[s]
    /\ emitted' = <<>>
    /\ UNCHANGED <<now, decoder, ring, next, readVars>>

\* A millisecond passes.
Tick ==
    /\ now < MaxTime
    /\ now' = now + 1
    /\ UNCHANGED <<isrVars, readVars>>

-----------------------------------------------------------------------------
\* ps2kbd_vnode_open by this process between two reads, or by another one
\* while this one has yielded: the vnode has one LastReadInfo for all.
Reopen ==
    /\ phase \in {"user", "yield"}
    /\ info' = [idx |-> 0, time |-> now]
    /\ shared' = FALSE
    /\ UNCHANGED <<now, isrVars, phase, mine, pos, asked, found, buf, last>>

\* ps2kbd_vnode_read up to its loop, for n events.
ReadCall(n) ==
    /\ phase = "user"
    /\ phase' = "search"
    /\ mine' = info
    /\ shared' = TRUE
    /\ pos' = 0
    /\ asked' = n
    /\ found' = 0
    /\ buf' = {}
    /\ last' = IF shared THEN last ELSE 0
    /\ UNCHANGED <<now, isrVars, info>>

\* Wrong variant: any event of another time is taken.
IsNewer_Other(t) == t # mine.time

\* The condition of ps2kbd_earliest_event.
IsNewer(t) == t > mine.time

\* Wrong variant: only the slots from idx to the end are searched.
SearchLength_OneLoop == CachedEvents - mine.idx

\* How many slots the two loops of ps2kbd_earliest_event look at.
SearchLength == CachedEvents

\* The slot the search looks at: from idx to the end, then from 0 to idx.
Looked == (mine.idx + pos) % CachedEvents

\* An iteration of the loops that goes on.
SearchPasses ==
    /\ phase = "search"
    /\ pos < SearchLength
    /\ ~IsNewer(ring[Looked])
    /\ pos' = pos + 1
    /\ UNCHANGED <<now, isrVars, info, phase, mine, shared, asked, found, buf, last>>

\* The search returns a pointer into the ring.
SearchHits ==
    /\ phase = "search"
    /\ pos < SearchLength
    /\ IsNewer(ring[Looked])
    /\ phase' = "hit"
    /\ UNCHANGED <<now, isrVars, info, mine, shared, pos, asked, found, buf, last>>

\* The search returns NULL: procm_sched_yield.
SearchEnds ==
    /\ phase = "search"
    /\ pos >= SearchLength
    /\ phase' = "yield"
    /\ UNCHANGED <<now, isrVars, info, mine, shared, pos, asked, found, buf, last>>

\* The process is switched to again.
Resume ==
    /\ phase = "yield"
    /\ phase' = "search"
    /\ pos' = 0
    /\ UNCHANGED <<now, isrVars, info, mine, shared, asked, found, buf, last>>

\* info->time = ev->time; info->idx = tmpidx;
Note ==
    LET seen == [idx |-> Looked, time |-> ring[Looked]] IN
    /\ phase = "hit"
    /\ mine' = seen
    /\ info' = IF shared THEN seen ELSE info
    /\ pos' = 0
    /\ phase' = "copy"
    /\ UNCHANGED <<now, isrVars, shared, asked, found, buf, last>>

\* user_copy_to(buf, ev, ...): what the slot holds by now, to the start of
\* the buffer.
Copy ==
    /\ phase = "copy"
    /\ last' = ring[mine.idx]
    /\ buf' = buf \cup {1}
    /\ found' = found + 1
    /\ phase' = IF found' = asked THEN "user" ELSE "search"
    /\ UNCHANGED <<now, isrVars, info, mine, shared, pos, asked>>

ReadStep == SearchPasses \/ SearchHits \/ SearchEnds \/ Resume \/ Note \/ Copy

Next ==
    \/ KbdIsr
    \/ \E s \in Strokes : Type(s)
    \/ Tick
    \/ Reopen
    \/ \E n \in 1 .. MaxEntries : ReadCall(n)
    \/ ReadStep

\* The ring scheduler comes back to a process that yields, for as long as the
\* kernel runs (Procm!NoStarvation), and interrupts end: a read that can take
\* a step takes one in the end.
Fairness == WF_vars(ReadStep)

Spec == Init /\ [][Next]_vars /\ Fairness

-----------------------------------------------------------------------------
\* kbd_isr recognises every press and release of the set, whatever was typed
\* before it: when the last byte has come the decoder is as it was, and the
\* events cached are the ones meant, not a byte earlier.
StrokesDecoded ==
    IF rest = <<>>
    THEN decoder = Idle /\ emitted = Meaning[stroke]
    ELSE emitted = <<>>

\* Until the device is opened again events are read in the order of their time,
\* although the interrupt handler overwrites slots the search has passed or
\* has just returned.
ReadInOrder == [][phase = "copy" => last' >= last]_vars

\* A read that waits while the ring holds an event newer than the last one it
\* has seen gets one: the two loops of ps2kbd_earliest_event miss no slot, and
\* interrupts never take the event away.
WaitingReadGetsEvent ==
    (phase \in {"search", "yield"} /\ \E i \in DOMAIN ring : IsNewer(ring[i]))
        ~> phase = "copy"

-----------------------------------------------------------------------------
\* "Non negative integer describing how many bytes were read on success."
\* (include/dxgmx/fs/vnode.h on read): when a read of n events has returned,
\* n events are in the buffer.
\* The code does not keep this.
ReadFillsBuffer ==
    [][phase = "copy" /\ phase' = "user" => buf' = 1 .. asked]_vars
=============================================================================

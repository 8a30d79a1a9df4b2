------------------------------- MODULE Console -------------------------------
(***************************************************************************)
(* The kernel's output: klog (kernel/klog.c) formats and filters messages, *)
(* kstdio (kernel/kstdio.c) hands the bytes to the raw sinks and the text, *)
(* cleared of escape sequences, to the terminals.  A terminal is the VGA   *)
(* text screen (drivers/sinks/vgasink) or a framebuffer                    *)
(* (drivers/sinks/fbsink), the raw sink is the serial port.                *)
(*                                                                         *)
(* A character is a string of one character, a cell the set of glyphs      *)
(* drawn into it with their colours: the framebuffer's cells are drawn     *)
(* over, never cleared, and a blank draws nothing.                         *)
(***************************************************************************)
EXTENDS Integers, Sequences, SequencesExt

CONSTANTS
    SinksCapacity,   \* SINKS_CAPACITY (4)
    Columns, Rows,   \* of each terminal, in characters
    KprintfMax,      \* KPRINTF_MAX_BUF_SIZE (256)
    MaxLevel,        \* CONFIG_KLOG_LEVEL
    Timestamp,       \* the characters of "%14.5f: "
    LogLevels,       \* the levels the kernel logs at
    Messages,        \* what the kernel logs: records as in MessagesOf
    Junk,            \* the colours an uninitialised variable may hold
    MaxCalls         \* bound on the calls to klog

\* A message: the text of one of its specifiers, the one that crosses the end
\* of kvprintf's buffer if one does, and what is written before and after it.
MessagesOf(S) == [before : Seq(S), item : Seq(S), after : Seq(S)]

ASSUME ConsoleAssumption ==
    /\ LogLevels \subseteq 1 .. 5   \* FATAL .. DEBUG
    /\ SinksCapacity \in Nat /\ KprintfMax \in Nat \ {0}
    /\ \A s \in {"vga", "fb"} : Columns[s] \in Nat \ {0} /\ Rows[s] \in Nat \ {0}
    \* What is logged has no escape sequences of its own: only the banner of
    \* kernel/kinit_stage2.c does.
    /\ Messages \subseteq MessagesOf(STRING \ {"esc"})
    /\ Timestamp \in Seq(STRING \ {"esc"})

Terminals == {"vga", "fb"}
RawSinks  == {"rs232"}

VARIABLES
    sinks,      \* g_sinks
    mains,      \* the sinks whose module is initialised
    term,       \* of each terminal: its cells, cursor and colour
    wire,       \* how many bytes the serial port has sent
    level,      \* g_loglvl
    showTs,     \* g_show_ts
    takeover,   \* fb->takeover
    text,       \* of each terminal: the text logged since it was registered
    smashed,    \* the kernel has stopped behind an overrun buffer
    calls

consoleVars == <<sinks, mains, term, wire, level, showTs, takeover, text, smashed, calls>>

-----------------------------------------------------------------------------
Esc     == "esc"
Newline == "newline"
Tab     == "tab"
Space   == " "

Blank == {}
EmptyScreen(s) == [r \in 0 .. Rows[s] - 1 |-> [c \in 0 .. Columns[s] - 1 |-> Blank]]

\* The levels' escape sequences, and the colour each asks for.
ColourSequence(mode, fg) == <<Esc, "[", mode, ";", "3", fg, ";", "4", "9", "m">>
LevelSequence ==
    <<ColourSequence("1", "1"), ColourSequence("0", "1"), ColourSequence("0", "3"),
      ColourSequence("0", "9"), ColourSequence("0", "6")>>
TsSequence    == ColourSequence("0", "7")
ClearSequence == <<Esc, "[", "0", "m">>
LevelColour   == <<"red", "red", "yellow", "white", "cyan">>

-----------------------------------------------------------------------------
\* The VGA screen.  It has colours of its own and ignores the sink's.
VgaWhite == 15

\* Wrong variant: the line that scrolling frees keeps what it showed.
VgaScroll_NoClear(cells) ==
    [r \in DOMAIN cells |-> IF r + 1 \in DOMAIN cells THEN cells[r + 1] ELSE cells[r]]

VgaScroll(cells) ==
    [r \in DOMAIN cells |-> IF r + 1 \in DOMAIN cells THEN cells[r + 1]
                                                      ELSE EmptyScreen("vga")[r]]

VgaNewline(t) ==
    IF t.row + 1 >= Rows["vga"] THEN [t EXCEPT !.cells = VgaScroll(@), !.col = 0]
                                ELSE [t EXCEPT !.row = @ + 1, !.col = 0]

VgaPrintChar(t, c) ==
    IF t.col >= Columns["vga"] \/ t.row >= Rows["vga"]
    THEN t
    ELSE LET u == [t EXCEPT !.cells[t.row][t.col] = {<<c, VgaWhite>>}, !.col = @ + 1]
         IN  IF u.col >= Columns["vga"] THEN VgaNewline(u) ELSE u

\* fbsink_koutput_color2pixel: white is a light grey.
Pixel(colour) ==
    [black |-> 0, red |-> 16711680, yellow |-> 16776960, cyan |-> 65535, white |-> 13421772][colour]

\* The framebuffer.  Only the pixels of the glyph are written.
FbScroll(cells) ==
    [r \in DOMAIN cells |-> IF r + 1 \in DOMAIN cells THEN cells[r + 1]
                                                      ELSE EmptyScreen("fb")[r]]

FbNewline(t) ==
    IF t.row + 1 >= Rows["fb"] THEN [t EXCEPT !.cells = FbScroll(@), !.col = 0]
                               ELSE [t EXCEPT !.row = @ + 1, !.col = 0]

FbPrintChar(t, c) ==
    LET glyph == IF c = Space THEN {} ELSE {<<c, Pixel(t.fg)>>}
        u     == [t EXCEPT !.cells[t.row][t.col] = @ \cup glyph]
    IN  IF t.col + 1 >= Columns["fb"] THEN FbNewline(u) ELSE [u EXCEPT !.col = @ + 1]

\* A sink's newline and output_char.  A framebuffer some process has opened
\* is left alone.
SinkNewline(s, t) ==
    CASE s = "vga" -> VgaNewline(t)
      [] s = "fb"  -> IF takeover THEN t ELSE FbNewline(t)

OutputChar(s, t, c) ==
    CASE s = "vga" -> VgaPrintChar(t, c)
      [] s = "fb"  -> IF takeover THEN t ELSE FbPrintChar(t, c)

-----------------------------------------------------------------------------
Digit ==
    [c \in {"0", "1", "3", "4", "6", "7", "9"} |->
        CASE c = "0" -> 0 [] c = "1" -> 1 [] c = "3" -> 3 [] c = "4" -> 4
          [] c = "6" -> 6 [] c = "7" -> 7 [] c = "9" -> 9]

ColourOf(n, unset) ==
    CASE n = 31 -> "red" [] n = 33 -> "yellow" [] n = 39 -> "white" [] n = 36 -> "cyan"
      [] OTHER -> unset

\* kstdio_parse_ansi_sequence: how far the sequence at the start of str goes
\* (0 when it has no end), and the colour, junk unless the sequence sets it.
ParseStep(str, p, i) ==
    CASE p.len # 0 -> p
      [] p.len = 0 /\ str[i] = "[" -> [p EXCEPT !.mode = TRUE]
      [] p.len = 0 /\ str[i] = ";" /\ p.mode ->
            [p EXCEPT !.mode = FALSE, !.wantFg = TRUE, !.nn = 0]
      [] p.len = 0 /\ str[i] = ";" /\ ~p.mode ->
            IF p.wantFg
            THEN [p EXCEPT !.wantFg = FALSE, !.nn = 0, !.fg = ColourOf(p.nn, @)]
            ELSE p
      [] p.len = 0 /\ str[i] = "m" -> [p EXCEPT !.len = i - 1]
      [] OTHER -> [p EXCEPT !.nn = @ * 10 + Digit[str[i]]]

ParseAnsi(str, junk) ==
    LET parsed[i \in 1 .. Len(str)] ==
            IF i = 1 THEN [mode |-> FALSE, wantFg |-> FALSE, nn |-> 0, fg |-> junk, len |-> 0]
                     ELSE ParseStep(str, parsed[i - 1], i)
    IN  parsed[Len(str)]

\* kstdio_write: what writing buf makes of the terminals ts.
ForEachTerminal(f, g) == [s \in Terminals |-> IF s \in ToSet(sinks) THEN g[s] ELSE f[s]]

OutputChars(f, c) == ForEachTerminal(f, [s \in Terminals |-> OutputChar(s, f[s], c)])
Newlines(f)       == ForEachTerminal(f, [s \in Terminals |-> SinkNewline(s, f[s])])
SetColours(f, fg) == ForEachTerminal(f, [s \in Terminals |-> [f[s] EXCEPT !.fg = fg]])

WriteStep(buf, junk, w, i) ==
    IF w.skip > 0 THEN [w EXCEPT !.skip = @ - 1]
    ELSE CASE buf[i] = Esc ->
                LET p == ParseAnsi(SubSeq(buf, i, Len(buf)), junk)
                IN  [ts |-> SetColours(w.ts, p.fg), skip |-> p.len]
           [] buf[i] = Newline -> [w EXCEPT !.ts = Newlines(@)]
           [] buf[i] = Tab ->
                [w EXCEPT !.ts = OutputChars(OutputChars(OutputChars(OutputChars(@,
                                     Space), Space), Space), Space)]
           [] OTHER -> [w EXCEPT !.ts = OutputChars(@, buf[i])]

KstdioWrite(ts, buf, junk) ==
    LET written[i \in 0 .. Len(buf)] ==
            IF i = 0 THEN [ts |-> ts, skip |-> 0]
                     ELSE WriteStep(buf, junk, written[i - 1], i)
    IN  written[Len(buf)].ts

\* kstdio_write_raw: the serial port gets every byte, escapes too.
WriteRaw(buf) == wire + (IF "rs232" \in ToSet(sinks) THEN Len(buf) ELSE 0)

\* kvprintf: what vsnprintf leaves in the buffer and behind it.  Literal text
\* is cut at the end of the buffer.  Of a specifier that crosses the end as
\* many characters are appended as the empty buffer holds.
Beginning(s, n) == SubSeq(s, 1, IF Len(s) < n THEN Len(s) ELSE n)
Kvprintf(m) ==
    LET room == KprintfMax - 1
    IN  IF Len(m.before) >= room \/ Len(m.before) + Len(m.item) <= room
        THEN Beginning(m.before \o m.item \o m.after, room)
        ELSE m.before \o Beginning(m.item, room)

\* The text and its 0 do not fit the buffer, which is on kvprintf's stack.
Overruns(m) == Len(Kvprintf(m)) >= KprintfMax

-----------------------------------------------------------------------------
ConsoleInit ==
    /\ sinks = <<>> /\ mains = {}
    /\ term = [s \in Terminals |-> [cells |-> EmptyScreen(s), row |-> 0, col |-> 0, fg |-> "black"]]
    /\ wire = 0 /\ level = MaxLevel /\ showTs = TRUE /\ takeover = FALSE
    /\ text = [s \in Terminals |-> <<>>]
    /\ smashed = FALSE
    /\ calls = 0

\* vgasink_init clears the screen, fbsink_init does not: the boot loader
\* hands the framebuffer over blank.
VgaInit(t) == [t EXCEPT !.cells = EmptyScreen("vga"), !.row = 0, !.col = 0]
FbInit(t)  == [t EXCEPT !.row = 0, !.col = 0, !.fg = "white"]
SinkInit(s) == IF s = "vga" THEN VgaInit(term[s]) ELSE FbInit(term[s])

\* kstdio_register_sink, from the main of the sink's module.
RegisterSink(s) ==
    /\ s \notin mains
    /\ Len(sinks) < SinksCapacity
    /\ sinks' = Append(sinks, s)
    /\ mains' = mains \cup {s}
    /\ IF s \in Terminals THEN /\ term' = [term EXCEPT ![s] = SinkInit(s)]
                               /\ text' = [text EXCEPT ![s] = <<>>]
                          ELSE UNCHANGED <<term, text>>
    /\ UNCHANGED <<wire, level, showTs, takeover, smashed, calls>>

\* kstdio_register_sink refuses a sink when the table is full.
TableFull(s) ==
    /\ s \notin mains /\ Len(sinks) >= SinksCapacity
    /\ UNCHANGED consoleVars

\* The serial port fails its loopback test.
SerialPortFails == "rs232" \notin mains /\ UNCHANGED consoleVars

\* There is no framebuffer or no memory to map it; or fbsink finds no font or
\* has no memory.
NoFramebuffer == "fb" \notin mains /\ UNCHANGED consoleVars

\* kstdio_unregister_sink, from the exit of the sink's module.  A sink is in
\* the table once: its module starts once.
UnregisterSink(s) ==
    /\ \E idx \in DOMAIN sinks : sinks[idx] = s /\ sinks' = RemoveAt(sinks, idx)
    /\ UNCHANGED <<mains, term, wire, level, showTs, takeover, text, smashed, calls>>

\* Opening the framebuffer's device gives the screen to the process.
OpenFramebuffer ==
    /\ "fb" \in mains
    /\ takeover' = TRUE
    /\ UNCHANGED <<sinks, mains, term, wire, level, showTs, text, smashed, calls>>

SetShowTs ==
    /\ showTs' = FALSE
    /\ UNCHANGED <<sinks, mains, term, wire, level, takeover, text, smashed, calls>>

\* What klog writes: the time stamp, and the message in its level's colour.
Stamped(ts, junk) == KstdioWrite(KstdioWrite(ts, TsSequence, junk), Timestamp, junk)

Logged(ts, lvl, msg, junk, dies) ==
    LET said == KstdioWrite(KstdioWrite(ts, LevelSequence[lvl], junk), Kvprintf(msg), junk)
    IN  IF dies THEN said ELSE KstdioWrite(said, ClearSequence, junk)

Said(buf, lvl) == [i \in 1 .. Len(buf) |-> [c |-> buf[i], lvl |-> lvl]]

\* klog and klogln.  A message above the level is dropped, its newline is not.
\* The junk is what fg holds after a sequence that names no known colour.  A
\* kvprintf that has overrun its buffer writes the text and then returns, or
\* dies: the guard of the stack or the return address is gone.
Klog(lvl, msg, newline, junk, dies) ==
    LET shown   == lvl <= level
        stamped == shown /\ showTs
        ended   == newline /\ ~dies
        ts1     == IF stamped THEN Stamped(term, junk) ELSE term
        ts2     == IF shown THEN Logged(ts1, lvl, msg, junk, dies) ELSE ts1
        bytes   == (IF stamped THEN TsSequence \o Timestamp ELSE <<>>)
                   \o (IF shown THEN LevelSequence[lvl] \o Kvprintf(msg) ELSE <<>>)
                   \o (IF shown /\ ~dies THEN ClearSequence ELSE <<>>)
                   \o (IF ended THEN <<Newline>> ELSE <<>>)
        said    == (IF stamped THEN Said(Timestamp, 0) ELSE <<>>)
                   \o (IF shown THEN Said(Kvprintf(msg), lvl) ELSE <<>>)
                   \o (IF ended THEN Said(<<Newline>>, 0) ELSE <<>>)
    IN  /\ calls < MaxCalls
        /\ dies => shown /\ Overruns(msg)
        /\ term' = IF ended THEN KstdioWrite(ts2, <<Newline>>, junk) ELSE ts2
        /\ wire' = WriteRaw(bytes)
        /\ text' = [s \in Terminals |->
                        IF s \in ToSet(sinks) /\ ~(s = "fb" /\ takeover)
                        THEN text[s] \o said ELSE text[s]]
        /\ smashed' = dies
        /\ calls' = calls + 1
        /\ UNCHANGED <<sinks, mains, level, showTs, takeover>>

ConsoleNext ==
    /\ ~smashed
    /\ \/ \E s \in Terminals \cup RawSinks :
                RegisterSink(s) \/ TableFull(s) \/ UnregisterSink(s)
       \/ SerialPortFails \/ NoFramebuffer \/ OpenFramebuffer \/ SetShowTs
       \/ \E lvl \in LogLevels, msg \in Messages, newline \in BOOLEAN, junk \in Junk,
             dies \in BOOLEAN : Klog(lvl, msg, newline, junk, dies)

-----------------------------------------------------------------------------
\* The text as lines of a page without end: a line ends at a newline or when
\* it is full, and a tab is four blanks.
AddToPage(s, ls, e) ==
    LET line == Append(Last(ls), e)
        done == [ls EXCEPT ![Len(ls)] = line]
    IN  CASE e.c = Newline -> Append(ls, <<>>)
          [] e.c # Newline /\ Len(line) = Columns[s] -> Append(done, <<>>)
          [] OTHER -> done

AddToLines(s, ls, e) ==
    LET blank   == [e EXCEPT !.c = Space]
        More(l) == AddToPage(s, l, blank)
    IN  IF e.c = Tab THEN More(More(More(More(ls)))) ELSE AddToPage(s, ls, e)

LinesOf(s, txt) ==
    LET lines[n \in 0 .. Len(txt)] ==
            IF n = 0 THEN << <<>> >> ELSE AddToLines(s, lines[n - 1], txt[n])
    IN  lines[Len(txt)]

\* What a cell shows for a character logged at a level: on the framebuffer
\* the level's colour, for a time stamp whatever colour.
Shows(s, cell, e) ==
    \/ s = "vga" /\ cell = {<<e.c, VgaWhite>>}
    \/ s = "fb" /\ e.c = Space /\ cell = Blank
    \/ s = "fb" /\ e.c # Space /\ \E colour \in Junk \cup ToSet(LevelColour) :
            /\ cell = {<<e.c, Pixel(colour)>>}
            /\ e.lvl # 0 => colour = LevelColour[e.lvl]

\* Every registered terminal shows the last lines of the text that kvprintf
\* wrote since it was registered, that of an overrun buffer included, wrapped
\* at its width, each message in its level's colour, and nothing else:
\* wrapping, scrolling and drawing over cells that are not cleared never lose
\* or mix characters, up to the moment a process takes the framebuffer over.
ConsoleShowsText ==
    \A s \in Terminals \cap ToSet(sinks) :
        LET lines == LinesOf(s, text[s])
            top   == IF Len(lines) > Rows[s] THEN Len(lines) - Rows[s] ELSE 0
        IN  \A r \in 0 .. Rows[s] - 1, c \in 0 .. Columns[s] - 1 :
                IF top + r + 1 <= Len(lines) /\ c + 1 <= Len(lines[top + r + 1])
                THEN Shows(s, term[s].cells[r][c], lines[top + r + 1][c + 1])
                ELSE term[s].cells[r][c] = Blank

\* A message fits the buffer kvprintf gives vsnprintf the size of: klog cannot
\* smash its stack.  The code does not keep this.
BufferNotOverrun == ~smashed

\* A message above the log level prints nothing: include/dxgmx/klog.h says
\* that only levels up to the one set are logged.
\* The code does not keep this.
FilteredPrintsNothing ==
    [][\A lvl \in LogLevels, msg \in Messages, newline, dies \in BOOLEAN, junk \in Junk :
            lvl > level /\ Klog(lvl, msg, newline, junk, dies) => UNCHANGED <<term, wire>>]_consoleVars
=============================================================================

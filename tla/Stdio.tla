-------------------------------- MODULE Stdio --------------------------------
(***************************************************************************)
(* vsnprintf (kernel/kstdlib/stdio.c): the scan of the format, directive   *)
(* by directive, into a buffer of n bytes.  Characters are the numbers of  *)
(* Stdlib; those with a meaning in a format have a name.  %f is left out.  *)
(***************************************************************************)
EXTENDS Stdlib

CONSTANTS
    Formats,    \* sequences of items: what the caller wants written
    Sizes       \* values of n

Percent == 50
Dot     == 51
Star    == 52
LowerL  == 53
LowerH  == 54
UpperL  == 55
SpecD   == 56
SpecX   == 57
SpecU   == 58
SpecP   == 59
SpecS   == 60
SpecC   == 61
Blank   == Space

WidthMod == 65536   \* the range of u16
BufMax   == 21      \* the width printf_apply_flags_and_width is capped at

VARIABLE pf     \* the call of vsnprintf that is running

\* The calls: the items as a format string and arguments.  A width or a
\* precision is written as one digit, -1 stands for none.
Opt(c, d) == IF d = -1 THEN <<>> ELSE c \o <<d>>
Written(item) ==
    CASE item.kind = "lit" -> <<item.c>>
      [] item.kind = "num" ->
            <<Percent>> \o (IF item.zero THEN <<0>> ELSE <<>>) \o Opt(<<>>, item.width)
            \o item.length \o <<item.spec>>
      [] item.kind = "star" -> <<Percent, Star, item.spec>>
      [] item.kind = "str" -> <<Percent>> \o Opt(<<Dot>>, item.prec) \o <<SpecS>>
      [] item.kind = "starprec" -> <<Percent, Dot, Star, SpecS>>
      [] item.kind = "chr" -> <<Percent, SpecC>>
Args(item) ==
    CASE item.kind = "lit" -> <<>>
      [] item.kind = "num" -> IF item.length = <<UpperL>> THEN <<>> ELSE <<item.arg>>
      [] item.kind = "star" -> <<item.width, item.arg>>
      [] item.kind = "starprec" -> <<item.prec, item.arg>>
      [] OTHER -> <<item.arg>>

StdioIdle == [st |-> "idle"]
StdioInit == pf = StdioIdle

\* vsnprintf is called.
Vsnprintf ==
    /\ pf.st = "idle"
    /\ \E items \in Formats, n \in Sizes :
        pf' = [st |-> "format", items |-> items, n |-> n, i |-> 1,
               fmt |-> FlattenSeq([k \in DOMAIN items |-> Written(items[k])]),
               args |-> FlattenSeq([k \in DOMAIN items |-> Args(items[k])]),
               dest |-> <<>>, written |-> 0, ret |-> 0,
               zero |-> FALSE, width |-> 0, prec |-> -1, length |-> "none"]

Char == IF pf.i <= Len(pf.fmt) THEN pf.fmt[pf.i] ELSE Nul

\* The end of the format, or of the buffer.
Finish ==
    /\ pf.st = "format"
    /\ Char = Nul \/ pf.written >= pf.n - 1
    /\ pf' = [pf EXCEPT !.st = "done", !.ret = pf.written]

Literal ==
    /\ pf.st = "format"
    /\ Char \notin {Nul, Percent} /\ pf.written < pf.n - 1
    /\ pf' = [pf EXCEPT !.dest = Strncat(@, <<Char>>, 1), !.written = @ + 1, !.i = @ + 1]

Directive ==
    /\ pf.st = "format"
    /\ Char = Percent /\ pf.written < pf.n - 1
    /\ pf' = [pf EXCEPT !.st = "flags", !.i = @ + 1, !.zero = FALSE, !.width = 0,
              !.prec = -1, !.length = "none"]

\* printf_parse_flags: of the flags only 0 has an effect later.
ParseFlags ==
    /\ pf.st = "flags"
    /\ pf' = IF Char \in {0, Minus, Blank}
             THEN [pf EXCEPT !.i = @ + 1, !.zero = @ \/ Char = 0]
             ELSE [pf EXCEPT !.st = "width"]

ParseWidth ==
    /\ pf.st = "width"
    /\ pf' = IF Char = Star
             THEN [pf EXCEPT !.i = @ + 1, !.width = Head(pf.args) % WidthMod,
                   !.args = Tail(@), !.st = "precision"]
             ELSE IF Char \in 0 .. 9
             THEN [pf EXCEPT !.i = @ + 1, !.width = (@ * 10 + Char) % WidthMod]
             ELSE [pf EXCEPT !.st = "precision"]

\* A precision given by an argument leaves the scan at the '*'.
ParsePrecision ==
    /\ pf.st \in {"precision", "digits"}
    /\ pf' = IF pf.st = "precision" /\ Char = Dot
             THEN [pf EXCEPT !.i = @ + 1, !.st = "digits"]
             ELSE IF pf.st = "digits" /\ Char = Star
             THEN [pf EXCEPT !.prec = Head(pf.args), !.args = Tail(@), !.st = "length"]
             ELSE IF pf.st = "digits" /\ Char \in 0 .. 9
             THEN [pf EXCEPT !.i = @ + 1, !.prec = (IF @ = -1 THEN 0 ELSE @) * 10 + Char]
             ELSE [pf EXCEPT !.st = "length",
                   !.prec = IF pf.st = "digits" /\ @ = -1 THEN 0 ELSE @]

\* printf_parse_length: the length after another letter, "invalid" or "done".
NextLength(c, length) ==
    CASE c = LowerL /\ length = "l" -> "ll"
      [] c = LowerH /\ length = "h" -> "hh"
      [] c \in {LowerL, LowerH, UpperL} /\ length # "none" -> "invalid"
      [] c = LowerL -> "l"
      [] c = LowerH -> "h"
      [] c = UpperL -> "L"
      [] OTHER -> "done"

ParseLength ==
    /\ pf.st = "length"
    /\ LET next == NextLength(Char, pf.length) IN
       pf' = CASE next = "done" -> [pf EXCEPT !.st = "specifier"]
               [] next = "invalid" -> [pf EXCEPT !.st = "format", !.i = @ + 1]
               [] OTHER -> [pf EXCEPT !.length = next, !.i = @ + 1]

\* Wrong variant: the padding goes after the text.
Padded_After(text, zero, width) ==
    LET w == Smaller(width, BufMax)
        c == IF zero THEN 0 ELSE Blank
    IN  text \o [i \in 1 .. w - Len(text) |-> c]

\* printf_apply_flags_and_width: one character after the other is put in
\* front of the text.
Padded(text, zero, width) ==
    LET w == Smaller(width, BufMax)
        c == IF zero THEN 0 ELSE Blank
        pad[i \in 0 .. w] == IF i = 0 THEN text ELSE InsertAt(pad[i - 1], i, c)
    IN  IF w > Len(text) THEN pad[w - Len(text)] ELSE text

\* The text of the specifier and how much of it is to be written; what does
\* not name a specifier writes nothing.
Output ==
    LET arg == Head(pf.args)
        text == CASE pf.length = "L" /\ Char = SpecU -> <<>>
                  [] Char = SpecD -> Ltoa(arg, 10)
                  [] Char = SpecX -> Ultoa(arg, 16)
                  [] Char = SpecU -> Ultoa(arg, 10)
    IN  CASE Char \in {SpecD, SpecX, SpecU} ->
                LET p == Padded(text, pf.zero, pf.width) IN [buf |-> p, len |-> Len(p)]
          [] Char = SpecP ->
                LET p == Padded(Ultoa(arg, 16), TRUE, 8) IN [buf |-> p, len |-> Len(p)]
          [] Char = SpecS ->
                [buf |-> arg, len |-> IF pf.prec # -1 /\ pf.prec <= Len(arg)
                                      THEN pf.prec ELSE Len(arg)]
          [] Char = SpecC -> [buf |-> <<arg>>, len |-> 1]
          [] OTHER -> [buf |-> <<>>, len |-> 0]

TakesArg == Char \in {SpecD, SpecX, SpecP, SpecS, SpecC}
            \/ (Char = SpecU /\ pf.length # "L")

\* The specifier.  An output that does not fit is cut to n - 1 characters,
\* whatever was written before it, and ends the call.
Specifier ==
    /\ pf.st = "specifier"
    /\ LET out == Output
           rest == IF TakesArg THEN Tail(pf.args) ELSE pf.args
       IN  pf' = IF pf.written + out.len > pf.n - 1
                 THEN [pf EXCEPT !.st = "done", !.ret = pf.written + out.len,
                       !.dest = Strncat(@, out.buf, pf.n - 1), !.args = rest]
                 ELSE [pf EXCEPT !.st = "format", !.i = @ + 1, !.args = rest,
                       !.written = @ + out.len, !.dest = Strncat(@, out.buf, out.len)]

StdioReturn ==
    /\ pf.st = "done"
    /\ pf' = StdioIdle

StdioNext ==
    \/ Vsnprintf \/ Finish \/ Literal \/ Directive \/ ParseFlags \/ ParseWidth
    \/ ParsePrecision \/ ParseLength \/ Specifier \/ StdioReturn

-----------------------------------------------------------------------------
\* What an item should look like: a number in its base, right-justified; as
\* much of a string as the precision lets through.
Justified(text, zero, width) ==
    LET w == IF width > Len(text) THEN width ELSE Len(text)
    IN  [i \in 1 .. w |-> IF i > w - Len(text) THEN text[i - (w - Len(text))]
                          ELSE IF zero THEN 0 ELSE Blank]
Number(spec, n) == IF spec = SpecD THEN Ltoa(n, 10) ELSE Ultoa(n, IF spec = SpecU THEN 10 ELSE 16)
Rendered(item) ==
    CASE item.kind = "lit" -> <<item.c>>
      [] item.kind = "num" ->
            IF item.spec = SpecP THEN Justified(Number(SpecX, item.arg), TRUE, 8)
            ELSE IF item.length = <<UpperL>> THEN Justified(<<>>, item.zero, item.width)
            ELSE Justified(Number(item.spec, item.arg), item.zero, item.width)
      [] item.kind = "star" -> Justified(Number(item.spec, item.arg), FALSE, item.width)
      [] item.kind \in {"str", "starprec"} ->
            SubSeq(item.arg, 1, IF item.prec = -1 THEN Len(item.arg)
                                ELSE Smaller(item.prec, Len(item.arg)))
      [] item.kind = "chr" -> <<item.arg>>

\* What the specifier's buffer holds: the precision bounds only what is counted.
Unlimited(item) == IF item.kind = "str" THEN item.arg ELSE Rendered(item)

\* What is rendered of the first k items.
RenderedTo(items, k) == FlattenSeq([j \in 1 .. k |-> Rendered(items[j])])

\* For every format without a precision given by an argument, vsnprintf
\* writes what the items call for and returns its length when it fits n bytes.
\* When it does not, the first item that reaches the end decides: behind a
\* full buffer nothing more is written; behind an item that crosses the end
\* the result is the length up to that item, and dest holds what is in front
\* of the item and then as much of its text as the empty buffer would hold.
PrintfExact ==
    pf.st = "done" /\ (\A k \in DOMAIN pf.items : pf.items[k].kind # "starprec") =>
        LET room    == pf.n - 1
            all     == RenderedTo(pf.items, Len(pf.items))
            Reaches(k) == Len(RenderedTo(pf.items, k)) > room
        IN  \/ /\ Len(all) <= room
               /\ pf.dest = all /\ pf.ret = Len(all)
            \/ \E k \in DOMAIN pf.items :
                LET before == RenderedTo(pf.items, k - 1)
                    text   == Unlimited(pf.items[k])
                IN  /\ Reaches(k) /\ ~Reaches(k - 1)
                    /\ IF Len(before) = room
                       THEN pf.dest = before /\ pf.ret = room
                       ELSE /\ pf.dest = before \o SubSeq(text, 1, Smaller(room, Len(text)))
                            /\ pf.ret = Len(RenderedTo(pf.items, k))

\* No call writes behind the n bytes it was given: the text and its 0 fit.
\* The code does not keep this.
PrintfStaysInBuffer == pf.st = "done" => Len(pf.dest) < pf.n
=============================================================================

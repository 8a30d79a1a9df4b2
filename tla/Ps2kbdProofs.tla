----------------------------- MODULE Ps2kbdProofs -----------------------------
(***************************************************************************)
(* The decoder of kbd_isr recognises every press and release, and a read   *)
(* of the ring gets events in order, for every size of the ring.           *)
(***************************************************************************)
EXTENDS Ps2kbd, TLAPS

\* g_special_key, g_release_modif, g_ongoing_sequence and g_sequence_count.
Dec(special, release, ongoing, count) ==
    [special |-> special, release |-> release, ongoing |-> ongoing, count |-> count]

\* Between two bytes of a press or release: what is to come, and the decoder.
Between(s, r, d) == stroke = s /\ rest = r /\ decoder = d

Plainly ==
    \/ Between("press", <<"K">>, Idle)
    \/ Between("release", <<"F0", "K">>, Idle)
    \/ Between("release", <<"K">>, Dec(FALSE, TRUE, FALSE, 0))
    \/ Between("xpress", <<"E0", "K">>, Idle)
    \/ Between("xpress", <<"K">>, Dec(TRUE, FALSE, FALSE, 0))
    \/ Between("xrelease", <<"E0", "F0", "K">>, Idle)
    \/ Between("xrelease", <<"F0", "K">>, Dec(TRUE, FALSE, FALSE, 0))
    \/ Between("xrelease", <<"K">>, Dec(TRUE, TRUE, FALSE, 0))
    \/ Between("lshift", <<"12">>, Idle)
    \/ Between("lshiftUp", <<"F0", "12">>, Idle)
    \/ Between("lshiftUp", <<"12">>, Dec(FALSE, TRUE, FALSE, 0))
    \/ Between("asterisk", <<"7C">>, Idle)
    \/ Between("asteriskUp", <<"F0", "7C">>, Idle)
    \/ Between("asteriskUp", <<"7C">>, Dec(FALSE, TRUE, FALSE, 0))

ScreenKey ==
    \/ Between("print", <<"E0", "12", "E0", "7C">>, Idle)
    \/ Between("print", <<"12", "E0", "7C">>, Dec(TRUE, FALSE, FALSE, 0))
    \/ Between("print", <<"E0", "7C">>, Dec(TRUE, FALSE, TRUE, 2))
    \/ Between("print", <<"7C">>, Dec(TRUE, FALSE, TRUE, 3))
    \/ Between("printUp", <<"E0", "F0", "7C", "E0", "F0", "12">>, Idle)
    \/ Between("printUp", <<"F0", "7C", "E0", "F0", "12">>, Dec(TRUE, FALSE, FALSE, 0))
    \/ Between("printUp", <<"7C", "E0", "F0", "12">>, Dec(TRUE, TRUE, FALSE, 0))
    \/ Between("printUp", <<"E0", "F0", "12">>, Dec(TRUE, TRUE, TRUE, 3))
    \/ Between("printUp", <<"F0", "12">>, Dec(TRUE, TRUE, TRUE, 4))
    \/ Between("printUp", <<"12">>, Dec(TRUE, TRUE, TRUE, 5))

Pause ==
    \/ Between("pause", <<"E1", "14", "77", "E1", "F0", "14", "F0", "77">>, Idle)
    \/ Between("pause", <<"14", "77", "E1", "F0", "14", "F0", "77">>, Dec(FALSE, FALSE, TRUE, 1))
    \/ Between("pause", <<"77", "E1", "F0", "14", "F0", "77">>, Dec(FALSE, FALSE, TRUE, 2))
    \/ Between("pause", <<"E1", "F0", "14", "F0", "77">>, Dec(FALSE, FALSE, TRUE, 3))
    \/ Between("pause", <<"F0", "14", "F0", "77">>, Dec(FALSE, FALSE, TRUE, 4))
    \/ Between("pause", <<"14", "F0", "77">>, Dec(FALSE, FALSE, TRUE, 5))
    \/ Between("pause", <<"F0", "77">>, Dec(FALSE, FALSE, TRUE, 6))
    \/ Between("pause", <<"77">>, Dec(FALSE, FALSE, TRUE, 7))

\* The bytes so far have put the decoder where the rest needs it, and no
\* event comes before the last byte.
DecoderInv ==
    \/ rest = <<>> /\ decoder = Idle /\ emitted = Meaning[stroke]
    \/ emitted = <<>> /\ rest # <<>> /\ (Plainly \/ ScreenKey \/ Pause)

LEMMA DecoderInvImplies == DecoderInv => StrokesDecoded
BY DEF DecoderInv, StrokesDecoded

\* The first events of a press or release are all of them.
LEMMA FirstEvents ==
    ASSUME emitted = <<>>
    PROVE  /\ Cache(<<>>) => emitted' = <<>>
           /\ \A e : Cache(<<e>>) => emitted' = <<e>>
           /\ \A e, f : Cache(<<e, f>>) => emitted' = <<e, f>>
<1>1. \A s : Cache(s) => emitted' = <<>> \o s
  BY DEF Cache
<1>2. <<>> \o <<>> = <<>>
  OBVIOUS
<1>3. \A e : <<>> \o <<e>> = <<e>>
  OBVIOUS
<1>4. \A e, f : <<>> \o <<e, f>> = <<e, f>>
  OBVIOUS
<1> QED BY <1>1, <1>2, <1>3, <1>4

\* kbd_isr on a byte outside of a sequence, and inside of one.
LEMMA SingleByte ==
    ASSUME KbdIsr, emitted = <<>>, NEW s, NEW b, NEW r, NEW sp \in BOOLEAN, NEW re \in BOOLEAN,
           stroke = s, Head(rest) = b, Tail(rest) = r, decoder = Dec(sp, re, FALSE, 0)
    PROVE  /\ stroke' = s /\ rest' = r
           /\ b = "E1" => decoder' = Dec(sp, re, TRUE, 1) /\ emitted' = <<>>
           /\ b = "E0" => decoder' = Dec(TRUE, re, FALSE, 0) /\ emitted' = <<>>
           /\ b = "F0" => decoder' = Dec(sp, TRUE, FALSE, 0) /\ emitted' = <<>>
           /\ b = "12" /\ sp => decoder' = Dec(sp, re, TRUE, 2) /\ emitted' = <<>>
           /\ b = "7C" /\ sp /\ re => decoder' = Dec(sp, re, TRUE, 3) /\ emitted' = <<>>
           /\ b = "K" \/ (b = "12" /\ ~sp) \/ (b = "7C" /\ ~(sp /\ re)) =>
                /\ decoder' = Idle
                /\ emitted' = <<Event(IF re THEN "release" ELSE "press", IF sp THEN "special K" ELSE b)>>
<1>1. stroke' = s /\ rest' = r /\ Single(b)
  BY DEF KbdIsr, Dec
<1>2. ASSUME Cache(<<>>) PROVE emitted' = <<>>
  BY <1>2, FirstEvents
<1>3. decoder.special = sp /\ decoder.release = re
  BY DEF Dec
<1>4. b = "E1" => decoder' = Dec(sp, re, TRUE, 1) /\ emitted' = <<>>
  BY <1>1, <1>2 DEF Single, Begin, Dec
<1>5. b = "E0" => decoder' = Dec(TRUE, re, FALSE, 0) /\ emitted' = <<>>
  BY <1>1, <1>2 DEF Single, Dec
<1>6. b = "F0" => decoder' = Dec(sp, TRUE, FALSE, 0) /\ emitted' = <<>>
  BY <1>1, <1>2 DEF Single, Dec
<1>7. b = "12" /\ sp => decoder' = Dec(sp, re, TRUE, 2) /\ emitted' = <<>>
  BY <1>1, <1>2, <1>3 DEF Single, Begin, Dec
<1>8. b = "7C" /\ sp /\ re => decoder' = Dec(sp, re, TRUE, 3) /\ emitted' = <<>>
  BY <1>1, <1>2, <1>3 DEF Single, Begin, Dec
<1>9. ASSUME b = "K" \/ (b = "12" /\ ~sp) \/ (b = "7C" /\ ~(sp /\ re))
      PROVE  /\ decoder' = Idle
             /\ emitted' = <<Event(IF re THEN "release" ELSE "press", IF sp THEN "special K" ELSE b)>>
  <2>1. Plain(b)
    BY <1>1, <1>3, <1>9 DEF Single
  <2>2. decoder' = Idle
    BY <2>1 DEF Plain, Dec, Idle
  <2>3. Cache(<<Event(IF re THEN "release" ELSE "press", IF sp THEN "special K" ELSE b)>>)
    BY <1>3, <2>1 DEF Plain
  <2> QED BY <2>2, <2>3, FirstEvents
<1> QED BY <1>1, <1>4, <1>5, <1>6, <1>7, <1>8, <1>9

LEMMA SequenceByte ==
    ASSUME KbdIsr, emitted = <<>>, NEW s, NEW b, NEW r, NEW sp \in BOOLEAN, NEW re \in BOOLEAN, NEW c \in Nat,
           stroke = s, Head(rest) = b, Tail(rest) = r, decoder = Dec(sp, re, TRUE, c)
    PROVE  /\ stroke' = s /\ rest' = r
           /\ c = 7 /\ b = "77" => decoder' = Dec(sp, re, FALSE, 0) /\ emitted' = Meaning.pause
           /\ c = 5 /\ b = "12" => decoder' = Idle /\ emitted' = Meaning.printUp
           /\ c = 3 /\ b = "7C" => decoder' = [Idle EXCEPT !.release = re] /\ emitted' = Meaning.print
           /\ c # 7 /\ ~(c = 5 /\ b = "12") /\ ~(c = 3 /\ b = "7C") =>
                decoder' = Dec(sp, re, TRUE, c + 1) /\ emitted' = <<>>
<1>1. stroke' = s /\ rest' = r /\ Sequence(b)
  BY DEF KbdIsr, Dec
<1>2. PICK d : d = [decoder EXCEPT !.count = @ + 1]
  OBVIOUS
<1>3. d = Dec(sp, re, TRUE, c + 1) /\ d.count = c + 1 /\ d.release = re
  BY <1>2 DEF Dec
<1>4. /\ c = 7 <=> d.count = 8
      /\ c = 5 <=> d.count = 6
      /\ c = 3 <=> d.count = 4
  <2>1. PICK k : k = d.count
    OBVIOUS
  <2>2. k = c + 1
    BY <1>3, <2>1
  <2>3. (c = 7 <=> k = 8) /\ (c = 5 <=> k = 6) /\ (c = 3 <=> k = 4)
    BY ONLY <2>2, c \in Nat
  <2> QED BY <2>1, <2>3
<1>5. Meaning.pause = <<Event("press", "KEY_BREAK"), Event("release", "KEY_BREAK")>>
      /\ Meaning.printUp = <<Event("release", "KEY_SS")>> /\ Meaning.print = <<Event("press", "KEY_SS")>>
  BY DEF Meaning
<1>6. CASE c = 7
  <2>1. b = "77" => decoder' = [d EXCEPT !.count = 0, !.ongoing = FALSE] /\ Cache(Meaning.pause)
    BY <1>1, <1>2, <1>4, <1>6 DEF Sequence
  <2>2. b = "77" => decoder' = Dec(sp, re, FALSE, 0)
    BY <1>3, <2>1 DEF Dec
  <2>3. b = "77" => emitted' = Meaning.pause
    BY <1>5, <2>1, FirstEvents
  <2>4. c # 5 /\ c # 3
    BY <1>6
  <2> QED BY <1>1, <1>6, <2>2, <2>3, <2>4, Zenon
<1>7. CASE c = 5 /\ b = "12"
  <2>0. d.count = 6 /\ d.count # 8 /\ d.count # 4
    BY <1>4, <1>7
  <2>1. decoder' = Idle /\ Cache(Meaning.printUp)
    BY <1>1, <1>2, <1>7, <2>0 DEF Sequence
  <2>2. emitted' = Meaning.printUp
    BY <1>5, <2>1, FirstEvents
  <2> QED BY <1>1, <1>7, <2>1, <2>2
<1>8. CASE c = 3 /\ b = "7C"
  <2>0. d.count = 4 /\ d.count # 8 /\ d.count # 6
    BY <1>4, <1>8
  <2>1. decoder' = [Idle EXCEPT !.release = d.release] /\ Cache(Meaning.print)
    BY <1>1, <1>2, <1>8, <2>0 DEF Sequence
  <2>2. emitted' = Meaning.print
    BY <1>5, <2>1, FirstEvents
  <2> QED BY <1>1, <1>3, <1>8, <2>1, <2>2
<1>9. CASE c # 7 /\ ~(c = 5 /\ b = "12") /\ ~(c = 3 /\ b = "7C")
  <2>1. decoder' = d /\ Cache(<<>>)
    BY <1>1, <1>2, <1>4, <1>9 DEF Sequence
  <2> QED BY <1>1, <1>3, <1>9, <2>1, FirstEvents
<1> QED BY <1>6, <1>7, <1>8, <1>9


LEMMA SequenceGoesOn ==
    ASSUME KbdIsr, emitted = <<>>, NEW s, NEW b, NEW r, NEW sp \in BOOLEAN, NEW re \in BOOLEAN,
           NEW c \in 0 .. 6, NEW n, n = c + 1, ~(c = 5 /\ b = "12"), ~(c = 3 /\ b = "7C"),
           stroke = s, Head(rest) = b, Tail(rest) = r, decoder = Dec(sp, re, TRUE, c)
    PROVE  stroke' = s /\ rest' = r /\ decoder' = Dec(sp, re, TRUE, n) /\ emitted' = <<>>
<1>1. stroke' = s /\ rest' = r /\ Sequence(b)
  BY DEF KbdIsr, Dec
<1>2. PICK d : d = [decoder EXCEPT !.count = @ + 1]
  OBVIOUS
<1>3. d = Dec(sp, re, TRUE, n) /\ d.count = n
  BY <1>2 DEF Dec
<1>4. n # 8 /\ ~(n = 6 /\ b = "12") /\ ~(n = 4 /\ b = "7C")
  BY ONLY c \in 0 .. 6, n = c + 1, ~(c = 5 /\ b = "12"), ~(c = 3 /\ b = "7C")
<1>5. decoder' = d /\ Cache(<<>>)
  BY <1>1, <1>2, <1>3, <1>4 DEF Sequence
<1> QED BY <1>1, <1>3, <1>5, FirstEvents

LEMMA IdleDec == Idle = Dec(FALSE, FALSE, FALSE, 0)
BY DEF Idle, Dec

\* kbd_isr on the bytes of a key of its own.
LEMMA PlainlyKeeps ==
    ASSUME KbdIsr, emitted = <<>>, Plainly
    PROVE  DecoderInv'
<1> USE IdleDec
<1>1. CASE Between("press", <<"K">>, Idle)
  <2>1. /\ stroke = "press" /\ Head(rest) = "K" /\ Tail(rest) = <<>>
        /\ decoder = Dec(FALSE, FALSE, FALSE, 0)
    BY <1>1 DEF Between
  <2>2. stroke' = "press" /\ rest' = <<>> /\ decoder' = Idle /\ emitted' = <<Event("press", "K")>>
    BY <2>1, SingleByte
  <2> QED BY <2>2 DEF DecoderInv, Meaning
<1>2. CASE Between("release", <<"F0", "K">>, Idle)
  <2>1. /\ stroke = "release" /\ Head(rest) = "F0" /\ Tail(rest) = <<"K">>
        /\ decoder = Dec(FALSE, FALSE, FALSE, 0)
    BY <1>2 DEF Between
  <2>2. stroke' = "release" /\ rest' = <<"K">> /\ decoder' = Dec(FALSE, TRUE, FALSE, 0) /\ emitted' = <<>>
    BY <2>1, SingleByte
  <2> QED BY <2>2 DEF DecoderInv, Plainly, Between
<1>3. CASE Between("release", <<"K">>, Dec(FALSE, TRUE, FALSE, 0))
  <2>1. /\ stroke = "release" /\ Head(rest) = "K" /\ Tail(rest) = <<>>
        /\ decoder = Dec(FALSE, TRUE, FALSE, 0)
    BY <1>3 DEF Between
  <2>2. stroke' = "release" /\ rest' = <<>> /\ decoder' = Idle /\ emitted' = <<Event("release", "K")>>
    BY <2>1, SingleByte
  <2> QED BY <2>2 DEF DecoderInv, Meaning
<1>4. CASE Between("xpress", <<"E0", "K">>, Idle)
  <2>1. /\ stroke = "xpress" /\ Head(rest) = "E0" /\ Tail(rest) = <<"K">>
        /\ decoder = Dec(FALSE, FALSE, FALSE, 0)
    BY <1>4 DEF Between
  <2>2. stroke' = "xpress" /\ rest' = <<"K">> /\ decoder' = Dec(TRUE, FALSE, FALSE, 0) /\ emitted' = <<>>
    BY <2>1, SingleByte
  <2> QED BY <2>2 DEF DecoderInv, Plainly, Between
<1>5. CASE Between("xpress", <<"K">>, Dec(TRUE, FALSE, FALSE, 0))
  <2>1. /\ stroke = "xpress" /\ Head(rest) = "K" /\ Tail(rest) = <<>>
        /\ decoder = Dec(TRUE, FALSE, FALSE, 0)
    BY <1>5 DEF Between
  <2>2. stroke' = "xpress" /\ rest' = <<>> /\ decoder' = Idle /\ emitted' = <<Event("press", "special K")>>
    BY <2>1, SingleByte
  <2> QED BY <2>2 DEF DecoderInv, Meaning
<1>6. CASE Between("xrelease", <<"E0", "F0", "K">>, Idle)
  <2>1. /\ stroke = "xrelease" /\ Head(rest) = "E0" /\ Tail(rest) = <<"F0", "K">>
        /\ decoder = Dec(FALSE, FALSE, FALSE, 0)
    BY <1>6 DEF Between
  <2>2. stroke' = "xrelease" /\ rest' = <<"F0", "K">> /\ decoder' = Dec(TRUE, FALSE, FALSE, 0) /\ emitted' = <<>>
    BY <2>1, SingleByte
  <2> QED BY <2>2 DEF DecoderInv, Plainly, Between
<1>7. CASE Between("xrelease", <<"F0", "K">>, Dec(TRUE, FALSE, FALSE, 0))
  <2>1. /\ stroke = "xrelease" /\ Head(rest) = "F0" /\ Tail(rest) = <<"K">>
        /\ decoder = Dec(TRUE, FALSE, FALSE, 0)
    BY <1>7 DEF Between
  <2>2. stroke' = "xrelease" /\ rest' = <<"K">> /\ decoder' = Dec(TRUE, TRUE, FALSE, 0) /\ emitted' = <<>>
    BY <2>1, SingleByte
  <2> QED BY <2>2 DEF DecoderInv, Plainly, Between
<1>8. CASE Between("xrelease", <<"K">>, Dec(TRUE, TRUE, FALSE, 0))
  <2>1. /\ stroke = "xrelease" /\ Head(rest) = "K" /\ Tail(rest) = <<>>
        /\ decoder = Dec(TRUE, TRUE, FALSE, 0)
    BY <1>8 DEF Between
  <2>2. stroke' = "xrelease" /\ rest' = <<>> /\ decoder' = Idle /\ emitted' = <<Event("release", "special K")>>
    BY <2>1, SingleByte
  <2> QED BY <2>2 DEF DecoderInv, Meaning
<1>9. CASE Between("lshift", <<"12">>, Idle)
  <2>1. /\ stroke = "lshift" /\ Head(rest) = "12" /\ Tail(rest) = <<>>
        /\ decoder = Dec(FALSE, FALSE, FALSE, 0)
    BY <1>9 DEF Between
  <2>2. stroke' = "lshift" /\ rest' = <<>> /\ decoder' = Idle /\ emitted' = <<Event("press", "12")>>
    BY <2>1, SingleByte
  <2> QED BY <2>2 DEF DecoderInv, Meaning
<1>10. CASE Between("lshiftUp", <<"F0", "12">>, Idle)
  <2>1. /\ stroke = "lshiftUp" /\ Head(rest) = "F0" /\ Tail(rest) = <<"12">>
        /\ decoder = Dec(FALSE, FALSE, FALSE, 0)
    BY <1>10 DEF Between
  <2>2. stroke' = "lshiftUp" /\ rest' = <<"12">> /\ decoder' = Dec(FALSE, TRUE, FALSE, 0) /\ emitted' = <<>>
    BY <2>1, SingleByte
  <2> QED BY <2>2 DEF DecoderInv, Plainly, Between
<1>11. CASE Between("lshiftUp", <<"12">>, Dec(FALSE, TRUE, FALSE, 0))
  <2>1. /\ stroke = "lshiftUp" /\ Head(rest) = "12" /\ Tail(rest) = <<>>
        /\ decoder = Dec(FALSE, TRUE, FALSE, 0)
    BY <1>11 DEF Between
  <2>2. stroke' = "lshiftUp" /\ rest' = <<>> /\ decoder' = Idle /\ emitted' = <<Event("release", "12")>>
    BY <2>1, SingleByte
  <2> QED BY <2>2 DEF DecoderInv, Meaning
<1>12. CASE Between("asterisk", <<"7C">>, Idle)
  <2>1. /\ stroke = "asterisk" /\ Head(rest) = "7C" /\ Tail(rest) = <<>>
        /\ decoder = Dec(FALSE, FALSE, FALSE, 0)
    BY <1>12 DEF Between
  <2>2. stroke' = "asterisk" /\ rest' = <<>> /\ decoder' = Idle /\ emitted' = <<Event("press", "7C")>>
    BY <2>1, SingleByte
  <2> QED BY <2>2 DEF DecoderInv, Meaning
<1>13. CASE Between("asteriskUp", <<"F0", "7C">>, Idle)
  <2>1. /\ stroke = "asteriskUp" /\ Head(rest) = "F0" /\ Tail(rest) = <<"7C">>
        /\ decoder = Dec(FALSE, FALSE, FALSE, 0)
    BY <1>13 DEF Between
  <2>2. stroke' = "asteriskUp" /\ rest' = <<"7C">> /\ decoder' = Dec(FALSE, TRUE, FALSE, 0) /\ emitted' = <<>>
    BY <2>1, SingleByte
  <2> QED BY <2>2 DEF DecoderInv, Plainly, Between
<1>14. CASE Between("asteriskUp", <<"7C">>, Dec(FALSE, TRUE, FALSE, 0))
  <2>1. /\ stroke = "asteriskUp" /\ Head(rest) = "7C" /\ Tail(rest) = <<>>
        /\ decoder = Dec(FALSE, TRUE, FALSE, 0)
    BY <1>14 DEF Between
  <2>2. stroke' = "asteriskUp" /\ rest' = <<>> /\ decoder' = Idle /\ emitted' = <<Event("release", "7C")>>
    BY <2>1, SingleByte
  <2> QED BY <2>2 DEF DecoderInv, Meaning
<1> QED BY <1>1, <1>2, <1>3, <1>4, <1>5, <1>6, <1>7, <1>8, <1>9, <1>10, <1>11, <1>12, <1>13, <1>14 DEF Plainly

\* kbd_isr on the bytes of the print screen key, whose shift codes are not a
\* shift key's.
LEMMA ScreenKeyKeeps ==
    ASSUME KbdIsr, emitted = <<>>, ScreenKey
    PROVE  DecoderInv'
<1> USE IdleDec
<1>1. CASE Between("print", <<"E0", "12", "E0", "7C">>, Idle)
  <2>1. /\ stroke = "print" /\ Head(rest) = "E0" /\ Tail(rest) = <<"12", "E0", "7C">>
        /\ decoder = Dec(FALSE, FALSE, FALSE, 0)
    BY <1>1 DEF Between
  <2>2. stroke' = "print" /\ rest' = <<"12", "E0", "7C">> /\ decoder' = Dec(TRUE, FALSE, FALSE, 0) /\ emitted' = <<>>
    BY <2>1, SingleByte
  <2> QED BY <2>2 DEF DecoderInv, ScreenKey, Between
<1>2. CASE Between("print", <<"12", "E0", "7C">>, Dec(TRUE, FALSE, FALSE, 0))
  <2>1. /\ stroke = "print" /\ Head(rest) = "12" /\ Tail(rest) = <<"E0", "7C">>
        /\ decoder = Dec(TRUE, FALSE, FALSE, 0)
    BY <1>2 DEF Between
  <2>2. stroke' = "print" /\ rest' = <<"E0", "7C">> /\ decoder' = Dec(TRUE, FALSE, TRUE, 2) /\ emitted' = <<>>
    BY <2>1, SingleByte
  <2> QED BY <2>2 DEF DecoderInv, ScreenKey, Between
<1>3. CASE Between("print", <<"E0", "7C">>, Dec(TRUE, FALSE, TRUE, 2))
  <2>1. /\ stroke = "print" /\ Head(rest) = "E0" /\ Tail(rest) = <<"7C">>
        /\ decoder = Dec(TRUE, FALSE, TRUE, 2)
    BY <1>3 DEF Between
  <2>2. stroke' = "print" /\ rest' = <<"7C">> /\ decoder' = Dec(TRUE, FALSE, TRUE, 3) /\ emitted' = <<>>
    <3>1. 2 \in 0 .. 6 /\ 3 = 2 + 1 /\ ~(2 = 5 /\ "E0" = "12") /\ ~(2 = 3 /\ "E0" = "7C")
      OBVIOUS
    <3> QED BY <2>1, <3>1, SequenceGoesOn
  <2> QED BY <2>2 DEF DecoderInv, ScreenKey, Between
<1>4. CASE Between("print", <<"7C">>, Dec(TRUE, FALSE, TRUE, 3))
  <2>1. /\ stroke = "print" /\ Head(rest) = "7C" /\ Tail(rest) = <<>>
        /\ decoder = Dec(TRUE, FALSE, TRUE, 3)
    BY <1>4 DEF Between
  <2>2. stroke' = "print" /\ rest' = <<>> /\ decoder' = [Idle EXCEPT !.release = FALSE] /\ emitted' = Meaning.print
    BY <2>1, SequenceByte
  <2>3. decoder' = Idle
    BY <2>2 DEF Idle
  <2> QED BY <2>2, <2>3 DEF DecoderInv, Meaning
<1>5. CASE Between("printUp", <<"E0", "F0", "7C", "E0", "F0", "12">>, Idle)
  <2>1. /\ stroke = "printUp" /\ Head(rest) = "E0" /\ Tail(rest) = <<"F0", "7C", "E0", "F0", "12">>
        /\ decoder = Dec(FALSE, FALSE, FALSE, 0)
    BY <1>5 DEF Between
  <2>2. stroke' = "printUp" /\ rest' = <<"F0", "7C", "E0", "F0", "12">> /\ decoder' = Dec(TRUE, FALSE, FALSE, 0) /\ emitted' = <<>>
    BY <2>1, SingleByte
  <2> QED BY <2>2 DEF DecoderInv, ScreenKey, Between
<1>6. CASE Between("printUp", <<"F0", "7C", "E0", "F0", "12">>, Dec(TRUE, FALSE, FALSE, 0))
  <2>1. /\ stroke = "printUp" /\ Head(rest) = "F0" /\ Tail(rest) = <<"7C", "E0", "F0", "12">>
        /\ decoder = Dec(TRUE, FALSE, FALSE, 0)
    BY <1>6 DEF Between
  <2>2. stroke' = "printUp" /\ rest' = <<"7C", "E0", "F0", "12">> /\ decoder' = Dec(TRUE, TRUE, FALSE, 0) /\ emitted' = <<>>
    BY <2>1, SingleByte
  <2> QED BY <2>2 DEF DecoderInv, ScreenKey, Between
<1>7. CASE Between("printUp", <<"7C", "E0", "F0", "12">>, Dec(TRUE, TRUE, FALSE, 0))
  <2>1. /\ stroke = "printUp" /\ Head(rest) = "7C" /\ Tail(rest) = <<"E0", "F0", "12">>
        /\ decoder = Dec(TRUE, TRUE, FALSE, 0)
    BY <1>7 DEF Between
  <2>2. stroke' = "printUp" /\ rest' = <<"E0", "F0", "12">> /\ decoder' = Dec(TRUE, TRUE, TRUE, 3) /\ emitted' = <<>>
    BY <2>1, SingleByte
  <2> QED BY <2>2 DEF DecoderInv, ScreenKey, Between
<1>8. CASE Between("printUp", <<"E0", "F0", "12">>, Dec(TRUE, TRUE, TRUE, 3))
  <2>1. /\ stroke = "printUp" /\ Head(rest) = "E0" /\ Tail(rest) = <<"F0", "12">>
        /\ decoder = Dec(TRUE, TRUE, TRUE, 3)
    BY <1>8 DEF Between
  <2>2. stroke' = "printUp" /\ rest' = <<"F0", "12">> /\ decoder' = Dec(TRUE, TRUE, TRUE, 4) /\ emitted' = <<>>
    <3>1. 3 \in 0 .. 6 /\ 4 = 3 + 1 /\ ~(3 = 5 /\ "E0" = "12") /\ ~(3 = 3 /\ "E0" = "7C")
      OBVIOUS
    <3> QED BY <2>1, <3>1, SequenceGoesOn
  <2> QED BY <2>2 DEF DecoderInv, ScreenKey, Between
<1>9. CASE Between("printUp", <<"F0", "12">>, Dec(TRUE, TRUE, TRUE, 4))
  <2>1. /\ stroke = "printUp" /\ Head(rest) = "F0" /\ Tail(rest) = <<"12">>
        /\ decoder = Dec(TRUE, TRUE, TRUE, 4)
    BY <1>9 DEF Between
  <2>2. stroke' = "printUp" /\ rest' = <<"12">> /\ decoder' = Dec(TRUE, TRUE, TRUE, 5) /\ emitted' = <<>>
    <3>1. 4 \in 0 .. 6 /\ 5 = 4 + 1 /\ ~(4 = 5 /\ "F0" = "12") /\ ~(4 = 3 /\ "F0" = "7C")
      OBVIOUS
    <3> QED BY <2>1, <3>1, SequenceGoesOn, ZenonT(30)
  <2> QED BY <2>2 DEF DecoderInv, ScreenKey, Between
<1>10. CASE Between("printUp", <<"12">>, Dec(TRUE, TRUE, TRUE, 5))
  <2>1. /\ stroke = "printUp" /\ Head(rest) = "12" /\ Tail(rest) = <<>>
        /\ decoder = Dec(TRUE, TRUE, TRUE, 5)
    BY <1>10 DEF Between
  <2>2. stroke' = "printUp" /\ rest' = <<>> /\ decoder' = Idle /\ emitted' = Meaning.printUp
    BY <2>1, SequenceByte, ZenonT(30)
  <2> QED BY <2>2 DEF DecoderInv, Meaning
<1> QED BY <1>1, <1>2, <1>3, <1>4, <1>5, <1>6, <1>7, <1>8, <1>9, <1>10 DEF ScreenKey

\* kbd_isr on the bytes of the pause key.
LEMMA PauseKeeps ==
    ASSUME KbdIsr, emitted = <<>>, Pause
    PROVE  DecoderInv'
<1> USE IdleDec
<1>1. CASE Between("pause", <<"E1", "14", "77", "E1", "F0", "14", "F0", "77">>, Idle)
  <2>1. /\ stroke = "pause" /\ Head(rest) = "E1" /\ Tail(rest) = <<"14", "77", "E1", "F0", "14", "F0", "77">>
        /\ decoder = Dec(FALSE, FALSE, FALSE, 0)
    BY <1>1 DEF Between
  <2>2. stroke' = "pause" /\ rest' = <<"14", "77", "E1", "F0", "14", "F0", "77">> /\ decoder' = Dec(FALSE, FALSE, TRUE, 1) /\ emitted' = <<>>
    BY <2>1, SingleByte
  <2> QED BY <2>2 DEF DecoderInv, Pause, Between
<1>2. CASE Between("pause", <<"14", "77", "E1", "F0", "14", "F0", "77">>, Dec(FALSE, FALSE, TRUE, 1))
  <2>1. /\ stroke = "pause" /\ Head(rest) = "14" /\ Tail(rest) = <<"77", "E1", "F0", "14", "F0", "77">>
        /\ decoder = Dec(FALSE, FALSE, TRUE, 1)
    BY <1>2 DEF Between
  <2>2. stroke' = "pause" /\ rest' = <<"77", "E1", "F0", "14", "F0", "77">> /\ decoder' = Dec(FALSE, FALSE, TRUE, 2) /\ emitted' = <<>>
    <3>1. 1 \in 0 .. 6 /\ 2 = 1 + 1 /\ ~(1 = 5 /\ "14" = "12") /\ ~(1 = 3 /\ "14" = "7C")
      OBVIOUS
    <3> QED BY <2>1, <3>1, SequenceGoesOn
  <2> QED BY <2>2 DEF DecoderInv, Pause, Between
<1>3. CASE Between("pause", <<"77", "E1", "F0", "14", "F0", "77">>, Dec(FALSE, FALSE, TRUE, 2))
  <2>1. /\ stroke = "pause" /\ Head(rest) = "77" /\ Tail(rest) = <<"E1", "F0", "14", "F0", "77">>
        /\ decoder = Dec(FALSE, FALSE, TRUE, 2)
    BY <1>3 DEF Between
  <2>2. stroke' = "pause" /\ rest' = <<"E1", "F0", "14", "F0", "77">> /\ decoder' = Dec(FALSE, FALSE, TRUE, 3) /\ emitted' = <<>>
    <3>1. 2 \in 0 .. 6 /\ 3 = 2 + 1 /\ ~(2 = 5 /\ "77" = "12") /\ ~(2 = 3 /\ "77" = "7C")
      OBVIOUS
    <3> QED BY <2>1, <3>1, SequenceGoesOn
  <2> QED BY <2>2 DEF DecoderInv, Pause, Between
<1>4. CASE Between("pause", <<"E1", "F0", "14", "F0", "77">>, Dec(FALSE, FALSE, TRUE, 3))
  <2>1. /\ stroke = "pause" /\ Head(rest) = "E1" /\ Tail(rest) = <<"F0", "14", "F0", "77">>
        /\ decoder = Dec(FALSE, FALSE, TRUE, 3)
    BY <1>4 DEF Between
  <2>2. stroke' = "pause" /\ rest' = <<"F0", "14", "F0", "77">> /\ decoder' = Dec(FALSE, FALSE, TRUE, 4) /\ emitted' = <<>>
    <3>1. 3 \in 0 .. 6 /\ 4 = 3 + 1 /\ ~(3 = 5 /\ "E1" = "12") /\ ~(3 = 3 /\ "E1" = "7C")
      OBVIOUS
    <3> QED BY <2>1, <3>1, SequenceGoesOn
  <2> QED BY <2>2 DEF DecoderInv, Pause, Between
<1>5. CASE Between("pause", <<"F0", "14", "F0", "77">>, Dec(FALSE, FALSE, TRUE, 4))
  <2>1. /\ stroke = "pause" /\ Head(rest) = "F0" /\ Tail(rest) = <<"14", "F0", "77">>
        /\ decoder = Dec(FALSE, FALSE, TRUE, 4)
    BY <1>5 DEF Between
  <2>2. stroke' = "pause" /\ rest' = <<"14", "F0", "77">> /\ decoder' = Dec(FALSE, FALSE, TRUE, 5) /\ emitted' = <<>>
    <3>1. 4 \in 0 .. 6 /\ 5 = 4 + 1 /\ ~(4 = 5 /\ "F0" = "12") /\ ~(4 = 3 /\ "F0" = "7C")
      OBVIOUS
    <3> QED BY <2>1, <3>1, SequenceGoesOn
  <2> QED BY <2>2 DEF DecoderInv, Pause, Between
<1>6. CASE Between("pause", <<"14", "F0", "77">>, Dec(FALSE, FALSE, TRUE, 5))
  <2>1. /\ stroke = "pause" /\ Head(rest) = "14" /\ Tail(rest) = <<"F0", "77">>
        /\ decoder = Dec(FALSE, FALSE, TRUE, 5)
    BY <1>6 DEF Between
  <2>2. stroke' = "pause" /\ rest' = <<"F0", "77">> /\ decoder' = Dec(FALSE, FALSE, TRUE, 6) /\ emitted' = <<>>
    <3>1. 5 \in 0 .. 6 /\ 6 = 5 + 1 /\ ~(5 = 5 /\ "14" = "12") /\ ~(5 = 3 /\ "14" = "7C")
      OBVIOUS
    <3> QED BY <2>1, <3>1, SequenceGoesOn
  <2> QED BY <2>2 DEF DecoderInv, Pause, Between
<1>7. CASE Between("pause", <<"F0", "77">>, Dec(FALSE, FALSE, TRUE, 6))
  <2>1. /\ stroke = "pause" /\ Head(rest) = "F0" /\ Tail(rest) = <<"77">>
        /\ decoder = Dec(FALSE, FALSE, TRUE, 6)
    BY <1>7 DEF Between
  <2>2. stroke' = "pause" /\ rest' = <<"77">> /\ decoder' = Dec(FALSE, FALSE, TRUE, 7) /\ emitted' = <<>>
    <3>1. 6 \in 0 .. 6 /\ 7 = 6 + 1 /\ ~(6 = 5 /\ "F0" = "12") /\ ~(6 = 3 /\ "F0" = "7C")
      OBVIOUS
    <3> QED BY <2>1, <3>1, SequenceGoesOn
  <2> QED BY <2>2 DEF DecoderInv, Pause, Between
<1>8. CASE Between("pause", <<"77">>, Dec(FALSE, FALSE, TRUE, 7))
  <2>1. /\ stroke = "pause" /\ Head(rest) = "77" /\ Tail(rest) = <<>>
        /\ decoder = Dec(FALSE, FALSE, TRUE, 7)
    BY <1>8 DEF Between
  <2>2. stroke' = "pause" /\ rest' = <<>> /\ decoder' = Idle /\ emitted' = Meaning.pause
    BY <2>1, SequenceByte, ZenonT(30)
  <2> QED BY <2>2 DEF DecoderInv, Meaning
<1> QED BY <1>1, <1>2, <1>3, <1>4, <1>5, <1>6, <1>7, <1>8 DEF Pause

\* Every press and release starts with the decoder at rest.
LEMMA TypeStarts ==
    ASSUME DecoderInv, NEW s \in Strokes, Type(s)
    PROVE  DecoderInv'
<1>1. decoder' = Idle /\ emitted' = <<>> /\ stroke' = s /\ rest' = Codes[s]
  BY DEF DecoderInv, Type
<1>2. s \in {"press", "release", "xpress", "xrelease", "lshift", "lshiftUp", "asterisk",
             "asteriskUp", "print", "printUp", "pause"}
  BY DEF Strokes, Codes
<1>3. CASE s = "press"
  BY <1>1, <1>3 DEF Codes, DecoderInv, Plainly, Between
<1>4. CASE s = "release"
  BY <1>1, <1>4 DEF Codes, DecoderInv, Plainly, Between
<1>5. CASE s = "xpress"
  BY <1>1, <1>5 DEF Codes, DecoderInv, Plainly, Between
<1>6. CASE s = "xrelease"
  BY <1>1, <1>6 DEF Codes, DecoderInv, Plainly, Between
<1>7. CASE s = "lshift"
  BY <1>1, <1>7 DEF Codes, DecoderInv, Plainly, Between
<1>8. CASE s = "lshiftUp"
  BY <1>1, <1>8 DEF Codes, DecoderInv, Plainly, Between
<1>9. CASE s = "asterisk"
  BY <1>1, <1>9 DEF Codes, DecoderInv, Plainly, Between
<1>10. CASE s = "asteriskUp"
  BY <1>1, <1>10 DEF Codes, DecoderInv, Plainly, Between
<1>11. CASE s = "print"
  BY <1>1, <1>11 DEF Codes, DecoderInv, ScreenKey, Between
<1>12. CASE s = "printUp"
  BY <1>1, <1>12 DEF Codes, DecoderInv, ScreenKey, Between
<1>13. CASE s = "pause"
  BY <1>1, <1>13 DEF Codes, DecoderInv, Pause, Between
<1> QED BY <1>2, <1>3, <1>4, <1>5, <1>6, <1>7, <1>8, <1>9, <1>10, <1>11, <1>12, <1>13

\* kbd_isr recognises every press and release of scan code set 2 whatever was
\* typed before and whatever the reader does meanwhile.
THEOREM KeysAlwaysDecoded == Spec => []StrokesDecoded
<1>1. Init => DecoderInv
  BY DEF Init, DecoderInv
<1>2. ASSUME DecoderInv, [Next]_vars
      PROVE  DecoderInv'
  <2>1. CASE KbdIsr
    <3>1. emitted = <<>> /\ (Plainly \/ ScreenKey \/ Pause)
      BY <1>2, <2>1 DEF DecoderInv, KbdIsr
    <3>2. CASE Plainly
      BY <2>1, <3>1, <3>2, PlainlyKeeps
    <3>3. CASE ScreenKey
      BY <2>1, <3>1, <3>3, ScreenKeyKeeps
    <3>4. CASE Pause
      BY <2>1, <3>1, <3>4, PauseKeeps
    <3> QED BY <3>1, <3>2, <3>3, <3>4
  <2>2. CASE \E s \in Strokes : Type(s)
    BY <1>2, <2>2, TypeStarts
  <2>3. ASSUME UNCHANGED isrVars
        PROVE  DecoderInv'
    <3>1. stroke' = stroke /\ rest' = rest /\ decoder' = decoder /\ emitted' = emitted
      BY <2>3 DEF isrVars
    <3>2. Plainly => Plainly'
      BY ONLY <3>1 DEF Plainly, Between, Dec, Idle
    <3>3. ScreenKey => ScreenKey'
      BY ONLY <3>1 DEF ScreenKey, Between, Dec, Idle
    <3>4. Pause => Pause'
      BY ONLY <3>1 DEF Pause, Between, Dec, Idle
    <3> QED BY ONLY <1>2, <3>1, <3>2, <3>3, <3>4 DEF DecoderInv, Idle
  <2>4. CASE Tick
    BY <2>3, <2>4 DEF Tick
  <2>5. CASE Reopen
    BY <2>3, <2>5 DEF Reopen
  <2>6. CASE \E n \in 1 .. MaxEntries : ReadCall(n)
    BY <2>3, <2>6 DEF ReadCall
  <2>7. CASE ReadStep
    BY <2>3, <2>7 DEF ReadStep, SearchPasses, SearchHits, SearchEnds, Resume, Note, Copy
  <2>8. CASE UNCHANGED vars
    BY <2>3, <2>8 DEF vars
  <2> QED BY <1>2, <2>1, <2>2, <2>4, <2>5, <2>6, <2>7, <2>8 DEF Next
<1> QED BY <1>1, <1>2, DecoderInvImplies, PTL DEF Spec

-----------------------------------------------------------------------------
\* The ring of events and the uptime its slots were written at.
RingInv ==
    /\ now \in Nat
    /\ ring \in [0 .. CachedEvents - 1 -> 0 .. now]
    /\ next \in 0 .. CachedEvents

InfoType == [idx : 0 .. CachedEvents - 1, time : Nat]

\* What a read has seen: the LastReadInfo it works on is at most as old as the
\* event copied last, until that event's slot is looked at again.
ReaderInv ==
    /\ info \in InfoType
    /\ mine \in InfoType
    /\ shared \in BOOLEAN
    /\ shared => info = mine
    /\ pos \in Nat
    /\ last \in Nat
    /\ phase \in {"user", "search", "hit", "yield", "copy"}
    /\ last <= mine.time \/ (pos = 0 /\ last <= ring[mine.idx])
    /\ phase = "user" => pos = 0
    /\ phase = "yield" => pos > 0
    /\ phase = "hit" => ring[Looked] > mine.time
    /\ phase = "copy" => pos = 0 /\ last <= mine.time /\ mine.time <= ring[mine.idx]

\* ps2kbd_cache_event writes the present time to slots of the ring.
LEMMA CacheKeepsRing ==
    ASSUME RingInv, NEW events, Len(events) \in 0 .. 2, Cache(events), now' = now
    PROVE  /\ RingInv'
           /\ \A i \in 0 .. CachedEvents - 1 : ring[i] <= ring'[i]
<1> USE Ps2kbdAssumption
<1> DEFINE first == Slot(next)
           second == Slot(first + 1)
           written == CASE Len(events) = 0 -> {}
                        [] Len(events) = 1 -> {first}
                        [] Len(events) = 2 -> {first, second}
<1>1. first \in 0 .. CachedEvents - 1
  BY DEF RingInv, Slot
<1>2. second \in 0 .. CachedEvents - 1
  BY <1>1 DEF Slot
<1>3. /\ next' \in 0 .. CachedEvents
      /\ written \subseteq 0 .. CachedEvents - 1
  <2>1. CASE Len(events) = 0
    BY <2>1 DEF Cache, RingInv
  <2>2. CASE Len(events) = 1
    BY <1>1, <2>2 DEF Cache, RingInv
  <2>3. CASE Len(events) = 2
    BY <1>1, <1>2, <2>3 DEF Cache, RingInv
  <2> QED BY <2>1, <2>2, <2>3
<1>4. ring' = [i \in DOMAIN ring \cup written |-> IF i \in written THEN now ELSE ring[i]]
  BY DEF Cache
<1> HIDE DEF written
<1>5. DOMAIN ring \cup written = 0 .. CachedEvents - 1
  BY <1>3 DEF RingInv
<1>6. /\ ring' \in [0 .. CachedEvents - 1 -> 0 .. now]
      /\ \A i \in 0 .. CachedEvents - 1 : ring[i] <= ring'[i]
  <2>1. ring' = [i \in 0 .. CachedEvents - 1 |-> IF i \in written THEN now ELSE ring[i]]
    BY <1>4, <1>5
  <2>2. now \in Nat /\ \A i \in 0 .. CachedEvents - 1 : ring[i] \in 0 .. now
    BY DEF RingInv
  <2> QED BY <2>1, <2>2
<1> QED BY <1>3, <1>6 DEF RingInv

\* kbd_isr caches at most two events, and nothing else of the ring changes.
LEMMA IsrKeepsRing ==
    ASSUME RingInv, KbdIsr
    PROVE  /\ RingInv'
           /\ \A i \in 0 .. CachedEvents - 1 : ring[i] <= ring'[i]
<1>1. \E events : Len(events) \in 0 .. 2 /\ Cache(events)
  <2>1. Len(<<>>) = 0 /\ Len(Meaning.pause) = 2 /\ Len(Meaning.print) = 1 /\ Len(Meaning.printUp) = 1
        /\ \A e : Len(<<e>>) = 1
    BY DEF Meaning
  <2>2. ASSUME NEW b, Sequence(b)
        PROVE  Cache(Meaning.pause) \/ Cache(<<>>) \/ Cache(Meaning.printUp) \/ Cache(Meaning.print)
    BY <2>2 DEF Sequence
  <2>3. ASSUME NEW b, Single(b)
        PROVE  Cache(<<>>) \/ \E e : Cache(<<e>>)
    BY <2>3 DEF Single, Begin, Plain
  <2>4. Sequence(Head(rest)) \/ Single(Head(rest))
    BY DEF KbdIsr
  <2>5. /\ Cache(<<>>) => \E events : Len(events) \in 0 .. 2 /\ Cache(events)
        /\ Cache(Meaning.pause) => \E events : Len(events) \in 0 .. 2 /\ Cache(events)
        /\ Cache(Meaning.print) => \E events : Len(events) \in 0 .. 2 /\ Cache(events)
        /\ Cache(Meaning.printUp) => \E events : Len(events) \in 0 .. 2 /\ Cache(events)
        /\ \A e : Cache(<<e>>) => \E events : Len(events) \in 0 .. 2 /\ Cache(events)
    <3>1. 0 \in 0 .. 2 /\ 1 \in 0 .. 2 /\ 2 \in 0 .. 2
      OBVIOUS
    <3> QED BY <2>1, <3>1, Zenon
  <2> QED BY <2>2, <2>3, <2>4, <2>5, Zenon
<1>2. now' = now
  BY DEF KbdIsr
<1> QED BY <1>1, <1>2, CacheKeepsRing

\* The slot the search looks at is one of the ring, and the first is the one
\* of the LastReadInfo.
LEMMA LookedInRing ==
    ASSUME ReaderInv
    PROVE  /\ Looked \in 0 .. CachedEvents - 1
           /\ pos = 0 => Looked = mine.idx
<1>1. PICK i, n : i = mine.idx /\ n = CachedEvents
  OBVIOUS
<1>2. i \in 0 .. n - 1 /\ n \in Nat \ {0} /\ pos \in Nat
  BY <1>1, Ps2kbdAssumption DEF ReaderInv, InfoType
<1>3. (i + pos) % n \in 0 .. n - 1
  BY <1>2
<1>4. pos = 0 => (i + pos) % n = i
  BY <1>2
<1> QED BY <1>1, <1>3, <1>4 DEF Looked

LEMMA ReaderInvInit == Init => RingInv /\ ReaderInv
BY Ps2kbdAssumption DEF Init, RingInv, ReaderInv, InfoType

\* The interrupt handler and the clock, between any two steps of the read.
LEMMA OthersKeepReader ==
    ASSUME ReaderInv, RingInv, RingInv', UNCHANGED readVars,
           \A i \in 0 .. CachedEvents - 1 : ring[i] <= ring'[i]
    PROVE  ReaderInv'
<1>1. /\ info' = info /\ mine' = mine /\ shared' = shared /\ pos' = pos /\ last' = last
      /\ phase' = phase
  BY DEF readVars
<1>2. Looked' = Looked
  BY <1>1 DEF Looked
<1>3. PICK t, i : t = mine.time /\ i = mine.idx
  OBVIOUS
<1>4. t \in Nat /\ i \in 0 .. CachedEvents - 1
  BY <1>3 DEF ReaderInv, InfoType
<1>5. /\ ring[i] \in Nat /\ ring'[i] \in Nat /\ ring[i] <= ring'[i]
      /\ ring[Looked] \in Nat /\ ring'[Looked] \in Nat /\ ring[Looked] <= ring'[Looked]
  BY <1>4, LookedInRing DEF RingInv
<1>6. last \in Nat
  BY DEF ReaderInv
<1>7. last <= t \/ (pos = 0 /\ last <= ring'[i])
  <2>1. last <= t \/ (pos = 0 /\ last <= ring[i])
    BY <1>3 DEF ReaderInv
  <2> QED BY ONLY <1>4, <1>5, <1>6, <2>1
<1>8. phase = "hit" => ring'[Looked] > t
  <2>1. phase = "hit" => ring[Looked] > t
    BY <1>3 DEF ReaderInv
  <2> QED BY ONLY <1>4, <1>5, <2>1
<1>9. phase = "copy" => pos = 0 /\ last <= t /\ t <= ring'[i]
  <2>1. phase = "copy" => pos = 0 /\ last <= t /\ t <= ring[i]
    BY <1>3 DEF ReaderInv
  <2> QED BY ONLY <1>4, <1>5, <1>6, <2>1
<1> QED BY <1>1, <1>2, <1>3, <1>7, <1>8, <1>9 DEF ReaderInv

\* ps2kbd_vnode_open and the steps of ps2kbd_vnode_read.
LEMMA ReaderKeepsReader ==
    ASSUME ReaderInv, RingInv,
           Reopen \/ (\E n \in 1 .. MaxEntries : ReadCall(n)) \/ ReadStep
    PROVE  ReaderInv' /\ RingInv'
<1> USE Ps2kbdAssumption
<1>1. ring' = ring /\ now' = now /\ next' = next
  BY DEF Reopen, ReadCall, ReadStep, SearchPasses, SearchHits, SearchEnds, Resume, Note, Copy, isrVars
<1>2. RingInv'
  BY <1>1 DEF RingInv
<1>3. PICK t, i : t = mine.time /\ i = mine.idx
  OBVIOUS
<1>4. /\ t \in Nat /\ i \in 0 .. CachedEvents - 1
      /\ last \in Nat /\ pos \in Nat
      /\ Looked \in 0 .. CachedEvents - 1
      /\ pos = 0 => Looked = i
      /\ last <= t \/ (pos = 0 /\ last <= ring[i])
  BY <1>3, LookedInRing DEF ReaderInv, InfoType
<1>5. ring[i] \in Nat /\ ring[Looked] \in Nat
  BY <1>4 DEF RingInv
<1>6. CASE Reopen
  <2>1. info' \in InfoType
    BY <1>6 DEF Reopen, InfoType, RingInv
  <2>2. Looked' = Looked
    BY <1>6 DEF Reopen, Looked
  <2> QED BY <1>1, <1>2, <1>6, <2>1, <2>2 DEF Reopen, ReaderInv
<1>7. CASE \E n \in 1 .. MaxEntries : ReadCall(n)
  <2>1. /\ phase = "user" /\ phase' = "search" /\ mine' = info /\ info' = info /\ shared' = TRUE
        /\ pos' = 0 /\ last' = IF shared THEN last ELSE 0
    BY <1>7 DEF ReadCall
  <2>2. pos = 0 /\ info \in InfoType /\ (shared => info = mine)
    BY <2>1 DEF ReaderInv
  <2>3. last' \in Nat
    BY <1>4, <2>1
  <2>4. last' <= mine'.time \/ last' <= ring'[mine'.idx]
    <3>1. CASE shared
      BY <1>1, <1>3, <1>4, <2>1, <2>2, <3>1
    <3>2. CASE ~shared
      <4>1. last' = 0 /\ mine'.time \in Nat
        BY <2>1, <2>2, <3>2 DEF InfoType
      <4> QED BY <4>1
    <3> QED BY <3>1, <3>2
  <2> QED BY <1>2, <2>1, <2>2, <2>3, <2>4 DEF ReaderInv
<1>8. CASE SearchPasses
  <2>1. /\ phase = "search" /\ phase' = phase /\ mine' = mine /\ info' = info /\ shared' = shared
        /\ pos' = pos + 1 /\ last' = last /\ ~(ring[Looked] > t)
    BY <1>3, <1>8 DEF SearchPasses, IsNewer
  <2>2. last <= t
    BY ONLY <1>4, <1>5, <2>1
  <2> QED BY <1>2, <1>3, <1>4, <2>1, <2>2 DEF ReaderInv
<1>9. CASE SearchHits
  <2>1. /\ phase' = "hit" /\ mine' = mine /\ info' = info /\ shared' = shared
        /\ pos' = pos /\ last' = last /\ ring[Looked] > t
    BY <1>3, <1>9 DEF SearchHits, IsNewer
  <2>2. Looked' = Looked
    BY <2>1 DEF Looked
  <2> QED BY <1>1, <1>2, <1>3, <1>4, <2>1, <2>2 DEF ReaderInv
<1>10. CASE SearchEnds
  <2>1. /\ phase' = "yield" /\ mine' = mine /\ info' = info /\ shared' = shared
        /\ pos' = pos /\ last' = last /\ pos >= CachedEvents
    BY <1>10 DEF SearchEnds, SearchLength
  <2>2. pos > 0
    BY ONLY <1>4, <2>1, Ps2kbdAssumption
  <2> QED BY <1>1, <1>2, <1>3, <1>4, <2>1, <2>2 DEF ReaderInv
<1>11. CASE Resume
  <2>1. /\ phase = "yield" /\ phase' = "search" /\ mine' = mine /\ info' = info /\ shared' = shared
        /\ pos' = 0 /\ last' = last
    BY <1>11 DEF Resume
  <2>2. pos > 0
    BY <2>1 DEF ReaderInv
  <2>3. last <= t
    BY ONLY <1>4, <2>2
  <2> QED BY <1>1, <1>2, <1>3, <1>4, <2>1, <2>3 DEF ReaderInv
<1>12. CASE Note
  <2>1. /\ phase = "hit" /\ phase' = "copy" /\ shared' = shared /\ pos' = 0 /\ last' = last
        /\ mine' = [idx |-> Looked, time |-> ring[Looked]]
        /\ info' = IF shared THEN [idx |-> Looked, time |-> ring[Looked]] ELSE info
    BY <1>12 DEF Note
  <2>2. mine' \in InfoType /\ info' \in InfoType /\ (shared' => info' = mine')
    BY <1>4, <1>5, <2>1 DEF InfoType, ReaderInv
  <2>3. ring[Looked] > t
    BY <1>3, <2>1 DEF ReaderInv
  <2>4. last <= ring[Looked]
    BY ONLY <1>4, <1>5, <2>3
  <2>5. mine'.time = ring[Looked] /\ ring'[mine'.idx] = ring[Looked]
    BY <1>1, <2>1
  <2> QED BY <1>2, <1>4, <1>5, <2>1, <2>2, <2>4, <2>5 DEF ReaderInv
<1>13. CASE Copy
  <2>1. /\ phase = "copy" /\ phase' \in {"user", "search"} /\ shared' = shared /\ pos' = pos
        /\ mine' = mine /\ info' = info /\ last' = ring[i]
    BY <1>3, <1>13 DEF Copy
  <2>2. pos = 0
    BY <2>1 DEF ReaderInv
  <2> QED BY <1>1, <1>2, <1>3, <1>4, <1>5, <2>1, <2>2 DEF ReaderInv
<1> QED BY <1>6, <1>7, <1>8, <1>9, <1>10, <1>11, <1>12, <1>13 DEF ReadStep

\* Until the device is opened again a read gets events in the order of their
\* time, for every size of the ring, although kbd_isr writes to it between the
\* search, the note of the event's time and the copy of the event.
THEOREM EventsReadInOrder == Spec => ReadInOrder
<1>1. Init => RingInv /\ ReaderInv
  BY ReaderInvInit
<1>2. ASSUME RingInv, ReaderInv, [Next]_vars
      PROVE  RingInv' /\ ReaderInv' /\ (phase = "copy" => last' >= last)
  <2>1. ASSUME last' = last
        PROVE  last' >= last
    BY <1>2, <2>1 DEF ReaderInv
  <2>2. CASE KbdIsr
    <3>1. UNCHANGED readVars
      BY <2>2 DEF KbdIsr
    <3> QED BY <1>2, <2>1, <2>2, <3>1, IsrKeepsRing, OthersKeepReader DEF readVars
  <2>3. CASE (\E s \in Strokes : Type(s)) \/ Tick \/ UNCHANGED vars
    <3>1. UNCHANGED readVars /\ ring' = ring /\ next' = next /\ (now' = now \/ now' = now + 1)
      BY <2>3 DEF Type, Tick, vars, isrVars
    <3>2. RingInv' /\ \A i \in 0 .. CachedEvents - 1 : ring[i] <= ring'[i]
      BY <1>2, <3>1 DEF RingInv
    <3> QED BY <1>2, <2>1, <3>1, <3>2, OthersKeepReader DEF readVars
  <2>4. CASE Reopen \/ (\E n \in 1 .. MaxEntries : ReadCall(n)) \/ ReadStep
    <3>1. RingInv' /\ ReaderInv'
      BY <1>2, <2>4, ReaderKeepsReader
    <3>2. ASSUME phase = "copy"
          PROVE  last' >= last
      <4>1. last' = ring[mine.idx]
        BY <2>4, <3>2 DEF Reopen, ReadCall, ReadStep, SearchPasses, SearchHits, SearchEnds, Resume,
                          Note, Copy
      <4>2. PICK t, i : t = mine.time /\ i = mine.idx
        OBVIOUS
      <4>3. /\ last \in Nat /\ t \in Nat /\ ring[i] \in Nat
            /\ last <= t /\ t <= ring[i]
        BY <1>2, <3>2, <4>2 DEF ReaderInv, InfoType, RingInv
      <4> QED BY <4>1, <4>2, <4>3
    <3> QED BY <3>1, <3>2
  <2> QED BY <1>2, <2>2, <2>3, <2>4 DEF Next
<1>3. RingInv /\ ReaderInv /\ [Next]_vars => [phase = "copy" => last' >= last]_vars
  BY <1>2
<1> QED BY <1>1, <1>2, <1>3, PTL DEF Spec, ReadInOrder
=============================================================================

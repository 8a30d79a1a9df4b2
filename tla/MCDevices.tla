------------------------------ MODULE MCDevices ------------------------------
(***************************************************************************)
(* Terminals of four by two and three by three characters, a log of two    *)
(* messages that wrap, scroll, are cut or overrun their buffer; seconds of *)
(* four nanoseconds, a half word of two, five ticks; three serial drivers  *)
(* and four devices at four addresses; a PS/2 port with keyboards, other   *)
(* devices or nothing; five modules and symbol tables of up to four.       *)
(***************************************************************************)
EXTENDS Devices

MCColumns == [s \in Terminals |-> IF s = "vga" THEN 4 ELSE 3]
MCRows    == [s \in Terminals |-> IF s = "vga" THEN 2 ELSE 3]
MCTimestamp == <<"t", " ">>
Msg(before, item, after) == [before |-> before, item |-> item, after |-> after]
MCMessages ==
    {Msg(<<"a">>, <<Newline>>, <<"b">>), Msg(<<Tab, "c">>, <<>>, <<>>),
     Msg(<<"a", "b", "c", "a", "b">>, <<"c", "a">>, <<"b", "c", "a", "b", "c">>),
     Msg(<<"a", "b", "c", "a", "b">>, <<"c", "a", "b", "c", "a", "b", "c">>, <<"a">>)}

MCRounding == {-1, 0}

Drv(name, maj) == [name |-> name, maj |-> maj]
Dev(name, maj, min) == [name |-> name, maj |-> maj, min |-> min]
MCDriverSpecs == {Drv("kbd", NoMaj), Drv("mouse", 1), Drv(NoName, 1)}
MCDeviceSpecs == {Dev("kbd", NoMaj, 1), Dev("kbd", NoMaj, 2), Dev("mouse", 1, 1), Dev(NoName, 1, 1)}

MCIds == {<<>>, <<"00">>, <<"03">>, <<"AB", "83">>, <<"AB", "C1">>, <<"AB", "84">>}

Mod(name, stage_, needs) == [name |-> name, stage |-> stage_, needs |-> needs]
MCModules ==
    <<Mod("fb", 3, <<>>), Mod("vgasink", 1, <<>>), Mod("fbsink", 2, <<"fb">>),
      Mod("other", 3, <<"fb", "absent">>), Mod("third", 3, <<"fbsink">>)>>
MCTables == {t \in UNION {[1 .. n -> 1 .. 5] : n \in 1 .. 4} :
                \A i \in 1 .. Len(t) - 1 : t[i] <= t[i + 1]}
=============================================================================

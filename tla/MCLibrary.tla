----------------------------- MODULE MCLibrary ------------------------------
(***************************************************************************)
(* The library on small inputs: strings of up to three characters, numbers *)
(* below 64, lists of four nodes, a table of two slots in which keys       *)
(* collide, a bitmap of three bytes of three bits, memory maps of up to    *)
(* six entries, some of which overlap.                                     *)
(***************************************************************************)
EXTENDS Library

MCStrings == SeqOf({0, 1, Minus}, 3)

Lit == [kind |-> "lit", c |-> 40]
Num(spec, zero, width, length, arg) ==
    [kind |-> "num", spec |-> spec, zero |-> zero, width |-> width, length |-> length, arg |-> arg]
Str(prec, arg) == [kind |-> "str", prec |-> prec, arg |-> arg]

MCItems ==
    {Lit, [kind |-> "chr", arg |-> 41], Num(SpecP, FALSE, -1, <<>>, 31)}
    \cup {Num(SpecD, z, w, <<>>, a) : z \in BOOLEAN, w \in {-1, 1, 3}, a \in {-12, 0, 7}}
    \cup {Num(SpecX, TRUE, 2, l, 26) : l \in {<<LowerL>>, <<LowerL, LowerL>>, <<LowerH, LowerH>>}}
    \cup {Num(SpecU, TRUE, w, <<LowerL>>, 10) : w \in {-1, 4}}
    \cup {[kind |-> "star", spec |-> SpecX, width |-> 3, arg |-> 17]}
    \cup {Str(p, s) : p \in {-1, 0, 1, 3}, s \in {<<>>, <<42>>, <<42, 43, 44>>}}

MCFormats ==
    {<<a, b>> : a \in MCItems, b \in MCItems}
    \cup {<<Lit, Num(SpecD, FALSE, 3, <<>>, -5), Lit>>,
          <<[kind |-> "starprec", prec |-> 1, arg |-> <<42, 43>>], Lit>>}

MCHash == [k \in Key |-> IF k = "k4" THEN 1 ELSE 0]

Entry(start, size, available) == [start |-> start, size |-> size, available |-> available]
MCFirmwareMaps ==
    {<<>>,
     <<Entry(0, 3, TRUE), Entry(3, 1, FALSE), Entry(4, 16, TRUE)>>,
     <<Entry(8, 9, TRUE), Entry(0, 1, TRUE), Entry(20, 2, TRUE)>>,
     <<Entry(0, 12, TRUE), Entry(16, 5, TRUE)>>,
     <<Entry(1, 1, TRUE), Entry(2, 2, TRUE), Entry(4, 9, TRUE)>>,
     <<Entry(4, 8, TRUE), Entry(6, 3, TRUE)>>,
     <<Entry(4, 2, TRUE), Entry(8, 3, TRUE), Entry(12, 7, TRUE), Entry(20, 4, TRUE)>>,
     <<Entry(4, 2, TRUE), Entry(8, 3, TRUE), Entry(12, 2, TRUE), Entry(14, 2, TRUE),
       Entry(20, 4, TRUE), Entry(26, 2, TRUE)>>,
     <<Entry(0, 4, TRUE), Entry(5, 1, TRUE), Entry(7, 2, TRUE), Entry(10, 6, TRUE), Entry(12, 2, TRUE)>>}
    \cup {<<Entry(a, b - a, TRUE), Entry(c, d - c, TRUE)>> :
            a \in 0 .. 2, b \in 3 .. 5, c \in 5 .. 8, d \in 9 .. 13}
    \cup {<<Entry(0, b, TRUE), Entry(c, d - c, TRUE), Entry(e, 3, TRUE)>> :
            b \in 6 .. 8, c \in 1 .. 4, d \in 5 .. 9, e \in 5 .. 7}
=============================================================================

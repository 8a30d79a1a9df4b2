-------------------------------- MODULE MCFat --------------------------------
(* Small volumes: two entries, or two bytes, to a cluster, and the sizes of  *)
(* FAT16 and FAT32 scaled down.  The trees have names and directories that   *)
(* go over from one cluster to the next, deleted entries, a directory inside *)
(* a directory, directories without an end mark, in a loop, and with chains  *)
(* that lead back.                                                           *)
EXTENDS Fat, TLC

Boot(spf16, spf32, count16, count32, fats) ==
    [sectorsize |-> 2, spf16 |-> spf16, spf32 |-> spf32, count16 |-> count16,
     count32 |-> count32, rootEntries |-> 0, spc |-> 1, reserved |-> 2,
     fats |-> fats, rootCluster |-> 2]

File(name, c, size) ==
    [kind |-> "file", name |-> name, cluster |-> c, size |-> size]
Dir(name, c)     == [kind |-> "dir", name |-> name, cluster |-> c, size |-> 0]
Lfn(order, piece) ==
    [kind |-> "lfn", order |-> order, piece |-> piece]
Mark(kind)       == [kind |-> kind, name |-> kind, cluster |-> 0, size |-> 0]
End     == Mark("end")
Deleted == Mark("deleted")

\* A directory of one or two clusters, 2 and 3, beside a file of three
\* clusters, 4 to 6, and a directory, 7 and 8.
Table(second, sub) ==
    (2 :> IF second THEN 3 ELSE Eof) @@ (3 :> Eof) @@ (4 :> 5) @@ (5 :> 6)
        @@ (6 :> Eof) @@ (7 :> IF sub THEN 8 ELSE Eof) @@ (8 :> Eof)

SubDirs ==
    {(7 :> <<Mark("dot"), Mark("dot")>>) @@ (8 :> <<File("g", 6, 1), End>>),
     (7 :> <<Mark("dot"), Lfn(1, "q")>>) @@ (8 :> <<File("g", 6, 2), Deleted>>),
     (7 :> <<Lfn(3, "z"), Lfn(2, "y")>>) @@ (8 :> <<Lfn(1, "x"), File("h", 6, 1)>>)}

RootDirs ==
    {(2 :> <<File("f", 4, 6), Dir("d", 7)>>) @@ (3 :> <<End, End>>),
     (2 :> <<Lfn(2, "b"), Lfn(1, "a")>>) @@ (3 :> <<File("f", 4, 5), Dir("d", 7)>>),
     (2 :> <<Deleted, Lfn(1, "a")>>) @@ (3 :> <<Dir("d", 7), End>>),
     (2 :> <<Mark("label"), Lfn(1, "a")>>) @@ (3 :> <<Lfn(1, "b"), End>>),
     (2 :> <<Lfn(1, "a"), Dir("d", 7)>>) @@ (3 :> <<File("f", 4, 4), End>>)}

Boots ==
    {Boot(0, 2, 0, 13, 2), Boot(0, 2, 0, 14, 2), Boot(0, 1, 0, 12, 1), Boot(0, 3, 0, 9, 2),
     Boot(0, 0, 0, 13, 2)}

\* Directories that lie in each other, and chains of directories that lead back.
Loops ==
    {(7 :> <<Mark("dot"), Dir("d", 7)>>) @@ (8 :> <<File("g", 6, 1), End>>),
     (7 :> <<Mark("dot"), Lfn(1, "q")>>) @@ (8 :> <<Dir("r", 2), End>>)}
BackTo(c, d) == [Table(TRUE, TRUE) EXCEPT ![c] = d]

Damaged ==
    {[boot |-> Boot(0, 2, 0, 14, 2), fat |-> Table(TRUE, TRUE), dir |-> r @@ s] :
        r \in RootDirs, s \in Loops}
    \cup
    {[boot |-> Boot(0, 2, 0, 14, 2), fat |-> t, dir |-> r @@ s] :
        t \in {BackTo(3, 2), BackTo(8, 8), BackTo(8, 7)}, r \in RootDirs, s \in SubDirs}

\* A FAT16 volume: its tables have one sector each.
Fat16Boot == Boot(1, 0, 9, 0, 2)

MCImages ==
    {[boot |-> b, fat |-> Table(second, TRUE), dir |-> r @@ s] :
        b \in Boots, second \in BOOLEAN, r \in RootDirs, s \in SubDirs}
    \cup Damaged

MCImages16 ==
    {[boot |-> Fat16Boot, fat |-> Table(TRUE, TRUE), dir |-> r @@ s] :
        r \in RootDirs, s \in SubDirs}
=============================================================================

-------------------------------- MODULE Path ---------------------------------
(***************************************************************************)
(* Paths (kernel/fs/path.c and the path building of kernel/fs/fs.c).  A    *)
(* path is a sequence of characters; a vnode has its path relative to the  *)
(* filesystem it is on.                                                    *)
(***************************************************************************)
EXTENDS Integers, Sequences, SequencesExt

\* The first pass of path_make_canonical: one '/' of several in a row.
Repeated(p, i) == p[i] = "/" /\ i > 1 /\ p[i - 1] = "/"
SingleSlashes(p) ==
    LET out[i \in 0 .. Len(p)] ==
            IF i = 0 THEN <<>>
            ELSE IF Repeated(p, i) THEN out[i - 1] ELSE Append(out[i - 1], p[i])
    IN  out[Len(p)]

\* The second pass: "./" is removed, and a '.' at the end.  The character that
\* takes the place of a removed "./" is not looked at.
DotStep(p, acc, i) ==
    CASE acc.next = "drop" -> [acc EXCEPT !.next = "skip"]
      [] acc.next = "look" /\ p[i] = "." /\ i < Len(p) /\ p[i + 1] = "/"
            -> [acc EXCEPT !.next = "drop"]
      [] acc.next = "look" /\ p[i] = "." /\ i = Len(p) -> acc
      [] OTHER -> [out |-> Append(acc.out, p[i]), next |-> "look"]
WithoutDots(p) ==
    LET acc[i \in 0 .. Len(p)] ==
            IF i = 0 THEN [out |-> <<>>, next |-> "look"] ELSE DotStep(p, acc[i - 1], i)
    IN  acc[Len(p)].out

\* path_make_canonical.
Canonical(p) ==
    LET q == WithoutDots(SingleSlashes(p))
    IN  IF Len(q) > 1 /\ Last(q) = "/" THEN Front(q) ELSE q

\* Whether path_make_relative accepts a path for a mount point.
CanBeRelative(p, mnt) == mnt = <<"/">> \/ IsPrefix(mnt, p)

\* path_make_relative of a path it accepts.
Relative(p, mnt) ==
    IF mnt = <<"/">> THEN p ELSE SubSeq(p, Len(mnt) + 1, Len(p))

LastSlash(p) == SelectLastInSeq(p, LAMBDA c : c = "/")

\* path_make_filename.
Filename(p) == SubSeq(p, LastSlash(p) + 1, Len(p))

\* The directory whose vnode fs_get_dir_vnode_for_file looks for.
DirOf(p) ==
    IF LastSlash(p) = 1 THEN <<"/">> ELSE SubSeq(p, 1, LastSlash(p) - 1)

\* The path fs_lookup_vnode_cached_relative builds for the vnode called name
\* whose parent has the path dir: the root directory has a name that ends in
\* '/' already.
Join(dir, name) ==
    IF dir = <<"/">> THEN dir \o name ELSE dir \o <<"/">> \o name

-----------------------------------------------------------------------------
\* What a path means: the names between its slashes, without "" and ".".
Components(p) ==
    LET Start(i) == p[i] # "/" /\ (i = 1 \/ p[i - 1] = "/")
        End(i)   == CHOOSE j \in i .. Len(p) :
                        /\ \A k \in i .. j : p[k] # "/"
                        /\ j = Len(p) \/ p[j + 1] = "/"
        starts   == SelectSeq([i \in 1 .. Len(p) |-> i], LAMBDA i : Start(i))
        names    == [n \in 1 .. Len(starts) |->
                        SubSeq(p, starts[n], End(starts[n]))]
    IN  SelectSeq(names, LAMBDA c : c # <<".">>)

\* The path made of the names in cs.
PathOf(cs) ==
    IF cs = <<>> THEN <<"/">>
    ELSE FoldLeft(LAMBDA acc, c : acc \o <<"/">> \o c, <<>>, cs)

\* The paths path_make_canonical is right about: no name ends in '.', and no
\* "." directly follows another.
Canonicalisable(p) ==
    LET s == SingleSlashes(p) IN
    \A i \in 2 .. Len(s) :
        s[i] = "." /\ (i = Len(s) \/ s[i + 1] = "/")
            => s[i - 1] = "/" /\ (i > 3 => s[i - 2] # "." \/ s[i - 3] # "/")
=============================================================================

------------------------------- MODULE MCFiles -------------------------------
(* Short names: "/d" stands for /dev.  The paths are all short ones over a   *)
(* few characters, and some that go below a mount below another.             *)
EXTENDS Files

MCChars == {"/", ".", "d", "a"}
MCDevMount == <<"/", "d">>
MCMountPoints == {<<"/">>, MCDevMount, <<"/", "d", "/", "a">>}
MCVolumes == {<<"hdap0">>}
MCSources == {<<"hdap0">>, <<"none">>}
MCVolumeFiles == {<<"/", "d", "/", "a">>, <<"/", "a">>}
MCDevNames == {<<"a">>, <<"d", "a">>}

MCPaths ==
    {<<"/">> \o t : t \in UNION {[1 .. n -> MCChars] : n \in 0 .. 3}}
    \cup {<<"/", "d", "/", "a", "/", "a">>, <<"/", "d", "/", ".", "/", "a">>,
          <<"/", "d", "/", "/", "a", "/">>, <<"/", "a", "/", ".", "/", "a">>}

MCNewPaths ==
    {<<"/", "d", "/", "d">>, <<"/", "d", "/", "a">>, <<"/", "a", "/", "a">>,
     <<"/", "d", "a">>, <<"/", "d", "/", ".", "/", "a", "/", "a">>}
=============================================================================

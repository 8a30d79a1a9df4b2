------------------------------- MODULE MCVfs --------------------------------
(* Model values are interchangeable where Vfs only compares them. *)
EXTENDS Vfs, TLC

PathsAndPids == Permutations(Files) \cup Permutations(Pids)

=============================================================================

----------------------------- MODULE MCKmalloc ------------------------------
(***************************************************************************)
(* Instances of Kmalloc for TLC.                                           *)
(***************************************************************************)
EXTENDS Kmalloc
=============================================================================

------------------------------ MODULE MCProcm -------------------------------
(***************************************************************************)
(* Instances of Procm for TLC: the process array grows from 1 to 3 to 5    *)
(* slots, of which four may be used.                                       *)
(***************************************************************************)
EXTENDS Procm
=============================================================================

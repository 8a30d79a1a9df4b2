------------------------------- MODULE Library -------------------------------
(***************************************************************************)
(* The kernel's library: strings and conversions (Stdlib), vsnprintf       *)
(* (Stdio), linked lists, hash tables, the bitmap and mappings of device   *)
(* memory (Dma), and the map of available memory (Mregmap).  They share no *)
(* state: a behaviour uses one of them.                                    *)
(***************************************************************************)
EXTENDS Stdio, Linkedlist, Hashtable, Dma, Mregmap

VARIABLE part   \* the part this behaviour uses

Parts == {"stdlib", "stdio", "list", "hash", "dma", "memory"}

vars == <<part, call, pf, listVars, hashVars, dmaVars, mregVars>>

Init ==
    /\ part \in Parts
    /\ StdlibInit /\ StdioInit /\ ListInit /\ HashInit /\ DmaInit
    /\ MregInit
    /\ part # "memory" => reported = <<>> /\ kernelSize = Page

Next ==
    /\ UNCHANGED part
    /\ \/ /\ part = "stdlib" /\ StdlibNext
          /\ UNCHANGED <<pf, listVars, hashVars, dmaVars, mregVars>>
       \/ /\ part = "stdio" /\ StdioNext
          /\ UNCHANGED <<call, listVars, hashVars, dmaVars, mregVars>>
       \/ /\ part = "list" /\ ListNext
          /\ UNCHANGED <<call, pf, hashVars, dmaVars, mregVars>>
       \/ /\ part = "hash" /\ HashNext
          /\ UNCHANGED <<call, pf, listVars, dmaVars, mregVars>>
       \/ /\ part = "dma" /\ DmaNext
          /\ UNCHANGED <<call, pf, listVars, hashVars, mregVars>>
       \/ /\ part = "memory" /\ MregNext
          /\ UNCHANGED <<call, pf, listVars, hashVars, dmaVars>>

Spec == Init /\ [][Next]_vars
=============================================================================

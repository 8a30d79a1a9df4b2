----------------------------- MODULE Linkedlist -----------------------------
(***************************************************************************)
(* The linked list of kernel/utils/linkedlist.c: nodes with a pointer to   *)
(* the next one, a pointer to the first and one to the last.  Nodes come   *)
(* from kmalloc and go back to it, and kfree wipes them.                   *)
(***************************************************************************)
EXTENDS Integers, Sequences, FiniteSets, SequencesExt

CONSTANTS
    Node,       \* the places kmalloc can put a node
    Data,       \* what callers put into a list
    NoNode      \* the null pointer

ASSUME LinkedlistAssumption == NoNode \notin Node /\ IsFiniteSet(Node)

VARIABLES
    root, end,  \* the fields of the LinkedList
    next, data, \* the fields of the nodes
    live,       \* the nodes that are allocated
    listed      \* what the callers have put in and not taken out, in order

listVars == <<root, end, next, data, live, listed>>

ListInit ==
    /\ root = NoNode /\ end = NoNode
    /\ next = [n \in Node |-> NoNode]
    /\ data = [n \in Node |-> NoNode]
    /\ live = {}
    /\ listed = <<>>

\* linkedlist_add with the node kmalloc gave.
ListAdd(n, d) ==
    /\ n \in Node \ live
    /\ live' = live \cup {n}
    /\ data' = [data EXCEPT ![n] = d]
    /\ next' = IF end = NoNode THEN [next EXCEPT ![n] = NoNode]
               ELSE [next EXCEPT ![end] = n, ![n] = NoNode]
    /\ root' = IF end = NoNode THEN n ELSE root
    /\ end' = n
    /\ listed' = Append(listed, d)

\* linkedlist_add without memory: NULL is stored where the node should be.
ListAddFails ==
    /\ next' = IF end = NoNode THEN next ELSE [next EXCEPT ![end] = NoNode]
    /\ root' = IF end = NoNode THEN NoNode ELSE root
    /\ UNCHANGED <<end, data, live, listed>>

\* The nodes from the root on, NoNode behind the last.
Chain ==
    LET at[i \in 1 .. Cardinality(Node)] ==
            IF i = 1 THEN root ELSE IF at[i - 1] = NoNode THEN NoNode ELSE next[at[i - 1]]
    IN  at

\* FOR_EACH_ENTRY_IN_LL.
Walked ==
    LET at == Chain
    IN  [i \in 1 .. Cardinality({j \in DOMAIN at : at[j] # NoNode}) |-> at[i]]

\* Wrong variant: the end of the list is not moved back.
Unlink_KeepEnd(k) ==
    LET n == Walked[k]
        prev == IF k = 1 THEN NoNode ELSE Walked[k - 1]
    IN  /\ root' = IF prev = NoNode THEN next[n] ELSE root
        /\ end' = end
        /\ next' = IF prev = NoNode THEN [next EXCEPT ![n] = NoNode]
                   ELSE [next EXCEPT ![prev] = next[n], ![n] = NoNode]
        /\ data' = [data EXCEPT ![n] = NoNode]
        /\ live' = live \ {n}

\* The node at place k of the walk is unlinked and freed, which wipes it.
Unlink(k) ==
    LET n == Walked[k]
        prev == IF k = 1 THEN NoNode ELSE Walked[k - 1]
    IN  /\ root' = IF prev = NoNode THEN next[n] ELSE root
        /\ end' = IF end = n THEN prev ELSE end
        /\ next' = IF prev = NoNode THEN [next EXCEPT ![n] = NoNode]
                   ELSE [next EXCEPT ![prev] = next[n], ![n] = NoNode]
        /\ data' = [data EXCEPT ![n] = NoNode]
        /\ live' = live \ {n}

\* linkedlist_remove_by_data: the first node that holds d.
ListRemoveByData(d) ==
    LET k == SelectInSeq(Walked, LAMBDA n : data[n] = d)
    IN  /\ k # 0
        /\ Unlink(k)
        /\ listed' = RemoveFirst(listed, d)

\* linkedlist_remove_by_position.
ListRemoveByPosition(pos) ==
    /\ pos < Len(Walked)
    /\ Unlink(pos + 1)
    /\ listed' = RemoveAt(listed, pos + 1)

ListNext ==
    \/ \E n \in Node, d \in Data : ListAdd(n, d)
    \/ ListAddFails
    \/ \E d \in Data : ListRemoveByData(d)
    \/ \E pos \in 0 .. Cardinality(Node) - 1 : ListRemoveByPosition(pos)

ListSpec == ListInit /\ [][ListNext]_listVars

-----------------------------------------------------------------------------
\* Whatever is added and removed in whatever order, and however often memory
\* runs out, a walk over the list meets what the callers put in, in order,
\* and only allocated nodes, and the end pointer is the last of them.
ListIsSequence ==
    /\ [i \in DOMAIN Walked |-> data[Walked[i]]] = listed
    /\ Range(Walked) = live
    /\ end = IF Walked = <<>> THEN NoNode ELSE Last(Walked)
=============================================================================

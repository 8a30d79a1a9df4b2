-------------------------------- MODULE MCMm --------------------------------
(***************************************************************************)
(* Instances of Mm for TLC.                                                *)
(***************************************************************************)
EXTENDS Mm, TLC

\* Three words of user frames besides word 0, one bit to a half.
\* Memory maps: all of that; a map that ends in the low half of the last word;
\* a map with a hole.
MCAvailSets ==
    {(1 .. 3) \X (0 .. 1),
     {<<1, 0>>, <<1, 1>>, <<2, 1>>, <<3, 0>>},
     {<<1, 0>>, <<2, 0>>, <<3, 1>>}}

\* The kernel heap: a page mapped since boot, and pages that later faults map
\* in both halves of the words the user frames come from.
MCBootFrames  == {<<1, 0>>}
MCKheapFrames == {<<1, 0>>, <<1, 1>>, <<2, 1>>}

\* Three user pages, the first two in one page table.
MCVPages == 0 .. 2

\* The processes are interchangeable.
ProcSymmetry == Permutations(Procs)
=============================================================================

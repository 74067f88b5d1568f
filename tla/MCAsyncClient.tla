--------------------------- MODULE MCAsyncClient ---------------------------
(***************************************************************************)
(* Small instances of AsyncClient.  Every assignment of channels (none,    *)
(* own, shared) to the fields is a container the subclass may build.       *)
(***************************************************************************)
EXTENDS AsyncClient, TLC

AllLayouts == Allocs

\* A container with a field that has no channel between two channels, one with
\* a shared channel and one whose channels are all distinct.
FewLayouts == {l \in Allocs : l[1] # NoChannel /\ l[NumFields] # NoChannel}

\* Tasks and ids are interchangeable: no property names one.
Symmetry == Permutations(Tasks) \cup Permutations(Ids)
=============================================================================

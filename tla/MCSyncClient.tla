---------------------------- MODULE MCSyncClient ----------------------------
(***************************************************************************)
(* Small instances of SyncClient.  Every assignment of channels (none,     *)
(* own, shared) to the fields is a container the subclass may build.       *)
(***************************************************************************)
EXTENDS SyncClient, TLC

AllLayouts == Allocs

\* The first and the last field have a channel, own or shared.
FewLayouts == {l \in Allocs : l[1] # NoChannel /\ l[NumFields] # NoChannel}

\* Ids are interchangeable, and so are the threads signals do not reach.
Symmetry == Permutations(Threads \ {Main}) \cup Permutations(Ids)
=============================================================================

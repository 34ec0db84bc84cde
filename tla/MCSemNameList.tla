---------------------------- MODULE MCSemNameList ----------------------------
(* Three clients, one name and up to three semaphores in the list: one     *)
(* under the name and two unlinked ones.                                   *)
EXTENDS SemNameList, TLC

Symmetry == Permutations(Clients) \cup Permutations(Nodes)
=============================================================================

---------------------------- MODULE MCLifecycle ----------------------------
(***************************************************************************)
(* Small instances of Lifecycle for TLC.                                   *)
(***************************************************************************)
EXTENDS Lifecycle, TLC

\* Ids, clients and names are only ever compared for equality.
Symmetry == Permutations(Ids) \cup Permutations(Names)
SymmetryOfClients == Symmetry \cup Permutations(Clients)
=============================================================================

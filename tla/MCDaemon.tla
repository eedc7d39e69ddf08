------------------------------ MODULE MCDaemon -----------------------------
(***************************************************************************)
(* Small instances of Daemon for TLC.                                      *)
(***************************************************************************)
EXTENDS Daemon, TLC

Symmetry == Permutations(Daemons) \cup Permutations(Commands)
=============================================================================

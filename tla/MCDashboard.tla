----------------------------- MODULE MCDashboard ----------------------------
(***************************************************************************)
(* Small instances of Dashboard for TLC.                                   *)
(***************************************************************************)
EXTENDS Dashboard

CONSTANT h1
=============================================================================

------------------------------ MODULE MCTunnel ------------------------------
(* Tunnel with the relay and the proxy on the way; the sandbox sends more than *)
(* one wire holds.                                                             *)
EXTENDS Tunnel

Chunks == [out |-> 2, in |-> 1]
=============================================================================

-------------------------- MODULE MCSessionEventRelay --------------------------
(* An instance of SessionEventRelay for TLC.                               *)
EXTENDS SessionEventRelay, TLC
CONSTANTS c1, c2
Browsers == Permutations(Clients)
===============================================================================

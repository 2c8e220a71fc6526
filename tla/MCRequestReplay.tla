--------------------------- MODULE MCRequestReplay ---------------------------
(* An instance of RequestReplay for TLC: one request of a method that is     *)
(* replayed, one that is not, and one that the gateway denies.               *)
EXTENDS RequestReplay, TLC

CONSTANTS a, b, d, t1, t2
=============================================================================

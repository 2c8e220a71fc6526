--------------------------- MODULE MCTurnLifecycle ---------------------------
(* Instances of TurnLifecycle for TLC. *)
EXTENDS TurnLifecycle, TLC

CONSTANTS t1, t2, m1, m2

Interchangeable == Permutations(Tasks) \cup Permutations(Messages)
=============================================================================

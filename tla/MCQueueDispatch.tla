--------------------------- MODULE MCQueueDispatch ---------------------------
(* Instances of QueueDispatch for TLC.                                     *)
EXTENDS QueueDispatch

CONSTANTS i1, i2, i3, r1, w1, w2

MCItems    == {i1, i2}
MCRequests == {r1}
MCWorkers  == {w1, w2}
OneWorker  == {w1}

\* Every mutation and every fault.
EveryOp    == AllOps
EveryFault == AllFaults

\* Of both, no more than four.
Four == ops + faults <= 4

\* The two workers are interchangeable.
WorkerSymmetry == Permutations(MCWorkers)
=============================================================================

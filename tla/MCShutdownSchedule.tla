-------------------------- MODULE MCShutdownSchedule --------------------------
(* Instances of ShutdownSchedule for TLC. *)
EXTENDS ShutdownSchedule, TLC

CONSTANTS s1, s2, u1, u2

AllOps    == {"send", "enqueue", "remove", "resume", "arm", "disarm", "force"}
AllFaults == {"crash", "list", "check", "reject", "command", "drop", "read", "write"}
\* Of operations, plans and faults no more than four.
Four      == ops + plans + faults <= 4
Alike     == Permutations(Sessions) \cup Permutations(Users)
===============================================================================

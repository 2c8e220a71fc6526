---------------------------- MODULE MCAppServerPool ----------------------------
(* One client key whose profile changes once, two calls, and one or two    *)
(* processes at a time.                                                    *)
EXTENDS AppServerPool

CONSTANTS a1, a2, r1, r2, k

TwoCalls == {r1, r2}
TwoClients == {a1, a2}
OneKey == {k}
SameKey == [i \in TwoClients |-> k]
BothModes == {"stdio", "handoff"}
BothKinds == {"turn", "read"}
\* With one permit, everything; with two, an exit or an eviction.
OnePermit  == {"exit", "drop", "evict", "kill"}
TwoPermits == {"exit", "evict"}
AllFaults  == [n \in {1, 2} |-> IF n = 1 THEN OnePermit ELSE TwoPermits]
OneOrTwo == {1, 2}
Symmetry == Permutations(TwoCalls) \cup Permutations(TwoClients)
===============================================================================

---------------------------- MODULE MCUiStateStore ----------------------------
(* Instances of UiStateStore for TLC.                                      *)
EXTENDS UiStateStore, TLC

CONSTANTS p1, p2, t1, t2

TwoProfiles == {p1, p2}
TwoTasks    == {t1, t2}
AllFaults   == {"crash", "fail", "corrupt", "cancel"}
TasksAlike  == Permutations(TwoTasks)
\* With a cache for one, two updates or one with a fault; with a cache for both, all.
Crowded     == capacity = 1 => ops + faults <= 2
Sizes       == {1, 2}
===============================================================================

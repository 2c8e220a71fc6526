SPECIFICATION FairSpec
CONSTANTS
  a = a  b = b  d = d  t1 = t1  t2 = t2
  Nobody = Nobody
  Ids = {a, b, d}
  Replayable = {a}
  Denied = {d}
  Tasks = {t1, t2}
  Faults <- AllFaults
  MaxFaults = 2
  MaxLinks = 3
  MaxSent = 2
  ConnSlots = 1
  Slots = 1
  MaxCached = 1
  MaxInflight = 1
  MaxWaiters = 2

\* The browsers may stop once every request is settled.
CHECK_DEADLOCK FALSE
INVARIANTS TypeOK ExecutedOnce EntriesAreServed SingleExecution NoSilentWait AnswerFits
PROPERTY EveryRequestAnswered

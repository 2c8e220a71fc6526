SPECIFICATION FairSpec
CONSTANTS
  i1 = i1  i2 = i2  i3 = i3  r1 = r1  w1 = w1  w2 = w2
  NoRequest = NoRequest
  Nobody = Nobody
  Items <- MCItems
  Requests <- MCRequests
  Workers <- OneWorker
  UserOps <- EveryOp
  Faults <- EveryFault
  MaxOps = 3
  MaxFaults = 1
  MaxSpawned = 1
CHECK_DEADLOCK FALSE

  
INVARIANT
  NoLostWakeup

SPECIFICATION Spec
CONSTANTS
  i1 = i1  i2 = i2  i3 = i3  r1 = r1  w1 = w1  w2 = w2
  NoRequest = NoRequest
  Nobody = Nobody
  Items <- MCItems
  Requests <- MCRequests
  Workers <- MCWorkers
  UserOps <- EveryOp
  Faults <- EveryFault
  MaxOps = 3
  MaxFaults = 2
  MaxSpawned = 1
SYMMETRY WorkerSymmetry
CONSTRAINT Four
CHECK_DEADLOCK FALSE
INVARIANTS
  TypeOK
  SingleDispatcher
  AtMostOnce
  NothingLost
  OrderIsFaithful
PROPERTIES
  ClaimsHold

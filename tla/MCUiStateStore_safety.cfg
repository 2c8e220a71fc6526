SPECIFICATION Spec
CONSTANTS
  p1 = p1
  p2 = p2
  t1 = t1
  t2 = t2
  Main = main
  Nobody = nobody
  Absent = absent
  Corrupt = corrupt
  Missing = missing
  Profiles <- TwoProfiles
  Tasks <- TwoTasks
  Capacities <- Sizes
  Faults <- AllFaults
  MaxFaults = 1
  MaxOps = 2
  Attempts = 1
INVARIANTS TypeOK SavedOrDirty
PROPERTY ImplementsDurableState
CONSTRAINT Crowded
CHECK_DEADLOCK FALSE
SYMMETRY TasksAlike

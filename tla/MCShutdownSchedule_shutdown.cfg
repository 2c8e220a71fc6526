SPECIFICATION Spec
CONSTANTS
  s1 = s1
  s2 = s2
  u1 = u1
  u2 = u2
  None = none
  Sessions = {s1, s2}
  Users = {u1, u2}
  Ops <- AllOps
  Faults <- AllFaults
  MaxOps = 2
  MaxPlans = 2
  MaxFaults = 1
INVARIANTS TypeOK ShutdownSparesWork DoneIsScheduled
CONSTRAINT Four
CHECK_DEADLOCK FALSE
SYMMETRY Alike

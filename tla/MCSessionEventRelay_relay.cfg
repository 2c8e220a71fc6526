SPECIFICATION Spec
CONSTANTS
  c1 = c1  c2 = c2
  Clients = {c1, c2}
  Faults = {"drop", "refuse", "timeout", "crash"}
  MaxFaults = 1
  MaxEvents = 2
  MaxRelays = 2
  MaxTasks = 3
  MaxViews = 3
  MaxHappenings = 4
  Room = 1
SYMMETRY Browsers
CHECK_DEADLOCK FALSE
INVARIANTS TypeOK SubscribersHear

SPECIFICATION Spec
CONSTANTS
  a1 = a1
  a2 = a2
  r1 = r1
  r2 = r2
  k = k
  None = None
  Calls <- TwoCalls
  Instances <- TwoClients
  Keys <- OneKey
  Key <- SameKey
  Modes <- BothModes
  Kinds <- BothKinds
  Faults <- AllFaults
  MaxFaults = 1
  MaxGens = 2
  Limits <- OneOrTwo
SYMMETRY Symmetry
INVARIANTS TypeOK SlotsHaveOwners WaitIsEnded InitializedFirst NoMutualWait EvictionSparesTurns ActiveIsExact
CHECK_DEADLOCK FALSE

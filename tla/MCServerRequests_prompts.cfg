SPECIFICATION Spec
CONSTANTS
  u1 = u1
  Users <- OneUser
  Modes <- BothModes
  Faults <- AllFaults
  MaxFaults = 1
  MaxAsks = 2
  MaxTotal = 2
  MaxProcs = 2
  MaxGens = 2
  MaxTurns = 2
  MaxUnread = 1
  MaxNotes = 1
  RelayCap = 1
  PromptCap = 1
INVARIANTS TypeOK AnswerFits PromptsAreExact
CHECK_DEADLOCK FALSE

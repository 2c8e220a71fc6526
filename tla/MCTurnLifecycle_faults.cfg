SPECIFICATION Spec
CONSTANTS
    t1 = t1
    t2 = t2
    m1 = m1
    m2 = m2
    Tasks = {t1, t2}
    Messages = {m1}
    NoMessage = NoMessage
    NoOne = NoOne
    Kinds = {"send", "compact", "steer"}
    Background = {"maintenance", "probe", "detail", "resolve"}
    Faults = {"reject", "timeout", "exit", "lag", "drop", "misread"}
    Attempts = 1
    MaxSends = 2
    MaxFaults = 1
SYMMETRY Interchangeable
INVARIANT PendingHasOwner
INVARIANT OperationsExclude
PROPERTY NoResurrection
CHECK_DEADLOCK FALSE

SPECIFICATION Spec
CONSTANTS
    t1 = t1
    t2 = t2
    m1 = m1
    m2 = m2
    Tasks = {t1, t2}
    Messages = {m1, m2}
    NoMessage = NoMessage
    NoOne = NoOne
    Kinds = {"send", "compact", "steer"}
    Background = {"maintenance"}
    Faults = {"reject"}
    Attempts = 1
    MaxSends = 3
    MaxFaults = 1
SYMMETRY Interchangeable
INVARIANT TypeOK
INVARIANT RecordsAgree
CHECK_DEADLOCK FALSE

SPECIFICATION FairSpec
CONSTANTS
    t1 = t1
    t2 = t2
    m1 = m1
    m2 = m2
    Tasks = {t1, t2}
    Messages = {m1}
    NoMessage = NoMessage
    NoOne = NoOne
    Kinds = {"send"}
    Background = {"maintenance"}
    Faults = {"exit", "lag", "drop", "misread"}
    Attempts = 1
    MaxSends = 2
    MaxFaults = 2
PROPERTY Converges
PROPERTY TaskEnds
CHECK_DEADLOCK FALSE

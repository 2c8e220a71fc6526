SPECIFICATION FairSpec
CONSTANTS
    t1 = t1
    t2 = t2
    m1 = m1
    m2 = m2
    Tasks = {t1}
    Messages = {m1}
    NoMessage = NoMessage
    NoOne = NoOne
    Kinds = {"send"}
    Background = {}
    Faults = {"timeout"}
    Attempts = 1
    MaxSends = 1
    MaxFaults = 1
PROPERTY TaskEnds
CHECK_DEADLOCK FALSE

SPECIFICATION Spec
CONSTANTS
    u1 = u1
    k1 = k1
    k2 = k2
    c1 = c1
    c2 = c2
    Ids = {u1}
    Keys = {k1, k2}
    Callers = {c1, c2}
    Settings = {TRUE, FALSE}
    NoRow = NoRow
    NoJob = NoJob
    MaxCalls = 2
    MaxFaults = 2
CHECK_DEADLOCK FALSE
INVARIANTS
    NoStrangers
    NobodyMissing
    SessionsAreUsers
PROPERTIES
    Recovers

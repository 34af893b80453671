SPECIFICATION StatsSpec
CONSTANTS
    u1 = u1
    before = before
    after = after
    c1 = c1
    c2 = c2
    Users = {u1}
    Idents = {before, after}
    UserOf <- MCUserOf
    Order <- MCOrder
    Callers = {c1, c2}
    MaxBytes = 2
    MaxFaults = 2
CHECK_DEADLOCK FALSE
INVARIANTS
    NothingTwice
    NothingLost
PROPERTIES
    FetchEnds

SPECIFICATION Spec
CONSTANTS
    u1 = u1
    u2 = u2
    t1 = t1
    t2 = t2
    r1 = r1
    a = a
    b = b
    i = i
    j = j
    o = o
    x = x
    Ids = {u1, u2}
    Idents = {i, j}
    Tags = {a, b}
    Outs = {NoOuts, o}
    NoOuts = NoOuts
    Policies = {x}
    PolicyTable = PolicyTable
    Hours = {1, 2}
    Today = {2}
    Month = {2}
    Writers = {t1, t2}
    Readers = {r1}
    NoRow = NoRow
    NoCall = NoCall
    Calls <- MCCalls
    MaxCalls = 3
    MaxFaults = 1
SYMMETRY Tasks
CHECK_DEADLOCK FALSE
INVARIANTS
    NoOrphans
    ReadsSettled
    TrafficKept
    TotalsOrdered
PROPERTY ImplementsStore

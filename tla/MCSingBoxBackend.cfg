SPECIFICATION FairSpec
CONSTANTS
    u1 = u1
    u2 = u2
    a = a
    b = b
    c1 = c1
    c2 = c2
    p1 = p1
    p2 = p2
    p3 = p3
    bad = bad
    Users = {u1}
    Tags = {a, b}
    Files <- MCFiles
    BadFiles = {bad}
    Bare = Bare
    Requests <- MCRequests
    Callers = {c1, c2}
    Procs = {p1, p2, p3}
    NoProc = NoProc
    NoChange = NoChange
    Settings = {TRUE, FALSE}
    MaxEvents = 3
CHECK_DEADLOCK FALSE
INVARIANTS
    ConfigAgrees
    ChangesAreDue
    PlannedOneProcess
PROPERTIES
    ChangesArrive
    Recovers

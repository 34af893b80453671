SPECIFICATION FairSpec
CONSTANTS
    c1 = c1
    c2 = c2
    p1 = p1
    p2 = p2
    p3 = p3
    f = f
    bad = bad
    Callers = {c1, c2}
    Procs = {p1, p2, p3}
    Files = {f}
    BadFiles = {bad}
    Bare = Bare
    NoFile = NoFile
    NoProc = NoProc
    NoPlan = NoPlan
    Settings = {TRUE, FALSE}
    MaxEvents = 3
CHECK_DEADLOCK FALSE
INVARIANTS
    PlannedOneProcess
    Coherent
PROPERTY Recovers

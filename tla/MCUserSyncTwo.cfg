SPECIFICATION Spec
CONSTANTS
    u1 = u1
    u2 = u2
    t1 = t1
    t2 = t2
    a = a
    b = b
    p = p
    q = q
    s = s
    n1 = n1
    n2 = n2
    o = o
    NoOuts = NoOuts
    NoRow = NoRow
    NoJob = NoJob
    BadConfig = BadConfig
    Ids = {u1, u2}
    Idents = {p, s}
    Names = {n1, n2}
    NameOf <- MCNameOf
    Tags = {a, b}
    Outs = {NoOuts, o}
    Tasks = {t1, t2}
    Configs <- MCOneTag
    InitialConfig = {a}
    Requests <- MCTwoUserRequests
    Batches <- MCTwoUserBatches
    Restarts = {"good", "bad"}
    MaxFaults = 0
SYMMETRY Handlers
CHECK_DEADLOCK FALSE
INVARIANTS
    Agreement
    OneCredential
PROPERTIES
    UpdatesNeverRefused
    RepopulateReconciles

SPECIFICATION FairSpec
CONSTANTS
    u1 = u1
    u2 = u2
    t1 = t1
    t2 = t2
    a = a
    b = b
    p = p
    q = q
    s = s
    n1 = n1
    n2 = n2
    o = o
    NoOuts = NoOuts
    NoRow = NoRow
    NoJob = NoJob
    BadConfig = BadConfig
    Ids = {u1, u2}
    Idents = {p, q}
    Names = {n1, n2}
    NameOf <- MCNameOf
    Tags = {a, b}
    Outs = {NoOuts}
    Tasks = {t1}
    Configs <- MCConfigs
    InitialConfig <- MCInitialConfig
    Requests <- MCLiveRequests
    Batches <- MCLiveBatches
    Restarts = {"good", "bad", "bare"}
    MaxFaults = 1
CHECK_DEADLOCK FALSE
INVARIANT IInv
PROPERTIES
    EveryCallEnds

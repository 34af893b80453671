SPECIFICATION LogSpec
CONSTANTS
    stderr = stderr
    stdout = stdout
    startup = startup
    s1 = s1
    s2 = s2
    Captures = {stderr, stdout}
    Clients = {s1, s2}
    Startup = startup
    Startups = {TRUE, FALSE}
    BufferSize = 1
    MaxLines = 1
    MaxStalls = 1
CHECK_DEADLOCK FALSE
INVARIANTS
    LogTypeOK
PROPERTIES
    InOrder
    NoneSkipped
    StopTold

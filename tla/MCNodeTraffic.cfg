SPECIFICATION Spec
CONSTANTS
    eth = eth
    Interfaces = {eth}
    Loopback = {}
    Configured = {}
    HoursPerDay = 1
    DaysPerMonth = 2
    Settings = {TRUE, FALSE}
    NoSample = NoSample
    NoCall = NoCall
    NoAnswer = NoAnswer
    MaxBytes = 3
    MaxHour = 2
    MaxEvents = 2
CHECK_DEADLOCK FALSE
INVARIANTS
    TypeOK
    NeverAhead
    NothingLost
PROPERTIES
    AnswersGrow

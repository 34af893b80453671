SPECIFICATION InboundsSpec
CONSTANTS
    Protocols <- MCProtocols
    Lower <- MCLower
    Networks <- MCNetworks
    ShortIds <- MCShortIds
    Flows <- MCFlows
    Keys = {"word", "uuid"}
    UuidKeys = {"uuid"}
    Null = Null
CHECK_DEADLOCK FALSE
INVARIANTS
    TakesUsers
    FlowAgrees
    SpellingsAlike

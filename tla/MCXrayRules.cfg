SPECIFICATION RulesSpec
CONSTANTS
    u1 = u1
    u2 = u2
    p1 = p1
    p2 = p2
    a = a
    b = b
    ip = ip
    protocol = protocol
    block = block
    hq = hq
    res1 = res1
    res2 = res2
    pol1 = pol1
    pol2 = pol2
    Users = {u1, u2}
    Policies = {p1, p2}
    NoUser = NoUser
    Tags = {a, b}
    ApiTag = ApiTag
    Conditions = {ip, protocol}
    Located = {ip}
    Exits = {ApiExit, Direct, block, hq, res1, res2, pol1, pol2}
    ApiExit = ApiExit
    Direct = Direct
    Tag <- MCTag
    Operator = Operator
    Missing = Missing
    Outbounds <- MCOutbounds
    Rulebooks <- MCRulebooks
    Plans <- MCPlans
CHECK_DEADLOCK FALSE
INVARIANTS
    RoutesAsExpected
    ServersMatch

----------------------------- MODULE MCXrayRules -----------------------------
(***************************************************************************)
(* Small instances of XrayRules for TLC.                                   *)
(***************************************************************************)
EXTENDS XrayRules

CONSTANTS
    u1, u2, p1, p2,             \* users and policies
    a, b,                       \* inbounds
    ip, protocol,               \* conditions
    block, hq, res1, res2, pol1, pol2  \* outbounds

R(user, inbounds, narrow, exit) ==
    [user |-> user, inbounds |-> inbounds, narrow |-> narrow, exit |-> exit]

J(owner, scope) == [owner |-> owner, scope |-> scope]

UpTo(n, S) == UNION {[1..m -> S] : m \in 0..n}

\* Blocks, an inbound route, a catch-all and a rule for u1.
MCRulebooks ==
    UpTo(3, {R(NoUser, {}, {ip}, block), R(NoUser, {}, {protocol}, block),
             R(NoUser, {a}, {}, hq), R(NoUser, {}, {}, hq), R(u1, {a}, {}, res1)})

\* One file has an outbound of its own for u1.
MCOutbounds == {{Direct, block, hq}, {Direct, block, hq, res1}}

MCUserJobs == UpTo(2, {J(u1, {}), J(u1, {a}), J(u1, {b}), J(u2, {a})})

MCPolicies ==
    {<<>>, <<J(p1, {a})>>, <<J(p1, {a, b})>>, <<J(p1, {b}), J(p2, {a})>>,
     <<J(p2, {a, b}), J(p1, {a})>>}

MCPlans == {s \o t : s \in MCUserJobs, t \in MCPolicies}

MCTag == [o \in Owners |->
    CASE o = u1 -> res1 [] o = u2 -> res2 [] o = p1 -> pol1 [] o = p2 -> pol2]

=============================================================================

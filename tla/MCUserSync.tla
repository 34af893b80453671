----------------------------- MODULE MCUserSync -----------------------------
(***************************************************************************)
(* Small instances of UserSync for TLC.                                    *)
(***************************************************************************)
EXTENDS UserSync, TLC

CONSTANTS
    u1, u2,          \* user ids
    t1, t2,          \* handlers
    a, b,            \* inbound tags
    p, q, s,         \* identities: p and q share their username
    n1, n2,          \* usernames
    o                \* a list of outbounds

MCNameOf == [i \in Idents |-> IF i = s THEN n2 ELSE n1]

R(u, i, tags, outs) == [id |-> u, ident |-> i, tags |-> tags, outs |-> outs]

\* Two users handled at once: u1 gets a new key, and its old one again from the
\* message, whose sweep removes u2.
MCTwoUserRequests == {R(u1, s, {a}, NoOuts), R(u2, p, {a}, o)}

MCTwoUserBatches == {{R(u1, p, {a}, NoOuts)}}

\* One handler, with faults and two configurations.
MCLiveRequests ==
    {R(u1, p, {a}, NoOuts), R(u1, q, {b}, NoOuts), R(u1, p, {}, NoOuts)}

MCLiveBatches == {{R(u2, p, {a}, NoOuts)}}

MCOneTag == {{a}}

MCConfigs == {{a}, {a, b}}

MCInitialConfig == {a, b}

Handlers == Permutations(Tasks)
=============================================================================

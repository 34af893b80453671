--------------------------- MODULE MCSqliteStorage ---------------------------
(***************************************************************************)
(* Small instances of SqliteStorage for TLC.                               *)
(***************************************************************************)
EXTENDS SqliteStorage, TLC

CONSTANTS
    u1, u2,   \* user ids
    t1, t2,   \* tasks that write
    r1,       \* a task that reads
    a, b,     \* inbound tags
    i, j,     \* identities
    o,        \* a list of outbounds
    x         \* a policy

Inbounds(u, id, tags) ==
    [kind |-> "update_user_inbounds", uid |-> u, ident |-> id, tags |-> tags]

Outbounds(u, id, outs) ==
    [kind |-> "update_user_outbounds", uid |-> u, ident |-> id, outs |-> outs]

MCCalls ==
    {Inbounds(u1, i, {a}), Inbounds(u2, j, {a, b}), Outbounds(u1, j, o),
     [kind |-> "remove_user", uid |-> u1],
     [kind |-> "replace_node_outbound_policies", policies |-> {x}],
     [kind |-> "replace_node_outbound_policies", policies |-> {}],
     [kind |-> "record_node_traffic", hour |-> 2]}

Tasks == Permutations(Writers)
=============================================================================

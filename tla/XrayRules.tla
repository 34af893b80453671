------------------------------ MODULE XrayRules ------------------------------
(***************************************************************************)
(* XrayRules is what XrayConfig does to the routing of a configuration     *)
(* before xray is started with it: the rule of the API, then one outbound  *)
(* and one rule for each outbound of a user and each policy of the node.   *)
(* Of a list of rules the first that matches a connection decides.         *)
(*                                                                         *)
(* A rule names a user or none, some inbounds or none, and other           *)
(* conditions ("domain", "ip", "protocol", ...), of which a connection has *)
(* some.  Servers and credentials are left to the job they come from.      *)
(***************************************************************************)
EXTENDS Naturals, Sequences

CONSTANTS
    Users,
    Policies,
    NoUser,      \* a rule, or a connection, without a user
    Tags,        \* inbounds of the operator
    ApiTag,      \* API_INBOUND
    Conditions,  \* keys that narrow a rule: domain, ip, protocol, port, network, source
    Located,     \* those that _policy_rule_index knows: domain, ip, port
    Exits,       \* outbound tags
    ApiExit,     \* API
    Direct,      \* the first outbound, for connections that match no rule
    Tag,         \* per user and policy: res-{username}, NODE_POLICY_{id}
    Operator,    \* the server of an outbound that was in the file
    Missing,     \* no outbound has the tag
    Outbounds,   \* the tags of the outbounds in the file: its possible values
    Rulebooks,   \* the rules of the configurations to load
    Plans        \* the outbounds and policies of the storage, in their order

Owners == Users \cup Policies

Rule == [user : Users \cup {NoUser}, inbounds : SUBSET (Tags \cup {ApiTag}),
         narrow : SUBSET Conditions, exit : Exits]

Job == [owner : Owners, scope : SUBSET Tags]

\* The inbound of the API has no users.
Connection ==
    [user : Users \cup {NoUser}, inbound : Tags, traits : SUBSET Conditions]
        \cup [user : {NoUser}, inbound : {ApiTag}, traits : SUBSET Conditions]

ASSUME NamesAssumption ==
    /\ Users \cap Policies = {}
    /\ NoUser \notin Owners
    /\ ApiTag \notin Tags
    /\ Located \subseteq Conditions
    /\ {ApiExit, Direct} \subseteq Exits
    /\ Operator \notin Job
    /\ Missing \notin Job \cup {Operator}
ASSUME TagAssumption ==
    /\ Tag \in [Owners -> Exits \ {ApiExit, Direct}]
    /\ \A o1, o2 \in Owners : Tag[o1] = Tag[o2] => o1 = o2
ASSUME OutboundsAssumption == Outbounds \subseteq SUBSET Exits
\* An operator writes rules of his own for a user, but none for a policy.
ASSUME RulebooksAssumption ==
    /\ Rulebooks \subseteq Seq(Rule)
    /\ \A s \in Rulebooks : \A i \in DOMAIN s : \A p \in Policies : s[i].exit # Tag[p]
\* Outbounds come before policies; a policy names inbounds and occurs once.
ASSUME PlansAssumption ==
    /\ Plans \subseteq Seq(Job)
    /\ \A s \in Plans : \A i, k \in DOMAIN s :
          s[i].owner \in Policies =>
              /\ s[i].scope # {}
              /\ i < k => s[k].owner \in Policies \ {s[i].owner}

VARIABLES
    fileRules,  \* the rules of the file
    jobs,   \* what list_users and list_node_outbound_policies returned
    done,   \* how many of them have been applied
    rules,  \* routing.rules
    exits   \* outbounds: per tag, the job whose server it has

rulesVars == <<fileRules, jobs, done, rules, exits>>

(***************************************************************************)
(* Rules.                                                                  *)
(***************************************************************************)
Matches(r, c) ==
    /\ r.user # NoUser => c.user = r.user
    /\ r.inbounds # {} => c.inbound \in r.inbounds
    /\ r.narrow \subseteq c.traits

Hits(s, c) == {i \in DOMAIN s : Matches(s[i], c)}

Least(S) == CHOOSE i \in S : \A k \in S : i <= k

Route(s, c) == IF Hits(s, c) = {} THEN Direct ELSE s[Least(Hits(s, c))].exit

\* list.insert
Insert(s, n, r) ==
    [i \in 1..(Len(s) + 1) |-> IF i < n THEN s[i] ELSE IF i = n THEN r ELSE s[i - 1]]

\* The index of the first of the positions P of s, or its end.
FirstOf(s, P) == IF P = {} THEN Len(s) + 1 ELSE Least(P)

\* is_broad_inbound_route
IsBroad(r) == r.user = NoUser /\ r.inbounds # {} /\ r.narrow = {}

\* What _policy_rule_index takes for a rule that matches everything.
IsCatchAll(r) == r.user = NoUser /\ r.inbounds = {} /\ r.narrow \cap Located = {}

UserPlace(s) == FirstOf(s, {i \in DOMAIN s : IsBroad(s[i])})

\* Mutant: a policy goes to the end of the list.
PolicyLast(s) == Len(s) + 1

PolicyPlace(s) == FirstOf(s, {i \in DOMAIN s : IsCatchAll(s[i])})

ApiRule == [user |-> NoUser, inbounds |-> {ApiTag}, narrow |-> {}, exit |-> ApiExit]

(***************************************************************************)
(* Jobs.                                                                   *)
(***************************************************************************)
ExitOf(j) == Tag[j.owner]

RuleOf(j) ==
    [user |-> IF j.owner \in Users THEN j.owner ELSE NoUser,
     inbounds |-> j.scope, narrow |-> {}, exit |-> ExitOf(j)]

\* existing_route_keys: the inbounds are no part of the key of a user's rule.
SameKey(r, j) ==
    /\ r.exit = ExitOf(j)
    /\ IF j.owner \in Users THEN r.user = j.owner ELSE r.inbounds = j.scope

Routed(s, j) == \E i \in DOMAIN s : SameKey(s[i], j)

Place(s, j) == IF j.owner \in Users THEN UserPlace(s) ELSE PolicyPlace(s)

\* Mutant: the last server wins.
LastServer(j) == [exits EXCEPT ![ExitOf(j)] = j]

WithServer(j) == [exits EXCEPT ![ExitOf(j)] = IF @ = Missing THEN j ELSE @]

(***************************************************************************)
(* XrayConfig(), and one round of the loops of apply_user_outbounds and    *)
(* apply_node_outbound_policies.                                           *)
(***************************************************************************)
RulesInit ==
    /\ fileRules \in Rulebooks
    /\ jobs \in Plans
    /\ done = 0
    /\ rules = Insert(fileRules, 1, ApiRule)
    /\ \E own \in Outbounds :
          exits = [t \in Exits |-> IF t \in own THEN Operator ELSE Missing]

Apply ==
    /\ done < Len(jobs)
    /\ LET j == jobs[done + 1] IN
          /\ exits' = WithServer(j)
          /\ rules' = IF Routed(rules, j) THEN rules
                      ELSE Insert(rules, Place(rules, j), RuleOf(j))
    /\ done' = done + 1
    /\ UNCHANGED <<fileRules, jobs>>

RulesNext == Apply

RulesSpec == RulesInit /\ [][RulesNext]_rulesVars

(***************************************************************************)
(* Properties.                                                             *)
(***************************************************************************)
RulesTypeOK ==
    /\ fileRules \in Rulebooks
    /\ jobs \in Plans
    /\ done \in 0..Len(jobs)
    /\ rules \in Seq(Rule)
    /\ exits \in [Exits -> Job \cup {Operator, Missing}]

\* Job k has a rule: it is the first of its owner, and the operator has none.
Effective(k) ==
    /\ ~Routed(fileRules, jobs[k])
    /\ \A i \in 1..(k - 1) : jobs[i].owner # jobs[k].owner

\* The jobs so far of the owners O that have a say on c.
Concerned(O, c) ==
    {k \in 1..done : jobs[k].owner \in O /\ Effective(k) /\ Matches(RuleOf(jobs[k]), c)}

\* A rule of the file before what counts as a catch-all.
Early(c) == \E i \in Hits(fileRules, c) : \A k \in 1..i : ~IsCatchAll(fileRules[k])

\* What the code makes of a connection, without a list of rules.
Decided(c) ==
    IF c.inbound = ApiTag THEN ApiExit
    ELSE IF Concerned(Users, c) # {} THEN Tag[c.user]
    ELSE IF ~Early(c) /\ Concerned(Policies, c) # {}
         THEN ExitOf(jobs[Least(Concerned(Policies, c))])
    ELSE Route(fileRules, c)

\* Part of the inductive invariant; nothing promises it.
RoutesAsDecided == \A c \in Connection : Route(rules, c) = Decided(c)

\* The jobs so far of the owners O that ask for c.
Asked(O, c) ==
    {k \in 1..done : jobs[k].owner \in O /\ Matches(RuleOf(jobs[k]), c)}

\* Narrow rules at the head of the file take c, such as a BLOCK of addresses.
NarrowHead(c) ==
    \E i \in Hits(fileRules, c) : \A k \in 1..i : fileRules[k].narrow # {}

\* A rule of the file takes c before any that matches everything.
Claimed(c) ==
    \E i \in Hits(fileRules, c) : \A k \in 1..i :
        fileRules[k] # [user |-> NoUser, inbounds |-> {}, narrow |-> {},
                        exit |-> fileRules[k].exit]

\* What the docstrings and the tests say becomes of a connection: "each
\* Outbound becomes ... a routing rule" (_config.py:245-246), a narrow rule
\* "precedes" it (test_xray_user_outbounds.py:133-144), a policy goes "before
\* broad catch-all routing rules" (_config.py:304).
Expected(c) ==
    IF c.inbound = ApiTag THEN ApiExit
    ELSE IF NarrowHead(c) THEN Route(fileRules, c)
    ELSE IF Asked(Users, c) # {} THEN Tag[c.user]
    ELSE IF ~Claimed(c) /\ Asked(Policies, c) # {}
         THEN ExitOf(jobs[Least(Asked(Policies, c))])
    ELSE Route(fileRules, c)

\* Where the code departs from that.  The rule of the API, itself a broad rule
\* of an inbound, stands first, so that a user's goes before everything (287).
Overtaken(c) == NarrowHead(c) /\ Concerned(Users, c) # {}

\* The second outbound of a user, and one whose user and tag the operator's
\* file names in a rule, get none (285).
Unheard(c) == Asked(Users, c) # {} /\ Concerned(Users, c) = {}

\* A rule narrowed by a key that _policy_rule_index does not know counts as a
\* catch-all, and a policy goes before it (307-313).
Misplaced(c) == Claimed(c) /\ ~Early(c) /\ Concerned(Policies, c) # {}

Departs(c) == Overtaken(c) \/ Unheard(c) \/ Misplaced(c)

\* The API stays reachable; narrow rules at the head of the file keep their
\* connections; an outbound of a user takes those of the user; a policy those
\* of its inbounds that no rule before a catch-all has claimed; all others go
\* where the file sends them.  Excused are the three departures above
\* (_config.py:131-135,242-296,302-354).
RoutesAsExpected ==
    \A c \in Connection : ~Departs(c) => Route(rules, c) = Expected(c)

\* A rule that was added leads to the server of the outbound it was added
\* for, or to one of the operator's (_config.py:263-296).
ServersMatch ==
    \A k \in 1..done : Effective(k) =>
        exits[ExitOf(jobs[k])] \in {jobs[k], Operator}

\* Violated: without the first and the third excuse (the findings of README).
NarrowRulesFirst ==
    \A c \in Connection :
        c.inbound # ApiTag /\ NarrowHead(c) => Route(rules, c) = Route(fileRules, c)

\* Violated: without the second.
OutboundsAreHeard == \A c \in Connection : ~Unheard(c)

=============================================================================

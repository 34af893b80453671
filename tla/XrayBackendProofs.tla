-------------------------- MODULE XrayBackendProofs --------------------------
(***************************************************************************)
(* Proofs about the backend of xray.  Of XrayRules: what XrayConfig does   *)
(* to the routing, for all rules of the file, all users and all policies.  *)
(* Of XrayBackend: types, that RestartBackend calls alone never leave a    *)
(* process behind, and that the node calls the xray it started.            *)
(***************************************************************************)
EXTENDS XrayBackend, XrayRules, WellFoundedInduction, TLAPS

(***************************************************************************)
(* Positions in a list.                                                    *)
(***************************************************************************)
LEMMA LeastExists ==
    ASSUME NEW S \in SUBSET Nat, S # {}
    PROVE  Least(S) \in S /\ \A k \in S : Least(S) <= k
<1>1. IsWellFoundedOn(OpToRel(<, Nat), Nat)
  BY NatLessThanWellFounded, Zenon
<1>2. PICK x \in S : \A y \in S : ~(<<y, x>> \in OpToRel(<, Nat))
  BY <1>1, WFMin, Zenon
<1>3. \A y \in S : x <= y
  <2> SUFFICES ASSUME NEW y \in S PROVE x <= y
    OBVIOUS
  <2>1. ~(y < x)
    BY <1>2 DEF OpToRel
  <2> QED BY <2>1
<1> QED BY <1>3 DEF Least

LEMMA LeastIs ==
    ASSUME NEW S \in SUBSET Nat, NEW x \in S, \A k \in S : x <= k
    PROVE  Least(S) = x
<1>1. Least(S) \in S /\ Least(S) <= x
  BY LeastExists
<1>2. x <= Least(S) /\ x \in Nat /\ Least(S) \in Nat
  BY <1>1
<1> QED BY <1>1, <1>2

LEMMA FirstOfIs ==
    ASSUME NEW s \in Seq(Rule), NEW P \in SUBSET DOMAIN s
    PROVE  /\ FirstOf(s, P) \in 1..(Len(s) + 1)
           /\ \A i \in 1..(FirstOf(s, P) - 1) : i \notin P
           /\ FirstOf(s, P) \in P \/ FirstOf(s, P) = Len(s) + 1
           /\ \A n \in 1..(Len(s) + 1) :
                 /\ n \in P \/ n = Len(s) + 1
                 /\ \A i \in 1..(n - 1) : i \notin P
                 => FirstOf(s, P) = n
<1>1. Len(s) \in Nat /\ DOMAIN s = 1..Len(s)
  OBVIOUS
<1>2. CASE P = {}
  BY <1>1, <1>2 DEF FirstOf
<1>3. CASE P # {}
  <2>1. P \in SUBSET Nat
    BY <1>1
  <2>2. Least(P) \in P /\ \A k \in P : Least(P) <= k
    BY <1>3, <2>1, LeastExists
  <2>3. FirstOf(s, P) = Least(P)
    BY <1>3 DEF FirstOf
  <2>4. ASSUME NEW n \in 1..(Len(s) + 1), n \in P \/ n = Len(s) + 1,
               \A i \in 1..(n - 1) : i \notin P
        PROVE  Least(P) = n
    BY <1>1, <2>2, <2>4
  <2> QED BY <1>1, <2>2, <2>3, <2>4
<1> QED BY <1>2, <1>3

\* What list.insert returns.
LEMMA Inserted ==
    ASSUME NEW s \in Seq(Rule), NEW n \in 1..(Len(s) + 1), NEW r \in Rule
    PROVE  /\ Insert(s, n, r) \in Seq(Rule)
           /\ Len(Insert(s, n, r)) = Len(s) + 1
           /\ DOMAIN Insert(s, n, r) = 1..(Len(s) + 1)
           /\ Insert(s, n, r)[n] = r
           /\ \A i \in 1..(n - 1) : Insert(s, n, r)[i] = s[i]
           /\ \A i \in n..Len(s) : Insert(s, n, r)[i + 1] = s[i]
<1>1. Len(s) \in Nat /\ DOMAIN s = 1..Len(s) /\ \A i \in 1..Len(s) : s[i] \in Rule
  OBVIOUS
<1>2. \A i \in 1..(Len(s) + 1) :
        (IF i < n THEN s[i] ELSE IF i = n THEN r ELSE s[i - 1]) \in Rule
  <2> SUFFICES ASSUME NEW i \in 1..(Len(s) + 1)
               PROVE  (IF i < n THEN s[i] ELSE IF i = n THEN r ELSE s[i - 1]) \in Rule
    OBVIOUS
  <2>1. i < n => s[i] \in Rule
    BY <1>1
  <2>2. i > n => s[i - 1] \in Rule
    BY <1>1
  <2> QED BY <2>1, <2>2
<1>3. Insert(s, n, r) \in [1..(Len(s) + 1) -> Rule]
  BY <1>2 DEF Insert
<1>4. Insert(s, n, r) \in Seq(Rule) /\ Len(Insert(s, n, r)) = Len(s) + 1
  BY <1>1, <1>3
<1>5. /\ Insert(s, n, r)[n] = r
      /\ \A i \in 1..(n - 1) : Insert(s, n, r)[i] = s[i]
      /\ \A i \in n..Len(s) : Insert(s, n, r)[i + 1] = s[i]
  BY <1>1 DEF Insert
<1> QED BY <1>3, <1>4, <1>5

\* new is s with r put in at n.
IsInserted(new, s, n, r) ==
    /\ Len(new) = Len(s) + 1
    /\ new[n] = r
    /\ \A i \in 1..(n - 1) : new[i] = s[i]
    /\ \A i \in n..Len(s) : new[i + 1] = s[i]

LEMMA InsertInserts ==
    ASSUME NEW s \in Seq(Rule), NEW n \in 1..(Len(s) + 1), NEW r \in Rule
    PROVE  IsInserted(Insert(s, n, r), s, n, r)
BY Inserted DEF IsInserted

(***************************************************************************)
(* Routes.                                                                 *)
(***************************************************************************)
LEMMA RouteBy ==
    ASSUME NEW s \in Seq(Rule), NEW c, NEW i \in 1..Len(s), Matches(s[i], c),
           \A k \in 1..(i - 1) : ~Matches(s[k], c)
    PROVE  Route(s, c) = s[i].exit
<1>1. DOMAIN s = 1..Len(s) /\ Len(s) \in Nat
  OBVIOUS
<1>2. i \in Hits(s, c) /\ Hits(s, c) \in SUBSET Nat
  BY <1>1 DEF Hits
<1>3. \A k \in Hits(s, c) : i <= k
  BY <1>1 DEF Hits
<1>4. Least(Hits(s, c)) = i
  BY <1>2, <1>3, LeastIs
<1> QED BY <1>2, <1>4 DEF Route

\* A rule that comes before all others that match decides.
LEMMA RouteInserted ==
    ASSUME NEW s \in Seq(Rule), NEW n \in 1..(Len(s) + 1), NEW r \in Rule, NEW c,
           Matches(r, c), \A k \in 1..(n - 1) : ~Matches(s[k], c)
    PROVE  Route(Insert(s, n, r), c) = r.exit
<1> DEFINE new == Insert(s, n, r)
<1>1. /\ new \in Seq(Rule)
      /\ Len(new) = Len(s) + 1
      /\ new[n] = r
      /\ \A i \in 1..(n - 1) : new[i] = s[i]
  BY Inserted
<1>2. \A k \in 1..(n - 1) : ~Matches(new[k], c)
  BY <1>1
<1>3. n \in 1..Len(new)
  BY <1>1
<1> HIDE DEF new
<1>4. Route(new, c) = new[n].exit
  BY <1>1, <1>2, <1>3, RouteBy
<1> QED BY <1>1, <1>4 DEF new

\* A rule that does not match, or comes after one that does, decides nothing.
LEMMA RouteKept ==
    ASSUME NEW s \in Seq(Rule), NEW n \in 1..(Len(s) + 1), NEW r \in Rule, NEW c,
           \/ ~Matches(r, c)
           \/ \E k \in 1..(n - 1) : Matches(s[k], c)
    PROVE  Route(Insert(s, n, r), c) = Route(s, c)
<1> DEFINE new == Insert(s, n, r)
<1>1. /\ new \in Seq(Rule)
      /\ Len(new) = Len(s) + 1
      /\ DOMAIN new = 1..(Len(s) + 1)
      /\ new[n] = r
      /\ \A i \in 1..(n - 1) : new[i] = s[i]
      /\ \A i \in n..Len(s) : new[i + 1] = s[i]
  BY Inserted
<1>2. Len(s) \in Nat /\ DOMAIN s = 1..Len(s)
  OBVIOUS
<1> HIDE DEF new
<1>3. CASE Hits(s, c) = {}
  <2>1. \A k \in 1..Len(s) : ~Matches(s[k], c)
    BY <1>2, <1>3 DEF Hits
  <2>2. ~Matches(r, c)
    BY <2>1, <1>2
  <2>3. ASSUME NEW k \in 1..(Len(s) + 1) PROVE ~Matches(new[k], c)
    <3>1. CASE k < n
      BY <1>1, <1>2, <2>1, <3>1
    <3>2. CASE k = n
      BY <1>1, <2>2, <3>2
    <3>3. CASE k > n
      <4>1. k - 1 \in n..Len(s) /\ (k - 1) + 1 = k
        BY <1>2, <3>3
      <4>2. new[k] = s[k - 1]
        BY <1>1, <4>1
      <4> QED BY <1>2, <2>1, <4>1, <4>2
    <3> QED BY <3>1, <3>2, <3>3
  <2>4. Hits(new, c) = {}
    BY <1>1, <2>3 DEF Hits
  <2> QED BY <1>3, <2>4 DEF Route, new
<1>4. CASE Hits(s, c) # {}
  <2>1. Hits(s, c) \in SUBSET Nat
    BY <1>2 DEF Hits
  <2>2. PICK i \in Hits(s, c) : i = Least(Hits(s, c)) /\ \A k \in Hits(s, c) : i <= k
    BY <1>4, <2>1, LeastExists
  <2>3. i \in 1..Len(s) /\ Matches(s[i], c)
    BY <1>2, <2>2 DEF Hits
  <2>4. ASSUME NEW k \in 1..(i - 1) PROVE ~Matches(s[k], c)
    <3>1. k \in DOMAIN s /\ ~(i <= k)
      BY <1>2, <2>3
    <3>2. k \notin Hits(s, c)
      BY <2>2, <3>1
    <3> QED BY <3>1, <3>2 DEF Hits
  <2>5. Route(s, c) = s[i].exit
    BY <1>4, <2>2 DEF Route
  <2>6. CASE i < n
    <3>1. new[i] = s[i] /\ i \in 1..Len(new)
      BY <1>1, <1>2, <2>3, <2>6
    <3>2. \A k \in 1..(i - 1) : ~Matches(new[k], c)
      BY <1>1, <1>2, <2>3, <2>4, <2>6
    <3>3. Route(new, c) = new[i].exit
      BY <1>1, <2>3, <3>1, <3>2, RouteBy
    <3> QED BY <2>5, <3>1, <3>3 DEF new
  <2>7. CASE i >= n
    <3>1. ~Matches(r, c)
      BY <2>3, <2>4, <2>7
    <3>2. i \in n..Len(s) /\ i + 1 \in 1..Len(new)
      BY <1>1, <1>2, <2>3, <2>7
    <3>3. new[i + 1] = s[i]
      BY <1>1, <3>2
    <3>4. ASSUME NEW k \in 1..((i + 1) - 1) PROVE ~Matches(new[k], c)
      <4>1. CASE k < n
        BY <1>1, <1>2, <2>3, <2>4, <2>7, <4>1
      <4>2. CASE k = n
        BY <1>1, <3>1, <4>2
      <4>3. CASE k > n
        <5>1. k - 1 \in n..Len(s) /\ (k - 1) + 1 = k /\ k - 1 \in 1..(i - 1)
          BY <1>2, <2>3, <4>3
        <5>2. new[k] = s[k - 1]
          BY <1>1, <5>1
        <5> QED BY <2>4, <5>1, <5>2
      <4> QED BY <4>1, <4>2, <4>3
    <3>5. Route(new, c) = new[i + 1].exit
      BY <1>1, <2>3, <3>2, <3>3, <3>4, RouteBy, ZenonT(60)
    <3> QED BY <2>5, <3>3, <3>5 DEF new
  <2> QED BY <1>2, <2>3, <2>6, <2>7
<1> QED BY <1>3, <1>4

(***************************************************************************)
(* The rule of a policy.                                                   *)
(***************************************************************************)
\* Some rule of s before what counts as a catch-all matches c.
SettledEarly(s, c) == \E i \in 1..(PolicyPlace(s) - 1) : Matches(s[i], c)

\* PolicyPlace in the terms of FirstOfIs.
LEMMA PolicyPlaceIs ==
    ASSUME NEW s \in Seq(Rule)
    PROVE  /\ PolicyPlace(s) \in 1..(Len(s) + 1)
           /\ \A i \in 1..(PolicyPlace(s) - 1) : ~IsCatchAll(s[i])
           /\ PolicyPlace(s) <= Len(s) => IsCatchAll(s[PolicyPlace(s)])
           /\ \A n \in 1..(Len(s) + 1) :
                 /\ n <= Len(s) => IsCatchAll(s[n])
                 /\ \A i \in 1..(n - 1) : ~IsCatchAll(s[i])
                 => PolicyPlace(s) = n
<1> DEFINE P == {i \in DOMAIN s : IsCatchAll(s[i])}
<1>1. P \in SUBSET DOMAIN s
  OBVIOUS
<1>2. /\ FirstOf(s, P) \in 1..(Len(s) + 1)
      /\ \A i \in 1..(FirstOf(s, P) - 1) : i \notin P
      /\ FirstOf(s, P) \in P \/ FirstOf(s, P) = Len(s) + 1
      /\ \A n \in 1..(Len(s) + 1) :
            /\ n \in P \/ n = Len(s) + 1
            /\ \A i \in 1..(n - 1) : i \notin P
            => FirstOf(s, P) = n
  BY <1>1, FirstOfIs
<1>3. DOMAIN s = 1..Len(s) /\ Len(s) \in Nat
  OBVIOUS
<1>4. \A i \in 1..Len(s) : i \in P <=> IsCatchAll(s[i])
  BY <1>3
<1>5. PolicyPlace(s) = FirstOf(s, P)
  BY DEF PolicyPlace
<1> HIDE DEF P
<1> QED BY <1>2, <1>3, <1>4, <1>5

\* A rule inserted no later than where a policy would go settles what it
\* matches, and moves the place of the next policy by one.
LEMMA SettledInserted ==
    ASSUME NEW s \in Seq(Rule), NEW n \in 1..PolicyPlace(s), NEW r \in Rule, NEW c,
           ~IsCatchAll(r)
    PROVE  SettledEarly(Insert(s, n, r), c) <=> SettledEarly(s, c) \/ Matches(r, c)
<1> DEFINE new == Insert(s, n, r)
           p == PolicyPlace(s)
<1>1. /\ p \in 1..(Len(s) + 1)
      /\ \A i \in 1..(p - 1) : ~IsCatchAll(s[i])
      /\ p <= Len(s) => IsCatchAll(s[p])
  BY PolicyPlaceIs
<1>2. n \in 1..(Len(s) + 1) /\ n \in 1..p /\ Len(s) \in Nat
  BY <1>1
<1>3. /\ new \in Seq(Rule)
      /\ Len(new) = Len(s) + 1
      /\ new[n] = r
      /\ \A i \in 1..(n - 1) : new[i] = s[i]
      /\ \A i \in n..Len(s) : new[i + 1] = s[i]
  BY <1>2, Inserted
<1> HIDE DEF new, p
<1>4. ASSUME NEW k \in 1..p
      PROVE  \/ k < n /\ new[k] = s[k] /\ k \in 1..(p - 1)
             \/ k = n /\ new[k] = r
             \/ k > n /\ new[k] = s[k - 1] /\ k - 1 \in 1..(p - 1)
  <2>1. CASE k < n
    BY <1>1, <1>2, <1>3, <2>1
  <2>2. CASE k = n
    BY <1>3, <2>2
  <2>3. CASE k > n
    <3>1. k - 1 \in n..Len(s) /\ (k - 1) + 1 = k /\ k - 1 \in 1..(p - 1)
      BY <1>1, <1>2, <2>3
    <3> QED BY <1>3, <2>3, <3>1
  <2> QED BY <1>1, <1>2, <2>1, <2>2, <2>3
<1>5. PolicyPlace(new) = p + 1
  <2>1. p + 1 \in 1..(Len(new) + 1)
    BY <1>1, <1>2, <1>3
  <2>2. \A i \in 1..((p + 1) - 1) : ~IsCatchAll(new[i])
    <3>1. (p + 1) - 1 = p
      BY <1>1, <1>2
    <3> QED BY <1>1, <1>4, <3>1
  <2>3. p + 1 <= Len(new) => IsCatchAll(new[p + 1])
    <3> SUFFICES ASSUME p + 1 <= Len(new) PROVE IsCatchAll(new[p + 1])
      OBVIOUS
    <3>1. p <= Len(s) /\ p \in n..Len(s)
      BY <1>1, <1>2, <1>3
    <3> QED BY <1>1, <1>3, <3>1
  <2> QED BY <1>3, <2>1, <2>2, <2>3, PolicyPlaceIs
<1>6. (p + 1) - 1 = p
  BY <1>1, <1>2
<1>7. SettledEarly(new, c) <=> \E k \in 1..p : Matches(new[k], c)
  BY <1>5, <1>6 DEF SettledEarly
<1>8. (\E k \in 1..p : Matches(new[k], c)) => SettledEarly(s, c) \/ Matches(r, c)
  BY <1>4 DEF SettledEarly, p
<1>9. Matches(r, c) => \E k \in 1..p : Matches(new[k], c)
  BY <1>2, <1>3
<1>10. ASSUME NEW i \in 1..(p - 1), Matches(s[i], c)
       PROVE  \E k \in 1..p : Matches(new[k], c)
  <2>1. CASE i < n
    BY <1>1, <1>2, <1>3, <1>10, <2>1
  <2>2. CASE i >= n
    <3>1. i \in n..Len(s) /\ i + 1 \in 1..p
      BY <1>1, <1>2, <2>2
    <3>2. new[i + 1] = s[i]
      BY <1>3, <3>1
    <3> QED BY <1>10, <3>1, <3>2
  <2> QED BY <1>1, <1>2, <2>1, <2>2
<1>11. SettledEarly(s, c) => \E k \in 1..p : Matches(new[k], c)
  BY <1>10 DEF SettledEarly, p
<1> QED BY <1>7, <1>8, <1>9, <1>11 DEF new

(***************************************************************************)
(* The invariant.                                                          *)
(***************************************************************************)
\* The rule of the API is at a, and before it are rules of users only.
Top(s, a) ==
    /\ a \in 1..Len(s)
    /\ s[a] = ApiRule
    /\ \A i \in 1..(a - 1) : s[i].user \in Users /\ s[i].exit = Tag[s[i].user]

HasRule(s, u) == \E i \in DOMAIN s : s[i].user = u /\ s[i].exit = Tag[u]

LeadsTo(s, t) == \E i \in DOMAIN s : s[i].exit = t

Applied(o) == \E k \in 1..done : jobs[k].owner = o

Inv ==
    /\ \E a \in 1..Len(rules) : Top(rules, a)
    /\ \A u \in Users : HasRule(rules, u) <=> HasRule(fileRules, u) \/ Applied(u)
    /\ \A p \in Policies : LeadsTo(rules, Tag[p]) => Applied(p)
    /\ \A c \in Connection :
          SettledEarly(rules, c) <=> \/ c.inbound = ApiTag
                                \/ Concerned(Users, c) # {}
                                \/ Early(c)
                                \/ Concerned(Policies, c) # {}
    /\ RoutesAsDecided

ServerInv ==
    /\ \A o \in Owners : exits[Tag[o]] \in Job => Applied(o)
    /\ ServersMatch

LEMMA RuleOfType ==
    ASSUME NEW j \in Job
    PROVE  /\ RuleOf(j) \in Rule
           /\ RuleOf(j).exit = Tag[j.owner]
           /\ ExitOf(j) = Tag[j.owner] /\ Tag[j.owner] \in Exits
           /\ j.owner \in Users => RuleOf(j).user = j.owner
           /\ j.owner \in Policies => RuleOf(j).user = NoUser
           /\ RuleOf(j).inbounds = j.scope
<1>1. j.owner \in Owners /\ j.scope \in SUBSET Tags /\ Tag[j.owner] \in Exits
  BY TagAssumption DEF Job
<1>2. {} \in SUBSET Conditions
  OBVIOUS
<1>3. RuleOf(j) \in Rule
  BY <1>1, <1>2 DEF RuleOf, Rule, ExitOf
<1>4. j.owner \in Policies => j.owner \notin Users
  BY NamesAssumption
<1> QED BY <1>1, <1>3, <1>4 DEF RuleOf, ExitOf

LEMMA ApiRuleType ==
    /\ ApiRule \in Rule
    /\ IsBroad(ApiRule)
    /\ ~IsCatchAll(ApiRule)
    /\ \A c \in Connection : Matches(ApiRule, c) <=> c.inbound = ApiTag
<1>1. ApiRule \in Rule
  BY NamesAssumption DEF ApiRule, Rule
<1>2. IsBroad(ApiRule) /\ ~IsCatchAll(ApiRule)
  BY DEF ApiRule, IsBroad, IsCatchAll
<1>3. ASSUME NEW c \in Connection PROVE Matches(ApiRule, c) <=> c.inbound = ApiTag
  BY DEF ApiRule, Matches
<1> QED BY <1>1, <1>2, <1>3

LEMMA TopPlaces ==
    ASSUME NEW s \in Seq(Rule), NEW a, Top(s, a)
    PROVE  UserPlace(s) = a /\ PolicyPlace(s) \in (a + 1)..(Len(s) + 1)
<1>1. a \in 1..Len(s) /\ DOMAIN s = 1..Len(s) /\ Len(s) \in Nat /\ s[a] = ApiRule
  BY DEF Top
<1>2. ASSUME NEW i \in 1..(a - 1) PROVE ~IsBroad(s[i]) /\ ~IsCatchAll(s[i])
  <2>1. s[i].user # NoUser
    BY NamesAssumption DEF Top, Owners
  <2> QED BY <2>1 DEF IsBroad, IsCatchAll
<1>3. UserPlace(s) = a
  <2> DEFINE P == {i \in DOMAIN s : IsBroad(s[i])}
  <2>1. P \in SUBSET DOMAIN s /\ a \in P
    BY <1>1, ApiRuleType
  <2>2. \A i \in 1..(a - 1) : i \notin P
    BY <1>2
  <2> HIDE DEF P
  <2>3. FirstOf(s, P) = a
    BY <1>1, <2>1, <2>2, FirstOfIs
  <2> QED BY <2>3 DEF UserPlace, P
<1>4. PolicyPlace(s) \in (a + 1)..(Len(s) + 1)
  <2>1. /\ PolicyPlace(s) \in 1..(Len(s) + 1)
        /\ PolicyPlace(s) <= Len(s) => IsCatchAll(s[PolicyPlace(s)])
    BY PolicyPlaceIs
  <2>2. PolicyPlace(s) # a
    BY <1>1, <2>1, ApiRuleType
  <2>3. PolicyPlace(s) \notin 1..(a - 1)
    BY <1>1, <1>2, <2>1
  <2> QED BY <1>1, <2>1, <2>2, <2>3
<1> QED BY <1>3, <1>4

\* What is in a list after an insertion.
LEMMA InsertedRange ==
    ASSUME NEW s \in Seq(Rule), NEW n \in 1..(Len(s) + 1), NEW r \in Rule
    PROVE  /\ \A i \in DOMAIN Insert(s, n, r) :
                 Insert(s, n, r)[i] = r \/ \E k \in DOMAIN s : Insert(s, n, r)[i] = s[k]
           /\ \A k \in DOMAIN s : \E i \in DOMAIN Insert(s, n, r) : Insert(s, n, r)[i] = s[k]
           /\ \E i \in DOMAIN Insert(s, n, r) : Insert(s, n, r)[i] = r
<1> DEFINE new == Insert(s, n, r)
<1>1. /\ DOMAIN new = 1..(Len(s) + 1)
      /\ new[n] = r
      /\ \A i \in 1..(n - 1) : new[i] = s[i]
      /\ \A i \in n..Len(s) : new[i + 1] = s[i]
  BY Inserted
<1>2. DOMAIN s = 1..Len(s) /\ Len(s) \in Nat
  OBVIOUS
<1> HIDE DEF new
<1>3. ASSUME NEW i \in DOMAIN new PROVE new[i] = r \/ \E k \in DOMAIN s : new[i] = s[k]
  <2>1. CASE i < n
    <3>1. i \in 1..(n - 1) /\ i \in DOMAIN s
      BY <1>1, <1>2, <2>1
    <3> QED BY <1>1, <3>1
  <2>2. CASE i = n
    BY <1>1, <2>2
  <2>3. CASE i > n
    <3>1. i - 1 \in n..Len(s) /\ (i - 1) + 1 = i /\ i - 1 \in DOMAIN s
      BY <1>1, <1>2, <2>3
    <3> QED BY <1>1, <3>1
  <2> QED BY <1>1, <1>2, <2>1, <2>2, <2>3
<1>4. ASSUME NEW k \in DOMAIN s PROVE \E i \in DOMAIN new : new[i] = s[k]
  <2>1. CASE k < n
    <3>1. k \in 1..(n - 1) /\ k \in DOMAIN new
      BY <1>1, <1>2, <2>1
    <3> QED BY <1>1, <3>1
  <2>2. CASE k >= n
    <3>1. k \in n..Len(s) /\ k + 1 \in DOMAIN new
      BY <1>1, <1>2, <2>2
    <3> QED BY <1>1, <3>1
  <2> QED BY <1>2, <2>1, <2>2
<1>5. \E i \in DOMAIN new : new[i] = r
  BY <1>1
<1> QED BY <1>3, <1>4, <1>5 DEF new

LEMMA RulesAfterInsert ==
    ASSUME NEW s \in Seq(Rule), NEW n \in 1..(Len(s) + 1), NEW r \in Rule
    PROVE  /\ \A u : HasRule(Insert(s, n, r), u) <=>
                        HasRule(s, u) \/ (r.user = u /\ r.exit = Tag[u])
           /\ \A t : LeadsTo(Insert(s, n, r), t) <=> LeadsTo(s, t) \/ r.exit = t
<1> DEFINE new == Insert(s, n, r)
<1>1. /\ \A i \in DOMAIN new : new[i] = r \/ \E k \in DOMAIN s : new[i] = s[k]
      /\ \A k \in DOMAIN s : \E i \in DOMAIN new : new[i] = s[k]
      /\ \E i \in DOMAIN new : new[i] = r
  BY InsertedRange
<1> HIDE DEF new
<1>2. ASSUME NEW u
      PROVE  HasRule(new, u) <=> HasRule(s, u) \/ (r.user = u /\ r.exit = Tag[u])
  BY <1>1 DEF HasRule
<1>3. ASSUME NEW t PROVE LeadsTo(new, t) <=> LeadsTo(s, t) \/ r.exit = t
  BY <1>1 DEF LeadsTo
<1> QED BY <1>2, <1>3 DEF new

(***************************************************************************)
(* Types, and the initial states.                                          *)
(***************************************************************************)
LEMMA FileRulesType == fileRules \in Rulebooks => fileRules \in Seq(Rule)
BY RulebooksAssumption

LEMMA JobsType ==
    ASSUME jobs \in Plans
    PROVE  /\ jobs \in Seq(Job) /\ Len(jobs) \in Nat
           /\ \A k \in 1..Len(jobs) : jobs[k] \in Job
BY PlansAssumption

LEMMA InitTypes == RulesInit => RulesTypeOK
<1> SUFFICES ASSUME RulesInit PROVE RulesTypeOK
  OBVIOUS
<1>1. fileRules \in Rulebooks /\ jobs \in Plans /\ done \in 0..Len(jobs)
  BY JobsType DEF RulesInit
<1>2. rules \in Seq(Rule)
  BY FileRulesType, ApiRuleType, Inserted DEF RulesInit
<1>3. exits \in [Exits -> Job \cup {Operator, Missing}]
  BY DEF RulesInit
<1> QED BY <1>1, <1>2, <1>3 DEF RulesTypeOK

\* What is known of the job that Apply takes, and of its rule.
LEMMA NextJob ==
    ASSUME RulesTypeOK, done < Len(jobs)
    PROVE  /\ done + 1 \in 1..Len(jobs)
           /\ done \in Nat
           /\ jobs[done + 1] \in Job
           /\ fileRules \in Seq(Rule)
           /\ rules \in Seq(Rule)
           /\ jobs[done + 1].owner \in Owners
<1>1. done \in 0..Len(jobs) /\ done < Len(jobs) /\ jobs \in Plans
  BY DEF RulesTypeOK
<1>2. done + 1 \in 1..Len(jobs) /\ done \in Nat
  BY <1>1, JobsType
<1>3. jobs[done + 1] \in Job
  BY <1>1, <1>2, JobsType
<1>4. fileRules \in Seq(Rule) /\ rules \in Seq(Rule)
  BY FileRulesType DEF RulesTypeOK
<1> QED BY <1>2, <1>3, <1>4 DEF Job

\* A policy is not met twice, and no rule of it is a catch-all.
LEMMA NextPolicy ==
    ASSUME RulesTypeOK, done < Len(jobs), jobs[done + 1].owner \in Policies
    PROVE  /\ jobs[done + 1].scope # {}
           /\ ~Applied(jobs[done + 1].owner)
           /\ ~LeadsTo(fileRules, Tag[jobs[done + 1].owner])
<1> DEFINE j == jobs[done + 1]
<1>1. jobs \in Plans /\ fileRules \in Rulebooks /\ done + 1 \in DOMAIN jobs /\ done \in Nat
  BY NextJob, JobsType DEF RulesTypeOK
<1>2. j.scope # {}
  BY <1>1, PlansAssumption
<1>3. ASSUME NEW k \in 1..done PROVE jobs[k].owner # j.owner
  <2>1. k \in DOMAIN jobs /\ k < done + 1
    BY <1>1, NextJob, JobsType
  <2>2. CASE jobs[k].owner \in Policies
    BY <1>1, <2>1, <2>2, PlansAssumption
  <2>3. CASE jobs[k].owner \notin Policies
    BY <2>3
  <2> QED BY <2>2, <2>3
<1>4. \A i \in DOMAIN fileRules : fileRules[i].exit # Tag[j.owner]
  BY <1>1, RulebooksAssumption
<1> QED BY <1>2, <1>3, <1>4 DEF Applied, LeadsTo

\* The next job gets a rule exactly when it is the first of its owner and the
\* operator has none.
LEMMA NextIsEffective ==
    ASSUME RulesTypeOK, Inv, done < Len(jobs)
    PROVE  Effective(done + 1) <=> ~Routed(rules, jobs[done + 1])
<1> DEFINE j == jobs[done + 1]
<1>1. done \in Nat /\ j \in Job /\ j.owner \in Owners /\ (done + 1) - 1 = done
  BY NextJob
<1>2. Effective(done + 1) <=> ~Routed(fileRules, j) /\ ~Applied(j.owner)
  BY <1>1 DEF Effective, Applied
<1>3. CASE j.owner \in Users
  <2>1. \A s : Routed(s, j) <=> HasRule(s, j.owner)
    BY <1>3 DEF Routed, HasRule, SameKey, ExitOf
  <2>2. HasRule(rules, j.owner) <=> HasRule(fileRules, j.owner) \/ Applied(j.owner)
    BY <1>3 DEF Inv
  <2> HIDE DEF j
  <2> QED BY <1>2, <2>1, <2>2 DEF j
<1>4. CASE j.owner \in Policies
  <2>1. \A s : Routed(s, j) => LeadsTo(s, Tag[j.owner])
    BY DEF Routed, LeadsTo, SameKey, ExitOf
  <2>2. ~Applied(j.owner) /\ ~LeadsTo(fileRules, Tag[j.owner])
    BY <1>4, NextPolicy
  <2>3. ~LeadsTo(rules, Tag[j.owner])
    BY <1>4, <2>2 DEF Inv
  <2> HIDE DEF j
  <2> QED BY <1>2, <2>1, <2>2, <2>3 DEF j
<1> QED BY <1>1, <1>3, <1>4 DEF Owners

\* Where the rule of the next job goes.
LEMMA NextPlace ==
    ASSUME RulesTypeOK, done < Len(jobs), NEW a \in 1..Len(rules), Top(rules, a)
    PROVE  LET j == jobs[done + 1]
               n == Place(rules, j)
           IN  /\ n \in 1..PolicyPlace(rules)
               /\ n \in 1..(Len(rules) + 1)
               /\ ~IsCatchAll(RuleOf(j))
               /\ j.owner \in Users => n = a
               /\ j.owner \in Policies => n = PolicyPlace(rules) /\ n > a
<1> DEFINE j == jobs[done + 1]
<1>1. rules \in Seq(Rule) /\ Len(rules) \in Nat /\ j \in Job /\ j.owner \in Owners
  BY NextJob
<1>2. UserPlace(rules) = a /\ PolicyPlace(rules) \in (a + 1)..(Len(rules) + 1)
  BY <1>1, TopPlaces
<1>3. CASE j.owner \in Users
  <2>1. RuleOf(j).user # NoUser
    BY <1>1, <1>3, RuleOfType, NamesAssumption DEF Owners
  <2>2. j.owner \notin Policies
    BY <1>3, NamesAssumption
  <2> QED BY <1>1, <1>2, <1>3, <2>1, <2>2 DEF Place, IsCatchAll
<1>4. CASE j.owner \in Policies
  <2>1. RuleOf(j).inbounds # {}
    BY <1>1, <1>4, RuleOfType, NextPolicy
  <2>2. j.owner \notin Users
    BY <1>4, NamesAssumption
  <2> QED BY <1>1, <1>2, <1>4, <2>1, <2>2 DEF Place, IsCatchAll
<1> QED BY <1>1, <1>3, <1>4 DEF Owners

(***************************************************************************)
(* One job.                                                                *)
(***************************************************************************)
LEMMA ApplyTypes == RulesTypeOK /\ Apply => RulesTypeOK'
<1> SUFFICES ASSUME RulesTypeOK, Apply PROVE RulesTypeOK'
  OBVIOUS
<1> DEFINE j == jobs[done + 1]
<1>1. /\ done < Len(jobs) /\ done' = done + 1 /\ fileRules' = fileRules /\ jobs' = jobs
      /\ exits' = WithServer(j)
      /\ rules' = IF Routed(rules, j) THEN rules
                  ELSE Insert(rules, Place(rules, j), RuleOf(j))
  BY DEF Apply
<1>2. /\ done + 1 \in 1..Len(jobs) /\ done \in Nat /\ j \in Job /\ rules \in Seq(Rule)
      /\ RuleOf(j) \in Rule
  BY <1>1, NextJob, RuleOfType
<1>3. rules' \in Seq(Rule)
  <2>1. UserPlace(rules) \in 1..(Len(rules) + 1)
    <3>1. {i \in DOMAIN rules : IsBroad(rules[i])} \in SUBSET DOMAIN rules
      OBVIOUS
    <3> QED BY <1>2, <3>1, FirstOfIs DEF UserPlace
  <2>2. PolicyPlace(rules) \in 1..(Len(rules) + 1)
    BY <1>2, PolicyPlaceIs
  <2>3. Place(rules, j) \in 1..(Len(rules) + 1)
    BY <2>1, <2>2 DEF Place
  <2> HIDE DEF j
  <2>4. Insert(rules, Place(rules, j), RuleOf(j)) \in Seq(Rule)
    BY <1>2, <2>3, Inserted
  <2> QED BY <1>1, <1>2, <2>4
<1>4. exits' \in [Exits -> Job \cup {Operator, Missing}]
  BY <1>1, <1>2 DEF WithServer, RulesTypeOK
<1>5. done' \in 0..Len(jobs)
  BY <1>1, <1>2, JobsType DEF RulesTypeOK
<1> QED BY <1>1, <1>3, <1>4, <1>5 DEF RulesTypeOK

\* What Decided reads, after a job: the rest of it does not change.
LEMMA ConcernedNext ==
    ASSUME RulesTypeOK, done < Len(jobs), done' = done + 1, fileRules' = fileRules, jobs' = jobs,
           NEW CONSTANT O, NEW CONSTANT c
    PROVE  /\ Early(c)' <=> Early(c)
           /\ Route(fileRules, c)' = Route(fileRules, c)
           /\ \A k \in 1..Len(jobs) : Effective(k)' <=> Effective(k)
           /\ Concerned(O, c)' = Concerned(O, c) \cup
                 (IF /\ jobs[done + 1].owner \in O
                     /\ Effective(done + 1)
                     /\ Matches(RuleOf(jobs[done + 1]), c)
                  THEN {done + 1} ELSE {})
<1>1. done + 1 \in 1..Len(jobs) /\ done \in Nat
  BY NextJob
<1>2. Early(c)' <=> Early(c)
  BY DEF Early, Hits
<1>3. Route(fileRules, c)' = Route(fileRules, c)
  BY DEF Route, Hits
<1>4. ASSUME NEW CONSTANT k PROVE Effective(k)' <=> Effective(k)
  BY DEF Effective, Routed
<1>5. ASSUME NEW CONSTANT k
      PROVE  k \in Concerned(O, c)' <=>
                k \in 1..(done + 1) /\ jobs[k].owner \in O /\ Effective(k)
                    /\ Matches(RuleOf(jobs[k]), c)
  BY <1>4 DEF Concerned
<1>6. ASSUME NEW CONSTANT k
      PROVE  k \in Concerned(O, c) <=>
                k \in 1..done /\ jobs[k].owner \in O /\ Effective(k)
                    /\ Matches(RuleOf(jobs[k]), c)
  BY DEF Concerned
<1>7. \A k : k \in 1..(done + 1) <=> k \in 1..done \/ k = done + 1
  BY <1>1
<1>8. ASSUME NEW CONSTANT k
      PROVE  k \in Concerned(O, c)' <=>
                \/ k \in Concerned(O, c)
                \/ /\ k = done + 1
                   /\ jobs[k].owner \in O /\ Effective(k) /\ Matches(RuleOf(jobs[k]), c)
  BY <1>5, <1>6, <1>7
<1>9. Concerned(O, c)' = Concerned(O, c) \cup
          (IF /\ jobs[done + 1].owner \in O
              /\ Effective(done + 1)
              /\ Matches(RuleOf(jobs[done + 1]), c)
           THEN {done + 1} ELSE {})
  BY <1>8
<1> QED BY <1>2, <1>3, <1>4, <1>9

LEMMA AppliedNext ==
    ASSUME RulesTypeOK, done < Len(jobs), done' = done + 1, jobs' = jobs, NEW CONSTANT o
    PROVE  Applied(o)' <=> Applied(o) \/ o = jobs[done + 1].owner
<1>1. done \in Nat /\ done + 1 \in 1..(done + 1)
  BY NextJob
<1>2. \A k : k \in 1..(done + 1) <=> k \in 1..done \/ k = done + 1
  BY <1>1
<1> QED BY <1>2 DEF Applied

\* A job whose key has a rule already leaves the routing as it is.
LEMMA SkipStep ==
    ASSUME RulesTypeOK, Inv, Apply, Routed(rules, jobs[done + 1])
    PROVE  Inv'
<1> DEFINE j == jobs[done + 1]
<1>1. done < Len(jobs) /\ done' = done + 1 /\ fileRules' = fileRules /\ jobs' = jobs /\ rules' = rules
  BY DEF Apply
<1>2. ~Effective(done + 1)
  BY <1>1, NextIsEffective
<1>3. ASSUME NEW CONSTANT O, NEW CONSTANT c PROVE Concerned(O, c)' = Concerned(O, c)
  BY <1>1, <1>2, ConcernedNext
<1>4. j.owner \in Users /\ HasRule(rules, j.owner)
  <2>1. j.owner \in Users
    <3> SUFFICES ASSUME j.owner \in Policies PROVE FALSE
      BY <1>1, NextJob DEF Owners
    <3>1. ~Applied(j.owner)
      BY <1>1, NextPolicy
    <3>2. LeadsTo(rules, Tag[j.owner])
      BY DEF Routed, LeadsTo, SameKey, ExitOf
    <3> QED BY <3>1, <3>2 DEF Inv
  <2> QED BY <2>1 DEF Routed, HasRule, SameKey, ExitOf
<1>5. \E a \in 1..Len(rules') : Top(rules', a)
  BY <1>1 DEF Inv
<1>6. ASSUME NEW CONSTANT u \in Users
      PROVE  HasRule(rules', u) <=> HasRule(fileRules', u) \/ Applied(u)'
  <2>1. HasRule(rules, u) <=> HasRule(fileRules, u) \/ Applied(u)
    BY DEF Inv
  <2>2. Applied(u)' <=> Applied(u) \/ u = j.owner
    BY <1>1, AppliedNext
  <2> QED BY <1>1, <1>4, <2>1, <2>2
<1>7. ASSUME NEW CONSTANT p \in Policies, LeadsTo(rules', Tag[p]) PROVE Applied(p)'
  <2>1. Applied(p)
    BY <1>1, <1>7 DEF Inv
  <2> QED BY <1>1, <2>1, AppliedNext
<1>8. ASSUME NEW CONSTANT c \in Connection
      PROVE  SettledEarly(rules', c) <=> \/ c.inbound = ApiTag
                                    \/ Concerned(Users, c)' # {}
                                    \/ Early(c)'
                                    \/ Concerned(Policies, c)' # {}
  <2>1. Early(c)' <=> Early(c)
    BY <1>1, ConcernedNext
  <2> QED BY <1>1, <1>3, <2>1 DEF Inv
<1>9. ASSUME NEW CONSTANT c \in Connection PROVE Route(rules', c) = Decided(c)'
  <2>1. (Early(c)' <=> Early(c)) /\ Route(fileRules, c)' = Route(fileRules, c)
    BY <1>1, ConcernedNext
  <2>2. Concerned(Users, c)' = Concerned(Users, c) /\ Concerned(Policies, c)' = Concerned(Policies, c)
    BY <1>3
  <2>3. Route(rules, c) = Decided(c)
    BY DEF Inv, RoutesAsDecided
  <2>4. Decided(c)' = Decided(c)
    BY <1>1, <2>1, <2>2 DEF Decided
  <2> QED BY <1>1, <2>3, <2>4
<1>10. RoutesAsDecided'
  BY <1>9 DEF RoutesAsDecided
<1> QED BY <1>5, <1>6, <1>7, <1>8, <1>10 DEF Inv

\* The rule of a job routes what it is to route, and nothing else.
LEMMA AddedRoutes ==
    ASSUME RulesTypeOK, Inv, Apply, ~Routed(rules, jobs[done + 1]),
           NEW CONSTANT c \in Connection
    PROVE  Route(rules', c) = Decided(c)'
<1> DEFINE j == jobs[done + 1]
           r == RuleOf(j)
           n == Place(rules, j)
<1>1. /\ done < Len(jobs) /\ done' = done + 1 /\ fileRules' = fileRules /\ jobs' = jobs
      /\ rules' = Insert(rules, n, r)
  BY DEF Apply
<1>2. /\ rules \in Seq(Rule) /\ j \in Job /\ j.owner \in Owners /\ r \in Rule
      /\ r.exit = Tag[j.owner] /\ done \in Nat /\ done + 1 \in 1..Len(jobs)
      /\ r.inbounds = j.scope /\ j.scope \in SUBSET Tags
  <2>1. rules \in Seq(Rule) /\ j \in Job /\ j.owner \in Owners /\ done \in Nat
            /\ done + 1 \in 1..Len(jobs)
    BY <1>1, NextJob
  <2>2. r \in Rule /\ r.exit = Tag[j.owner] /\ r.inbounds = j.scope
    BY <2>1, RuleOfType
  <2> QED BY <2>1, <2>2 DEF Job
<1>3. PICK a \in 1..Len(rules) : Top(rules, a)
  BY DEF Inv
<1>4. /\ n \in 1..(Len(rules) + 1)
      /\ j.owner \in Users => n = a
      /\ j.owner \in Policies => n = PolicyPlace(rules)
  BY <1>1, <1>3, NextPlace
<1>5. Effective(done + 1)
  BY <1>1, NextIsEffective
<1>6. (Early(c)' <=> Early(c)) /\ Route(fileRules, c)' = Route(fileRules, c)
  BY <1>1, ConcernedNext
<1>7. ASSUME NEW CONSTANT O
      PROVE  Concerned(O, c)' = Concerned(O, c) \cup
                 (IF j.owner \in O /\ Matches(r, c) THEN {done + 1} ELSE {})
  BY <1>1, <1>5, ConcernedNext
<1>8. Route(rules, c) = Decided(c)
  BY DEF Inv, RoutesAsDecided
<1>9. SettledEarly(rules, c) <=> \/ c.inbound = ApiTag
                            \/ Concerned(Users, c) # {}
                            \/ Early(c)
                            \/ Concerned(Policies, c) # {}
  BY DEF Inv
<1>10. c.inbound = ApiTag => c.user = NoUser
  BY NamesAssumption DEF Connection
<1>11. ExitOf(j) = Tag[j.owner]
  BY DEF ExitOf
<1>12. ASSUME NEW CONSTANT k PROVE ExitOf(jobs[k])' = ExitOf(jobs[k])
  BY <1>1 DEF ExitOf
<1> HIDE DEF r, n
<1>13. CASE ~Matches(r, c)
  <2>1. Route(rules', c) = Route(rules, c)
    BY <1>1, <1>2, <1>4, <1>13, RouteKept
  <2>2. Concerned(Users, c)' = Concerned(Users, c) /\ Concerned(Policies, c)' = Concerned(Policies, c)
    BY <1>7, <1>13
  <2>3. Decided(c)' = Decided(c)
    BY <1>1, <1>6, <2>2 DEF Decided
  <2> QED BY <1>8, <2>1, <2>3
<1>14. CASE Matches(r, c) /\ j.owner \in Users
  <2>1. r.user = j.owner /\ j.owner # NoUser
    BY <1>2, <1>14, RuleOfType, NamesAssumption DEF r, Owners
  <2>2. c.user = j.owner
    BY <1>14, <2>1, NamesAssumption DEF Matches, Owners
  <2>3. ASSUME NEW k \in 1..(n - 1) PROVE ~Matches(rules[k], c)
    <3>1. rules[k].user \in Users /\ rules[k].exit = Tag[rules[k].user] /\ k \in DOMAIN rules
      BY <1>2, <1>3, <1>4, <1>14 DEF Top
    <3>2. ~SameKey(rules[k], j)
      BY <3>1 DEF Routed
    <3>3. rules[k].user # j.owner
      BY <1>11, <1>14, <3>1, <3>2 DEF SameKey
    <3>4. rules[k].user # NoUser
      BY <3>1, NamesAssumption DEF Owners
    <3> QED BY <2>2, <3>3, <3>4 DEF Matches
  <2>4. Route(rules', c) = Tag[c.user]
    BY <1>1, <1>2, <1>4, <1>14, <2>2, <2>3, RouteInserted
  <2>5. Concerned(Users, c)' # {}
    BY <1>7, <1>14
  <2>6. c.inbound # ApiTag
    BY <1>10, <2>1, <2>2
  <2> QED BY <2>4, <2>5, <2>6 DEF Decided
<1>15. CASE Matches(r, c) /\ j.owner \in Policies
  <2>1. j.scope # {} /\ j.owner \notin Users
    BY <1>1, <1>15, NextPolicy, NamesAssumption
  <2>2. c.inbound # ApiTag
    BY <1>2, <1>15, <2>1, NamesAssumption DEF Matches
  <2>3. Concerned(Users, c)' = Concerned(Users, c)
    BY <1>7, <2>1
  <2>4. Concerned(Policies, c)' = Concerned(Policies, c) \cup {done + 1}
    BY <1>7, <1>15
  <2>5. Concerned(Policies, c) \in SUBSET Nat /\ \A k \in Concerned(Policies, c) : k < done + 1
    BY <1>2 DEF Concerned
  <2>6. CASE SettledEarly(rules, c)
    <3>1. Route(rules', c) = Route(rules, c)
      <4>1. \E k \in 1..(n - 1) : Matches(rules[k], c)
        BY <1>4, <1>15, <2>6 DEF SettledEarly
      <4> QED BY <1>1, <1>2, <1>4, <4>1, RouteKept
    <3>2. CASE Concerned(Users, c) # {} \/ Early(c)
      <4>1. Decided(c)' = Decided(c)
        BY <1>1, <1>6, <2>2, <2>3, <3>2 DEF Decided
      <4> QED BY <1>8, <3>1, <4>1
    <3>3. CASE Concerned(Users, c) = {} /\ ~Early(c)
      <4>1. Concerned(Policies, c) # {}
        BY <1>9, <2>2, <2>6, <3>3
      <4>2. PICK k \in Concerned(Policies, c) :
                k = Least(Concerned(Policies, c)) /\ \A m \in Concerned(Policies, c) : k <= m
        BY <2>5, <4>1, LeastExists
      <4>3. k \in Nat /\ k <= done + 1
        BY <1>2, <2>5
      <4>4. Least(Concerned(Policies, c) \cup {done + 1}) = k
        <5>1. Concerned(Policies, c) \cup {done + 1} \in SUBSET Nat
          BY <1>2, <2>5
        <5>2. \A m \in Concerned(Policies, c) \cup {done + 1} : k <= m
          BY <4>2, <4>3
        <5> QED BY <4>2, <5>1, <5>2, LeastIs
      <4>5. Decided(c) = ExitOf(jobs[Least(Concerned(Policies, c))])
        BY <2>2, <3>3, <4>1 DEF Decided
      <4>6. Decided(c)' = ExitOf(jobs[Least(Concerned(Policies, c)')])
        <5>1. ~Early(c)' /\ Concerned(Users, c)' = {} /\ Concerned(Policies, c)' # {}
          BY <1>6, <2>3, <2>4, <3>3
        <5> QED BY <1>1, <2>2, <5>1 DEF Decided, ExitOf
      <4>7. Decided(c)' = Decided(c)
        BY <2>4, <4>2, <4>4, <4>5, <4>6
      <4> QED BY <1>8, <3>1, <4>7
    <3> QED BY <3>2, <3>3
  <2>7. CASE ~SettledEarly(rules, c)
    <3>1. Route(rules', c) = Tag[j.owner]
      <4>1. \A k \in 1..(n - 1) : ~Matches(rules[k], c)
        BY <1>4, <1>15, <2>7 DEF SettledEarly
      <4> QED BY <1>1, <1>2, <1>4, <1>15, <4>1, RouteInserted
    <3>2. Concerned(Users, c) = {} /\ ~Early(c) /\ Concerned(Policies, c) = {}
      BY <1>9, <2>7
    <3>3. Concerned(Policies, c)' = {done + 1}
      BY <2>4, <3>2
    <3>4. Least({done + 1}) = done + 1
      BY <1>2, LeastIs
    <3>5. ~Early(c)' /\ Concerned(Users, c)' = {} /\ Concerned(Policies, c)' # {}
      BY <1>6, <2>3, <3>2, <3>3
    <3>6. Decided(c)' = ExitOf(jobs[Least(Concerned(Policies, c)')])
      BY <1>1, <2>2, <3>5 DEF Decided, ExitOf
    <3>7. Decided(c)' = Tag[j.owner]
      BY <1>11, <3>3, <3>4, <3>6
    <3> QED BY <3>1, <3>7
  <2> QED BY <2>6, <2>7
<1> QED BY <1>2, <1>13, <1>14, <1>15 DEF Owners

\* A job that gets a rule.
LEMMA AddStep ==
    ASSUME RulesTypeOK, Inv, Apply, ~Routed(rules, jobs[done + 1])
    PROVE  Inv'
<1> DEFINE j == jobs[done + 1]
           r == RuleOf(j)
           n == Place(rules, j)
<1>1. /\ done < Len(jobs) /\ done' = done + 1 /\ fileRules' = fileRules /\ jobs' = jobs
      /\ rules' = Insert(rules, n, r)
  BY DEF Apply
<1>2. /\ rules \in Seq(Rule) /\ j \in Job /\ j.owner \in Owners /\ r \in Rule
      /\ r.exit = Tag[j.owner] /\ done \in Nat /\ done + 1 \in 1..Len(jobs)
      /\ j.owner \in Users => r.user = j.owner
      /\ j.owner \in Policies => r.user = NoUser
  <2>1. rules \in Seq(Rule) /\ j \in Job /\ j.owner \in Owners /\ done \in Nat
            /\ done + 1 \in 1..Len(jobs)
    BY <1>1, NextJob
  <2> QED BY <2>1, RuleOfType
<1>3. PICK a \in 1..Len(rules) : Top(rules, a)
  BY DEF Inv
<1>4. /\ n \in 1..PolicyPlace(rules)
      /\ n \in 1..(Len(rules) + 1)
      /\ ~IsCatchAll(r)
      /\ j.owner \in Users => n = a
      /\ j.owner \in Policies => n > a
  BY <1>1, <1>3, NextPlace
<1>5. Effective(done + 1)
  BY <1>1, NextIsEffective
<1>6. ASSUME NEW CONSTANT c
      PROVE  /\ Early(c)' <=> Early(c)
             /\ \A O : Concerned(O, c)' = Concerned(O, c) \cup
                    (IF j.owner \in O /\ Matches(r, c) THEN {done + 1} ELSE {})
  <2>1. Early(c)' <=> Early(c)
    BY <1>1, ConcernedNext
  <2>2. ASSUME NEW CONSTANT O
        PROVE  Concerned(O, c)' = Concerned(O, c) \cup
                    (IF j.owner \in O /\ Matches(r, c) THEN {done + 1} ELSE {})
    BY <1>1, <1>5, ConcernedNext
  <2> QED BY <2>1, <2>2
<1>7. ASSUME NEW CONSTANT o PROVE Applied(o)' <=> Applied(o) \/ o = j.owner
  BY <1>1, AppliedNext
<1>8. /\ \A u : HasRule(rules', u) <=> HasRule(rules, u) \/ (r.user = u /\ r.exit = Tag[u])
      /\ \A t : LeadsTo(rules', t) <=> LeadsTo(rules, t) \/ r.exit = t
  BY <1>1, <1>2, <1>4, RulesAfterInsert
<1> HIDE DEF r, n
<1>9. \E b \in 1..Len(rules') : Top(rules', b)
  <2>1. /\ Len(rules') = Len(rules) + 1
        /\ rules'[n] = r
        /\ \A i \in 1..(n - 1) : rules'[i] = rules[i]
        /\ \A i \in n..Len(rules) : rules'[i + 1] = rules[i]
    <3>1. rules' = Insert(rules, n, r)
      BY <1>1
    <3>2. rules \in Seq(Rule) /\ r \in Rule /\ n \in 1..(Len(rules) + 1)
      BY <1>2, <1>4
    <3>3. IsInserted(Insert(rules, n, r), rules, n, r)
      BY <3>2, InsertInserts
    <3> QED BY <3>1, <3>3 DEF IsInserted
  <2>2. /\ Len(rules) \in Nat /\ a \in 1..Len(rules) /\ rules[a] = ApiRule
        /\ \A i \in 1..(a - 1) : rules[i].user \in Users /\ rules[i].exit = Tag[rules[i].user]
    BY <1>2, <1>3 DEF Top
  <2>3. CASE j.owner \in Users
    <3>1. a + 1 \in 1..Len(rules') /\ rules'[a + 1] = ApiRule
      BY <1>4, <2>1, <2>2, <2>3
    <3>2. ASSUME NEW i \in 1..((a + 1) - 1)
          PROVE  rules'[i].user \in Users /\ rules'[i].exit = Tag[rules'[i].user]
      <4>1. CASE i = a
        BY <1>2, <1>4, <2>1, <2>3, <4>1
      <4>2. CASE i # a
        <5>1. i \in 1..(a - 1) /\ i \in 1..(n - 1)
          BY <1>4, <2>2, <2>3, <4>2
        <5> QED BY <2>1, <2>2, <5>1
      <4> QED BY <4>1, <4>2
    <3>3. Top(rules', a + 1)
      BY <3>1, <3>2 DEF Top
    <3> QED BY <3>1, <3>3
  <2>4. CASE j.owner \in Policies
    <3>1. a \in 1..Len(rules') /\ rules'[a] = ApiRule
      BY <1>4, <2>1, <2>2, <2>4
    <3>2. ASSUME NEW i \in 1..(a - 1)
          PROVE  rules'[i].user \in Users /\ rules'[i].exit = Tag[rules'[i].user]
      <4>1. i \in 1..(n - 1)
        BY <1>4, <2>2, <2>4
      <4> QED BY <2>1, <2>2, <4>1
    <3>3. Top(rules', a)
      BY <3>1, <3>2 DEF Top
    <3> QED BY <3>1, <3>3
  <2> QED BY <1>2, <2>3, <2>4 DEF Owners
<1>10. ASSUME NEW CONSTANT u \in Users
       PROVE  HasRule(rules', u) <=> HasRule(fileRules', u) \/ Applied(u)'
  <2>1. HasRule(rules, u) <=> HasRule(fileRules, u) \/ Applied(u)
    BY DEF Inv
  <2>2. r.user = u /\ r.exit = Tag[u] <=> u = j.owner
    <3>1. CASE j.owner \in Users
      BY <1>2, <3>1
    <3>2. CASE j.owner \in Policies
      BY <1>2, <3>2, NamesAssumption DEF Owners
    <3> QED BY <1>2, <3>1, <3>2 DEF Owners
  <2>3. Applied(u)' <=> Applied(u) \/ u = j.owner
    BY <1>7
  <2> QED BY <1>1, <1>8, <2>1, <2>2, <2>3
<1>11. ASSUME NEW CONSTANT p \in Policies, LeadsTo(rules', Tag[p]) PROVE Applied(p)'
  <2>1. LeadsTo(rules, Tag[p]) => Applied(p)
    BY DEF Inv
  <2>2. LeadsTo(rules, Tag[p]) \/ Tag[p] = Tag[j.owner]
    BY <1>2, <1>8, <1>11
  <2>3. Tag[p] = Tag[j.owner] => p = j.owner
    BY <1>2, TagAssumption DEF Owners
  <2>4. Applied(p)' <=> Applied(p) \/ p = j.owner
    BY <1>7
  <2> QED BY <2>1, <2>2, <2>3, <2>4
<1>12. ASSUME NEW CONSTANT c \in Connection
       PROVE  SettledEarly(rules', c) <=> \/ c.inbound = ApiTag
                                     \/ Concerned(Users, c)' # {}
                                     \/ Early(c)'
                                     \/ Concerned(Policies, c)' # {}
  <2>1. SettledEarly(rules', c) <=> SettledEarly(rules, c) \/ Matches(r, c)
    BY <1>1, <1>2, <1>4, SettledInserted
  <2>2. SettledEarly(rules, c) <=> \/ c.inbound = ApiTag
                              \/ Concerned(Users, c) # {}
                              \/ Early(c)
                              \/ Concerned(Policies, c) # {}
    BY DEF Inv
  <2>3. Concerned(Users, c)' # {} <=>
            Concerned(Users, c) # {} \/ (j.owner \in Users /\ Matches(r, c))
    BY <1>6
  <2>4. Concerned(Policies, c)' # {} <=>
            Concerned(Policies, c) # {} \/ (j.owner \in Policies /\ Matches(r, c))
    BY <1>6
  <2>5. Early(c)' <=> Early(c)
    BY <1>6
  <2>6. j.owner \in Users \/ j.owner \in Policies
    BY <1>2 DEF Owners
  <2> QED BY <2>1, <2>2, <2>3, <2>4, <2>5, <2>6
<1>13. RoutesAsDecided'
  <2>1. ASSUME NEW CONSTANT c \in Connection PROVE Route(rules', c) = Decided(c)'
    BY AddedRoutes
  <2> QED BY <2>1 DEF RoutesAsDecided
<1> QED BY <1>9, <1>10, <1>11, <1>12, <1>13 DEF Inv

\* The rules of the file below that of the API.
LEMMA InitInv == RulesInit => Inv
<1> SUFFICES ASSUME RulesInit PROVE Inv
  OBVIOUS
<1>1. /\ fileRules \in Seq(Rule) /\ fileRules \in Rulebooks /\ done = 0
      /\ rules = Insert(fileRules, 1, ApiRule)
      /\ Len(fileRules) \in Nat
  BY FileRulesType DEF RulesInit
<1>2. 1 \in 1..(Len(fileRules) + 1) /\ 1 \in 1..PolicyPlace(fileRules)
  BY <1>1, PolicyPlaceIs
<1>3. /\ rules \in Seq(Rule)
      /\ Len(rules) = Len(fileRules) + 1
      /\ rules[1] = ApiRule
  BY <1>1, <1>2, ApiRuleType, Inserted
<1>4. ASSUME NEW O, NEW c PROVE Concerned(O, c) = {}
  <2>1. 1..done = {}
    BY <1>1
  <2> QED BY <2>1 DEF Concerned
<1>5. ASSUME NEW o PROVE ~Applied(o)
  <2>1. 1..done = {}
    BY <1>1
  <2> QED BY <2>1 DEF Applied
<1>6. Top(rules, 1) /\ 1 \in 1..Len(rules)
  <2>1. 1..(1 - 1) = {}
    OBVIOUS
  <2> QED BY <1>1, <1>3, <2>1 DEF Top
<1>7. /\ \A u : HasRule(rules, u) <=> HasRule(fileRules, u) \/ (ApiRule.user = u /\ ApiRule.exit = Tag[u])
      /\ \A t : LeadsTo(rules, t) <=> LeadsTo(fileRules, t) \/ ApiRule.exit = t
  BY <1>1, <1>2, ApiRuleType, RulesAfterInsert
<1>8. ASSUME NEW u \in Users PROVE HasRule(rules, u) <=> HasRule(fileRules, u) \/ Applied(u)
  <2>1. ApiRule.user # u
    BY NamesAssumption DEF ApiRule, Owners
  <2> QED BY <1>5, <1>7, <2>1
<1>9. ASSUME NEW p \in Policies PROVE ~LeadsTo(rules, Tag[p])
  <2>1. ApiRule.exit # Tag[p]
    BY TagAssumption DEF ApiRule, Owners
  <2>2. ~LeadsTo(fileRules, Tag[p])
    BY <1>1, RulebooksAssumption DEF LeadsTo
  <2> QED BY <1>7, <2>1, <2>2
<1>10. ASSUME NEW c PROVE SettledEarly(fileRules, c) <=> Early(c)
  <2>1. /\ PolicyPlace(fileRules) \in 1..(Len(fileRules) + 1)
        /\ \A i \in 1..(PolicyPlace(fileRules) - 1) : ~IsCatchAll(fileRules[i])
        /\ PolicyPlace(fileRules) <= Len(fileRules) => IsCatchAll(fileRules[PolicyPlace(fileRules)])
    BY <1>1, PolicyPlaceIs
  <2>2. ASSUME NEW i \in 1..(PolicyPlace(fileRules) - 1), Matches(fileRules[i], c) PROVE Early(c)
    <3>1. i \in Hits(fileRules, c)
      BY <1>1, <2>1, <2>2 DEF Hits
    <3>2. \A k \in 1..i : ~IsCatchAll(fileRules[k])
      BY <2>1
    <3> QED BY <3>1, <3>2 DEF Early
  <2>3. ASSUME NEW i \in Hits(fileRules, c), \A k \in 1..i : ~IsCatchAll(fileRules[k])
        PROVE  SettledEarly(fileRules, c)
    <3>1. i \in 1..Len(fileRules) /\ Matches(fileRules[i], c)
      BY <1>1 DEF Hits
    <3>2. ~(PolicyPlace(fileRules) <= i)
      BY <2>1, <2>3, <3>1
    <3>3. i \in 1..(PolicyPlace(fileRules) - 1)
      BY <2>1, <3>1, <3>2
    <3> QED BY <3>1, <3>3 DEF SettledEarly
  <2> QED BY <2>2, <2>3 DEF SettledEarly, Early
<1>11. ASSUME NEW c \in Connection
       PROVE  SettledEarly(rules, c) <=> \/ c.inbound = ApiTag
                                    \/ Concerned(Users, c) # {}
                                    \/ Early(c)
                                    \/ Concerned(Policies, c) # {}
  <2>1. SettledEarly(rules, c) <=> SettledEarly(fileRules, c) \/ Matches(ApiRule, c)
    BY <1>1, <1>2, ApiRuleType, SettledInserted
  <2> QED BY <1>4, <1>10, <2>1, ApiRuleType
<1>12. ASSUME NEW c \in Connection PROVE Route(rules, c) = Decided(c)
  <2>1. CASE c.inbound = ApiTag
    <3>1. Matches(ApiRule, c) /\ \A k \in 1..(1 - 1) : ~Matches(fileRules[k], c)
      BY <2>1, ApiRuleType
    <3>2. Route(rules, c) = ApiRule.exit
      BY <1>1, <1>2, <3>1, ApiRuleType, RouteInserted
    <3> QED BY <2>1, <3>2 DEF Decided, ApiRule
  <2>2. CASE c.inbound # ApiTag
    <3>1. ~Matches(ApiRule, c)
      BY <2>2, ApiRuleType
    <3>2. Route(rules, c) = Route(fileRules, c)
      BY <1>1, <1>2, <3>1, ApiRuleType, RouteKept
    <3>3. Decided(c) = Route(fileRules, c)
      BY <1>4, <2>2 DEF Decided
    <3> QED BY <3>2, <3>3
  <2> QED BY <2>1, <2>2
<1>13. RoutesAsDecided
  BY <1>12 DEF RoutesAsDecided
<1> QED BY <1>6, <1>8, <1>9, <1>11, <1>13 DEF Inv

(***************************************************************************)
(* Servers.                                                                *)
(***************************************************************************)
LEMMA InitServers == RulesInit => ServerInv
<1> SUFFICES ASSUME RulesInit PROVE ServerInv
  OBVIOUS
<1>1. done = 0 /\ \A t \in Exits : exits[t] \in {Operator, Missing}
  BY DEF RulesInit
<1>2. ASSUME NEW o \in Owners PROVE exits[Tag[o]] \notin Job
  BY <1>1, TagAssumption, NamesAssumption
<1>3. 1..done = {}
  BY <1>1
<1>4. ServersMatch
  BY <1>3 DEF ServersMatch
<1> QED BY <1>2, <1>4 DEF ServerInv

\* The first job of an owner finds no server but one of the operator's.
LEMMA ServerStep == RulesTypeOK /\ ServerInv /\ Apply => ServerInv'
<1> SUFFICES ASSUME RulesTypeOK, ServerInv, Apply PROVE ServerInv'
  OBVIOUS
<1> DEFINE j == jobs[done + 1]
<1>1. /\ done < Len(jobs) /\ done' = done + 1 /\ fileRules' = fileRules /\ jobs' = jobs
      /\ exits' = [exits EXCEPT ![ExitOf(j)] = IF @ = Missing THEN j ELSE @]
  BY DEF Apply, WithServer
<1>2. /\ done \in Nat /\ done + 1 \in 1..Len(jobs) /\ j \in Job /\ j.owner \in Owners
      /\ exits \in [Exits -> Job \cup {Operator, Missing}]
      /\ ExitOf(j) = Tag[j.owner] /\ Tag[j.owner] \in Exits
  <2>1. done \in Nat /\ done + 1 \in 1..Len(jobs) /\ j \in Job /\ j.owner \in Owners
    BY <1>1, NextJob
  <2> QED BY <2>1, RuleOfType DEF RulesTypeOK
<1>3. ASSUME NEW CONSTANT o PROVE Applied(o)' <=> Applied(o) \/ o = j.owner
  BY <1>1, AppliedNext
<1>4. ASSUME NEW CONSTANT k PROVE ExitOf(jobs[k])' = ExitOf(jobs[k]) /\ jobs'[k] = jobs[k]
  BY <1>1 DEF ExitOf
<1>5. ASSUME NEW CONSTANT k PROVE Effective(k)' <=> Effective(k)
  BY <1>1 DEF Effective, Routed
<1> HIDE DEF j
<1>6. ASSUME NEW CONSTANT o \in Owners, exits'[Tag[o]] \in Job PROVE Applied(o)'
  <2>1. Tag[o] \in Exits /\ (Tag[o] = Tag[j.owner] => o = j.owner)
    BY <1>2, TagAssumption
  <2>2. CASE o = j.owner
    BY <1>3, <2>2
  <2>3. CASE o # j.owner
    <3>1. exits'[Tag[o]] = exits[Tag[o]]
      BY <1>1, <1>2, <2>1, <2>3
    <3>2. Applied(o)
      BY <1>6, <3>1 DEF ServerInv
    <3> QED BY <1>3, <3>2
  <2> QED BY <2>2, <2>3
<1>7. ASSUME NEW CONSTANT k \in 1..(done + 1), Effective(k)
      PROVE  exits'[ExitOf(jobs[k])] \in {jobs[k], Operator}
  <2>1. CASE k = done + 1
    <3>1. ~Applied(j.owner)
      <4>1. (done + 1) - 1 = done
        BY <1>2
      <4> QED BY <1>7, <2>1, <4>1 DEF Effective, Applied, j
    <3>2. exits[ExitOf(j)] \in {Operator, Missing}
      BY <1>2, <3>1 DEF ServerInv
    <3>3. exits'[ExitOf(j)] \in {j, Operator}
      BY <1>1, <1>2, <3>2
    <3> QED BY <2>1, <3>3 DEF j
  <2>2. CASE k # done + 1
    <3>1. k \in 1..done
      BY <1>2, <2>2
    <3>2. exits[ExitOf(jobs[k])] \in {jobs[k], Operator}
      BY <1>7, <3>1 DEF ServerInv, ServersMatch
    <3>3. jobs[k] \in Job
      BY <1>2, <3>1, JobsType DEF RulesTypeOK
    <3>4. exits[ExitOf(jobs[k])] # Missing /\ ExitOf(jobs[k]) \in Exits
      BY <3>2, <3>3, NamesAssumption, RuleOfType
    <3>5. exits'[ExitOf(jobs[k])] = exits[ExitOf(jobs[k])]
      BY <1>1, <1>2, <3>4
    <3> QED BY <3>2, <3>5
  <2> QED BY <2>1, <2>2
<1>8. ServersMatch'
  <2> SUFFICES ASSUME NEW CONSTANT k \in (1..done)', Effective(k)'
               PROVE  (exits[ExitOf(jobs[k])] \in {jobs[k], Operator})'
    BY DEF ServersMatch
  <2>1. k \in 1..(done + 1) /\ Effective(k)
    BY <1>1, <1>5
  <2> QED BY <1>4, <1>7, <2>1
<1> QED BY <1>6, <1>8 DEF ServerInv

(***************************************************************************)
(* The theorems.                                                           *)
(***************************************************************************)
LEMMA NextInv == RulesTypeOK /\ Inv /\ [RulesNext]_rulesVars => Inv'
<1> SUFFICES ASSUME RulesTypeOK, Inv, [RulesNext]_rulesVars PROVE Inv'
  OBVIOUS
<1>1. CASE Apply
  BY <1>1, SkipStep, AddStep
<1>2. CASE UNCHANGED rulesVars
  <2>1. fileRules' = fileRules /\ jobs' = jobs /\ done' = done /\ rules' = rules
    BY <1>2 DEF rulesVars
  <2>2. ASSUME NEW CONSTANT k PROVE Effective(k)' <=> Effective(k)
    BY <2>1 DEF Effective, Routed
  <2>3. ASSUME NEW CONSTANT O, NEW CONSTANT c PROVE Concerned(O, c)' = Concerned(O, c)
    BY <2>1, <2>2 DEF Concerned
  <2>4. ASSUME NEW CONSTANT c
        PROVE  (Early(c)' <=> Early(c)) /\ Route(fileRules, c)' = Route(fileRules, c)
    BY <2>1 DEF Early, Hits, Route
  <2>5. ASSUME NEW CONSTANT o PROVE Applied(o)' <=> Applied(o)
    BY <2>1 DEF Applied
  <2>6. ASSUME NEW CONSTANT c \in Connection PROVE Route(rules', c) = Decided(c)'
    <3>1. Decided(c)' = Decided(c)
      BY <2>1, <2>3, <2>4 DEF Decided, ExitOf
    <3> QED BY <2>1, <3>1 DEF Inv, RoutesAsDecided
  <2>7. RoutesAsDecided'
    BY <2>6 DEF RoutesAsDecided
  <2>8. \A u \in Users : HasRule(rules', u) <=> HasRule(fileRules', u) \/ Applied(u)'
    BY <2>1, <2>5 DEF Inv
  <2>9. \A p \in Policies : LeadsTo(rules', Tag[p]) => Applied(p)'
    BY <2>1, <2>5 DEF Inv
  <2>10. ASSUME NEW CONSTANT c \in Connection
         PROVE  SettledEarly(rules', c) <=> \/ c.inbound = ApiTag
                                       \/ Concerned(Users, c)' # {}
                                       \/ Early(c)'
                                       \/ Concerned(Policies, c)' # {}
    BY <2>1, <2>3, <2>4 DEF Inv
  <2>11. \E a \in 1..Len(rules') : Top(rules', a)
    BY <2>1 DEF Inv
  <2> QED BY <2>7, <2>8, <2>9, <2>10, <2>11 DEF Inv
<1> QED BY <1>1, <1>2 DEF RulesNext

LEMMA NextServers == RulesTypeOK /\ ServerInv /\ [RulesNext]_rulesVars => ServerInv'
<1> SUFFICES ASSUME RulesTypeOK, ServerInv, [RulesNext]_rulesVars PROVE ServerInv'
  OBVIOUS
<1>1. CASE Apply
  BY <1>1, ServerStep
<1>2. CASE UNCHANGED rulesVars
  BY <1>2 DEF rulesVars, ServerInv, ServersMatch, Effective, Applied, Routed, ExitOf
<1> QED BY <1>1, <1>2 DEF RulesNext

\* The list stays a list of rules, every outbound has the server of a job, of
\* the operator or none (apply_user_outbounds, apply_node_outbound_policies).
THEOREM RulesTypes == RulesSpec => []RulesTypeOK
<1>1. RulesTypeOK /\ [RulesNext]_rulesVars => RulesTypeOK'
  <2>1. RulesTypeOK /\ UNCHANGED rulesVars => RulesTypeOK'
    BY DEF RulesTypeOK, rulesVars
  <2> QED BY <2>1, ApplyTypes DEF RulesNext
<1> QED BY <1>1, InitTypes, PTL DEF RulesSpec

\* What the code decides is what its docstrings say, but for the departures.
LEMMA DecidedAsSaid ==
    ASSUME RulesTypeOK, NEW c \in Connection, ~Departs(c)
    PROVE  Decided(c) = Expected(c)
<1>1. CASE c.inbound = ApiTag
  BY <1>1 DEF Decided, Expected
<1>2. CASE c.inbound # ApiTag
  <2>1. Concerned(Users, c) \subseteq Asked(Users, c)
    BY DEF Concerned, Asked
  <2>2. Concerned(Users, c) = {} => ~(Asked(Users, c) # {})
    BY DEF Departs, Unheard
  <2>3. NarrowHead(c) => Concerned(Users, c) = {}
    BY DEF Departs, Overtaken
  <2>4. Early(c) => Claimed(c)
    BY DEF Early, Claimed, IsCatchAll
  <2>5. NarrowHead(c) => Claimed(c)
    BY DEF NarrowHead, Claimed
  <2>6. Claimed(c) /\ Concerned(Policies, c) # {} => Early(c)
    BY DEF Departs, Misplaced
  <2>7. Concerned(Policies, c) = Asked(Policies, c)
    <3>1. done <= Len(jobs) /\ done \in Nat /\ jobs \in Plans /\ jobs \in Seq(Job)
      BY PlansAssumption DEF RulesTypeOK
    <3>2. SUFFICES ASSUME NEW k \in 1..done, jobs[k].owner \in Policies
                   PROVE  Effective(k)
      BY <3>2 DEF Asked, Concerned
    <3>3. k \in DOMAIN jobs
      BY <3>1
    <3>4. ~Routed(fileRules, jobs[k])
      BY <3>2, RulebooksAssumption DEF RulesTypeOK, Routed, SameKey, ExitOf
    <3>5. ASSUME NEW i \in 1..(k - 1) PROVE jobs[i].owner # jobs[k].owner
      <4>1. i \in DOMAIN jobs /\ i < k
        BY <3>1
      <4> QED BY <3>1, <3>2, <3>3, <4>1, PlansAssumption
    <3> QED BY <3>4, <3>5 DEF Effective
  <2>8. CASE NarrowHead(c)
    BY <1>2, <2>3, <2>5, <2>6, <2>8 DEF Decided, Expected
  <2>9. CASE ~NarrowHead(c) /\ Asked(Users, c) # {}
    BY <1>2, <2>2, <2>9 DEF Decided, Expected
  <2>10. CASE ~NarrowHead(c) /\ Asked(Users, c) = {}
    BY <1>2, <2>1, <2>4, <2>6, <2>7, <2>10 DEF Decided, Expected
  <2> QED BY <2>8, <2>9, <2>10
<1> QED BY <1>1, <1>2

\* Whatever rules the file has, and however many outbounds and policies come:
\* the API stays reachable, narrow rules at the head of the file keep their
\* connections, the outbound of a user takes the user's, a policy those of its
\* inbounds that nothing before a catch-all has claimed, and all others go
\* where the file sends them, unless the code departs from what its docstrings
\* say (Departs).
THEOREM RoutingIsExpected == RulesSpec => []RoutesAsExpected
<1>1. RulesTypeOK /\ Inv => RoutesAsExpected
  BY DecidedAsSaid DEF Inv, RoutesAsDecided, RoutesAsExpected
<1> QED BY <1>1, RulesTypes, InitInv, NextInv, PTL DEF RulesSpec

\* The rule that was added for an outbound leads to the server of that
\* outbound, or to one that the operator gave its tag.
THEOREM ServersAreRight == RulesSpec => []ServersMatch
<1>1. ServerInv => ServersMatch
  BY DEF ServerInv
<1> QED BY <1>1, RulesTypes, InitServers, NextServers, PTL DEF RulesSpec

-----------------------------------------------------------------------------
(***************************************************************************)
(* XrayBackend: the process.                                               *)
(***************************************************************************)
USE ProcsAssumption, FilesAssumption, CallersAssumption, SettingsAssumption,
    MaxEventsAssumption

(***************************************************************************)
(* Pieces of the actions.                                                  *)
(***************************************************************************)
LEMMA GotoTypes ==
    ASSUME TypeOK, NEW a \in Actors,
           NEW l \in {"idle", "lock", "stop", "sleep"} \cup StartSteps, Goto(a, l)
    PROVE  /\ pc' \in [Actors -> {"idle", "lock", "stop", "sleep"} \cup StartSteps]
           /\ arg' \in [Actors -> Files \cup BadFiles \cup {Bare}]
BY DEF TypeOK, Goto

LEMMA ReturnTypes ==
    ASSUME TypeOK, NEW a \in Actors, Return(a)
    PROVE  /\ pc' \in [Actors -> {"idle", "lock", "stop", "sleep"} \cup StartSteps]
           /\ arg' \in [Actors -> Files \cup BadFiles \cup {Bare}]
BY DEF TypeOK, Return

LEMMA StartHeadTypes ==
    ASSUME TypeOK, NEW a \in Actors, NEW f \in Files \cup BadFiles, StartHead(a, f)
    PROVE  /\ disk' \in Files \cup BadFiles
           /\ config' \in Config
           /\ torn' \in BOOLEAN
           /\ pc' \in [Actors -> {"idle", "lock", "stop", "sleep"} \cup StartSteps]
           /\ arg' \in [Actors -> Files \cup BadFiles \cup {Bare}]
<1>1. disk' \in Files \cup BadFiles /\ torn' \in BOOLEAN
  BY DEF StartHead, Overlapping
<1>2. config' \in Config
  BY DEF StartHead, Config, Ports, TypeOK
<1>3. Goto(a, "read") \/ Return(a)
  BY DEF StartHead
<1>4. "read" \in {"idle", "lock", "stop", "sleep"} \cup StartSteps
  BY DEF StartSteps
<1> QED
  BY <1>1, <1>2, <1>3, <1>4, GotoTypes, ReturnTypes

LEMMA AfterStopTypes ==
    ASSUME TypeOK, NEW a \in Actors, AfterStop(a)
    PROVE  /\ disk' \in Files \cup BadFiles
           /\ config' \in Config
           /\ claimed' \in Files \cup {NoFile}
           /\ torn' \in BOOLEAN
           /\ plan' \in [Actors -> Config \cup {NoPlan}]
           /\ pc' \in [Actors -> {"idle", "lock", "stop", "sleep"} \cup StartSteps]
           /\ arg' \in [Actors -> Files \cup BadFiles \cup {Bare}]
<1>1. CASE arg[a] = Bare
  <2>1. Goto(a, "spawn") /\ "spawn" \in {"idle", "lock", "stop", "sleep"} \cup StartSteps
    BY <1>1 DEF AfterStop, StartSteps
  <2>2. plan' \in [Actors -> Config \cup {NoPlan}] /\ torn' \in BOOLEAN
    BY <1>1 DEF AfterStop, TypeOK, Overlapping
  <2>3. UNCHANGED <<disk, config, claimed>>
    BY <1>1 DEF AfterStop
  <2> QED
    BY <2>1, <2>2, <2>3, GotoTypes DEF TypeOK
<1>2. CASE arg[a] # Bare
  <2>1. arg[a] \in Files \cup BadFiles /\ StartHead(a, arg[a])
    BY <1>2 DEF AfterStop, TypeOK
  <2>2. claimed' = NoFile /\ UNCHANGED plan
    BY <1>2 DEF AfterStop
  <2> QED
    BY <2>1, <2>2, StartHeadTypes DEF TypeOK
<1> QED
  BY <1>1, <1>2

LEMMA CallersAct == Callers \subseteq Actors /\ Watchdogs \subseteq Actors
BY DEF Actors

(***************************************************************************)
(* Types.                                                                  *)
(***************************************************************************)
LEMMA TypeInit == Init => TypeOK
<1>0. SUFFICES ASSUME NEW f \in Files, NEW p \in Procs, NEW slow \in BOOLEAN,
                    LET c == [file |-> f, port |-> "main"]
                    IN  /\ autoRestart \in Settings
                        /\ disk = f
                        /\ config = c
                        /\ claimed = f
                        /\ api = "main"
                        /\ armed = TRUE
                        /\ handle = p
                        /\ given = c
                        /\ proc = [x \in Procs |->
                              [life |-> IF x # p THEN "dead"
                                        ELSE IF slow THEN "booting" ELSE "up",
                               captured |-> x = p]]
                        /\ terminating = NoProc
                        /\ stopEvent = FALSE
                        /\ leaked = slow
                        /\ pc = [a \in Actors |-> "idle"]
                        /\ arg = [a \in Actors |-> Bare]
                        /\ plan = [a \in Actors |-> NoPlan]
                        /\ torn = FALSE
                        /\ events = 0
               PROVE  TypeOK
  BY ZenonT(60) DEF Init
<1>1. [file |-> f, port |-> "main"] \in Config
  BY DEF Config, Ports
<1>2. proc \in [Procs -> Process]
  BY <1>0 DEF Process
<1>3. /\ pc \in [Actors -> {"idle", "lock", "stop", "sleep"} \cup StartSteps]
      /\ arg \in [Actors -> Files \cup BadFiles \cup {Bare}]
      /\ plan \in [Actors -> Config \cup {NoPlan}]
  BY <1>0
<1>4. /\ config \in Config /\ given \in Config
      /\ disk \in Files \cup BadFiles
      /\ claimed \in Files \cup {NoFile}
      /\ api \in Ports
  BY <1>0, <1>1 DEF Ports
<1>5. autoRestart \in BOOLEAN
  BY <1>0
<1>6. /\ armed \in BOOLEAN /\ stopEvent \in BOOLEAN
      /\ leaked \in BOOLEAN /\ torn \in BOOLEAN
  BY <1>0, Zenon
<1>7. /\ handle \in Procs \cup {NoProc}
      /\ terminating \in Procs \cup {NoProc}
      /\ events \in 0..MaxEvents
  BY <1>0
<1> QED
  BY <1>2, <1>3, <1>4, <1>5, <1>6, <1>7 DEF TypeOK

LEMMA TypeStep == TypeOK /\ [Next]_vars => TypeOK'
<1> SUFFICES ASSUME TypeOK, [Next]_vars
             PROVE  TypeOK'
  OBVIOUS
<1> USE CallersAct
<1>1. ASSUME NEW a \in Callers, NEW f \in Files \cup BadFiles \cup {Bare}, RestartBackend(a, f)
      PROVE  TypeOK'
  BY <1>1 DEF RestartBackend, TypeOK, fields, runner
<1>2. ASSUME NEW a \in Callers, Acquire(a)
      PROVE  TypeOK'
  <2>1. armed' \in BOOLEAN
    BY <1>2 DEF Acquire, TypeOK
  <2>2. CASE Running
    <3>1. handle \in Procs /\ proc' = [proc EXCEPT ![handle].life = "stopping"]
      BY <1>2, <2>2 DEF Acquire, Running, TypeOK
    <3>2. proc' \in [Procs -> Process]
      BY <3>1 DEF TypeOK, Process
    <3>3. terminating' \in Procs \cup {NoProc}
      BY <1>2, <2>2, <3>1 DEF Acquire
    <3>4. Goto(a, "stop")
      BY <1>2, <2>2 DEF Acquire
    <3>5. UNCHANGED <<disk, config, claimed, plan, torn>>
      BY <1>2, <2>2 DEF Acquire
    <3> QED
      BY <1>2, <2>1, <3>2, <3>3, <3>4, <3>5, GotoTypes DEF Acquire, TypeOK
  <2>3. CASE ~Running
    <3>1. AfterStop(a) /\ UNCHANGED <<proc, terminating>>
      BY <1>2, <2>3 DEF Acquire
    <3> QED
      BY <1>2, <2>1, <3>1, AfterStopTypes DEF Acquire, TypeOK
  <2> QED
    BY <2>2, <2>3
<1>3. ASSUME NEW a \in Callers, Stopped(a)
      PROVE  TypeOK'
  BY <1>3, AfterStopTypes DEF Stopped, TypeOK
<1>4. ASSUME NEW a \in Callers, Killed(a)
      PROVE  TypeOK'
  <2>1. CASE handle # NoProc
    <3>1. AfterStop(a) /\ handle \in Procs
      BY <1>4, <2>1 DEF Killed, TypeOK
    <3>2. proc' \in [Procs -> Process]
      BY <1>4, <2>1, <3>1 DEF Killed, TypeOK, Process
    <3> QED
      BY <1>4, <3>1, <3>2, AfterStopTypes DEF Killed, TypeOK
  <2>2. CASE handle = NoProc
    <3>1. Return(a) /\ torn' = TRUE /\ UNCHANGED <<disk, config, claimed, plan, proc>>
      BY <1>4, <2>2 DEF Killed
    <3> QED
      BY <1>4, <3>1, ReturnTypes DEF Killed, TypeOK
  <2> QED
    BY <2>1, <2>2
<1>5. ASSUME NEW a \in Actors, Read(a)
      PROVE  TypeOK'
  <2>1. claimed' \in Files \cup {NoFile} /\ api' \in Ports
    BY <1>5 DEF Read, TypeOK, Config, Ports
  <2>2. "spawn" \in {"idle", "lock", "stop", "sleep"} \cup StartSteps
    BY DEF StartSteps
  <2>3. Return(a) \/ Goto(a, "spawn")
    BY <1>5 DEF Read
  <2>4. plan' \in [Actors -> Config \cup {NoPlan}] /\ torn' \in BOOLEAN
    BY <1>5, ZenonT(60) DEF Read, TypeOK
  <2> QED
    BY <1>5, <2>1, <2>2, <2>3, <2>4, GotoTypes, ReturnTypes DEF Read, TypeOK, runner
<1>6. ASSUME NEW a \in Actors, Spawn(a)
      PROVE  TypeOK'
  <2>1. PICK p \in Procs :
           /\ Unused(p)
           /\ proc' = [proc EXCEPT ![p] = [life |-> "booting", captured |-> FALSE]]
           /\ handle' = p
    BY <1>6 DEF Spawn
  <2>2. proc' \in [Procs -> Process] /\ handle' \in Procs
    BY <2>1 DEF TypeOK, Process
  <2>3. Goto(a, "write") /\ "write" \in StartSteps
    BY <1>6 DEF Spawn, StartSteps
  <2>4. plan' \in [Actors -> Config \cup {NoPlan}]
    BY <1>6 DEF Spawn, TypeOK
  <2>5. given' \in Config \cup {NoPlan}
    BY <1>6 DEF Spawn, TypeOK
  <2> QED
    BY <1>6, <2>2, <2>3, <2>4, <2>5, GotoTypes DEF Spawn, TypeOK, fields, history
<1>7. ASSUME NEW a \in Actors, Written(a)
      PROVE  TypeOK'
  <2>1. proc' \in [Procs -> Process]
    BY <1>7, ZenonT(60) DEF Written, TypeOK, Process
  <2>2. Goto(a, "wait") /\ "wait" \in StartSteps
    BY <1>7 DEF Written, StartSteps
  <2> QED
    BY <1>7, <2>1, <2>2, GotoTypes DEF Written, TypeOK, fields, history
<1>8. ASSUME NEW a \in Actors, WriteFails(a)
      PROVE  TypeOK'
  BY <1>8, ReturnTypes DEF WriteFails, TypeOK, fields, runner
<1>9. ASSUME NEW a \in Actors, Heard(a) \/ TimedOut(a)
      PROVE  TypeOK'
  <2>1. RunnerStarted(a) /\ leaked' \in BOOLEAN
    BY <1>9 DEF Heard, TimedOut, TypeOK
  <2>2. Return(a) \/ (Goto(a, "load") /\ "load" \in StartSteps)
    BY <2>1 DEF RunnerStarted, StartSteps
  <2>3. armed' \in BOOLEAN
    BY <2>1 DEF RunnerStarted, TypeOK
  <2> QED
    BY <2>1, <2>2, <2>3, GotoTypes, ReturnTypes DEF RunnerStarted, TypeOK, history
<1>10. ASSUME NEW a \in Actors, Loaded(a)
       PROVE  TypeOK'
  BY <1>10, ReturnTypes DEF Loaded, TypeOK, fields, runner, history
<1>11. ASSUME StopNoticed \/ Poll
       PROVE  TypeOK'
  <2>1. Recover("event") \/ Recover("poll")
    BY <1>11 DEF StopNoticed, Poll
  <2>2. Goto("event", "sleep") \/ Goto("poll", "sleep") \/ UNCHANGED <<pc, arg>>
    BY <2>1 DEF Recover
  <2>3. "event" \in Actors /\ "poll" \in Actors
    BY DEF Actors, Watchdogs
  <2>4. /\ pc' \in [Actors -> {"idle", "lock", "stop", "sleep"} \cup StartSteps]
        /\ arg' \in [Actors -> Files \cup BadFiles \cup {Bare}]
    BY <2>2, <2>3, GotoTypes DEF TypeOK
  <2> QED
    BY <1>11, <2>4 DEF StopNoticed, Poll, TypeOK, fields, runner, history
<1>12. ASSUME NEW a \in Watchdogs, Wake(a)
       PROVE  TypeOK'
  <2>1. CASE Running \/ RestartLocked
    BY <1>12, <2>1, ReturnTypes DEF Wake, TypeOK, runner
  <2>2. CASE ~(Running \/ RestartLocked)
    <3>1. StartHead(a, disk) /\ disk \in Files \cup BadFiles
      BY <1>12, <2>2 DEF Wake, TypeOK
    <3> QED
      BY <1>12, <3>1, StartHeadTypes DEF Wake, TypeOK, runner
  <2> QED
    BY <2>1, <2>2
<1>13. ASSUME NEW p \in Procs, Xray(p) \/ Die(p)
       PROVE  TypeOK'
  <2> DEFINE Others == UNCHANGED <<autoRestart, fields, handle, given, terminating, leaked,
                                  actors, torn>>
  <2>1. ASSUME ComeUp(p) \/ PortsTaken(p) \/ Exit(p)
        PROVE  TypeOK'
    <3>1. proc' \in [Procs -> Process] /\ UNCHANGED <<stopEvent, events>> /\ Others
      BY <2>1 DEF ComeUp, PortsTaken, Exit, TypeOK, Process, history
    <3> QED
      BY <3>1 DEF TypeOK, fields, actors
  <2>2. ASSUME OutputEnds(p)
        PROVE  TypeOK'
    <3>1. proc' \in [Procs -> Process]
      BY <2>2, ZenonT(60) DEF OutputEnds, TypeOK, Process
    <3>2. stopEvent' = TRUE /\ UNCHANGED events /\ Others
      BY <2>2 DEF OutputEnds, history
    <3> QED
      BY <3>1, <3>2 DEF TypeOK, fields, actors
  <2>3. ASSUME Die(p)
        PROVE  TypeOK'
    <3>1. proc' \in [Procs -> Process]
      BY <2>3 DEF Die, TypeOK, Process
    <3>2. events' \in 0..MaxEvents /\ UNCHANGED stopEvent /\ Others
      BY <2>3 DEF Die, TypeOK
    <3> QED
      BY <3>1, <3>2 DEF TypeOK, fields, actors
  <2> QED
    BY <1>13, <2>1, <2>2, <2>3 DEF Xray
<1>14. ASSUME NEW a \in Callers, Cancel(a)
       PROVE  TypeOK'
  <2>1. plan' \in [Actors -> Config \cup {NoPlan}]
    BY <1>14 DEF Cancel, TypeOK
  <2>2. /\ torn' \in BOOLEAN /\ leaked' \in BOOLEAN
        /\ terminating' \in Procs \cup {NoProc}
        /\ events' \in 0..MaxEvents
    BY <1>14 DEF Cancel, TypeOK
  <2> QED
    BY <1>14, <2>1, <2>2, ReturnTypes DEF Cancel, TypeOK, fields
<1>15. CASE UNCHANGED vars
  BY <1>15 DEF vars, fields, runner, actors, history, TypeOK
<1> QED
  BY <1>1, <1>2, <1>3, <1>4, <1>5, <1>6, <1>7, <1>8, <1>9, <1>10, <1>11, <1>12, <1>13,
     <1>14, <1>15 DEF Next, System, Restarting, Start

\* Every reachable state is well typed.
THEOREM TypeCorrect == Spec => []TypeOK
BY TypeInit, TypeStep, PTL DEF Spec

(***************************************************************************)
(* The restart lock: OneHolder.                                            *)
(***************************************************************************)
LEMMA HolderInit == Init => OneHolder
BY CallersAct DEF Init, OneHolder, Holding, InStart, StartSteps

\* Whoever holds the lock after a step held it before, unless the step took it
\* while it was free and left the other handlers where they were.
LEMMA LockStep ==
    ASSUME TypeOK, [Next]_vars
    PROVE  \/ \A b \in Callers : Holding(b)' => Holding(b)
           \/ /\ ~RestartLocked
              /\ \E a \in Callers : \A b \in Callers \ {a} : pc'[b] = pc[b]
<1> USE CallersAct
<1> DEFINE Kept == \A b \in Callers : Holding(b)' => Holding(b)
<1>1. ASSUME NEW a \in Actors, Return(a)
      PROVE  Kept
  BY <1>1 DEF Return, TypeOK, Holding, InStart, StartSteps
<1>2. ASSUME NEW a \in Actors, NEW l, Goto(a, l), InStart(a) \/ l \notin StartSteps \cup {"stop"}
      PROVE  Kept
  BY <1>2 DEF Goto, TypeOK, Holding, InStart
<1>3. ASSUME NEW a \in Watchdogs, NEW l, Goto(a, l)
      PROVE  Kept
  BY <1>3, CallersAssumption DEF Goto, TypeOK, Holding, InStart
<1>4. ASSUME NEW a \in Callers, NEW l, Goto(a, l) \/ Return(a)
      PROVE  \A b \in Callers \ {a} : pc'[b] = pc[b]
  BY <1>4 DEF Goto, Return, TypeOK
<1>5. ASSUME UNCHANGED pc
      PROVE  Kept
  BY <1>5 DEF Holding, InStart
<1>6. ASSUME NEW a \in Callers, NEW f \in Files \cup BadFiles \cup {Bare}, RestartBackend(a, f)
      PROVE  Kept
  BY <1>6 DEF RestartBackend, TypeOK, Holding, InStart, StartSteps
<1>7. ASSUME NEW a \in Callers, Acquire(a)
      PROVE  ~RestartLocked /\ \A b \in Callers \ {a} : pc'[b] = pc[b]
  <2>1. ~RestartLocked
    BY <1>7 DEF Acquire
  <2>2. \E l : Goto(a, l) \/ Return(a)
    BY <1>7 DEF Acquire, AfterStop, StartHead
  <2> QED
    BY <2>1, <2>2, <1>4
<1>8. ASSUME NEW a \in Callers, Stopped(a) \/ Killed(a)
      PROVE  Kept
  <2>1. pc[a] = "stop" /\ Holding(a)
    BY <1>8 DEF Stopped, Killed, Holding
  <2>2. \E l : Goto(a, l) \/ Return(a)
    BY <1>8 DEF Stopped, Killed, AfterStop, StartHead
  <2>3. \A b \in Callers \ {a} : pc'[b] = pc[b]
    BY <2>2, <1>4
  <2> QED
    BY <2>1, <2>3 DEF Holding, InStart
<1>9. ASSUME NEW a \in Actors, Start(a)
      PROVE  Kept
  <2>1. InStart(a)
    BY <1>9 DEF Start, Read, Spawn, Written, WriteFails, Heard, TimedOut, Loaded, InStart,
                StartSteps
  <2>2. \E l : Goto(a, l) \/ Return(a)
    BY <1>9 DEF Start, Read, Spawn, Written, WriteFails, Heard, TimedOut, Loaded,
                RunnerStarted
  <2> QED
    BY <2>1, <2>2, <1>1, <1>2
<1>10. ASSUME StopNoticed \/ Poll
       PROVE  Kept
  <2>1. Goto("event", "sleep") \/ Goto("poll", "sleep") \/ UNCHANGED pc
    BY <1>10 DEF StopNoticed, Poll, Recover
  <2> QED
    BY <2>1, <1>3, <1>5 DEF Watchdogs
<1>11. ASSUME NEW a \in Watchdogs, Wake(a)
       PROVE  Kept
  <2>1. \E l : Goto(a, l) \/ Return(a)
    BY <1>11 DEF Wake, StartHead
  <2> QED
    BY <2>1, <1>1, <1>3
<1>12. ASSUME NEW p \in Procs, Xray(p) \/ Die(p)
       PROVE  Kept
  BY <1>12, <1>5 DEF Xray, ComeUp, PortsTaken, Exit, OutputEnds, Die, actors
<1>13. ASSUME NEW a \in Callers, Cancel(a)
       PROVE  Kept
  BY <1>13, <1>1 DEF Cancel
<1>14. CASE UNCHANGED vars
  BY <1>14, <1>5 DEF vars, actors
<1> QED
  BY <1>6, <1>7, <1>8, <1>9, <1>10, <1>11, <1>12, <1>13, <1>14
     DEF Next, System, Restarting

LEMMA HolderStep == TypeOK /\ OneHolder /\ [Next]_vars => OneHolder'
<1> SUFFICES ASSUME TypeOK, OneHolder, [Next]_vars
             PROVE  OneHolder'
  OBVIOUS
<1>1. CASE \A b \in Callers : Holding(b)' => Holding(b)
  BY <1>1 DEF OneHolder
<1>2. CASE ~RestartLocked /\ \E a \in Callers : \A b \in Callers \ {a} : pc'[b] = pc[b]
  <2>1. PICK a \in Callers : \A b \in Callers \ {a} : pc'[b] = pc[b]
    BY <1>2
  <2>2. \A b \in Callers \ {a} : ~Holding(b)'
    BY <1>2, <2>1 DEF RestartLocked, Holding, InStart
  <2> QED
    BY <2>2 DEF OneHolder
<1> QED
  BY <1>1, <1>2, LockStep

\* One RestartBackend handler at a time stops and starts xray.
THEOREM RestartsAreSerial == Spec => []OneHolder
BY TypeCorrect, HolderInit, HolderStep, PTL DEF Spec

(***************************************************************************)
(* No process left behind: Planned.                                        *)
(***************************************************************************)
LEMMA PlannedInit == Init => Planned
BY CallersAct DEF Init, Planned, OneProcess, Alive

\* What Planned says of a state in which XRAY_RESTART_ON_FAILURE is false.
Quiet == \A w \in Watchdogs : pc[w] = "idle"

Waiting ==
    /\ \A a \in Callers : pc[a] = "stop" => terminating = handle /\ handle # NoProc
    /\ \A a \in Callers : pc[a] = "spawn" => \A p \in Procs : ~Alive(p)

LEMMA PlannedStep == TypeOK /\ OneHolder /\ Planned /\ [Next]_vars => Planned'
<1> SUFFICES ASSUME TypeOK, OneHolder, Planned, [Next]_vars, ~autoRestart'
             PROVE  Quiet' /\ OneProcess' /\ Waiting'
  BY DEF Planned, Quiet, Waiting
<1> USE CallersAct
<1>0. /\ ~autoRestart
      /\ Quiet
      /\ OneProcess
      /\ Waiting
  BY DEF Planned, Quiet, Waiting, Next, System, Restarting, Start, Xray, RestartBackend,
         Acquire, Stopped, Killed, Read, Spawn, Written, WriteFails, Heard, TimedOut,
         RunnerStarted, Loaded, StopNoticed, Poll, Wake, ComeUp, PortsTaken, Exit,
         OutputEnds, Die, Cancel, vars
\* Steps of a handler leave the watchdogs alone.
<1>1. ASSUME NEW a \in Callers, NEW l, Goto(a, l) \/ Return(a)
      PROVE  /\ Quiet'
             /\ \A b \in Callers \ {a} : pc'[b] = pc[b]
  BY <1>0, <1>1, CallersAssumption DEF Goto, Return, TypeOK, Quiet
\* A handler that holds the lock is the only one that stops or starts.
<1>2. ASSUME NEW a \in Callers, Holding(a) \/ ~RestartLocked,
             NEW l, Goto(a, l) \/ Return(a)
      PROVE  \A b \in Callers \ {a} : pc'[b] # "stop" /\ pc'[b] # "spawn"
  BY <1>1, <1>2 DEF OneHolder, RestartLocked, Holding, InStart, StartSteps
<1>3. ASSUME NEW a \in Callers, Acquire(a)
      PROVE  Quiet' /\ OneProcess' /\ Waiting'
  <2>1. \E l : Goto(a, l) \/ Return(a)
    BY <1>3 DEF Acquire, AfterStop, StartHead
  <2>2. Quiet' /\ \A b \in Callers \ {a} : pc'[b] # "stop" /\ pc'[b] # "spawn"
    BY <1>1, <1>2, <1>3, <2>1 DEF Acquire
  <2>3. CASE Running
    <3>1. /\ proc' = [proc EXCEPT ![handle].life = "stopping"]
          /\ terminating' = handle
          /\ Goto(a, "stop")
          /\ handle' = handle
      BY <1>3, <2>3 DEF Acquire
    <3>2. OneProcess'
      BY <1>0, <3>1 DEF OneProcess, Alive, TypeOK
    <3>3. handle # NoProc /\ pc'[a] = "stop"
      BY <2>3, <3>1 DEF Running, Goto, TypeOK
    <3> QED
      BY <2>2, <3>1, <3>2, <3>3 DEF Waiting
  <2>4. CASE ~Running
    <3>1. AfterStop(a) /\ UNCHANGED <<proc, terminating, handle>>
      BY <1>3, <2>4 DEF Acquire
    <3>2. \A p \in Procs : ~Alive(p)
      BY <1>0, <2>4 DEF OneProcess, Running
    <3>3. \A p \in Procs : ~Alive(p)'
      BY <3>1, <3>2 DEF Alive
    <3>4. pc'[a] # "stop"
      BY <3>1 DEF AfterStop, StartHead, Goto, Return, TypeOK
    <3> QED
      BY <2>2, <3>3, <3>4 DEF Waiting, OneProcess
  <2> QED
    BY <2>3, <2>4
<1>4. ASSUME NEW a \in Callers, Stopped(a)
      PROVE  Quiet' /\ OneProcess' /\ Waiting'
  <2>1. \E l : Goto(a, l) \/ Return(a)
    BY <1>4 DEF Stopped, AfterStop, StartHead
  <2>2. Holding(a)
    BY <1>4 DEF Stopped, Holding
  <2>3. Quiet' /\ \A b \in Callers \ {a} : pc'[b] # "stop" /\ pc'[b] # "spawn"
    BY <1>1, <1>2, <2>1, <2>2
  <2>4. ~Alive(handle) /\ proc' = proc
    BY <1>0, <1>4 DEF Stopped, Waiting
  <2>5. \A p \in Procs : ~Alive(p)'
    BY <1>0, <2>4 DEF OneProcess, Alive
  <2>6. pc'[a] # "stop"
    BY <1>4 DEF Stopped, AfterStop, StartHead, Goto, Return, TypeOK
  <2> QED
    BY <2>3, <2>5, <2>6 DEF Waiting, OneProcess
<1>5. ASSUME NEW a \in Callers, Killed(a)
      PROVE  Quiet' /\ OneProcess' /\ Waiting'
  <2>1. handle # NoProc
    BY <1>0, <1>5 DEF Killed, Waiting
  <2>2. AfterStop(a) /\ proc' = [proc EXCEPT ![handle].life = "dead"]
    BY <1>5, <2>1 DEF Killed
  <2>3. \E l : Goto(a, l) \/ Return(a)
    BY <2>2 DEF AfterStop, StartHead
  <2>4. Holding(a)
    BY <1>5 DEF Killed, Holding
  <2>5. Quiet' /\ \A b \in Callers \ {a} : pc'[b] # "stop" /\ pc'[b] # "spawn"
    BY <1>1, <1>2, <2>3, <2>4
  <2>6. \A p \in Procs : ~Alive(p)'
    BY <1>0, <2>1, <2>2 DEF OneProcess, Alive, TypeOK
  <2>7. pc'[a] # "stop"
    BY <2>2 DEF AfterStop, StartHead, Goto, Return, TypeOK
  <2> QED
    BY <2>5, <2>6, <2>7 DEF Waiting, OneProcess
<1>6. ASSUME NEW a \in Actors, Start(a)
      PROVE  Quiet' /\ OneProcess' /\ Waiting'
  <2>1. InStart(a)
    BY <1>6 DEF Start, Read, Spawn, Written, WriteFails, Heard, TimedOut, Loaded, InStart,
                StartSteps
  <2>2. a \in Callers /\ Holding(a)
    BY <1>0, <2>1 DEF Quiet, InStart, StartSteps, Actors, Holding
  <2>3. \E l : Goto(a, l) \/ Return(a)
    BY <1>6 DEF Start, Read, Spawn, Written, WriteFails, Heard, TimedOut, Loaded,
                RunnerStarted
  <2>4. Quiet' /\ \A b \in Callers \ {a} : pc'[b] # "stop" /\ pc'[b] # "spawn"
    BY <1>1, <1>2, <2>2, <2>3
  <2>5. CASE Read(a)
    <3>1. UNCHANGED <<handle, proc, terminating>>
      BY <2>5 DEF Read, runner
    <3>2. OneProcess'
      BY <1>0, <3>1 DEF OneProcess, Alive
    <3>3. pc'[a] # "stop" /\ (pc'[a] = "spawn" => ~Running)
      BY <2>5 DEF Read, Goto, Return, TypeOK
    <3>4. ~Running => \A p \in Procs : ~Alive(p)
      BY <1>0 DEF OneProcess, Running
    <3> QED
      BY <2>4, <3>1, <3>2, <3>3, <3>4 DEF Waiting, Alive
  <2>6. CASE Spawn(a)
    <3>1. PICK p \in Procs :
             /\ proc' = [proc EXCEPT ![p] = [life |-> "booting", captured |-> FALSE]]
             /\ handle' = p
      BY <2>6 DEF Spawn
    <3>2. \A q \in Procs : ~Alive(q)
      BY <1>0, <2>2, <2>6 DEF Spawn, Waiting
    <3>3. OneProcess'
      BY <3>1, <3>2 DEF OneProcess, Alive, TypeOK
    <3>4. pc'[a] = "write"
      BY <2>6 DEF Spawn, Goto, TypeOK
    <3> QED
      BY <2>4, <3>3, <3>4 DEF Waiting
  <2>7. CASE ~Read(a) /\ ~Spawn(a)
    <3>1. handle' = handle /\ \A p \in Procs : Alive(p)' => Alive(p)
      <4>1. CASE Written(a)
        BY <4>1 DEF Written, Alive, TypeOK
      <4>2. CASE WriteFails(a) \/ Heard(a) \/ TimedOut(a) \/ Loaded(a)
        <5>1. UNCHANGED <<handle, proc>>
          BY <4>2 DEF WriteFails, Heard, TimedOut, RunnerStarted, Loaded, runner
        <5> QED
          BY <5>1 DEF Alive
      <4> QED
        BY <1>6, <2>7, <4>1, <4>2 DEF Start
    <3>2. OneProcess'
      BY <1>0, <3>1 DEF OneProcess
    <3>3. pc'[a] # "stop" /\ pc'[a] # "spawn"
      BY <1>6, <2>7 DEF Start, Written, WriteFails, Heard, TimedOut, RunnerStarted, Loaded,
                        Goto, Return, TypeOK
    <3> QED
      BY <2>4, <3>2, <3>3 DEF Waiting
  <2> QED
    BY <2>5, <2>6, <2>7
<1>7. ASSUME NEW a \in Callers, NEW f \in Files \cup BadFiles \cup {Bare}, RestartBackend(a, f)
      PROVE  Quiet' /\ OneProcess' /\ Waiting'
  <2>1. UNCHANGED <<handle, proc, terminating>>
    BY <1>7 DEF RestartBackend, runner
  <2>2. /\ pc'[a] = "lock"
        /\ \A b \in Actors \ {a} : pc'[b] = pc[b]
    BY <1>7 DEF RestartBackend, TypeOK
  <2>3. Quiet'
    BY <1>0, <2>2, CallersAssumption DEF Quiet
  <2> QED
    BY <1>0, <2>1, <2>2, <2>3 DEF OneProcess, Alive, Waiting
<1>8. ASSUME StopNoticed \/ Poll
      PROVE  Quiet' /\ OneProcess' /\ Waiting'
  <2>1. UNCHANGED <<handle, proc, terminating, pc>>
    BY <1>0, <1>8 DEF StopNoticed, Poll, Recover, runner
  <2> QED
    BY <1>0, <2>1 DEF Quiet, OneProcess, Alive, Waiting
<1>9. ASSUME NEW w \in Watchdogs, Wake(w)
      PROVE  FALSE
  BY <1>0, <1>9 DEF Wake, Quiet
<1>10. ASSUME NEW p \in Procs, Xray(p) \/ Die(p)
       PROVE  Quiet' /\ OneProcess' /\ Waiting'
  <2>1. UNCHANGED <<handle, terminating, pc>>
    BY <1>10 DEF Xray, ComeUp, PortsTaken, Exit, OutputEnds, Die, actors
  <2>2. \/ Alive(p) /\ \E l : proc' = [proc EXCEPT ![p].life = l]
        \/ proc' = [proc EXCEPT ![p].captured = FALSE]
    BY <1>10 DEF Xray, ComeUp, PortsTaken, Exit, OutputEnds, Die, Alive
  <2>3. \A q \in Procs : Alive(q)' => Alive(q)
    BY <2>2 DEF Alive, TypeOK, Process
  <2>4. Quiet' /\ OneProcess'
    BY <1>0, <2>1, <2>3 DEF Quiet, OneProcess
  <2> QED
    BY <1>0, <2>1, <2>3, <2>4 DEF Waiting
<1>11. ASSUME NEW a \in Callers, Cancel(a)
       PROVE  Quiet' /\ OneProcess' /\ Waiting'
  <2>1. UNCHANGED <<handle, proc>>
    BY <1>11 DEF Cancel
  <2>2. /\ pc'[a] = "idle"
        /\ \A b \in Actors \ {a} : pc'[b] = pc[b]
    BY <1>11 DEF Cancel, Return, TypeOK
  <2>3. \A b \in Callers \ {a} : pc[b] = "stop" => pc[a] # "stop"
    BY DEF OneHolder, Holding
  <2>4. pc[a] # "stop" => terminating' = terminating
    BY <1>11 DEF Cancel
  <2>5. Quiet'
    BY <1>0, <2>2, CallersAssumption DEF Quiet
  <2>6. OneProcess' /\ \A p \in Procs : Alive(p)' <=> Alive(p)
    BY <1>0, <2>1 DEF OneProcess, Alive
  <2>7. ASSUME NEW b \in Callers, pc'[b] = "stop"
        PROVE  terminating' = handle' /\ handle' # NoProc
    <3>1. b # a /\ pc[b] = "stop"
      BY <2>2, <2>7
    <3> QED
      BY <1>0, <2>1, <2>3, <2>4, <3>1 DEF Waiting
  <2>8. ASSUME NEW b \in Callers, pc'[b] = "spawn", NEW p \in Procs
        PROVE  ~Alive(p)'
    <3>1. pc[b] = "spawn"
      BY <2>2, <2>8
    <3> QED
      BY <1>0, <2>6, <3>1 DEF Waiting
  <2> QED
    BY <2>5, <2>6, <2>7, <2>8 DEF Waiting
<1>12. CASE UNCHANGED vars
  BY <1>0, <1>12 DEF vars, runner, actors, Quiet, OneProcess, Alive, Waiting
<1> QED
  BY <1>3, <1>4, <1>5, <1>6, <1>7, <1>8, <1>9, <1>10, <1>11, <1>12
     DEF Next, System, Restarting

\* RestartBackend calls alone never leave a process behind.
THEOREM PlannedStartsOneProcess == Spec => []PlannedOneProcess
<1>1. Planned => PlannedOneProcess
  BY DEF Planned, PlannedOneProcess
<1> QED
  BY <1>1, TypeCorrect, RestartsAreSerial, PlannedInit, PlannedStep, PTL DEF Spec


(***************************************************************************)
(* The fields of the backend and the process: Coherent.                    *)
(***************************************************************************)
\* A start that was neither cut short nor overlapped is the only one under
\* way, and nothing runs before it creates its process.
Alone ==
    \A a \in Actors :
        /\ InStart(a) => \A b \in Actors : InStart(b) => b = a
        /\ pc[a] \in {"read", "spawn"} => ~Running

\* What each step of it has still to write agrees with the fields.
OnTheWay ==
    \A a \in Actors :
        /\ pc[a] = "read" => config.port = a
        /\ pc[a] = "spawn" => plan[a] = config

\* The client and the tags are those of the configuration, but while they
\* are being read; a process that runs was given the same.
Settled ==
    /\ (\A a \in Actors : pc[a] # "read") => api = config.port /\ claimed = config.file
    /\ Running => given = config

Whole == ~torn => Alone /\ OnTheWay /\ Settled

LEMMA WholeInit == Init => Whole
<1> SUFFICES ASSUME Init PROVE Alone /\ OnTheWay /\ Settled
  BY DEF Whole
<1>1. \A a \in Actors : pc[a] = "idle"
  BY DEF Init
<1>2. api = config.port /\ claimed = config.file /\ given = config
  BY DEF Init
<1> QED
  BY <1>1, <1>2 DEF Alone, OnTheWay, Settled, InStart, StartSteps

\* A step that neither begins a start nor a process.
LEMMA WholeKept ==
    ASSUME TypeOK, Whole,
           UNCHANGED <<config, api, claimed, given, plan>>, ~torn' => ~torn,
           Running' => Running,
           \A a \in Actors : InStart(a)' => InStart(a),
           \A a \in Actors : pc'[a] \in {"read", "spawn"} => pc'[a] = pc[a],
           \A a \in Actors : pc[a] = "read" => pc'[a] = "read" \/ torn'
    PROVE  Whole'
BY DEF Whole, Alone, OnTheWay, Settled

\* A start begins, or its configuration is refused.
LEMMA WholeHead ==
    ASSUME TypeOK, NEW a \in Actors, NEW f \in Files \cup BadFiles, StartHead(a, f), ~Running'
    PROVE  Whole'
<1> SUFFICES ASSUME ~torn' PROVE Alone' /\ OnTheWay' /\ Settled'
  BY DEF Whole
<1>1. /\ config' = [file |-> f, port |-> a]
      /\ ~Overlapping(a)
      /\ pc' = [pc EXCEPT ![a] = "read"]
  BY DEF StartHead, Goto
<1>2. pc'[a] = "read" /\ \A b \in Actors \ {a} : pc'[b] = pc[b] /\ ~InStart(b)'
  BY <1>1 DEF TypeOK, Overlapping, InStart
<1>3. config'.port = a
  BY <1>1
<1> QED
  BY <1>2, <1>3 DEF Alone, OnTheWay, Settled, InStart, StartSteps

\* A bare restart gives the runner what the backend has.
LEMMA WholeAfterStop ==
    ASSUME TypeOK, Whole, NEW a \in Callers, AfterStop(a), ~InStart(a), ~Running',
           UNCHANGED <<api, given>>
    PROVE  Whole'
<1> USE CallersAct
<1>1. CASE arg[a] = Bare
  <2> SUFFICES ASSUME ~torn' PROVE Alone' /\ OnTheWay' /\ Settled'
    BY DEF Whole
  <2>1. /\ plan' = [plan EXCEPT ![a] = config]
        /\ ~torn /\ ~Overlapping(a)
        /\ pc' = [pc EXCEPT ![a] = "spawn"]
        /\ UNCHANGED <<config, claimed>>
    BY <1>1 DEF AfterStop, Goto, TypeOK
  <2>2. pc'[a] = "spawn" /\ \A b \in Actors \ {a} : pc'[b] = pc[b] /\ ~InStart(b)'
    BY <2>1 DEF TypeOK, Overlapping, InStart
  <2>3. \A b \in Actors : pc[b] # "read"
    BY <2>1 DEF Overlapping, InStart, StartSteps
  <2>4. plan'[a] = config'
    BY <2>1 DEF TypeOK
  <2>5. api' = config'.port /\ claimed' = config'.file
    BY <2>1, <2>3 DEF Whole, Settled
  <2> QED
    BY <2>2, <2>4, <2>5 DEF Alone, OnTheWay, Settled, InStart, StartSteps
<1>2. CASE arg[a] # Bare
  BY <1>2, WholeHead DEF AfterStop, TypeOK
<1> QED
  BY <1>1, <1>2

\* The steps of a start that go on with it.
LEMMA WholeStart ==
    ASSUME TypeOK, Whole, NEW a \in Actors, Start(a)
    PROVE  Whole'
<1>1. CASE Read(a)
  <2> SUFFICES ASSUME ~torn' PROVE Alone' /\ OnTheWay' /\ Settled'
    BY DEF Whole
  <2>1. /\ ~Running /\ ~torn
        /\ api' = a /\ claimed' = config.file
        /\ plan' = [plan EXCEPT ![a] = config]
        /\ pc' = [pc EXCEPT ![a] = "spawn"] /\ pc[a] = "read"
        /\ UNCHANGED <<config, handle, proc>>
    BY <1>1 DEF Read, Goto, runner
  <2>2. pc'[a] = "spawn" /\ plan'[a] = config /\ config.port = a
    BY <2>1 DEF TypeOK, Whole, OnTheWay
  <2>3. \A b \in Actors \ {a} : ~InStart(b)'
    BY <2>1 DEF Whole, Alone, InStart, StartSteps, TypeOK
  <2>4. ~Running'
    BY <2>1 DEF Running, Alive
  <2> QED
    BY <2>1, <2>2, <2>3, <2>4 DEF Alone, OnTheWay, Settled, InStart, StartSteps
<1>2. CASE Spawn(a)
  <2> SUFFICES ASSUME ~torn' PROVE Alone' /\ OnTheWay' /\ Settled'
    BY DEF Whole
  <2>1. /\ ~torn
        /\ UNCHANGED <<config, api, claimed>>
        /\ given' = plan[a]
        /\ pc' = [pc EXCEPT ![a] = "write"] /\ pc[a] = "spawn"
    BY <1>2 DEF Spawn, Goto, fields, history
  <2>2. given' = config'
    BY <2>1 DEF Whole, OnTheWay
  <2>3. pc'[a] = "write" /\ \A b \in Actors \ {a} : ~InStart(b) /\ ~InStart(b)'
    BY <2>1 DEF Whole, Alone, InStart, StartSteps, TypeOK
  <2>4. \A b \in Actors : pc[b] # "read"
    BY <2>1, <2>3 DEF InStart, StartSteps
  <2>5. api' = config'.port /\ claimed' = config'.file
    BY <2>1, <2>4 DEF Whole, Settled
  <2> QED
    BY <2>2, <2>3, <2>5 DEF Alone, OnTheWay, Settled, InStart, StartSteps
<1>3. CASE Written(a)
  <2>1. /\ UNCHANGED <<config, api, claimed, given, plan, torn, handle>>
        /\ pc' = [pc EXCEPT ![a] = "wait"] /\ pc[a] = "write"
        /\ proc' = [proc EXCEPT ![handle].captured = TRUE]
    BY <1>3 DEF Written, Goto, fields, history
  <2>2. Running' => Running
    BY <2>1 DEF Running, Alive, TypeOK, Process
  <2>3. \A b \in Actors : /\ InStart(b)' => InStart(b)
                          /\ pc'[b] \in {"read", "spawn"} => pc'[b] = pc[b]
                          /\ pc[b] = "read" => pc'[b] = "read"
    BY <2>1 DEF TypeOK, InStart, StartSteps
  <2> QED
    BY <2>1, <2>2, <2>3, WholeKept
<1>4. CASE WriteFails(a)
  BY <1>4 DEF WriteFails, Whole
<1>5. CASE Heard(a) \/ TimedOut(a) \/ Loaded(a)
  <2>1. /\ UNCHANGED <<config, api, claimed, given, plan, torn, handle, proc>>
        /\ pc[a] \in {"wait", "load"}
        /\ Goto(a, "load") \/ Return(a)
    BY <1>5 DEF Heard, TimedOut, RunnerStarted, Loaded, fields, runner, history
  <2>2. Running' => Running
    BY <2>1 DEF Running, Alive
  <2>3. \A b \in Actors : /\ InStart(b)' => InStart(b)
                          /\ pc'[b] \in {"read", "spawn"} => pc'[b] = pc[b]
                          /\ pc[b] = "read" => pc'[b] = "read"
    BY <2>1 DEF Goto, Return, TypeOK, InStart, StartSteps
  <2> QED
    BY <2>1, <2>2, <2>3, WholeKept
<1> QED
  BY <1>1, <1>2, <1>3, <1>4, <1>5 DEF Start

LEMMA WholeStep == TypeOK /\ Whole /\ [Next]_vars => Whole'
<1> SUFFICES ASSUME TypeOK, Whole, [Next]_vars
             PROVE  Whole'
  OBVIOUS
<1> USE CallersAct
\* Moves of the actors that no start notices.
<1>1. ASSUME NEW a \in Actors, ~InStart(a) \/ torn' \/ pc[a] = "load",
             NEW l \in {"idle", "lock", "stop", "sleep"}, pc' = [pc EXCEPT ![a] = l]
      PROVE  \A b \in Actors : /\ InStart(b)' => InStart(b)
                               /\ pc'[b] \in {"read", "spawn"} => pc'[b] = pc[b]
                               /\ pc[b] = "read" => pc'[b] = "read" \/ torn'
  BY <1>1 DEF TypeOK, InStart, StartSteps
<1>2. ASSUME NEW a \in Callers, NEW f \in Files \cup BadFiles \cup {Bare}, RestartBackend(a, f)
      PROVE  Whole'
  <2>1. /\ UNCHANGED <<config, api, claimed, given, plan, torn, handle, proc>>
        /\ ~InStart(a) /\ pc' = [pc EXCEPT ![a] = "lock"]
    BY <1>2 DEF RestartBackend, fields, runner, InStart, StartSteps
  <2>2. Running' => Running
    BY <2>1 DEF Running, Alive
  <2> QED
    BY <1>1, <2>1, <2>2, WholeKept
<1>3. ASSUME NEW a \in Callers, Acquire(a)
      PROVE  Whole'
  <2>1. ~InStart(a) /\ UNCHANGED <<api, given, handle>>
    BY <1>3 DEF Acquire, InStart, StartSteps
  <2>2. CASE Running
    <3>1. UNCHANGED <<config, claimed, plan, torn>> /\ pc' = [pc EXCEPT ![a] = "stop"]
      BY <1>3, <2>2 DEF Acquire, Goto
    <3> QED
      BY <1>1, <2>1, <2>2, <3>1, WholeKept
  <2>3. CASE ~Running
    <3>1. AfterStop(a) /\ UNCHANGED proc
      BY <1>3, <2>3 DEF Acquire
    <3>2. ~Running'
      BY <2>1, <2>3, <3>1 DEF Running, Alive
    <3> QED
      BY <2>1, <3>1, <3>2, WholeAfterStop
  <2> QED
    BY <2>2, <2>3
<1>4. ASSUME NEW a \in Callers, Stopped(a) \/ Killed(a)
      PROVE  Whole'
  <2>1. ~InStart(a) /\ UNCHANGED <<api, given>> /\ ~Running'
    BY <1>4 DEF Stopped, Killed, InStart, StartSteps, Running
  <2>2. AfterStop(a) \/ torn' = TRUE
    BY <1>4 DEF Stopped, Killed
  <2>3. CASE AfterStop(a)
    BY <2>1, <2>3, WholeAfterStop
  <2>4. CASE torn' = TRUE
    BY <2>4 DEF Whole
  <2> QED
    BY <2>2, <2>3, <2>4
<1>5. ASSUME StopNoticed \/ Poll
      PROVE  Whole'
  <2>1. UNCHANGED <<config, api, claimed, given, plan, torn, handle, proc>>
    BY <1>5 DEF StopNoticed, Poll, fields, runner, history
  <2>2. Running' => Running
    BY <2>1 DEF Running, Alive
  <2>3. PICK w \in Watchdogs : pc[w] = "idle" /\ Recover(w)
    BY <1>5 DEF StopNoticed, Poll, Watchdogs
  <2>4. CASE UNCHANGED pc
    BY <2>1, <2>2, <2>4, WholeKept DEF InStart
  <2>5. CASE pc' = [pc EXCEPT ![w] = "sleep"]
    <3>1. ~InStart(w)
      BY <2>3 DEF InStart, StartSteps
    <3> QED
      BY <1>1, <2>1, <2>2, <2>5, <3>1, WholeKept
  <2> QED
    BY <2>3, <2>4, <2>5 DEF Recover, Goto
<1>6. ASSUME NEW w \in Watchdogs, Wake(w)
      PROVE  Whole'
  <2>1. /\ UNCHANGED <<api, claimed, given, plan, handle, proc>> /\ ~InStart(w)
    BY <1>6 DEF Wake, runner, InStart, StartSteps
  <2>2. Running' <=> Running
    BY <2>1 DEF Running, Alive
  <2>3. CASE Running \/ RestartLocked
    <3>1. UNCHANGED <<config, torn>> /\ pc' = [pc EXCEPT ![w] = "idle"]
      BY <1>6, <2>3 DEF Wake, Return
    <3> QED
      BY <1>1, <2>1, <2>2, <3>1, WholeKept
  <2>4. CASE ~(Running \/ RestartLocked)
    <3>1. StartHead(w, disk) /\ disk \in Files \cup BadFiles
      BY <1>6, <2>4 DEF Wake, TypeOK
    <3> QED
      BY <2>2, <2>4, <3>1, WholeHead
  <2> QED
    BY <2>3, <2>4
<1>7. ASSUME NEW p \in Procs, Xray(p) \/ Die(p)
      PROVE  Whole'
  <2>1. UNCHANGED <<config, api, claimed, given, plan, torn, handle, pc>>
    BY <1>7 DEF Xray, ComeUp, PortsTaken, Exit, OutputEnds, Die, fields, actors, history
  <2>2. \/ Alive(p) /\ \E l : proc' = [proc EXCEPT ![p].life = l]
        \/ proc' = [proc EXCEPT ![p].captured = FALSE]
    BY <1>7 DEF Xray, ComeUp, PortsTaken, Exit, OutputEnds, Die, Alive
  <2>3. \A q \in Procs : Alive(q)' => Alive(q)
    BY <2>2 DEF Alive, TypeOK, Process
  <2>4. Running' => Running
    BY <2>1, <2>3 DEF Running, TypeOK
  <2> QED
    BY <2>1, <2>4, WholeKept DEF InStart
<1>8. ASSUME NEW a \in Callers, Cancel(a)
      PROVE  Whole'
  <2>1. CASE torn'
    BY <2>1 DEF Whole
  <2>2. CASE ~torn'
    <3>1. ~torn /\ pc[a] \in {"lock", "load"}
      BY <1>8, <2>2 DEF Cancel, TypeOK
    <3>2. /\ UNCHANGED <<config, api, claimed, given, handle, proc>>
          /\ pc' = [pc EXCEPT ![a] = "idle"]
          /\ plan' = [plan EXCEPT ![a] = NoPlan]
      BY <1>8 DEF Cancel, Return, fields
    <3>3. Running' <=> Running
      BY <3>2 DEF Running, Alive
    <3>4. /\ pc'[a] = "idle"
          /\ \A b \in Actors \ {a} : pc'[b] = pc[b] /\ plan'[b] = plan[b]
      BY <3>2 DEF TypeOK
    <3>5. Alone'
      BY <3>1, <3>3, <3>4 DEF Whole, Alone, InStart, StartSteps
    <3>6. OnTheWay'
      BY <3>1, <3>2, <3>4 DEF Whole, OnTheWay
    <3>7. (\A b \in Actors : pc'[b] # "read") => \A b \in Actors : pc[b] # "read"
      BY <3>1, <3>4
    <3>8. Settled'
      BY <3>1, <3>2, <3>3, <3>7 DEF Whole, Settled
    <3> QED
      BY <3>5, <3>6, <3>8 DEF Whole
  <2> QED
    BY <2>1, <2>2
<1>9. CASE UNCHANGED vars
  <2>1. /\ UNCHANGED <<config, api, claimed, given, plan, torn, handle, pc>>
        /\ Running' => Running
    BY <1>9 DEF vars, fields, runner, actors, history, Running, Alive
  <2> QED
    BY <2>1, WholeKept DEF InStart
<1> QED
  BY <1>2, <1>3, <1>4, <1>5, <1>6, <1>7, <1>8, <1>9, WholeStart DEF Next, System, Restarting

\* When xray runs and the last start was neither cut short nor overlapped,
\* the node calls the API port of that very process and claims its tags
\* (xray_backend.py:121-140).
THEOREM RunningXrayIsCalled == Spec => []Coherent
<1>1. Whole => Coherent
  BY DEF Whole, Settled, Coherent, AtRest
<1> QED
  BY <1>1, TypeCorrect, WholeInit, WholeStep, PTL DEF Spec
=============================================================================

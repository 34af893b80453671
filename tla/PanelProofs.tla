----------------------------- MODULE PanelProofs -----------------------------
(***************************************************************************)
(* Theorems about what the node gives the panel.  Of Inbounds: what it is  *)
(* told of an inbound and the accounts in it, for every file, every name   *)
(* of a protocol or a network, every list of short ids and every key.  Of  *)
(* UsersStats: the bytes of every user, for any number of users, names,    *)
(* calls and faults, whatever backends there are.  Of LogStreams: the      *)
(* order of the lines and who gets them, for any captures, clients, lines  *)
(* and length of the buffer.                                               *)
(***************************************************************************)
EXTENDS Inbounds, UsersStats, LogStreams, Sums, SequenceTheorems

\* Of some positions in a list one is the first.
LEMMA LeastExists ==
    ASSUME NEW S \in SUBSET Nat, S # {}
    PROVE  \E x \in S : \A k \in S : x <= k
<1>1. IsWellFoundedOn(OpToRel(<, Nat), Nat)
  BY NatLessThanWellFounded, Zenon
<1>2. PICK x \in S : \A y \in S : ~(<<y, x>> \in OpToRel(<, Nat))
  BY <1>1, WFMin, Zenon
<1>3. \A y \in S : x <= y
  <2> SUFFICES ASSUME NEW y \in S PROVE x <= y
    OBVIOUS
  <2>1. ~(y < x)
    BY <1>2 DEF OpToRel
  <2> QED BY <2>1
<1> QED BY <1>3

-----------------------------------------------------------------------------
(***************************************************************************)
(* Inbounds: the parts.                                                    *)
(***************************************************************************)
\* What first_non_empty returns is one of the values, and the empty one only if all are.
LEMMA FirstNonEmptyIs ==
    ASSUME NEW values \in Seq(STRING)
    PROVE  IF \A i \in DOMAIN values : values[i] = ""
           THEN FirstNonEmpty(values) = ""
           ELSE /\ FirstNonEmpty(values) # ""
                /\ \E i \in DOMAIN values : values[i] = FirstNonEmpty(values)
<1> DEFINE full == {i \in DOMAIN values : values[i] # ""}
           least == CHOOSE i \in full : \A k \in full : i <= k
<1>1. FirstNonEmpty(values) = IF full = {} THEN "" ELSE values[least]
  BY Zenon DEF FirstNonEmpty
<1>2. full \in SUBSET Nat
  <2>1. DOMAIN values = 1..Len(values) /\ Len(values) \in Nat
    OBVIOUS
  <2>2. DOMAIN values \subseteq Nat
    BY <2>1
  <2>3. full \subseteq DOMAIN values
    OBVIOUS
  <2> QED BY <2>2, <2>3, Zenon
<1>3. CASE full = {}
  BY <1>1, <1>3
<1>4. CASE full # {}
  <2>1. \E i \in full : \A k \in full : i <= k
    BY <1>2, <1>4, LeastExists
  <2>2. least \in full
    BY <2>1
  <2> HIDE DEF least
  <2> QED BY <1>1, <1>4, <2>2
<1> QED BY <1>3, <1>4

\* An account of xray or sing-box can be found again, and has the flow of its settings.
LEMMA AccountIs ==
    ASSUME NEW key, NEW f, listed = Settings(f), Takes(f),
           NEW new, new = IF f.kind = "xray" THEN XrayAccount(key) ELSE SingBoxAccount(key),
           new # Null
    PROVE  new.flow = listed.flow /\ new.by \in FoundBy
<1>1. CASE f.kind = "xray"
  <2>1. listed.protocol = f.protocol /\ listed.flow = FlowOf(f)
    BY <1>1 DEF Settings, XraySettings
  <2>2. CASE f.protocol = "vless"
    BY <1>1, <2>1, <2>2 DEF XrayAccount, FoundBy
  <2>3. CASE f.protocol # "vless"
    <3>1. listed.flow = Null
      BY <2>1, <2>3 DEF FlowOf
    <3>2. new = [flow |-> Null, by |-> "email"]
      BY <1>1, <2>1, <2>3 DEF XrayAccount
    <3> QED BY <3>1, <3>2 DEF FoundBy
  <2> QED BY <2>2, <2>3
<1>2. CASE f.kind # "xray"
  <2>1. listed.flow = Null
    BY <1>2 DEF Settings, SingBoxSettings
  <2>2. new = [flow |-> Null, by |-> NameKey(listed.protocol)]
    BY <1>2 DEF SingBoxAccount
  <2>3. NameKey(listed.protocol) \in FoundBy
    BY DEF NameKey, FoundBy
  <2> QED BY <2>1, <2>2, <2>3
<1> QED BY <1>1, <1>2

\* An account is not None.
LEMMA NotNull ==
    ASSUME NEW x \in Flows \cup {Null}, NEW y \in {"email", "name", "username"}
    PROVE  [flow |-> x, by |-> y] # Null
<1>1. [flow |-> x, by |-> y] \in [flow : Flows \cup {Null}, by : {"email", "name", "username"}]
  OBVIOUS
<1>2. Null \notin [flow : Flows \cup {Null}, by : {"email", "name", "username"}]
  BY NullAssumption, Zenon
<1> QED BY <1>1, <1>2, Zenon

\* Refused are users of a protocol in upper case, a flow nobody knows and a key that is
\* no UUID.
LEMMA RefusalIs ==
    ASSUME NEW key, NEW f, listed = Settings(f), Takes(f), flow \in Flows,
           Null = IF f.kind = "xray" THEN XrayAccount(key) ELSE SingBoxAccount(key)
    PROVE  \/ f.kind = "xray" /\ Lower[f.protocol] # f.protocol
           \/ listed.flow \notin {Null, "", Vision}
           \/ plain /\ listed.protocol \in {"vmess", "vless", "tuic"}
<1>1. CASE f.kind = "xray"
  <2>1. /\ listed.protocol = f.protocol
        /\ listed.flow \in Flows \cup {Null}
    BY <1>1 DEF Settings, XraySettings, FlowOf
  <2>2. Lower[f.protocol] \in XrayProtocols
    BY <1>1 DEF Takes, XrayTakes
  <2>3. CASE Lower[f.protocol] = f.protocol
    <3>1. f.protocol \in DOMAIN XrayAccounts
      BY <2>2, <2>3 DEF XrayProtocols, XrayAccounts
    <3>2. Null \notin {[flow |-> Null, by |-> "email"], [flow |-> listed.flow, by |-> "email"]}
      <4>1. "email" \in {"email", "name", "username"}
        OBVIOUS
      <4>2. [flow |-> Null, by |-> "email"] # Null
        BY <4>1, NotNull
      <4>3. [flow |-> listed.flow, by |-> "email"] # Null
        BY <2>1, <4>1, NotNull
      <4> QED BY <4>2, <4>3
    <3>3. \/ ~Generates(XrayAccounts[f.protocol], key)
          \/ listed.flow \notin {Null, "", Vision}
      BY <1>1, <2>1, <3>1, <3>2 DEF XrayAccount
    <3>4. ~Generates(XrayAccounts[f.protocol], key) =>
              plain /\ f.protocol \in {"vmess", "vless"}
      BY <3>1 DEF Generates, XrayAccounts
    <3> QED BY <2>1, <3>3, <3>4
  <2> QED BY <1>1, <2>3
<1>2. CASE f.kind # "xray"
  <2>1. listed.protocol = f.protocol /\ f.protocol \in SingBoxTypes
    BY <1>2 DEF Settings, SingBoxSettings, Takes, SingBoxTakes
  <2>2. f.protocol \in DOMAIN SingBoxAccounts
    BY <2>1 DEF SingBoxTypes, SingBoxAccounts
  <2>3. Null # [flow |-> Null, by |-> NameKey(f.protocol)]
    <3>1. NameKey(f.protocol) \in {"email", "name", "username"}
      BY DEF NameKey
    <3> QED BY <3>1, NotNull
  <2>4. ~Generates(SingBoxAccounts[f.protocol], key)
    BY <1>2, <2>1, <2>2, <2>3 DEF SingBoxAccount
  <2>5. plain /\ "uuid" \in SingBoxAccounts[f.protocol]
    BY <2>4 DEF Generates
  <2>6. f.protocol \in {"vmess", "vless", "tuic"}
    BY <2>2, <2>5 DEF SingBoxAccounts
  <2> QED BY <2>1, <2>5, <2>6
<1> QED BY <1>1, <1>2

(***************************************************************************)
(* The invariant.                                                          *)
(***************************************************************************)
\* What is listed comes from the file, and what is in the inbound is an account.
Sourced ==
    /\ listed # Null => listed = Settings(file) /\ Takes(file) /\ ~Raises(file)
    /\ member => account.by \in FoundBy
    /\ refused => listed # Null

IInv == InboundsTypeOK /\ Sourced /\ FlowAgrees /\ TakesUsers

LEMMA InitIInv == InboundsInit => IInv
BY DEF InboundsInit, IInv, InboundsTypeOK, Sourced, FlowAgrees, TakesUsers

LEMMA StartStep == IInv /\ Start => IInv'
<1> SUFFICES ASSUME IInv, Start PROVE IInv'
  OBVIOUS
<1>1. ~started /\ listed = Null /\ ~member /\ ~refused /\ account = Null
  BY DEF IInv, InboundsTypeOK, Sourced, Start
<1>2. /\ UNCHANGED <<file, plain, flow, member, account, refused>>
      /\ started' = TRUE
      /\ listed' # Null => Takes(file) /\ ~Raises(file) /\ listed' = Settings(file)
  BY DEF Start
<1>3. Settings(file)' = Settings(file)
  BY <1>2 DEF Settings, XraySettings, SingBoxSettings, FlowOf
<1>4. Takes(file)' = Takes(file) /\ Raises(file)' = Raises(file)
  BY <1>2 DEF Takes, XrayTakes, SingBoxTakes, Raises
<1>5. InboundsTypeOK'
  BY <1>1, <1>2 DEF IInv, InboundsTypeOK
<1>6. Sourced' /\ FlowAgrees' /\ TakesUsers'
  BY <1>1, <1>2, <1>3, <1>4 DEF Sourced, FlowAgrees, TakesUsers
<1> QED BY <1>5, <1>6 DEF IInv

LEMMA SameFile ==
    ASSUME UNCHANGED <<file, plain, flow, listed>>
    PROVE  /\ Settings(file)' = Settings(file)
           /\ Takes(file)' = Takes(file)
           /\ Raises(file)' = Raises(file)
BY DEF Settings, XraySettings, SingBoxSettings, FlowOf, Takes, XrayTakes, SingBoxTakes, Raises

LEMMA AddUserStep == ASSUME NEW key \in Keys, IInv, AddUser(key) PROVE IInv'
<1> DEFINE new == IF file.kind = "xray" THEN XrayAccount(key) ELSE SingBoxAccount(key)
<1>1. /\ listed # Null /\ ~member
      /\ account' = new
      /\ refused' = (new = Null)
      /\ member' = (new # Null)
      /\ UNCHANGED <<file, plain, flow, started, listed>>
  BY DEF AddUser
<1>2. listed = Settings(file) /\ Takes(file) /\ flow \in Flows
  BY <1>1 DEF IInv, Sourced, InboundsTypeOK
<1>3. new # Null => new.flow = listed.flow /\ new.by \in FoundBy
  BY <1>2, AccountIs
<1>4. new = Null => \/ file.kind = "xray" /\ Lower[file.protocol] # file.protocol
                    \/ listed.flow \notin {Null, "", Vision}
                    \/ plain /\ listed.protocol \in {"vmess", "vless", "tuic"}
  BY <1>2, RefusalIs
<1> HIDE DEF new
<1>5. InboundsTypeOK'
  BY <1>1 DEF IInv, InboundsTypeOK
<1>6. Sourced'
  BY <1>1, <1>3, SameFile DEF IInv, Sourced
<1>7. FlowAgrees'
  BY <1>1, <1>3 DEF FlowAgrees
<1>8. TakesUsers'
  BY <1>1, <1>4 DEF TakesUsers
<1> QED BY <1>5, <1>6, <1>7, <1>8 DEF IInv

LEMMA RemoveStep == IInv /\ RemoveUser => IInv'
<1> SUFFICES ASSUME IInv, RemoveUser PROVE IInv'
  OBVIOUS
<1>1. /\ member /\ member' = FALSE
      /\ UNCHANGED <<file, plain, flow, started, listed, refused>>
      /\ account' = IF account.by \in FoundBy THEN Null ELSE account
  BY DEF RemoveUser
<1>2. account' = Null
  BY <1>1 DEF IInv, Sourced
<1>3. InboundsTypeOK'
  BY <1>1, <1>2 DEF IInv, InboundsTypeOK
<1>4. Sourced' /\ FlowAgrees' /\ TakesUsers'
  BY <1>1, SameFile DEF IInv, Sourced, FlowAgrees, TakesUsers
<1> QED BY <1>3, <1>4 DEF IInv

LEMMA IInvStep == IInv /\ [InboundsNext]_inboundsVars => IInv'
<1> SUFFICES ASSUME IInv, [InboundsNext]_inboundsVars PROVE IInv'
  OBVIOUS
<1>1. CASE Start
  BY <1>1, StartStep
<1>2. ASSUME NEW key \in Keys, AddUser(key) PROVE IInv'
  BY <1>2, AddUserStep
<1>3. CASE RemoveUser
  BY <1>3, RemoveStep
<1>4. CASE UNCHANGED inboundsVars
  BY <1>4, SameFile DEF inboundsVars, IInv, InboundsTypeOK, Sourced, FlowAgrees, TakesUsers
<1> QED BY <1>1, <1>2, <1>3, <1>4 DEF InboundsNext

LEMMA InboundsInvariant == InboundsSpec => []IInv
BY InitIInv, IInvStep, PTL DEF InboundsSpec

(***************************************************************************)
(* Theorems.                                                               *)
(***************************************************************************)
\* The values of the variables; the account of a user comes and goes with the user.
THEOREM InboundsTypes == InboundsSpec => []InboundsTypeOK
BY InboundsInvariant, PTL DEF IInv

\* Every inbound that is listed takes every user, but for a protocol in upper case, a
\* flow xray's accounts do not know, and plain keys.
THEOREM ListedInboundsTakeUsers == InboundsSpec => []TakesUsers
BY InboundsInvariant, PTL DEF IInv

\* The panel is told the flow of the account.
THEOREM FlowIsTold == InboundsSpec => []FlowAgrees
BY InboundsInvariant, PTL DEF IInv

\* The short id the panel is told is one of the inbound, empty only if all are.
THEOREM ShortIdIsServed == InboundsSpec => []SidServed
<1>1. IInv => SidServed
  <2> SUFFICES ASSUME IInv, listed # Null, file.security = "reality"
               PROVE  LET ids == file.reality.shortIds IN
                      IF \A i \in DOMAIN ids : ids[i] = "" THEN listed.sid = ""
                      ELSE listed.sid # "" /\ \E i \in DOMAIN ids : ids[i] = listed.sid
    BY DEF SidServed
  <2>1. listed = Settings(file) /\ ~Raises(file) /\ Takes(file)
    BY DEF IInv, Sourced
  <2>2. file.reality # Null /\ file.reality \in Reality
    <3>1. file.reality # Null
      BY <2>1 DEF Raises
    <3>2. file \in XrayFiles \cup SingBoxFiles
      BY DEF IInv, InboundsTypeOK
    <3> QED BY <3>1, <3>2 DEF XrayFiles, SingBoxFiles
  <2>3. file.reality.shortIds \in Seq(STRING)
    BY <2>2, ShortIdsAssumption DEF Reality
  <2>4. listed.sid = FirstNonEmpty(file.reality.shortIds)
    BY <2>1 DEF Settings, XraySettings, SingBoxSettings
  <2> QED BY <2>3, <2>4, FirstNonEmptyIs
<1> QED BY <1>1, InboundsInvariant, PTL

\* The settings of a network are read alike under all its spellings.
LEMMA SpelledAlike ==
    ASSUME NEW f, NEW g, Spelled(f.network), Spelled(g.network),
           Transport(g.network) = Transport(f.network), Found(g) = Found(f)
    PROVE  XrayPlace(g) = XrayPlace(f)
<1> DEFINE m == f.network
           n == g.network
<1>1. CASE Transport(m) = "splithttp"
  <2>1. m \in {"splithttp", "xhttp"} /\ n \in {"splithttp", "xhttp"}
    BY <1>1 DEF Transport
  <2> QED BY <2>1 DEF XrayPlace, HostLike
<1>2. CASE Transport(m) = "kcp"
  <2>1. m \in {"kcp", "mkcp"} /\ n \in {"kcp", "mkcp"}
    BY <1>2 DEF Transport
  <2> QED BY <2>1 DEF XrayPlace, HostLike
<1>3. CASE Transport(m) = "http"
  <2>1. m = "http" /\ n = "http"
    BY <1>3 DEF Transport, Spelled
  <2> QED BY <2>1 DEF XrayPlace, HostLike
<1>4. CASE Transport(m) = "ws"
  <2>1. m \in {"ws", "websocket"} /\ n \in {"ws", "websocket"}
    BY <1>4 DEF Transport
  <2> QED BY <2>1 DEF XrayPlace, HostLike
<1>5. CASE Transport(m) \in {"grpc", "httpupgrade", "quic"}
  <2>1. m = n
    BY <1>5 DEF Transport
  <2> QED BY <2>1 DEF XrayPlace, HostLike
<1>6. CASE Transport(m) = "tcp"
  <2>1. m \in {"tcp", "raw"} /\ n \in {"tcp", "raw"}
    BY <1>6 DEF Spelled
  <2> QED BY <2>1 DEF XrayPlace, HostLike
<1>7. Transport(m) \in {"splithttp", "kcp", "http", "ws", "grpc", "httpupgrade", "quic", "tcp"}
  BY DEF Transport
<1> QED BY <1>1, <1>2, <1>3, <1>4, <1>5, <1>6, <1>7

\* What the settings do not take from their place, one spelling of a network has like
\* another.
LEMMA SpelledRest ==
    ASSUME NEW f \in XrayFiles, NEW g, NEW n \in Networks,
           Transport(n) = Transport(f.network),
           g.network = n, g.protocol = f.protocol, g.security = f.security,
           g.reality = f.reality
    PROVE  /\ XraySettings(g) = [XraySettings(f) EXCEPT !.place = XrayPlace(g)]
           /\ XrayPlace(g) = XrayPlace(f) => XraySettings(g) = XraySettings(f)
<1>1. FlowOf(g) = FlowOf(f)
  BY DEF FlowOf
<1> QED BY <1>1 DEF XraySettings

\* The panel is told the same of an inbound whichever way its network and the name of
\* its settings are spelled; the network alone decides only what is told of its place.
THEOREM SpellingDoesNotMatter == InboundsSpec => []SpellingsAlike
<1>1. IInv => SpellingsAlike
  <2> SUFFICES ASSUME IInv, listed # Null, file.kind = "xray", Spelled(file.network),
                      NEW n \in Networks, n # file.network,
                      Spelled(n), Transport(n) = Transport(file.network)
               PROVE  LET other == XraySettings([file EXCEPT !.network = n]) IN
                      /\ XraySettings(Respelled(file, n)) = listed
                      /\ other = [listed EXCEPT !.place = other.place]
                      /\ file.own = Null => other = listed
    BY DEF SpellingsAlike
  <2> DEFINE g == [file EXCEPT !.network = n]
             k == Respelled(file, n)
  <2>1. file \in XrayFiles
    BY DEF IInv, InboundsTypeOK, XrayFiles, SingBoxFiles
  <2>2. /\ g.network = n /\ g.own = file.own /\ g.protocol = file.protocol
        /\ g.security = file.security /\ g.reality = file.reality
        /\ k.network = n /\ k.own = file.own /\ k.protocol = file.protocol
        /\ k.security = file.security /\ k.reality = file.reality
        /\ k.under = IF file.under = file.network THEN n ELSE file.network
    BY <2>1 DEF XrayFiles, Respelled
  <2>3. listed = XraySettings(file)
    BY DEF IInv, Sourced, Settings
  <2> HIDE DEF g, k
  <2>4. Found(k) = Found(file) /\ (file.own = Null => Found(g) = Found(file))
    BY <2>2 DEF Found
  <2>5. XrayPlace(k) = XrayPlace(file)
    BY <2>2, <2>4, SpelledAlike
  <2>6. file.own = Null => XrayPlace(g) = XrayPlace(file)
    BY <2>2, <2>4, SpelledAlike
  <2>7. XraySettings(k) = listed
    BY <2>1, <2>2, <2>3, <2>5, SpelledRest
  <2>8. XraySettings(g) = [listed EXCEPT !.place = XrayPlace(g)]
    BY <2>1, <2>2, <2>3, SpelledRest
  <2>9. file.own = Null => XraySettings(g) = listed
    BY <2>1, <2>2, <2>3, <2>6, SpelledRest
  <2>10. XraySettings(g).place = XrayPlace(g)
    BY DEF XraySettings
  <2> QED BY <2>7, <2>8, <2>9, <2>10 DEF g, k
<1> QED BY <1>1, InboundsInvariant, PTL

-----------------------------------------------------------------------------
(***************************************************************************)
(* UsersStats: the bytes.                                                  *)
(***************************************************************************)
LEMMA FiniteParts == IsFiniteSet(Backends) /\ \A u : IsFiniteSet(IdentsOf(u))
<1>1. IsFiniteSet({"xray", "hysteria2", "sing-box"})
  <2>1. IsFiniteSet({"xray"})
    BY FS_Singleton
  <2>2. IsFiniteSet({"xray"} \cup {"hysteria2"} \cup {"sing-box"})
    BY <2>1, FS_AddElement
  <2>3. {"xray"} \cup {"hysteria2"} \cup {"sing-box"} = {"xray", "hysteria2", "sing-box"}
    OBVIOUS
  <2> QED BY <2>2, <2>3
<1>2. ASSUME NEW u PROVE IsFiniteSet(IdentsOf(u))
  <2>1. IdentsOf(u) \in SUBSET Idents
    BY DEF IdentsOf
  <2> QED BY <2>1, StatsFinite, FS_Subset
<1> QED BY <1>1, <1>2 DEF Backends

\* The bytes of a user are the sum over its identifiers.
LEMMA BytesAre ==
    ASSUME NEW bytes \in [Idents -> Nat], NEW u
    PROVE  BytesIn(bytes, u) = Total(bytes, IdentsOf(u)) /\ BytesIn(bytes, u) \in Nat
<1> DEFINE S == IdentsOf(u)
           rec(g) == g = [s \in SUBSET S |-> IF s = {} THEN 0
                            ELSE bytes[CHOOSE x \in s : TRUE] + g[s \ {CHOOSE x \in s : TRUE}]]
           it == CHOOSE g : rec(g)
<1>1. BytesIn(bytes, u) = it[S]
  BY DEF BytesIn, MapThenSumSet, MapThenFoldSet
<1>2. IsFiniteSet(S) /\ S \in SUBSET Idents
  BY FiniteParts DEF IdentsOf
<1>3. ASSUME NEW g PROVE SumsUp(g, bytes, S) <=> rec(g)
  BY DEF SumsUp, Pick
<1>4. PICK g : SumsUp(g, bytes, S)
  BY <1>2, SumsExist
<1>5. rec(it)
  <2> HIDE DEF rec
  <2> QED BY <1>3, <1>4
<1> HIDE DEF it, S, rec
<1>6. it[S] = Total(bytes, S)
  BY <1>2, <1>3, <1>5, TotalIs
<1> QED BY <1>1, <1>2, <1>6, TotalType DEF S

\* What the processes count of a user, and what calls have of it.
CountOf(cnt, u) == [b \in Backends |-> BytesIn(cnt[b], u)]

HeldBy(cl, u) == [c \in Callers |-> cl[c].sum[u] + BytesIn(cl[c].answer, u)]

LEMMA ProcessesAre == ASSUME NEW u PROVE InProcesses(u) = Total(CountOf(counter, u), Backends)
<1> DEFINE f == CountOf(counter, u)
           rec(g) == g = [s \in SUBSET Backends |-> IF s = {} THEN 0
                            ELSE BytesIn(counter[CHOOSE x \in s : TRUE], u)
                                     + g[s \ {CHOOSE x \in s : TRUE}]]
           it == CHOOSE g : rec(g)
<1>1. InProcesses(u) = it[Backends]
  BY DEF InProcesses, MapThenSumSet, MapThenFoldSet
<1>2. IsFiniteSet(Backends)
  BY FiniteParts
<1>3. ASSUME NEW g PROVE SumsUp(g, f, Backends) <=> rec(g)
  <2>1. ASSUME NEW s \in SUBSET Backends, s # {}
        PROVE  f[Pick(s)] = BytesIn(counter[CHOOSE x \in s : TRUE], u)
    <3>1. Pick(s) \in Backends
      BY <2>1, PickIn
    <3> QED BY <3>1 DEF CountOf, Pick
  <2> HIDE DEF f
  <2> QED BY <2>1 DEF SumsUp, Pick
<1>4. PICK g : SumsUp(g, f, Backends)
  BY <1>2, SumsExist
<1>5. rec(it)
  <2> HIDE DEF rec, f
  <2> QED BY <1>3, <1>4
<1> HIDE DEF it, rec, f
<1>6. it[Backends] = Total(f, Backends)
  BY <1>2, <1>3, <1>5, TotalIs
<1> QED BY <1>1, <1>6 DEF f

LEMMA CallsAre == ASSUME NEW u PROVE InCalls(u) = Total(HeldBy(call, u), Callers)
<1> DEFINE f == HeldBy(call, u)
           rec(g) == g = [s \in SUBSET Callers |-> IF s = {} THEN 0
                            ELSE call[CHOOSE x \in s : TRUE].sum[u]
                                     + BytesIn(call[CHOOSE x \in s : TRUE].answer, u)
                                     + g[s \ {CHOOSE x \in s : TRUE}]]
           it == CHOOSE g : rec(g)
<1>1. InCalls(u) = it[Callers]
  BY DEF InCalls, MapThenSumSet, MapThenFoldSet
<1>2. IsFiniteSet(Callers)
  BY StatsFinite
<1>3. ASSUME NEW g PROVE SumsUp(g, f, Callers) <=> rec(g)
  <2>1. ASSUME NEW s \in SUBSET Callers, s # {}
        PROVE  f[Pick(s)] = call[CHOOSE x \in s : TRUE].sum[u]
                                + BytesIn(call[CHOOSE x \in s : TRUE].answer, u)
    <3>1. Pick(s) \in Callers
      BY <2>1, PickIn
    <3> QED BY <3>1 DEF HeldBy, Pick
  <2> HIDE DEF f
  <2> QED BY <2>1 DEF SumsUp, Pick
<1>4. PICK g : SumsUp(g, f, Callers)
  BY <1>2, SumsExist
<1>5. rec(it)
  <2> HIDE DEF rec, f
  <2> QED BY <1>3, <1>4
<1> HIDE DEF it, rec, f
<1>6. it[Callers] = Total(f, Callers)
  BY <1>2, <1>3, <1>5, TotalIs
<1> QED BY <1>1, <1>6 DEF f

\* What is at stake of a user: told, on its way, and still in the processes.
Known(t, cl, cnt, u) ==
    t[u] + Total(HeldBy(cl, u), Callers) + Total(CountOf(cnt, u), Backends)

\* The two invariants speak of nothing else; in any state, so in the one after a step.
KnownIs == \A u : InCalls(u) = Total(HeldBy(call, u), Callers)
                  /\ InProcesses(u) = Total(CountOf(counter, u), Backends)

LEMMA KnownNow == KnownIs
  BY ProcessesAre, CallsAre DEF KnownIs

LEMMA KnownThen == KnownIs'
  BY KnownNow, PTL

(***************************************************************************)
(* What a change to a process or a call does to the sums.                  *)
(***************************************************************************)
Counters == [Backends -> [Idents -> Nat]]

Call == [pc : {"idle", "ask", "answered", "send"}, at : 1..Len(Order),
         answer : [Idents -> Nat], sum : [Users -> Nat]]

Calls == [Callers -> Call]

\* A call's share of a user's bytes.
Held(call_c, u) == call_c.sum[u] + BytesIn(call_c.answer, u)

LEMMA HeldIs ==
    ASSUME NEW k \in Call, NEW u \in Users
    PROVE  Held(k, u) \in Nat /\ k.sum[u] \in Nat /\ BytesIn(k.answer, u) \in Nat
<1>1. k.answer \in [Idents -> Nat] /\ k.sum \in [Users -> Nat]
  BY DEF Call
<1> QED BY <1>1, BytesAre DEF Held

LEMMA CountType ==
    ASSUME NEW cnt \in Counters, NEW u
    PROVE  CountOf(cnt, u) \in [Backends -> Nat] /\ Total(CountOf(cnt, u), Backends) \in Nat
<1>1. \A b \in Backends : cnt[b] \in [Idents -> Nat]
  BY DEF Counters
<1>2. CountOf(cnt, u) \in [Backends -> Nat]
  BY <1>1, BytesAre DEF CountOf
<1> QED BY <1>2, FiniteParts, TotalType

LEMMA HeldType ==
    ASSUME NEW cl \in Calls, NEW u \in Users
    PROVE  /\ HeldBy(cl, u) \in [Callers -> Nat]
           /\ \A c \in Callers : HeldBy(cl, u)[c] = Held(cl[c], u)
           /\ Total(HeldBy(cl, u), Callers) \in Nat
<1>1. \A c \in Callers : Held(cl[c], u) \in Nat
  BY HeldIs DEF Calls
<1>2. HeldBy(cl, u) = [c \in Callers |-> Held(cl[c], u)]
  BY DEF HeldBy, Held
<1>3. HeldBy(cl, u) \in [Callers -> Nat]
  BY <1>1, <1>2
<1> QED BY <1>2, <1>3, StatsFinite, TotalType

LEMMA ProcessChanges ==
    ASSUME NEW cnt \in Counters, NEW new \in Counters, NEW b \in Backends, NEW u,
           \A x \in Backends \ {b} : new[x] = cnt[x]
    PROVE  /\ Total(CountOf(new, u), Backends) + BytesIn(cnt[b], u)
                  = Total(CountOf(cnt, u), Backends) + BytesIn(new[b], u)
           /\ BytesIn(cnt[b], u) \in Nat /\ BytesIn(new[b], u) \in Nat
<1>1. CountOf(cnt, u) \in [Backends -> Nat] /\ CountOf(new, u) \in [Backends -> Nat]
  BY CountType
<1>2. \A x \in Backends \ {b} : CountOf(cnt, u)[x] = CountOf(new, u)[x]
  BY DEF CountOf
<1>3. CountOf(cnt, u)[b] = BytesIn(cnt[b], u) /\ CountOf(new, u)[b] = BytesIn(new[b], u)
  BY DEF CountOf
<1>4. Total(CountOf(new, u), Backends) + CountOf(cnt, u)[b]
          = Total(CountOf(cnt, u), Backends) + CountOf(new, u)[b]
  BY <1>1, <1>2, FiniteParts, TotalChange
<1> QED BY <1>1, <1>3, <1>4

LEMMA CallChanges ==
    ASSUME NEW cl \in Calls, NEW new \in Calls, NEW c \in Callers, NEW u \in Users,
           \A x \in Callers \ {c} : new[x] = cl[x]
    PROVE  Total(HeldBy(new, u), Callers) + Held(cl[c], u)
               = Total(HeldBy(cl, u), Callers) + Held(new[c], u)
<1>1. HeldBy(cl, u) \in [Callers -> Nat] /\ HeldBy(new, u) \in [Callers -> Nat]
  BY HeldType
<1>2. \A x \in Callers : HeldBy(cl, u)[x] = Held(cl[x], u) /\ HeldBy(new, u)[x] = Held(new[x], u)
  BY HeldType
<1>3. \A x \in Callers \ {c} : HeldBy(cl, u)[x] = HeldBy(new, u)[x]
  BY <1>2
<1>4. Total(HeldBy(new, u), Callers) + HeldBy(cl, u)[c]
          = Total(HeldBy(cl, u), Callers) + HeldBy(new, u)[c]
  BY <1>1, <1>3, StatsFinite, TotalChange
<1> QED BY <1>2, <1>4

LEMMA NothingIsZero ==
    Nothing \in [Idents -> Nat] /\ \A u : BytesIn(Nothing, u) = 0
<1>1. Nothing \in [Idents -> Nat]
  BY DEF Nothing
<1>2. ASSUME NEW u PROVE BytesIn(Nothing, u) = 0
  <2>1. IdentsOf(u) \in SUBSET Idents /\ IsFiniteSet(IdentsOf(u))
    BY FiniteParts DEF IdentsOf
  <2>2. \A i \in IdentsOf(u) : Nothing[i] = 0
    BY <2>1 DEF Nothing
  <2> QED BY <1>1, <2>1, <2>2, BytesAre, TotalZero
<1> QED BY <1>1, <1>2

\* A user none of whose identifiers counted has no bytes.
LEMMA NobodysBytes ==
    ASSUME NEW bytes \in [Idents -> Nat], NEW u, u \notin UsersIn(bytes)
    PROVE  BytesIn(bytes, u) = 0
<1>1. IdentsOf(u) \in SUBSET Idents /\ IsFiniteSet(IdentsOf(u))
  BY FiniteParts DEF IdentsOf
<1>2. ASSUME NEW i \in IdentsOf(u) PROVE bytes[i] = 0
  <2>1. i \in Idents /\ UserOf[i] = u /\ bytes[i] \in Nat
    BY DEF IdentsOf
  <2>2. ~(bytes[i] > 0)
    BY <2>1 DEF UsersIn
  <2> QED BY <2>1, <2>2
<1> QED BY <1>1, <1>2, BytesAre, TotalZero

\* The bytes of one identifier are its user's.
LEMMA BytesChange ==
    ASSUME NEW bytes \in [Idents -> Nat], NEW more \in [Idents -> Nat], NEW i \in Idents, NEW u,
           \A j \in Idents \ {i} : bytes[j] = more[j]
    PROVE  /\ UserOf[i] = u => BytesIn(more, u) + bytes[i] = BytesIn(bytes, u) + more[i]
           /\ UserOf[i] # u => BytesIn(more, u) = BytesIn(bytes, u)
<1>1. IdentsOf(u) \in SUBSET Idents /\ IsFiniteSet(IdentsOf(u))
  BY FiniteParts DEF IdentsOf
<1>2. BytesIn(bytes, u) = Total(bytes, IdentsOf(u)) /\ BytesIn(more, u) = Total(more, IdentsOf(u))
  BY BytesAre
<1>3. CASE UserOf[i] = u
  <2>1. i \in IdentsOf(u) /\ \A j \in IdentsOf(u) \ {i} : bytes[j] = more[j]
    BY <1>1, <1>3 DEF IdentsOf
  <2> QED BY <1>1, <1>2, <1>3, <2>1, TotalChange
<1>4. CASE UserOf[i] # u
  <2>1. \A j \in IdentsOf(u) : bytes[j] = more[j]
    BY <1>1, <1>4 DEF IdentsOf
  <2> QED BY <1>1, <1>2, <1>4, <2>1, TotalSame
<1> QED BY <1>3, <1>4

LEMMA OneMore ==
    ASSUME NEW bytes \in [Idents -> Nat], NEW i \in Idents, NEW u
    PROVE  /\ [bytes EXCEPT ![i] = @ + 1] \in [Idents -> Nat]
           /\ BytesIn([bytes EXCEPT ![i] = @ + 1], u)
                  = BytesIn(bytes, u) + (IF UserOf[i] = u THEN 1 ELSE 0)
<1> DEFINE more == [bytes EXCEPT ![i] = @ + 1]
<1>1. more \in [Idents -> Nat] /\ more[i] = bytes[i] + 1 /\ \A j \in Idents \ {i} : bytes[j] = more[j]
  OBVIOUS
<1> HIDE DEF more
<1>2. BytesIn(bytes, u) \in Nat /\ BytesIn(more, u) \in Nat /\ bytes[i] \in Nat
  BY <1>1, BytesAre
<1>3. /\ UserOf[i] = u => BytesIn(more, u) + bytes[i] = BytesIn(bytes, u) + more[i]
      /\ UserOf[i] # u => BytesIn(more, u) = BytesIn(bytes, u)
  BY <1>1, BytesChange
<1>4. BytesIn(more, u) = BytesIn(bytes, u) + (IF UserOf[i] = u THEN 1 ELSE 0)
  BY <1>1, <1>2, <1>3
<1> QED BY <1>1, <1>4 DEF more

\* What a backend makes of an answer is no more than what is in it, and all of it if
\* it adds up.
LEMMA UsageIs ==
    ASSUME NEW answer \in [Idents -> Nat], NEW b, NEW usage \in UsagesOf(b, answer)
    PROVE  /\ usage \in [Users -> Nat]
           /\ \A u \in Users : usage[u] <= BytesIn(answer, u)
           /\ Whole(answer, usage) => \A u \in Users : usage[u] = BytesIn(answer, u)
<1>1. Added(answer) = {[u \in Users |-> BytesIn(answer, u)]}
  BY DEF Added, BytesIn, MapThenSumSet, MapThenFoldSet
<1>2. \A u \in Users : BytesIn(answer, u) \in Nat
  BY BytesAre
<1>3. CASE usage \in Added(answer)
  BY <1>1, <1>2, <1>3
<1>4. CASE usage \in Assigned(answer)
  <2>1. usage \in [Users -> 0..MaxBytes]
    BY <1>4 DEF Assigned
  <2>2. usage \in [Users -> Nat]
    BY <2>1
  <2>3. ASSUME NEW u \in Users PROVE usage[u] <= BytesIn(answer, u)
    <3> DEFINE counted == {i \in IdentsOf(u) : answer[i] > 0}
    <3>1. IF counted = {} THEN usage[u] = 0 ELSE \E i \in counted : usage[u] = answer[i]
      BY <1>4 DEF Assigned
    <3>2. CASE counted = {}
      BY <1>2, <3>1, <3>2
    <3>3. CASE counted # {}
      <4>1. PICK i \in IdentsOf(u) : usage[u] = answer[i]
        BY <3>1, <3>3
      <4>2. IdentsOf(u) \in SUBSET Idents /\ IsFiniteSet(IdentsOf(u))
        BY FiniteParts DEF IdentsOf
      <4>3. answer[i] <= Total(answer, IdentsOf(u))
        BY <4>2, TotalPart
      <4> QED BY <4>1, <4>3, BytesAre
    <3> QED BY <3>2, <3>3
  <2> QED BY <1>1, <2>2, <2>3 DEF Whole
<1> QED BY <1>3, <1>4 DEF UsagesOf

(***************************************************************************)
(* The invariant.                                                          *)
(***************************************************************************)
\* A call has an answer in its hands only between get_usages() and the next backend.
AnswersInHand == \A c \in Callers : call[c].pc # "answered" => call[c].answer = Nothing

\* What NothingTwice and NothingLost say, with it.
StatsInv ==
    /\ StatsTypeOK
    /\ AnswersInHand
    /\ \A u \in Users : Known(told, call, counter, u) <= passed[u]
    /\ \A u \in Users \ lossy : Known(told, call, counter, u) = passed[u]

LEMMA StatsTypes ==
    StatsTypeOK <=> /\ status \in [Backends -> {"up", "down", "silent"}]
                    /\ counter \in Counters /\ call \in Calls
                    /\ told \in [Users -> Nat] /\ passed \in [Users -> Nat]
                    /\ lossy \subseteq Users
                    /\ faults \in 0..MaxFaults
  BY DEF StatsTypeOK, Counters, Calls, Call

LEMMA KnownNumber ==
    ASSUME NEW t \in [Users -> Nat], NEW cl \in Calls, NEW cnt \in Counters, NEW u \in Users
    PROVE  /\ t[u] \in Nat /\ Known(t, cl, cnt, u) \in Nat
           /\ Total(HeldBy(cl, u), Callers) \in Nat
           /\ Total(CountOf(cnt, u), Backends) \in Nat
  BY CountType, HeldType DEF Known

\* The invariant is kept where no more of a user becomes known than passes, and, of one
\* that is not lossy, as much.
LEMMA StatsKept ==
    ASSUME StatsInv, StatsTypeOK', AnswersInHand',
           \A u \in Users :
              /\ Known(told', call', counter', u) + passed[u]
                    <= Known(told, call, counter, u) + passed'[u]
              /\ u \notin lossy' =>
                    /\ u \notin lossy
                    /\ Known(told', call', counter', u) + passed[u]
                          = Known(told, call, counter, u) + passed'[u]
    PROVE  StatsInv'
<1>1. ASSUME NEW u \in Users
      PROVE  /\ Known(told, call, counter, u) \in Nat /\ passed[u] \in Nat
             /\ Known(told', call', counter', u) \in Nat /\ passed'[u] \in Nat
  BY StatsTypes, KnownNumber DEF StatsInv, StatsTypeOK, Counters, Calls, Call
<1>2. ASSUME NEW u \in Users PROVE Known(told', call', counter', u) <= passed'[u]
  <2>1. Known(told, call, counter, u) <= passed[u]
    BY DEF StatsInv
  <2> QED BY <1>1, <2>1
<1>3. ASSUME NEW u \in Users \ lossy' PROVE Known(told', call', counter', u) = passed'[u]
  <2>1. Known(told, call, counter, u) = passed[u]
    BY DEF StatsInv
  <2> QED BY <1>1, <2>1
<1> QED BY <1>2, <1>3 DEF StatsInv, Known

\* One call comes to k.
LEMMA CallStep ==
    ASSUME StatsInv, NEW c \in Callers, NEW k \in Call, call' = [call EXCEPT ![c] = k],
           k.pc # "answered" => k.answer = Nothing
    PROVE  /\ call' \in Calls
           /\ AnswersInHand'
           /\ \A u \in Users :
                 Total(HeldBy(call', u), Callers) + Held(call[c], u)
                     = Total(HeldBy(call, u), Callers) + Held(k, u)
<1>1. call \in Calls
  BY StatsTypes DEF StatsInv
<1>2. call' \in Calls /\ call'[c] = k /\ \A x \in Callers \ {c} : call'[x] = call[x]
  BY <1>1 DEF Calls
<1>3. AnswersInHand'
  BY <1>2 DEF StatsInv, AnswersInHand
<1>4. ASSUME NEW u \in Users
      PROVE  Total(HeldBy(call', u), Callers) + Held(call[c], u)
                 = Total(HeldBy(call, u), Callers) + Held(k, u)
  <2>1. Total(HeldBy(call', u), Callers) + Held(call[c], u)
            = Total(HeldBy(call, u), Callers) + Held(call'[c], u)
    BY <1>1, <1>2, CallChanges
  <2> QED BY <1>2, <2>1
<1> QED BY <1>2, <1>3, <1>4

\* What is known of a call.
LEMMA CallNow ==
    ASSUME StatsInv, NEW c \in Callers
    PROVE  /\ call[c] \in Call
           /\ call[c] = [pc |-> call[c].pc, at |-> call[c].at,
                         answer |-> call[c].answer, sum |-> call[c].sum]
           /\ call[c].at \in 1..Len(Order)
           /\ call[c].answer \in [Idents -> Nat] /\ call[c].sum \in [Users -> Nat]
           /\ Ask(c) \in Backends
           /\ call[c].pc # "answered" => call[c].answer = Nothing
<1>1. call[c] \in Call
  BY StatsTypes DEF StatsInv, Calls
<1>2. call[c].at \in 1..Len(Order)
  BY <1>1 DEF Call
<1>3. Ask(c) \in Backends
  BY <1>2, OrderAssumption DEF Ask
<1> QED BY <1>1, <1>2, <1>3 DEF Call, StatsInv, AnswersInHand

LEMMA IdleIs ==
    /\ Idle \in Call /\ Idle.answer = Nothing
    /\ \A u \in Users : Held(Idle, u) = 0
<1>1. NoUsage \in [Users -> Nat] /\ \A u \in Users : NoUsage[u] = 0
  BY DEF NoUsage
<1>2. Len(Order) \in Nat /\ Len(Order) > 0
  BY OrderAssumption
<1>3. /\ Idle.pc = "idle" /\ Idle.at = 1 /\ Idle.answer = Nothing /\ Idle.sum = NoUsage
      /\ 1 \in 1..Len(Order)
  BY <1>2 DEF Idle
<1>4. Idle \in Call
  BY <1>1, <1>2, <1>3, NothingIsZero DEF Call, Idle
<1> QED BY <1>1, <1>3, <1>4, NothingIsZero DEF Held

LEMMA AdvancedIs ==
    ASSUME StatsInv, NEW c \in Callers, NEW sum \in [Users -> Nat]
    PROVE  /\ Advanced(c, sum) \in Call
           /\ Advanced(c, sum).answer = Nothing
           /\ \A u \in Users : Held(Advanced(c, sum), u) = sum[u]
<1>0. Len(Order) \in Nat
  BY OrderAssumption
<1>1. call[c].at \in 1..Len(Order) /\ Len(Order) \in Nat
  BY <1>0, CallNow
<1>2. call[c].at < Len(Order) => call[c].at + 1 \in 1..Len(Order)
  BY <1>1
<1>3. Advanced(c, sum).answer = Nothing /\ Advanced(c, sum).sum = sum
  BY DEF Advanced
<1>4. Advanced(c, sum) \in Call
  BY <1>1, <1>2, NothingIsZero DEF Advanced, Call
<1>5. ASSUME NEW u \in Users PROVE Held(Advanced(c, sum), u) = sum[u]
  BY <1>3, NothingIsZero DEF Held
<1> QED BY <1>3, <1>4, <1>5

(***************************************************************************)
(* The steps.                                                              *)
(***************************************************************************)
LEMMA StatsBegins == StatsInit => StatsInv
<1> SUFFICES ASSUME StatsInit PROVE StatsInv
  OBVIOUS
<1>1. NoUsage \in [Users -> Nat] /\ \A u \in Users : NoUsage[u] = 0
  BY DEF NoUsage
<1>2. StatsTypeOK
  BY <1>1, IdleIs, NothingIsZero, StatsBounds, StatsTypes DEF StatsInit, Counters, Calls
<1>3. call \in Calls /\ counter \in Counters
  BY <1>2, StatsTypes
<1>4. ASSUME NEW u \in Users PROVE Known(told, call, counter, u) = 0 /\ passed[u] = 0
  <2>1. Total(HeldBy(call, u), Callers) = 0
    <3>1. HeldBy(call, u) \in [Callers -> Nat] /\ \A c \in Callers : HeldBy(call, u)[c] = 0
      BY <1>3, HeldType, IdleIs DEF StatsInit
    <3> QED BY <3>1, StatsFinite, TotalZero
  <2>2. Total(CountOf(counter, u), Backends) = 0
    <3>1. CountOf(counter, u) \in [Backends -> Nat]
      BY <1>3, CountType
    <3>2. \A b \in Backends : CountOf(counter, u)[b] = 0
      BY NothingIsZero DEF StatsInit, CountOf
    <3> QED BY <3>1, <3>2, FiniteParts, TotalZero
  <2>3. told[u] = 0 /\ passed[u] = 0
    BY <1>1 DEF StatsInit
  <2> QED BY <2>1, <2>2, <2>3 DEF Known
<1>5. AnswersInHand
  BY IdleIs DEF StatsInit, AnswersInHand
<1> QED BY <1>2, <1>4, <1>5 DEF StatsInv

\* A process counts a byte.
LEMMA TrafficStep ==
    ASSUME StatsInv, NEW b \in Backends, NEW i \in Idents, Traffic(b, i)
    PROVE  StatsInv'
<1> DEFINE more == [counter[b] EXCEPT ![i] = @ + 1]
<1>1. /\ status \in [Backends -> {"up", "down", "silent"}]
      /\ counter \in Counters /\ call \in Calls
      /\ told \in [Users -> Nat] /\ passed \in [Users -> Nat]
      /\ lossy \subseteq Users /\ faults \in 0..MaxFaults
  BY StatsTypes DEF StatsInv
<1>2. counter[b] \in [Idents -> Nat] /\ UserOf[i] \in Users
  BY <1>1, UserOfAssumption DEF Counters
<1>3. more \in [Idents -> Nat]
  BY <1>2, OneMore
<1>4. counter' = [counter EXCEPT ![b] = more]
  BY <1>1, <1>2 DEF Traffic, Counters
<1> HIDE DEF more
<1>5. counter' \in Counters /\ counter'[b] = more /\ \A x \in Backends \ {b} : counter'[x] = counter[x]
  BY <1>1, <1>3, <1>4 DEF Counters
<1>6. passed' \in [Users -> Nat]
      /\ \A u \in Users : passed'[u] = passed[u] + (IF UserOf[i] = u THEN 1 ELSE 0)
  BY <1>1, <1>2 DEF Traffic
<1>7. UNCHANGED <<status, call, told, lossy, faults>>
  BY DEF Traffic
<1>8. StatsTypeOK'
  BY <1>1, <1>5, <1>6, <1>7 DEF StatsTypeOK, Counters, Calls, Call
<1>9. ASSUME NEW u \in Users
      PROVE  Known(told', call', counter', u) + passed[u] = Known(told, call, counter, u) + passed'[u]
  <2> DEFINE one == IF UserOf[i] = u THEN 1 ELSE 0
  <2>1. BytesIn(more, u) = BytesIn(counter[b], u) + one
    BY <1>2, OneMore DEF more
  <2>2. /\ Total(CountOf(counter', u), Backends) + BytesIn(counter[b], u)
               = Total(CountOf(counter, u), Backends) + BytesIn(more, u)
        /\ BytesIn(counter[b], u) \in Nat /\ BytesIn(more, u) \in Nat
    BY <1>1, <1>5, ProcessChanges
  <2>3. one \in Nat /\ passed'[u] = passed[u] + one
    BY <1>6
  <2> HIDE DEF one
  <2>4. /\ told[u] \in Nat /\ passed[u] \in Nat /\ Total(HeldBy(call, u), Callers) \in Nat
        /\ Total(CountOf(counter, u), Backends) \in Nat
        /\ Total(CountOf(counter', u), Backends) \in Nat
    BY <1>1, <1>5, KnownNumber, CountType
  <2>5. Total(CountOf(counter', u), Backends) = Total(CountOf(counter, u), Backends) + one
    BY <2>1, <2>2, <2>3, <2>4
  <2> QED BY <1>7, <2>3, <2>4, <2>5 DEF Known
<1>10. \A u \in Users : Known(told, call, counter, u) + passed'[u] \in Nat
  BY <1>1, <1>6, KnownNumber
<1>11. AnswersInHand'
  BY <1>7 DEF StatsInv, AnswersInHand
<1> QED BY <1>7, <1>8, <1>9, <1>10, <1>11, StatsKept

\* A process gets stuck, comes up, or dies with what it has counted.
LEMMA ProcessStep ==
    ASSUME StatsInv, NEW b \in Backends, Hang(b) \/ Die(b) \/ ComeUp(b)
    PROVE  StatsInv'
<1>1. /\ status \in [Backends -> {"up", "down", "silent"}]
      /\ counter \in Counters /\ call \in Calls
      /\ told \in [Users -> Nat] /\ passed \in [Users -> Nat]
      /\ lossy \subseteq Users /\ faults \in 0..MaxFaults
  BY StatsTypes DEF StatsInv
<1>2. /\ status' \in [Backends -> {"up", "down", "silent"}] /\ faults' \in 0..MaxFaults
      /\ UNCHANGED <<call, told, passed>>
  <2>1. Hang(b) => status' = [status EXCEPT ![b] = "silent"] /\ faults' = faults + 1 /\ faults < MaxFaults
    BY DEF Hang, Fault
  <2>2. Die(b) => status' = [status EXCEPT ![b] = "down"] /\ faults' = faults + 1 /\ faults < MaxFaults
    BY DEF Die, Fault
  <2>3. ComeUp(b) => status' = [status EXCEPT ![b] = "up"] /\ faults' = faults
    BY DEF ComeUp
  <2>4. UNCHANGED <<call, told, passed>>
    BY DEF Hang, Die, ComeUp
  <2> QED BY <1>1, <2>1, <2>2, <2>3, <2>4, StatsBounds
<1>3. AnswersInHand'
  BY <1>2 DEF StatsInv, AnswersInHand
<1>4. CASE ~Die(b)
  <2>1. UNCHANGED <<counter, lossy>>
    BY <1>4 DEF Hang, ComeUp
  <2>2. StatsTypeOK'
    BY <1>1, <1>2, <2>1 DEF StatsTypeOK, Counters, Calls, Call
  <2>3. \A u \in Users : Known(told, call, counter, u) + passed[u] \in Nat
    BY <1>1, KnownNumber
  <2> QED BY <1>2, <1>3, <2>1, <2>2, <2>3, StatsKept
<1>5. CASE Die(b)
  <2>1. counter' = [counter EXCEPT ![b] = Nothing] /\ lossy' = lossy \cup UsersIn(counter[b])
    BY <1>5 DEF Die
  <2>2. counter[b] \in [Idents -> Nat]
    BY <1>1 DEF Counters
  <2>3. counter' \in Counters /\ counter'[b] = Nothing /\ \A x \in Backends \ {b} : counter'[x] = counter[x]
    BY <1>1, <2>1, NothingIsZero DEF Counters
  <2>4. lossy' \subseteq Users
    BY <1>1, <2>1, UserOfAssumption DEF UsersIn
  <2>5. StatsTypeOK'
    BY <1>1, <1>2, <2>3, <2>4 DEF StatsTypeOK, Counters, Calls, Call
  <2>6. ASSUME NEW u \in Users
        PROVE  /\ Known(told', call', counter', u) + passed[u]
                     <= Known(told, call, counter, u) + passed'[u]
               /\ u \notin lossy' =>
                     /\ u \notin lossy
                     /\ Known(told', call', counter', u) + passed[u]
                           = Known(told, call, counter, u) + passed'[u]
    <3>1. /\ Total(CountOf(counter', u), Backends) + BytesIn(counter[b], u)
                 = Total(CountOf(counter, u), Backends) + BytesIn(counter'[b], u)
          /\ BytesIn(counter[b], u) \in Nat
      BY <1>1, <2>3, ProcessChanges
    <3>2. BytesIn(counter'[b], u) = 0
      BY <2>3, NothingIsZero
    <3>3. u \notin lossy' => u \notin lossy /\ BytesIn(counter[b], u) = 0
      BY <2>1, <2>2, NobodysBytes
    <3>4. /\ told[u] \in Nat /\ passed[u] \in Nat /\ Total(HeldBy(call, u), Callers) \in Nat
          /\ Total(CountOf(counter, u), Backends) \in Nat
          /\ Total(CountOf(counter', u), Backends) \in Nat
      BY <1>1, <2>3, KnownNumber, CountType
    <3> QED BY <1>2, <3>1, <3>2, <3>3, <3>4 DEF Known
  <2> QED BY <1>3, <2>5, <2>6, StatsKept
<1> QED BY <1>4, <1>5

\* A call comes to k, and nothing but lossy and what the panel was told changes with it:
\* what k gives up of a user's bytes is told, or lost.
LEMMA CallMoves ==
    ASSUME StatsInv, NEW c \in Callers, NEW k \in Call, call' = [call EXCEPT ![c] = k],
           k.pc # "answered" => k.answer = Nothing,
           UNCHANGED <<status, counter, passed>>, faults' \in 0..MaxFaults,
           told' \in [Users -> Nat], lossy' \subseteq Users, lossy \subseteq lossy',
           \A u \in Users :
              /\ told'[u] + Held(k, u) <= told[u] + Held(call[c], u)
              /\ u \notin lossy' => told'[u] + Held(k, u) = told[u] + Held(call[c], u)
    PROVE  StatsInv'
<1>1. /\ status \in [Backends -> {"up", "down", "silent"}]
      /\ counter \in Counters /\ call \in Calls
      /\ told \in [Users -> Nat] /\ passed \in [Users -> Nat]
      /\ lossy \subseteq Users /\ faults \in 0..MaxFaults
  BY StatsTypes DEF StatsInv
<1>2. /\ call' \in Calls
      /\ AnswersInHand'
      /\ \A u \in Users :
            Total(HeldBy(call', u), Callers) + Held(call[c], u)
                = Total(HeldBy(call, u), Callers) + Held(k, u)
  BY CallStep
<1>3. StatsTypeOK'
  BY <1>1, <1>2 DEF StatsTypeOK, Counters, Calls, Call
<1>4. ASSUME NEW u \in Users
      PROVE  /\ Known(told', call', counter', u) + passed[u]
                   <= Known(told, call, counter, u) + passed'[u]
             /\ u \notin lossy' =>
                   /\ u \notin lossy
                   /\ Known(told', call', counter', u) + passed[u]
                         = Known(told, call, counter, u) + passed'[u]
  <2>1. /\ told[u] \in Nat /\ told'[u] \in Nat /\ passed[u] \in Nat
        /\ Total(HeldBy(call, u), Callers) \in Nat
        /\ Total(HeldBy(call', u), Callers) \in Nat
        /\ Total(CountOf(counter, u), Backends) \in Nat
    BY <1>1, <1>2, KnownNumber, HeldType
  <2>2. Held(k, u) \in Nat /\ Held(call[c], u) \in Nat
    BY CallNow, HeldIs
  <2>3. /\ told'[u] + Held(k, u) <= told[u] + Held(call[c], u)
        /\ u \notin lossy' => told'[u] + Held(k, u) = told[u] + Held(call[c], u)
        /\ u \notin lossy' => u \notin lossy
    OBVIOUS
  <2>4. Total(HeldBy(call', u), Callers) + Held(call[c], u)
            = Total(HeldBy(call, u), Callers) + Held(k, u)
    BY <1>2
  <2> QED BY <2>1, <2>2, <2>3, <2>4 DEF Known
<1> QED BY <1>2, <1>3, <1>4, StatsKept

\* A call begins.
LEMMA FetchStep == ASSUME StatsInv, NEW c \in Callers, FetchUsersStats(c) PROVE StatsInv'
<1>1. /\ call' = [call EXCEPT ![c] = [call[c] EXCEPT !.pc = "ask"]]
      /\ UNCHANGED <<status, counter, told, passed, lossy, faults>>
  BY DEF FetchUsersStats
<1>2. call[c] \in Call /\ call[c].answer = Nothing
  BY CallNow DEF FetchUsersStats
<1>3. PICK k \in Call : /\ k = [call[c] EXCEPT !.pc = "ask"]
                         /\ k.answer = Nothing /\ k.sum = call[c].sum
  <2> DEFINE asks == [call[c] EXCEPT !.pc = "ask"]
  <2>1. asks.answer = call[c].answer /\ asks.sum = call[c].sum
    BY <1>2 DEF Call
  <2>2. asks \in Call
    BY <1>2 DEF Call
  <2> HIDE DEF asks
  <2>3. asks.answer = Nothing /\ asks.sum = call[c].sum /\ asks = [call[c] EXCEPT !.pc = "ask"]
    BY <1>2, <2>1 DEF asks
  <2> QED BY <2>2, <2>3
<1>4. call' = [call EXCEPT ![c] = k]
  BY <1>1, <1>3
<1>5. /\ told \in [Users -> Nat] /\ lossy \subseteq Users /\ faults \in 0..MaxFaults
  BY StatsTypes DEF StatsInv
<1>6. \A u \in Users : Held(k, u) = Held(call[c], u) /\ Held(k, u) \in Nat
  BY <1>2, <1>3, HeldIs DEF Held
<1>7. \A u \in Users : told'[u] + Held(k, u) <= told[u] + Held(call[c], u)
                       /\ told'[u] + Held(k, u) = told[u] + Held(call[c], u)
  BY <1>1, <1>5, <1>6
<1>8. k.pc # "answered" => k.answer = Nothing
  BY <1>3
<1>9. UNCHANGED <<status, counter, told, passed, lossy, faults>>
  BY <1>1
<1> QED BY <1>4, <1>5, <1>7, <1>8, <1>9, CallMoves

\* A backend has nothing to say, or not in time: what it has counted and the call had
\* no answer of is not lost.
LEMMA PassedOver ==
    ASSUME StatsInv, NEW c \in Callers, Refused(c) \/ TimesOut(c)
    PROVE  StatsInv'
<1> DEFINE k == Advanced(c, call[c].sum)
<1>1. /\ call' = [call EXCEPT ![c] = k] /\ UNCHANGED <<status, counter, told, passed, faults>>
      /\ Refused(c) => call[c].pc = "ask" /\ lossy' = lossy
      /\ TimesOut(c) => lossy' = lossy \cup UsersIn(call[c].answer)
  BY DEF Refused, TimesOut
<1>2. /\ call[c] \in Call /\ call[c].answer \in [Idents -> Nat] /\ call[c].sum \in [Users -> Nat]
      /\ Refused(c) => call[c].answer = Nothing
  BY <1>1, CallNow
<1>3. k \in Call /\ k.answer = Nothing /\ \A u \in Users : Held(k, u) = call[c].sum[u]
  BY <1>2, AdvancedIs
<1>4. told \in [Users -> Nat] /\ lossy \subseteq Users /\ faults \in 0..MaxFaults
  BY StatsTypes DEF StatsInv
<1>5. lossy' \subseteq Users /\ lossy \subseteq lossy'
  BY <1>1, <1>4, UserOfAssumption DEF UsersIn
<1> HIDE DEF k
<1>6. ASSUME NEW u \in Users
      PROVE  /\ told'[u] + Held(k, u) <= told[u] + Held(call[c], u)
             /\ u \notin lossy' => told'[u] + Held(k, u) = told[u] + Held(call[c], u)
  <2>1. Held(k, u) = call[c].sum[u] /\ Held(call[c], u) = call[c].sum[u] + BytesIn(call[c].answer, u)
    BY <1>3 DEF Held
  <2>2. told'[u] = told[u] /\ told[u] \in Nat /\ call[c].sum[u] \in Nat /\ BytesIn(call[c].answer, u) \in Nat
    BY <1>1, <1>2, <1>4, HeldIs
  <2>3. u \notin lossy' => BytesIn(call[c].answer, u) = 0
    BY <1>1, <1>2, NothingIsZero, NobodysBytes
  <2> QED BY <2>1, <2>2, <2>3
<1> QED BY <1>1, <1>3, <1>4, <1>5, <1>6, CallMoves

\* The answer arrives and is added to what the backends before have given.
LEMMA GetUsagesStep == ASSUME StatsInv, NEW c \in Callers, GetUsages(c) PROVE StatsInv'
<1>1. PICK usage \in UsagesOf(Ask(c), call[c].answer) :
          /\ call' = [call EXCEPT ![c] = Advanced(c, Collected(call[c].sum, usage))]
          /\ lossy' = IF Whole(call[c].answer, usage) THEN lossy
                      ELSE lossy \cup UsersIn(call[c].answer)
  BY DEF GetUsages
<1> DEFINE sum == Collected(call[c].sum, usage)
           k == Advanced(c, sum)
<1>2. /\ call[c] \in Call /\ call[c].answer \in [Idents -> Nat] /\ call[c].sum \in [Users -> Nat]
  BY CallNow
<1>3. /\ usage \in [Users -> Nat]
      /\ \A u \in Users : usage[u] <= BytesIn(call[c].answer, u)
      /\ Whole(call[c].answer, usage) => \A u \in Users : usage[u] = BytesIn(call[c].answer, u)
  BY <1>2, UsageIs
<1>4. sum \in [Users -> Nat] /\ \A u \in Users : sum[u] = call[c].sum[u] + usage[u]
  BY <1>2, <1>3 DEF Collected
<1> HIDE DEF sum
<1>5. k \in Call /\ k.answer = Nothing /\ \A u \in Users : Held(k, u) = sum[u]
  BY <1>4, AdvancedIs
<1> HIDE DEF k
<1>6. call' = [call EXCEPT ![c] = k] /\ UNCHANGED <<status, counter, told, passed, faults>>
  BY <1>1 DEF GetUsages, k, sum
<1>7. told \in [Users -> Nat] /\ lossy \subseteq Users /\ faults \in 0..MaxFaults
  BY StatsTypes DEF StatsInv
<1>8. lossy' \subseteq Users /\ lossy \subseteq lossy'
  BY <1>1, <1>7, UserOfAssumption DEF UsersIn
<1>9. ASSUME NEW u \in Users
      PROVE  /\ told'[u] + Held(k, u) <= told[u] + Held(call[c], u)
             /\ u \notin lossy' => told'[u] + Held(k, u) = told[u] + Held(call[c], u)
  <2> DEFINE bytes == BytesIn(call[c].answer, u)
  <2>1. Held(k, u) = call[c].sum[u] + usage[u] /\ Held(call[c], u) = call[c].sum[u] + bytes
    BY <1>4, <1>5 DEF Held
  <2>2. told'[u] = told[u] /\ told[u] \in Nat /\ call[c].sum[u] \in Nat /\ bytes \in Nat /\ usage[u] \in Nat
    BY <1>2, <1>3, <1>6, <1>7, HeldIs
  <2>3. usage[u] <= bytes
    BY <1>3
  <2>4. u \notin lossy' => usage[u] = bytes
    <3>1. CASE Whole(call[c].answer, usage)
      BY <1>3, <3>1
    <3>2. CASE ~Whole(call[c].answer, usage) /\ u \notin lossy'
      <4>1. u \notin UsersIn(call[c].answer)
        BY <1>1, <3>2
      <4>2. bytes = 0
        BY <1>2, <4>1, NobodysBytes
      <4> HIDE DEF bytes
      <4> QED BY <2>2, <2>3, <4>2
    <3> QED BY <3>1, <3>2
  <2> HIDE DEF bytes
  <2> QED BY <2>1, <2>2, <2>3, <2>4
<1> QED BY <1>5, <1>6, <1>7, <1>8, <1>9, CallMoves

\* The panel is told.
LEMMA SendStep == ASSUME StatsInv, NEW c \in Callers, SendStats(c) PROVE StatsInv'
<1>1. /\ call' = [call EXCEPT ![c] = Idle] /\ UNCHANGED <<status, counter, passed, lossy, faults>>
      /\ told' = [u \in Users |-> told[u] + call[c].sum[u]]
  BY DEF SendStats
<1>2. call[c] \in Call /\ call[c].sum \in [Users -> Nat] /\ call[c].answer = Nothing
  BY CallNow DEF SendStats
<1>3. told \in [Users -> Nat] /\ lossy \subseteq Users /\ faults \in 0..MaxFaults
  BY StatsTypes DEF StatsInv
<1>4. told' \in [Users -> Nat] /\ \A u \in Users : told'[u] = told[u] + call[c].sum[u]
  BY <1>1, <1>2, <1>3
<1>5. ASSUME NEW u \in Users
      PROVE  /\ told'[u] + Held(Idle, u) <= told[u] + Held(call[c], u)
             /\ told'[u] + Held(Idle, u) = told[u] + Held(call[c], u)
  <2>1. Held(Idle, u) = 0
    BY IdleIs
  <2>2. Held(call[c], u) = call[c].sum[u] + 0
    BY <1>2, NothingIsZero DEF Held
  <2>3. told[u] \in Nat /\ call[c].sum[u] \in Nat
    BY <1>2, <1>3
  <2> QED BY <1>4, <2>1, <2>2, <2>3
<1> QED BY <1>1, <1>3, <1>4, <1>5, IdleIs, CallMoves, ZenonT(60)

\* A call fails, or the request to hysteria takes too long: what it has collected is lost.
LEMMA FailsStep == ASSUME StatsInv, NEW c \in Callers, Fails(c) \/ GivesUp(c) PROVE StatsInv'
<1>1. /\ call' = [call EXCEPT ![c] = Idle] /\ UNCHANGED <<status, counter, told, passed>>
      /\ lossy' = lossy \cup UsersOf(call[c].sum) \cup UsersIn(call[c].answer)
      /\ faults' = faults \/ (faults < MaxFaults /\ faults' = faults + 1)
  BY DEF Fails, GivesUp, Fault
<1>2. call[c] \in Call /\ call[c].sum \in [Users -> Nat] /\ call[c].answer \in [Idents -> Nat]
  BY CallNow
<1>3. told \in [Users -> Nat] /\ lossy \subseteq Users /\ faults \in 0..MaxFaults
  BY StatsTypes DEF StatsInv
<1>4. lossy' \subseteq Users /\ lossy \subseteq lossy' /\ faults' \in 0..MaxFaults
  BY <1>1, <1>3, UserOfAssumption, StatsBounds DEF UsersIn, UsersOf
<1>5. ASSUME NEW u \in Users
      PROVE  /\ told'[u] + Held(Idle, u) <= told[u] + Held(call[c], u)
             /\ u \notin lossy' => told'[u] + Held(Idle, u) = told[u] + Held(call[c], u)
  <2>1. Held(Idle, u) = 0 /\ Held(call[c], u) = call[c].sum[u] + BytesIn(call[c].answer, u)
    BY IdleIs DEF Held
  <2>2. told'[u] = told[u] /\ told[u] \in Nat /\ call[c].sum[u] \in Nat /\ BytesIn(call[c].answer, u) \in Nat
    BY <1>1, <1>2, <1>3, HeldIs
  <2>3. u \notin lossy' => call[c].sum[u] = 0
    BY <1>1, <2>2 DEF UsersOf
  <2>4. u \notin lossy' => BytesIn(call[c].answer, u) = 0
    BY <1>1, <1>2, NobodysBytes
  <2> QED BY <2>1, <2>2, <2>3, <2>4
<1> QED BY <1>1, <1>3, <1>4, <1>5, IdleIs, CallMoves

\* A process answers: what it has counted goes from it to the call.
LEMMA QueryStep == ASSUME StatsInv, NEW c \in Callers, QueryStats(c) PROVE StatsInv'
<1> DEFINE b == Ask(c)
           k == [call[c] EXCEPT !.pc = "answered", !.answer = counter[b]]
<1>1. /\ status \in [Backends -> {"up", "down", "silent"}]
      /\ counter \in Counters /\ call \in Calls
      /\ told \in [Users -> Nat] /\ passed \in [Users -> Nat]
      /\ lossy \subseteq Users /\ faults \in 0..MaxFaults
  BY StatsTypes DEF StatsInv
<1>2. /\ call' = [call EXCEPT ![c] = k] /\ counter' = [counter EXCEPT ![b] = Nothing]
      /\ UNCHANGED <<status, told, passed, lossy, faults>>
  BY DEF QueryStats, ResetCounter
<1>3. call[c] \in Call /\ b \in Backends /\ call[c].answer = Nothing /\ call[c].sum \in [Users -> Nat]
  BY CallNow DEF QueryStats
<1> HIDE DEF b
<1>4. counter[b] \in [Idents -> Nat]
  BY <1>1, <1>3 DEF Counters
<1>5. k \in Call /\ k.pc = "answered" /\ k.answer = counter[b] /\ k.sum = call[c].sum
  BY <1>3, <1>4 DEF Call
<1> HIDE DEF k
<1>6. counter' \in Counters /\ counter'[b] = Nothing /\ \A x \in Backends \ {b} : counter'[x] = counter[x]
  BY <1>1, <1>2, <1>3, NothingIsZero DEF Counters
<1>7. /\ call' \in Calls
      /\ AnswersInHand'
      /\ \A u \in Users :
            Total(HeldBy(call', u), Callers) + Held(call[c], u)
                = Total(HeldBy(call, u), Callers) + Held(k, u)
  BY <1>2, <1>5, CallStep
<1>8. StatsTypeOK'
  BY <1>1, <1>2, <1>6, <1>7 DEF StatsTypeOK, Counters, Calls, Call
<1>9. ASSUME NEW u \in Users
      PROVE  Known(told', call', counter', u) + passed[u] = Known(told, call, counter, u) + passed'[u]
  <2>1. /\ Total(CountOf(counter', u), Backends) + BytesIn(counter[b], u)
               = Total(CountOf(counter, u), Backends) + BytesIn(counter'[b], u)
        /\ BytesIn(counter[b], u) \in Nat
    BY <1>1, <1>3, <1>6, ProcessChanges
  <2>2. BytesIn(counter'[b], u) = 0
    BY <1>6, NothingIsZero
  <2>3. Held(k, u) = call[c].sum[u] + BytesIn(counter[b], u) /\ Held(call[c], u) = call[c].sum[u] + 0
    BY <1>3, <1>5, NothingIsZero DEF Held
  <2>4. /\ told[u] \in Nat /\ passed[u] \in Nat /\ call[c].sum[u] \in Nat
        /\ Total(HeldBy(call, u), Callers) \in Nat
        /\ Total(HeldBy(call', u), Callers) \in Nat
        /\ Total(CountOf(counter, u), Backends) \in Nat
        /\ Total(CountOf(counter', u), Backends) \in Nat
    BY <1>1, <1>3, <1>6, <1>7, KnownNumber, HeldType, CountType
  <2>5. Total(HeldBy(call', u), Callers) + Held(call[c], u)
            = Total(HeldBy(call, u), Callers) + Held(k, u)
    BY <1>7
  <2>6. told'[u] = told[u] /\ passed'[u] = passed[u]
    BY <1>2
  <2>7. Total(HeldBy(call', u), Callers) = Total(HeldBy(call, u), Callers) + BytesIn(counter[b], u)
    BY <2>1, <2>3, <2>4, <2>5
  <2>8. Total(CountOf(counter', u), Backends) + BytesIn(counter[b], u)
            = Total(CountOf(counter, u), Backends)
    BY <2>1, <2>2, <2>4
  <2> QED BY <2>1, <2>4, <2>6, <2>7, <2>8 DEF Known
<1>10. \A u \in Users : Known(told, call, counter, u) + passed'[u] \in Nat
  BY <1>1, <1>2, KnownNumber
<1>11. lossy' = lossy
  BY <1>2
<1> QED BY <1>7, <1>8, <1>9, <1>10, <1>11, StatsKept

LEMMA StatsStep == StatsInv /\ [StatsNext]_statsVars => StatsInv'
<1> SUFFICES ASSUME StatsInv, [StatsNext]_statsVars PROVE StatsInv'
  OBVIOUS
<1>1. CASE UNCHANGED statsVars
  BY <1>1 DEF statsVars, StatsInv, StatsTypeOK, AnswersInHand, Known, HeldBy, CountOf
<1>2. ASSUME NEW b \in Backends, NEW i \in Idents, Traffic(b, i) PROVE StatsInv'
  BY <1>2, TrafficStep
<1>3. ASSUME NEW b \in Backends, Hang(b) \/ Die(b) \/ ComeUp(b) PROVE StatsInv'
  BY <1>3, ProcessStep
<1>4. ASSUME NEW c \in Callers, FetchUsersStats(c) \/ Step(c) \/ Fails(c) PROVE StatsInv'
  BY <1>4, FetchStep, QueryStep, GetUsagesStep, PassedOver, SendStep, FailsStep DEF Step
<1> QED BY <1>1, <1>2, <1>3, <1>4 DEF StatsNext

LEMMA StatsInvariant == StatsSpec => []StatsInv
  BY StatsBegins, StatsStep, PTL DEF StatsSpec

(***************************************************************************)
(* Theorems.                                                               *)
(***************************************************************************)
\* No byte is told twice, however many calls overlap, fail or time out, and whatever the
\* processes do meanwhile: a process answers with what it has counted and starts again
\* from 0 in one step, and a call tells what it has once.
THEOREM NoByteIsToldTwice == StatsSpec => []NothingTwice
<1>1. StatsInv => NothingTwice
  BY KnownNow DEF StatsInv, NothingTwice, KnownIs, Known
<1> QED BY <1>1, StatsInvariant, PTL

\* And none is lost but by a process that died with its counters, a call that failed, a
\* sing-box that took too long after it had counted, and two usernames of a user in one
\* answer of hysteria.
THEOREM BytesReachThePanel == StatsSpec => []NothingLost
<1>1. StatsInv => NothingLost
  BY KnownNow DEF StatsInv, NothingLost, KnownIs, Known
<1> QED BY <1>1, StatsInvariant, PTL

-----------------------------------------------------------------------------
(***************************************************************************)
(* LogStreams: the parts.                                                  *)
(***************************************************************************)
Cursor == [pc : {"read", "send", "sent", "done"}, n : Nat, eof : BOOLEAN, idx : Nat,
           to : Streams, due : SUBSET Streams]

Line == Captures \X Nat

\* A capture is on its round of the streams.
OnRound(c) == c.pc \in {"send", "sent"}

\* The streams of the list to which the walk of a capture has yet to come.
Ahead(c, list) == {list[i] : i \in c.idx + 1..Len(list)}

\* The lines of a capture that have been round.
Round(c) == IF OnRound(c) THEN c.n - 1 ELSE c.n

\* A call that has not registered its stream.
Waiting(s) == reader[s] \in {"absent", "buffer"} \/ todo[s] # <<>>

Distinct(q) == \A i, j \in 1..Len(q) : q[i] = q[j] => i = j

\* The lines of each capture are in order, and have been round.
InLine(q, curs) ==
    /\ \A i, j \in 1..Len(q) : i < j /\ q[i][1] = q[j][1] => q[i][2] < q[j][2]
    /\ \A i \in 1..Len(q) : q[i][2] >= 1 /\ q[i][2] <= Round(curs[q[i][1]])

CursorOK(c) ==
    /\ c.n <= MaxLines + 1
    /\ ~c.eof => c.n <= MaxLines
    /\ c.pc = "read" => ~c.eof
    /\ OnRound(c) => c.n >= 1

LogTypes ==
    /\ ended \in BOOLEAN /\ stopEvent \in BOOLEAN
    /\ cap \in [Captures -> Cursor]
    /\ \A x \in Captures : CursorOK(cap[x])
    /\ snd \in Seq(Streams)
    /\ buffer \in Seq(Line) /\ Len(buffer) <= BufferSize
    /\ open \subseteq Streams
    /\ reader \in [Streams -> {"absent", "buffer", "reading", "sending", "stalled", "gone"}]
    /\ todo \in [Clients -> Seq(Line)]
    /\ last \in [Clients -> [Captures -> Nat]]
    /\ stalls \in 0..MaxStalls

\* A stream the walk of capture x does not know, whose client has no line of this round.
Outside(s, x, c, had) == c.to # s /\ s \notin c.due /\ had[s][x] <= Round(c)

\* A call that has not registered is in no walk, and has only lines that have been round.
NotYetThere ==
    \A s \in Clients : Waiting(s) =>
        s \notin ToSet(snd) /\ \A x \in Captures : Outside(s, x, cap[x], last)

\* What a call may still send of the buffer.
CopyOK(s) ==
    /\ reader[s] = "absent" => todo[s] = <<>> /\ \A x \in Captures : last[s][x] = 0
    /\ reader[s] = "buffer" => todo[s] # <<>>
    /\ InLine(todo[s], cap)
    /\ \A i \in 1..Len(todo[s]) : last[s][todo[s][i][1]] < todo[s][i][2]

Copies == InLine(buffer, cap) /\ \A s \in Clients : CopyOK(s)

\* Nobody has a line of capture x before it comes: not the stream the line is handed
\* to, nor those ahead.
Clear(x, c, list, had) ==
    /\ \A s \in Clients : had[s][x] <= c.n
    /\ OnRound(c) =>
          /\ c.to \notin Ahead(c, list)
          /\ \A s \in Ahead(c, list) \cap Clients : had[s][x] < c.n
          /\ c.pc = "send" /\ c.to \in Clients => had[c.to][x] < c.n

\* Those a line is due to have it, are at it, or are ahead.
Served(x, c, list, had, there) ==
    OnRound(c) => \A s \in there \cap c.due \cap Clients :
        \/ had[s][x] = c.n
        \/ c.pc = "send" /\ c.to = s
        \/ s \in Ahead(c, list)

Walks == \A x \in Captures : /\ Clear(x, cap[x], snd, last)
                             /\ Served(x, cap[x], snd, last, open)

LogInv == LogTypes /\ Distinct(snd) /\ NotYetThere /\ Copies /\ Walks

\* Onward: the walk comes to the next stream of the list, or the round is over.
LEMMA OnwardIs ==
    ASSUME NEW c \in Cursor, NEW list \in Seq(Streams)
    PROVE  LET d == Onward(c, list) IN
           /\ d \in Cursor
           /\ d.n = c.n /\ d.eof = c.eof /\ d.due = c.due
           /\ c.idx < Len(list) =>
                 /\ d.pc = "send" /\ d.to = list[c.idx + 1] /\ d.idx = c.idx + 1
                 /\ d.to \in Ahead(c, list)
                 /\ Ahead(c, list) = {d.to} \cup Ahead(d, list)
           /\ ~(c.idx < Len(list)) =>
                 /\ d.pc = (IF c.eof THEN "done" ELSE "read") /\ d.to = Startup
                 /\ Ahead(c, list) = {}
<1> DEFINE d == Onward(c, list)
<1>1. CASE c.idx < Len(list)
  <2>1. d = [c EXCEPT !.pc = "send", !.idx = c.idx + 1, !.to = list[c.idx + 1]]
    BY <1>1 DEF Onward
  <2>2. c.idx \in Nat /\ Len(list) \in Nat /\ c.idx + 1 \in 1..Len(list)
    BY <1>1 DEF Cursor
  <2>3. list[c.idx + 1] \in Streams
    BY <2>2
  <2>4. /\ d.pc = "send" /\ d.to = list[c.idx + 1] /\ d.idx = c.idx + 1
        /\ d.n = c.n /\ d.eof = c.eof /\ d.due = c.due
    BY <2>1 DEF Cursor
  <2>5. d \in Cursor
    <3>1. d = [pc |-> "send", n |-> c.n, eof |-> c.eof, idx |-> c.idx + 1,
               to |-> list[c.idx + 1], due |-> c.due]
      BY <2>1 DEF Cursor
    <3>2. c.n \in Nat /\ c.eof \in BOOLEAN /\ c.due \in SUBSET Streams
      BY DEF Cursor
    <3> HIDE DEF d
    <3> QED BY <2>2, <2>3, <3>1, <3>2 DEF Cursor
  <2>6. c.idx + 1..Len(list) = {c.idx + 1} \cup (d.idx + 1..Len(list))
    BY <2>2, <2>4
  <2>7. Ahead(c, list) = {d.to} \cup Ahead(d, list)
    BY <2>4, <2>6 DEF Ahead
  <2> QED BY <1>1, <2>4, <2>5, <2>7
<1>2. CASE ~(c.idx < Len(list))
  <2>1. d = [c EXCEPT !.pc = IF c.eof THEN "done" ELSE "read", !.idx = 0, !.to = Startup]
    BY <1>2 DEF Onward, RoundOver
  <2>2. /\ d.pc = (IF c.eof THEN "done" ELSE "read") /\ d.to = Startup
        /\ d.n = c.n /\ d.eof = c.eof /\ d.due = c.due
    BY <2>1 DEF Cursor
  <2>3. d \in Cursor
    <3>1. d = [pc |-> IF c.eof THEN "done" ELSE "read", n |-> c.n, eof |-> c.eof,
               idx |-> 0, to |-> Startup, due |-> c.due]
      BY <2>1 DEF Cursor
    <3>2. c.n \in Nat /\ c.eof \in BOOLEAN /\ c.due \in SUBSET Streams
      BY DEF Cursor
    <3>3. Startup \in Streams
      BY DEF Streams
    <3> HIDE DEF d
    <3> QED BY <3>1, <3>2, <3>3 DEF Cursor
  <2>4. c.idx + 1..Len(list) = {}
    BY <1>2 DEF Cursor
  <2>5. Ahead(c, list) = {}
    BY <2>4 DEF Ahead
  <2> QED BY <1>2, <2>2, <2>3, <2>5
<1> QED BY <1>1, <1>2

\* A walk before it goes on: those ahead do not have the line, the others due have it.
Ready(x, c, list, had, there) ==
    /\ \A s \in Clients : had[s][x] <= c.n
    /\ \A s \in Ahead(c, list) \cap Clients : had[s][x] < c.n
    /\ \A s \in there \cap c.due \cap Clients : had[s][x] = c.n \/ s \in Ahead(c, list)

AllHave(x, c, had, there) == \A s \in there \cap c.due \cap Clients : had[s][x] = c.n

\* A walk that goes on keeps its hold on those ahead.
LEMMA OnwardKeeps ==
    ASSUME NEW x, NEW c \in Cursor, NEW list \in Seq(Streams),
           Distinct(list), NEW had, NEW there, Ready(x, c, list, had, there)
    PROVE  /\ Clear(x, Onward(c, list), list, had)
           /\ Served(x, Onward(c, list), list, had, there)
           /\ ~OnRound(Onward(c, list)) => AllHave(x, c, had, there)
<1> USE DEF Ready
<1> DEFINE d == Onward(c, list)
<1>1. CASE c.idx < Len(list)
  <2>1. /\ d.pc = "send" /\ d.to = list[c.idx + 1] /\ d.idx = c.idx + 1
        /\ d.n = c.n /\ d.due = c.due
        /\ Ahead(c, list) = {d.to} \cup Ahead(d, list)
    BY <1>1, OnwardIs
  <2> HIDE DEF d
  <2>2. d.to \notin Ahead(d, list)
    <3> SUFFICES ASSUME NEW i \in c.idx + 2..Len(list), list[i] = list[c.idx + 1]
                 PROVE  FALSE
      BY <2>1 DEF Ahead, Cursor
    <3> QED BY <1>1 DEF Distinct, Cursor
  <2>3. Clear(x, d, list, had)
    BY <2>1, <2>2 DEF Clear
  <2>4. Served(x, d, list, had, there)
    BY <2>1 DEF Served
  <2>5. OnRound(d)
    BY <2>1 DEF OnRound
  <2> QED BY <2>3, <2>4, <2>5 DEF d
<1>2. CASE ~(c.idx < Len(list))
  <2>1. d.pc \in {"read", "done"} /\ d.n = c.n /\ Ahead(c, list) = {}
    BY <1>2, OnwardIs
  <2> HIDE DEF d
  <2>2. ~OnRound(d)
    BY <2>1 DEF OnRound
  <2>3. Clear(x, d, list, had) /\ Served(x, d, list, had, there)
    BY <2>1, <2>2 DEF Clear, Served
  <2>4. AllHave(x, c, had, there)
    BY <2>1 DEF AllHave
  <2> QED BY <2>3, <2>4 DEF d
<1> QED BY <1>1, <1>2

\* A list without the stream at one place.
LEMMA RemoveAtIs ==
    ASSUME NEW S, NEW q \in Seq(S), NEW p \in 1..Len(q)
    PROVE  /\ RemoveAt(q, p) \in Seq(S)
           /\ Len(RemoveAt(q, p)) = Len(q) - 1
           /\ \A i \in 1..Len(q) - 1 :
                 RemoveAt(q, p)[i] = IF i < p THEN q[i] ELSE q[i + 1]
<1> DEFINE left == SubSeq(q, 1, p - 1)
           right == SubSeq(q, p + 1, Len(q))
<1>1. left \in Seq(S) /\ Len(left) = p - 1 /\ \A i \in 1..p - 1 : left[i] = q[i]
  BY SubSeqProperties
<1>2. /\ right \in Seq(S) /\ Len(right) = Len(q) - p
      /\ \A i \in 1..Len(q) - p : right[i] = q[p + i]
  BY SubSeqProperties
<1>3. RemoveAt(q, p) = left \o right
  BY DEF RemoveAt
<1> HIDE DEF left, right
<1>4. /\ left \o right \in Seq(S)
      /\ Len(left \o right) = Len(left) + Len(right)
      /\ \A i \in 1..Len(left) + Len(right) :
            (left \o right)[i] = IF i <= Len(left) THEN left[i] ELSE right[i - Len(left)]
  BY <1>1, <1>2, ConcatProperties
<1>5. Len(left) + Len(right) = Len(q) - 1
  BY <1>1, <1>2
<1>6. ASSUME NEW i \in 1..Len(q) - 1
      PROVE  (left \o right)[i] = IF i < p THEN q[i] ELSE q[i + 1]
  <2>1. (left \o right)[i] = IF i <= p - 1 THEN left[i] ELSE right[i - (p - 1)]
    BY <1>1, <1>4, <1>5
  <2>2. CASE i < p
    BY <1>1, <2>1, <2>2
  <2>3. CASE ~(i < p)
    <3>1. i - (p - 1) \in 1..Len(q) - p /\ p + (i - (p - 1)) = i + 1
      BY <2>3
    <3>2. (left \o right)[i] = right[i - (p - 1)]
      BY <2>1, <2>3
    <3> QED BY <1>2, <2>3, <3>1, <3>2
  <2> QED BY <2>2, <2>3
<1> QED BY <1>3, <1>4, <1>5, <1>6

\* When a stream is taken from the list, nobody comes to be ahead of a walk, and nobody
\* ahead to whom the line is still due is passed, but the one that was taken.
LEMMA RemovedAhead ==
    ASSUME LogTypes, NEW y \in Captures, NEW p \in 1..Len(snd)
    PROVE  LET c == Shifted(y, p)
               list == RemoveAt(snd, p)
           IN /\ c \in Cursor
              /\ c.pc = cap[y].pc /\ c.n = cap[y].n /\ c.eof = cap[y].eof
              /\ c.idx = cap[y].idx /\ c.to = cap[y].to /\ c.due \subseteq cap[y].due
              /\ Ahead(c, list) \subseteq Ahead(cap[y], snd)
              /\ \A s \in Ahead(cap[y], snd) \cap c.due : s = snd[p] \/ s \in Ahead(c, list)
<1> DEFINE c == Shifted(y, p)
           list == RemoveAt(snd, p)
<1>0. cap[y] \in Cursor /\ snd \in Seq(Streams)
  BY DEF LogTypes
<1>1. /\ list \in Seq(Streams) /\ Len(list) = Len(snd) - 1
      /\ \A i \in 1..Len(snd) - 1 : list[i] = IF i < p THEN snd[i] ELSE snd[i + 1]
  BY <1>0, RemoveAtIs, Zenon
<1>2. /\ c \in Cursor
      /\ c.pc = cap[y].pc /\ c.n = cap[y].n /\ c.eof = cap[y].eof
      /\ c.idx = cap[y].idx /\ c.to = cap[y].to
      /\ c.due = IF p <= cap[y].idx /\ cap[y].idx < Len(snd)
                 THEN cap[y].due \ {snd[cap[y].idx + 1]} ELSE cap[y].due
  BY <1>0 DEF Shifted, Cursor
<1> DEFINE k == cap[y].idx
<1>3. k \in Nat /\ Len(snd) \in Nat
  BY <1>0 DEF Cursor
<1> HIDE DEF c, list, k
<1>4. Ahead(c, list) \subseteq Ahead(cap[y], snd)
  <2> SUFFICES ASSUME NEW i \in k + 1..Len(list) PROVE list[i] \in Ahead(cap[y], snd)
    BY <1>2 DEF Ahead, k
  <2>1. list[i] = snd[i] \/ (i + 1 <= Len(snd) /\ list[i] = snd[i + 1])
    BY <1>1, <1>3
  <2>2. i \in k + 1..Len(snd) /\ (i + 1 <= Len(snd) => i + 1 \in k + 1..Len(snd))
    BY <1>1, <1>3
  <2> QED BY <2>1, <2>2 DEF Ahead, k
<1>5. ASSUME NEW i \in k + 1..Len(snd), snd[i] \in c.due, snd[i] # snd[p]
      PROVE  snd[i] \in Ahead(c, list)
  <2>1. CASE i < p
    <3>1. i \in k + 1..Len(list) /\ list[i] = snd[i]
      BY <1>1, <1>3, <2>1
    <3> QED BY <3>1, <1>2 DEF Ahead, k
  <2>2. CASE i > p
    <3>1. k < Len(snd)
      BY <1>3
    <3>2. i # k + 1 \/ p > k
      BY <1>2, <1>3, <1>5, <3>1 DEF k
    <3>3. i - 1 \in k + 1..Len(list) /\ list[i - 1] = snd[i]
      BY <1>1, <1>3, <2>2, <3>2
    <3> QED BY <3>3, <1>2 DEF Ahead, k
  <2> QED BY <1>3, <1>5, <2>1, <2>2
<1>6. \A s \in Ahead(cap[y], snd) \cap c.due : s = snd[p] \/ s \in Ahead(c, list)
  BY <1>5 DEF Ahead, k
<1> QED BY <1>2, <1>4, <1>6 DEF c, list

\* Lines that are in order stay so when rounds end, when one more comes that has been
\* round just now, and when the first is taken.
LEMMA RoundType ==
    ASSUME NEW c \in Cursor, CursorOK(c)
    PROVE  Round(c) \in Nat
BY DEF Cursor, CursorOK, Round, OnRound

LEMMA InLineLater ==
    ASSUME NEW q \in Seq(Line), NEW old, NEW new, InLine(q, old),
           \A x \in Captures : /\ Round(old[x]) \in Nat /\ Round(new[x]) \in Nat
                               /\ Round(old[x]) <= Round(new[x])
    PROVE  InLine(q, new)
<1>1. ASSUME NEW i \in 1..Len(q) PROVE q[i][2] >= 1 /\ q[i][2] <= Round(new[q[i][1]])
  <2>1. q[i] \in Line
    OBVIOUS
  <2>2. q[i][1] \in Captures /\ q[i][2] \in Nat
    BY <2>1 DEF Line
  <2>3. q[i][2] >= 1 /\ q[i][2] <= Round(old[q[i][1]])
    BY DEF InLine
  <2> QED BY <2>2, <2>3
<1> QED BY <1>1 DEF InLine

LEMMA InLineAppend ==
    ASSUME NEW q \in Seq(Line), NEW curs, InLine(q, curs), NEW x \in Captures, NEW n \in Nat,
           n >= 1, n <= Round(curs[x]),
           \A i \in 1..Len(q) : q[i][1] = x => q[i][2] < n
    PROVE  InLine(Append(q, <<x, n>>), curs)
<1> DEFINE all == Append(q, <<x, n>>)
<1>1. /\ Len(all) = Len(q) + 1 /\ all[Len(q) + 1] = <<x, n>>
      /\ \A i \in 1..Len(q) : all[i] = q[i]
  OBVIOUS
<1> HIDE DEF all
<1>2. \A i, j \in 1..Len(all) : i < j /\ all[i][1] = all[j][1] => all[i][2] < all[j][2]
  <2> SUFFICES ASSUME NEW i \in 1..Len(all), NEW j \in 1..Len(all),
                      i < j, all[i][1] = all[j][1]
               PROVE  all[i][2] < all[j][2]
    OBVIOUS
  <2>1. i \in 1..Len(q) /\ all[i] = q[i]
    BY <1>1
  <2>2. CASE j = Len(q) + 1
    BY <1>1, <2>1, <2>2
  <2>3. CASE j # Len(q) + 1
    <3>1. j \in 1..Len(q) /\ all[j] = q[j]
      BY <1>1, <2>3
    <3> QED BY <2>1, <3>1 DEF InLine
  <2> QED BY <2>2, <2>3
<1>3. \A i \in 1..Len(all) : all[i][2] >= 1 /\ all[i][2] <= Round(curs[all[i][1]])
  <2> SUFFICES ASSUME NEW i \in 1..Len(all)
               PROVE  all[i][2] >= 1 /\ all[i][2] <= Round(curs[all[i][1]])
    OBVIOUS
  <2>1. CASE i = Len(q) + 1
    BY <1>1, <2>1
  <2>2. CASE i # Len(q) + 1
    <3>1. i \in 1..Len(q) /\ all[i] = q[i]
      BY <1>1, <2>2
    <3> QED BY <3>1 DEF InLine
  <2> QED BY <2>1, <2>2
<1>4. InLine(all, curs)
  BY <1>2, <1>3 DEF InLine
<1> QED BY <1>4 DEF all

LEMMA InLineTail ==
    ASSUME NEW q \in Seq(Line), NEW curs, InLine(q, curs), q # <<>>
    PROVE  /\ InLine(Tail(q), curs) /\ Tail(q) \in Seq(Line) /\ Len(Tail(q)) = Len(q) - 1
           /\ \A i \in 1..Len(Tail(q)) : Tail(q)[i] = q[i + 1]
<1>1. /\ Tail(q) \in Seq(Line) /\ Len(Tail(q)) = Len(q) - 1
      /\ \A i \in 1..Len(q) - 1 : Tail(q)[i] = q[i + 1]
  OBVIOUS
<1> DEFINE rest == Tail(q)
<1> HIDE DEF rest
<1>2. /\ rest \in Seq(Line) /\ Len(rest) = Len(q) - 1
      /\ \A i \in 1..Len(q) - 1 : rest[i] = q[i + 1]
  BY <1>1 DEF rest
<1>3. \A i, j \in 1..Len(rest) : i < j /\ rest[i][1] = rest[j][1] => rest[i][2] < rest[j][2]
  <2> SUFFICES ASSUME NEW i \in 1..Len(rest), NEW j \in 1..Len(rest),
                      i < j, rest[i][1] = rest[j][1]
               PROVE  rest[i][2] < rest[j][2]
    OBVIOUS
  <2>1. /\ rest[i] = q[i + 1] /\ rest[j] = q[j + 1]
        /\ i + 1 \in 1..Len(q) /\ j + 1 \in 1..Len(q) /\ i + 1 < j + 1
    BY <1>2
  <2> QED BY <2>1 DEF InLine
<1>4. \A i \in 1..Len(rest) : rest[i][2] >= 1 /\ rest[i][2] <= Round(curs[rest[i][1]])
  <2> SUFFICES ASSUME NEW i \in 1..Len(rest)
               PROVE  rest[i][2] >= 1 /\ rest[i][2] <= Round(curs[rest[i][1]])
    OBVIOUS
  <2>1. rest[i] = q[i + 1] /\ i + 1 \in 1..Len(q)
    BY <1>2
  <2> QED BY <2>1 DEF InLine
<1>5. InLine(rest, curs)
  BY <1>3, <1>4 DEF InLine
<1> QED BY <1>1, <1>5 DEF rest

\* The buffer after a capture has gone on: it holds lines that have been round.
LEMMA BufferStep ==
    ASSUME LogTypes, Copies, NEW x \in Captures, NEW c \in Cursor, NEW curs,
           curs[x] = c,
           \A y \in Captures : Round(curs[y]) \in Nat /\ Round(cap[y]) <= Round(curs[y]),
           ~OnRound(c) => Round(cap[x]) < c.n
    PROVE  /\ Buffered(c, x) \in Seq(Line) /\ Len(Buffered(c, x)) <= BufferSize
           /\ InLine(Buffered(c, x), curs)
<1>1. /\ buffer \in Seq(Line) /\ Len(buffer) <= BufferSize /\ BufferSize \in Nat
      /\ InLine(buffer, cap)
  BY LogBounds DEF LogTypes, Copies
<1>2. \A y \in Captures : Round(cap[y]) \in Nat
  BY RoundType DEF LogTypes
<1>3. InLine(buffer, curs)
  BY <1>1, <1>2, InLineLater
<1>4. CASE OnRound(c)
  <2>1. Buffered(c, x) = buffer
    BY <1>4 DEF Buffered, OnRound
  <2> QED BY <1>1, <1>3, <2>1
<1>5. CASE ~OnRound(c)
  <2> DEFINE all == Append(buffer, <<x, c.n>>)
  <2>1. Buffered(c, x) = IF Len(all) > BufferSize THEN Tail(all) ELSE all
    BY <1>5 DEF Buffered, OnRound, Cursor
  <2>2. c.n \in Nat /\ Round(curs[x]) = c.n /\ Round(cap[x]) < c.n
    BY <1>5 DEF Round, Cursor
  <2>3. c.n >= 1
    BY <1>2, <2>2
  <2>4. ASSUME NEW i \in 1..Len(buffer), buffer[i][1] = x PROVE buffer[i][2] < c.n
    <3>1. buffer[i] \in Line
      BY <1>1
    <3>2. buffer[i][2] \in Nat /\ buffer[i][2] <= Round(cap[x])
      BY <1>1, <2>4, <3>1 DEF InLine, Line
    <3> QED BY <1>2, <2>2, <3>2
  <2>5. InLine(all, curs)
    BY <1>1, <1>3, <2>2, <2>3, <2>4, InLineAppend
  <2>6. all \in Seq(Line) /\ Len(all) = Len(buffer) + 1
    BY <1>1, <2>2 DEF Line
  <2> HIDE DEF all
  <2>7. CASE Len(all) > BufferSize
    <3>1. all # <<>>
      BY <1>1, <2>6
    <3>2. InLine(Tail(all), curs) /\ Tail(all) \in Seq(Line) /\ Len(Tail(all)) = Len(all) - 1
      BY <2>5, <2>6, <3>1, InLineTail
    <3>3. Len(Tail(all)) <= BufferSize
      BY <1>1, <2>6, <3>2
    <3> QED BY <2>1, <2>7, <3>2, <3>3
  <2>8. CASE ~(Len(all) > BufferSize)
    <3>1. Len(all) <= BufferSize
      BY <1>1, <2>6, <2>8
    <3> QED BY <2>1, <2>5, <2>6, <2>8, <3>1
  <2> QED BY <2>7, <2>8
<1> QED BY <1>4, <1>5

\* A step of a capture leaves the calls where they are.
LEMMA CallsStand ==
    ASSUME LogTypes, LogTypes', NotYetThere, Copies, UNCHANGED <<reader, todo, last>>,
           ToSet(snd') \subseteq ToSet(snd),
           \A x \in Captures : /\ Round(cap[x]) <= Round(cap'[x])
                               /\ cap'[x].to \in {cap[x].to, Startup} \cup ToSet(snd)
                               /\ cap'[x].due \subseteq cap[x].due \cup ToSet(snd),
           InLine(buffer', cap')
    PROVE  NotYetThere' /\ Copies'
<1>1. \A x \in Captures : Round(cap[x]) \in Nat /\ Round(cap'[x]) \in Nat
  BY RoundType DEF LogTypes
<1>2. \A s \in Clients : Waiting(s)' => Waiting(s)
  BY DEF Waiting
<1>3. NotYetThere'
  <2> SUFFICES ASSUME NEW s \in Clients, Waiting(s)
               PROVE  /\ s \notin ToSet(snd')
                      /\ \A x \in Captures : Outside(s, x, cap'[x], last)
    BY <1>2 DEF NotYetThere
  <2>1. s \notin ToSet(snd) /\ \A x \in Captures : Outside(s, x, cap[x], last)
    BY DEF NotYetThere
  <2>2. s # Startup
    BY StartupAssumption
  <2>3. ASSUME NEW x \in Captures PROVE Outside(s, x, cap'[x], last)
    <3>1. last[s][x] \in Nat
      BY DEF LogTypes
    <3>2. cap[x].to # s /\ s \notin cap[x].due /\ last[s][x] <= Round(cap[x])
      BY <2>1 DEF Outside
    <3>3. cap'[x].to # s /\ s \notin cap'[x].due
      BY <2>1, <2>2, <3>2
    <3>4. last[s][x] <= Round(cap'[x])
      BY <1>1, <3>1, <3>2
    <3> QED BY <3>3, <3>4 DEF Outside
  <2> QED BY <2>1, <2>3
<1>4. ASSUME NEW s \in Clients PROVE CopyOK(s)'
  <2>1. CopyOK(s) /\ todo[s] \in Seq(Line)
    BY DEF Copies, LogTypes
  <2>2. InLine(todo[s], cap')
    BY <1>1, <2>1, InLineLater DEF CopyOK
  <2> QED BY <2>1, <2>2 DEF CopyOK
<1> QED BY <1>3, <1>4 DEF Copies

\* The state invariant, action by action.
LEMMA LogInitInv == LogInit => LogInv
<1> SUFFICES ASSUME LogInit PROVE LogInv
  OBVIOUS
<1> USE DEF LogInit
<1>1. Startup \in Streams /\ Reading \in Cursor /\ CursorOK(Reading)
  BY LogBounds DEF Streams, Reading, Cursor, CursorOK, OnRound
<1>2. cap = [x \in Captures |-> Reading] /\ \A x \in Captures : cap[x] = Reading
  OBVIOUS
<1>3. (snd = <<Startup>> \/ snd = <<>>) /\ snd \in Seq(Streams) /\ ToSet(snd) \subseteq {Startup}
  BY <1>1 DEF ToSet
<1>4. /\ reader \in [Streams -> {"absent", "buffer", "reading", "sending", "stalled", "gone"}]
      /\ \A s \in Clients : reader[s] = "absent"
  <2>1. PICK starts \in Startups :
            reader = [s \in Streams |-> IF s = Startup /\ starts THEN "reading" ELSE "absent"]
    OBVIOUS
  <2> QED BY <2>1, StartupAssumption DEF Streams
<1>5. /\ buffer = <<>> /\ buffer \in Seq(Line) /\ Len(buffer) = 0
      /\ todo \in [Clients -> Seq(Line)] /\ \A s \in Clients : todo[s] = <<>>
  OBVIOUS
<1>6. /\ last \in [Clients -> [Captures -> Nat]]
      /\ \A s \in Clients, x \in Captures : last[s][x] = 0
  OBVIOUS
<1>7. open \subseteq Streams
  BY <1>1, <1>3
<1>8. LogTypes
  <2>1. cap \in [Captures -> Cursor] /\ \A x \in Captures : CursorOK(cap[x])
    BY <1>1, <1>2
  <2>2. Len(buffer) <= BufferSize /\ stalls \in 0..MaxStalls
    BY <1>5, LogBounds
  <2>3. ended \in BOOLEAN /\ stopEvent \in BOOLEAN
    OBVIOUS
  <2> QED BY <1>3, <1>4, <1>5, <1>6, <1>7, <2>1, <2>2, <2>3 DEF LogTypes
<1>9. Distinct(snd)
  BY <1>3 DEF Distinct
<1>10. NotYetThere
  <2>1. ASSUME NEW s \in Clients, NEW x \in Captures PROVE Outside(s, x, cap[x], last)
    BY <1>2, <1>6, StartupAssumption DEF Outside, Reading, Round, OnRound
  <2>2. \A s \in Clients : s \notin ToSet(snd)
    BY <1>3, StartupAssumption
  <2> QED BY <2>1, <2>2 DEF NotYetThere
<1>11. Copies
  <2>1. InLine(<<>>, cap)
    BY DEF InLine
  <2> QED BY <1>4, <1>5, <1>6, <2>1 DEF Copies, CopyOK
<1>12. Walks
  <2>1. ASSUME NEW x \in Captures PROVE cap[x].pc = "read" /\ cap[x].n = 0
    BY <1>2 DEF Reading
  <2>2. ASSUME NEW x \in Captures PROVE ~OnRound(cap[x])
    BY <2>1 DEF OnRound
  <2> QED BY <1>6, <2>1, <2>2 DEF Walks, Clear, Served
<1> QED BY <1>8, <1>9, <1>10, <1>11, <1>12 DEF LogInv

\* Steps that move no walk and send nothing, and open no stream.
LEMMA QuietStep ==
    ASSUME LogInv, UNCHANGED <<cap, snd, buffer, todo, last>>, open' \subseteq open,
           ended' \in BOOLEAN, stopEvent' \in BOOLEAN, stalls' \in 0..MaxStalls,
           reader' \in [Streams -> {"absent", "buffer", "reading", "sending", "stalled", "gone"}],
           \A s \in Clients : reader'[s] \in {"absent", "buffer"} => reader'[s] = reader[s]
    PROVE  LogInv'
<1> USE DEF LogInv
<1>1. LogTypes' /\ Distinct(snd')
  BY DEF LogTypes
<1>2. \A s \in Clients : Waiting(s)' => Waiting(s)
  BY DEF Waiting
<1>3. NotYetThere'
  BY <1>2 DEF NotYetThere
<1>4. Copies'
  BY DEF Copies, CopyOK
<1>5. Walks'
  BY DEF Walks, Clear, Served
<1> QED BY <1>1, <1>3, <1>4, <1>5

\* Types after a capture has gone on.
LEMMA CaptureTypes ==
    ASSUME LogTypes, cap' \in [Captures -> Cursor], \A x \in Captures : CursorOK(cap'[x]),
           snd' \in Seq(Streams), buffer' \in Seq(Line), Len(buffer') <= BufferSize,
           UNCHANGED <<ended, open, reader, todo, stopEvent, last, stalls>>
    PROVE  LogTypes'
BY DEF LogTypes

\* Onward ends the line or goes on with it.
LEMMA OnwardOK ==
    ASSUME NEW c \in Cursor, NEW list \in Seq(Streams), c.n >= 1, c.n <= MaxLines + 1,
           ~c.eof => c.n <= MaxLines
    PROVE  /\ CursorOK(Onward(c, list))
           /\ Round(Onward(c, list)) \in {c.n - 1, c.n}
           /\ ~OnRound(Onward(c, list)) => Round(Onward(c, list)) = c.n
           /\ Onward(c, list).to \in {Startup} \cup ToSet(list)
<1> DEFINE d == Onward(c, list)
<1>1. /\ d.n = c.n /\ d.eof = c.eof
      /\ \/ d.pc = "send" /\ c.idx < Len(list) /\ d.to = list[c.idx + 1]
         \/ d.pc = (IF c.eof THEN "done" ELSE "read") /\ d.to = Startup
  BY OnwardIs
<1>2. c.idx < Len(list) => list[c.idx + 1] \in ToSet(list)
  BY DEF ToSet, Cursor
<1> HIDE DEF d
<1>3. CursorOK(d)
  BY <1>1 DEF CursorOK, OnRound
<1>4. Round(d) \in {c.n - 1, c.n} /\ (~OnRound(d) => Round(d) = c.n)
  BY <1>1 DEF Round, OnRound
<1> QED BY <1>1, <1>2, <1>3, <1>4 DEF d

\* A capture with its next line, before it goes to the first stream.
NextLine(c, eof, there) ==
    [c EXCEPT !.n = @ + 1, !.eof = eof, !.idx = 0, !.due = there]

LEMMA CursorRead ==
    ASSUME NEW old \in Cursor, NEW eof \in BOOLEAN, NEW there \in SUBSET Streams
    PROVE  LET c == NextLine(old, eof, there) IN
           /\ c.n = old.n + 1 /\ c.eof = eof /\ c.idx = 0 /\ c.due = there
           /\ c.pc = old.pc /\ c.to = old.to /\ c \in Cursor
<1> DEFINE c == NextLine(old, eof, there)
           more == [old EXCEPT !.n = @ + 1]
           marked == [more EXCEPT !.eof = eof]
<1>1. c = [marked EXCEPT !.idx = 0, !.due = there]
  BY DEF NextLine
<1>2. more = [pc |-> old.pc, n |-> old.n + 1, eof |-> old.eof, idx |-> old.idx,
              to |-> old.to, due |-> old.due]
  BY DEF Cursor
<1> HIDE DEF more
<1>3. marked = [pc |-> old.pc, n |-> old.n + 1, eof |-> eof, idx |-> old.idx,
               to |-> old.to, due |-> old.due]
  BY <1>2
<1> HIDE DEF marked, c
<1>4. c = [pc |-> old.pc, n |-> old.n + 1, eof |-> eof, idx |-> 0,
           to |-> old.to, due |-> there]
  BY <1>1, <1>3
<1>5. old.pc \in {"read", "send", "sent", "done"} /\ old.n + 1 \in Nat /\ old.to \in Streams
  BY DEF Cursor
<1>6. c \in Cursor
  BY <1>4, <1>5 DEF Cursor
<1> QED BY <1>4, <1>6 DEF c

LEMMA ReadLineInv ==
    ASSUME LogInv, NEW x \in Captures, ReadLine(x)
    PROVE  LogInv'
<1> USE DEF LogInv
<1>0. /\ snd \in Seq(Streams) /\ cap \in [Captures -> Cursor] /\ cap[x] \in Cursor
      /\ CursorOK(cap[x]) /\ MaxLines \in Nat
      /\ last \in [Clients -> [Captures -> Nat]] /\ open \in SUBSET Streams
  BY LogBounds DEF LogTypes
<1>1. PICK eof \in BOOLEAN :
          /\ IF eof THEN ended ELSE cap[x].n < MaxLines
          /\ Capture(x, Onward(NextLine(cap[x], eof, ToSet(snd)), snd))
  BY DEF ReadLine, NextLine
<1> DEFINE c == NextLine(cap[x], eof, ToSet(snd))
           d == Onward(c, snd)
<1>2. /\ cap' = [cap EXCEPT ![x] = d] /\ buffer' = Buffered(d, x)
      /\ UNCHANGED <<ended, snd, open, reader, todo, stopEvent, last, stalls>>
      /\ cap[x].pc = "read"
  BY <1>1 DEF ReadLine, Capture
<1>3. ToSet(snd) \in SUBSET Streams
  BY <1>0 DEF ToSet
<1>4. /\ c.n = cap[x].n + 1 /\ c.eof = eof /\ c.idx = 0 /\ c.due = ToSet(snd)
      /\ c.pc = cap[x].pc /\ c.to = cap[x].to /\ c \in Cursor
  BY <1>0, <1>3, CursorRead
<1>5. c.n >= 1 /\ c.n <= MaxLines + 1 /\ (~c.eof => c.n <= MaxLines)
  BY <1>0, <1>1, <1>2, <1>4 DEF CursorOK, Cursor
<1> HIDE DEF c
<1>6. d \in Cursor /\ d.n = c.n /\ d.due = c.due
  BY <1>0, <1>4, OnwardIs
<1>7. /\ CursorOK(d) /\ Round(d) \in {c.n - 1, c.n} /\ (~OnRound(d) => Round(d) = c.n)
      /\ d.to \in {Startup} \cup ToSet(snd)
  BY <1>0, <1>4, <1>5, OnwardOK
<1>8. Ahead(c, snd) = ToSet(snd)
  <2>1. c.idx + 1 = 1 /\ DOMAIN snd = 1..Len(snd)
    BY <1>0, <1>4
  <2> QED BY <2>1, Zenon DEF Ahead, ToSet
<1>9. \A s \in Clients : last[s][x] <= cap[x].n
  BY DEF Walks, Clear
<1>10. \A s \in Clients : last[s][x] \in Nat /\ last[s][x] < c.n /\ last[s][x] <= c.n
  BY <1>0, <1>4, <1>9 DEF Cursor
<1>11. Clear(x, d, snd, last) /\ Served(x, d, snd, last, open)
  <2>1. Ready(x, c, snd, last, open)
    BY <1>4, <1>8, <1>10 DEF Ready
  <2> QED BY <1>0, <1>4, <2>1, OnwardKeeps
<1> HIDE DEF d
<1>12. /\ cap'[x] = d /\ \A y \in Captures : y # x => cap'[y] = cap[y]
       /\ cap' \in [Captures -> Cursor]
  BY <1>0, <1>2, <1>6
<1>13. Round(cap[x]) = cap[x].n /\ Round(cap[x]) <= Round(d) /\ Round(d) \in Nat
  BY <1>0, <1>2, <1>4, <1>7 DEF Round, OnRound, Cursor
<1>14. \A y \in Captures : /\ Round(cap'[y]) \in Nat /\ Round(cap[y]) \in Nat
                           /\ Round(cap[y]) <= Round(cap'[y])
  <2> SUFFICES ASSUME NEW y \in Captures
               PROVE  /\ Round(cap'[y]) \in Nat /\ Round(cap[y]) \in Nat
                      /\ Round(cap[y]) <= Round(cap'[y])
    OBVIOUS
  <2>1. Round(cap[y]) \in Nat
    BY <1>0, RoundType DEF LogTypes
  <2>2. CASE y = x
    BY <1>12, <1>13, <2>1, <2>2
  <2>3. CASE y # x
    BY <1>12, <2>1, <2>3
  <2> QED BY <2>2, <2>3
<1>15. ~OnRound(d) => Round(cap[x]) < d.n
  BY <1>0, <1>4, <1>6, <1>13 DEF Cursor
<1>16. /\ buffer' \in Seq(Line) /\ Len(buffer') <= BufferSize
       /\ InLine(buffer', cap')
  BY <1>2, <1>6, <1>12, <1>14, <1>15, BufferStep
<1>17. LogTypes'
  <2>1. \A y \in Captures : CursorOK(cap'[y])
    BY <1>7, <1>12 DEF LogTypes
  <2> QED BY <1>0, <1>2, <1>12, <1>16, <2>1, CaptureTypes
<1>18. Distinct(snd)'
  BY <1>2
<1>19. NotYetThere' /\ Copies'
  <2>1. \A y \in Captures : /\ Round(cap[y]) <= Round(cap'[y])
                            /\ cap'[y].to \in {cap[y].to, Startup} \cup ToSet(snd)
                            /\ cap'[y].due \subseteq cap[y].due \cup ToSet(snd)
    BY <1>4, <1>6, <1>7, <1>12, <1>14
  <2> QED BY <1>2, <1>16, <1>17, <2>1, CallsStand
<1>20. Walks'
  BY <1>2, <1>11, <1>12 DEF Walks
<1> QED BY <1>17, <1>18, <1>19, <1>20

LEMMA SendLineInv ==
    ASSUME LogInv, NEW x \in Captures, SendLine(x)
    PROVE  LogInv'
<1> USE DEF LogInv
<1> DEFINE c == cap[x]
           s == c.to
           d == [c EXCEPT !.pc = "sent"]
<1>0. /\ cap \in [Captures -> Cursor] /\ c \in Cursor /\ c.pc = "send" /\ CursorOK(c)
      /\ last \in [Clients -> [Captures -> Nat]] /\ open \subseteq Streams /\ s \in open
      /\ reader \in [Streams -> {"absent", "buffer", "reading", "sending", "stalled", "gone"}]
      /\ reader[s] = "reading"
  BY DEF LogTypes, SendLine
<1>1. cap' = [cap EXCEPT ![x] = d] /\ UNCHANGED <<ended, snd, buffer, todo, stopEvent, stalls>>
  BY DEF SendLine
<1>2. /\ d \in Cursor /\ d.pc = "sent" /\ d.n = c.n /\ d.eof = c.eof /\ d.idx = c.idx
      /\ d.to = c.to /\ d.due = c.due
  BY <1>0 DEF Cursor
<1>3. /\ CursorOK(d) /\ Round(d) = Round(c) /\ OnRound(d) /\ OnRound(c)
      /\ \A list : Ahead(d, list) = Ahead(c, list)
  BY <1>0, <1>2 DEF CursorOK, Round, OnRound, Ahead
<1>4. \/ /\ s \in Clients
         /\ last' = [last EXCEPT ![s][x] = c.n]
         /\ reader' = [reader EXCEPT ![s] = "sending"]
         /\ UNCHANGED open
      \/ /\ s \notin Clients
         /\ open' \subseteq open
         /\ reader' = [reader EXCEPT ![s] = "gone"] \/ reader' = reader
         /\ UNCHANGED last
  BY DEF SendLine
<1> HIDE DEF d
<1>5. /\ cap'[x] = d /\ \A y \in Captures : y # x => cap'[y] = cap[y]
      /\ cap' \in [Captures -> Cursor]
  BY <1>0, <1>1, <1>2
<1>6. /\ reader' \in [Streams -> {"absent", "buffer", "reading", "sending", "stalled", "gone"}]
      /\ \A t \in Clients : reader'[t] \in {"absent", "buffer"} => reader'[t] = reader[t] /\ t # s
      /\ open' \subseteq open
  BY <1>0, <1>4 DEF Streams
<1>7. c.n \in Nat
  BY <1>0 DEF Cursor
<1>8. /\ last' \in [Clients -> [Captures -> Nat]]
      /\ \A t \in Clients, y \in Captures :
            last'[t][y] = IF t = s /\ y = x THEN c.n ELSE last[t][y]
  <2>1. CASE s \in Clients
    BY <1>0, <1>4, <1>7, <2>1, SMTT(20)
  <2>2. CASE s \notin Clients
    BY <1>0, <1>4, <2>2
  <2>3. QED
    BY <2>1, <2>2
<1>9. LogTypes'
  <2>1. \A y \in Captures : CursorOK(cap'[y])
    BY <1>3, <1>5 DEF LogTypes
  <2> QED BY <1>1, <1>5, <1>6, <1>8, <2>1 DEF LogTypes
<1>10. \A t \in Clients : Waiting(t)' => Waiting(t) /\ t # s
  <2> SUFFICES ASSUME NEW t \in Clients, Waiting(t)' PROVE Waiting(t) /\ t # s
    OBVIOUS
  <2>1. Waiting(t)
    BY <1>1, <1>6 DEF Waiting
  <2>2. t # s
    BY <2>1 DEF NotYetThere, Outside
  <2> QED BY <2>1, <2>2
<1>11. \A y \in Captures : Round(cap'[y]) = Round(cap[y])
  BY <1>3, <1>5
<1>12. NotYetThere'
  <2> SUFFICES ASSUME NEW t \in Clients, Waiting(t), t # s
               PROVE  /\ t \notin ToSet(snd')
                      /\ \A y \in Captures : Outside(t, y, cap'[y], last')
    BY <1>10 DEF NotYetThere
  <2>1. t \notin ToSet(snd) /\ \A y \in Captures : Outside(t, y, cap[y], last)
    BY DEF NotYetThere
  <2>2. \A y \in Captures : /\ cap'[y].to = cap[y].to /\ cap'[y].due = cap[y].due
                            /\ last'[t][y] = last[t][y]
    BY <1>2, <1>5, <1>8
  <2> QED BY <1>1, <1>11, <2>1, <2>2 DEF Outside
<1>13. Copies'
  <2>1. \A y \in Captures : /\ Round(cap[y]) \in Nat /\ Round(cap'[y]) \in Nat
                            /\ Round(cap[y]) <= Round(cap'[y])
    BY <1>0, <1>11, RoundType DEF LogTypes
  <2>2. InLine(buffer', cap')
    <3>1. InLine(buffer, cap) /\ buffer \in Seq(Line)
      BY DEF Copies, LogTypes
    <3>2. InLine(buffer, cap')
      BY <2>1, <3>1, InLineLater
    <3> QED BY <1>1, <3>2
  <2>3. ASSUME NEW t \in Clients PROVE CopyOK(t)'
    <3>1. CopyOK(t) /\ todo[t] \in Seq(Line)
      BY DEF Copies, LogTypes
    <3>2. InLine(todo'[t], cap')
      <4>1. InLine(todo[t], cap)
        BY <3>1 DEF CopyOK
      <4>2. InLine(todo[t], cap')
        BY <2>1, <3>1, <4>1, InLineLater
      <4> QED BY <1>1, <4>2
    <3>3. CASE Waiting(t)
      <4>1. t # s
        BY <3>3 DEF NotYetThere, Outside
      <4>2. \A y \in Captures : last'[t][y] = last[t][y]
        BY <1>8, <4>1
      <4>3. \A i \in 1..Len(todo[t]) : todo[t][i][1] \in Captures
        BY <3>1 DEF Line
      <4> QED BY <1>1, <1>6, <3>1, <3>2, <4>2, <4>3 DEF CopyOK
    <3>4. CASE ~Waiting(t)
      <4>1. todo'[t] = <<>> /\ reader'[t] \notin {"absent", "buffer"}
        BY <1>1, <1>6, <3>4 DEF Waiting
      <4> QED BY <3>2, <4>1 DEF CopyOK
    <3> QED BY <3>3, <3>4
  <2> QED BY <2>2, <2>3 DEF Copies
<1>14. ASSUME NEW y \in Captures
       PROVE  Clear(y, cap'[y], snd', last') /\ Served(y, cap'[y], snd', last', open')
  <2>1. Clear(y, cap[y], snd, last) /\ Served(y, cap[y], snd, last, open)
    BY DEF Walks
  <2>2. CASE y = x
    <3>1. /\ s \notin Ahead(d, snd)
          /\ \A t \in Ahead(d, snd) \cap Clients : last[t][x] < d.n
          /\ \A t \in Clients : last[t][x] <= d.n
      BY <1>2, <1>3, <2>1, <2>2 DEF Clear
    <3>2. \A t \in Clients : last'[t][x] <= d.n
      BY <1>2, <1>7, <1>8, <3>1
    <3>3. \A t \in Ahead(d, snd) \cap Clients : last'[t][x] < d.n
      BY <1>8, <3>1
    <3>4. Clear(x, d, snd, last')
      BY <1>2, <3>1, <3>2, <3>3 DEF Clear
    <3>5. Served(x, d, snd, last', open')
      <4> SUFFICES ASSUME NEW t \in open' \cap d.due \cap Clients
                   PROVE  last'[t][x] = d.n \/ t \in Ahead(d, snd)
        BY DEF Served
      <4>1. t \in open \cap c.due \cap Clients
        BY <1>2, <1>6
      <4>2. last[t][x] = c.n \/ s = t \/ t \in Ahead(c, snd)
        BY <1>3, <2>1, <2>2, <4>1 DEF Served
      <4> QED BY <1>2, <1>3, <1>8, <4>2
    <3> QED BY <1>1, <1>5, <2>2, <3>4, <3>5
  <2>3. CASE y # x
    <3>1. cap'[y] = cap[y] /\ \A t \in Clients : last'[t][y] = last[t][y]
      BY <1>5, <1>8, <2>3
    <3>2. Clear(y, cap'[y], snd', last')
      BY <1>1, <2>1, <3>1 DEF Clear
    <3>3. Served(y, cap'[y], snd', last', open')
      BY <1>1, <1>6, <2>1, <3>1 DEF Served
    <3> QED BY <3>2, <3>3
  <2> QED BY <2>2, <2>3
<1>15. Walks'
  BY <1>14 DEF Walks
<1> QED BY <1>1, <1>9, <1>12, <1>13, <1>15

\* A step of capture x that ends its round only when all to whom the line is due have it.
WentOn(x) ==
    /\ cap'[x].n = cap[x].n
    /\ \A y \in Captures : y # x => cap'[y].pc = cap[y].pc
    /\ ~OnRound(cap'[x]) => AllHave(x, cap'[x], last, open)

\* A capture that goes on with the list as it is; whom the line passed had it before.
LEMMA GoesOn ==
    ASSUME LogInv, NEW x \in Captures, NEW curs \in [Captures -> Cursor],
           NEW list \in Seq(Streams), Distinct(list), ToSet(list) \subseteq ToSet(snd),
           OnRound(cap[x]),
           \A y \in Captures :
               /\ curs[y].pc = cap[y].pc /\ curs[y].n = cap[y].n /\ curs[y].eof = cap[y].eof
               /\ curs[y].to = cap[y].to /\ curs[y].due \subseteq cap[y].due
               /\ Ahead(curs[y], list) \subseteq Ahead(cap[y], snd)
               /\ \A s \in Ahead(cap[y], snd) \cap curs[y].due : s \in open =>
                      s \in Ahead(curs[y], list),
           cap[x].pc = "sent" \/ cap[x].to \notin open,
           snd' = list, cap' = [curs EXCEPT ![x] = Onward(curs[x], list)],
           buffer' = Buffered(Onward(curs[x], list), x),
           UNCHANGED <<ended, open, reader, todo, stopEvent, last, stalls>>
    PROVE  LogInv' /\ WentOn(x)
<1> USE DEF LogInv
<1> DEFINE c == curs[x]
           d == Onward(c, list)
<1>0. /\ cap \in [Captures -> Cursor] /\ MaxLines \in Nat /\ open \in SUBSET Streams
      /\ last \in [Clients -> [Captures -> Nat]] /\ snd \in Seq(Streams)
  BY LogBounds DEF LogTypes
<1>1. CursorOK(cap[x]) /\ cap[x].n >= 1 /\ cap[x].n <= MaxLines + 1 /\ cap[x].n \in Nat
  BY <1>0 DEF LogTypes, CursorOK, Cursor
<1>2. c \in Cursor /\ c.n = cap[x].n /\ c.eof = cap[x].eof /\ (~c.eof => c.n <= MaxLines)
  BY <1>1 DEF CursorOK
<1>3. d \in Cursor /\ d.n = c.n /\ d.due = c.due
  BY <1>2, OnwardIs
<1>4. /\ CursorOK(d) /\ Round(d) \in {c.n - 1, c.n} /\ (~OnRound(d) => Round(d) = c.n)
      /\ d.to \in {Startup} \cup ToSet(list)
  BY <1>1, <1>2, OnwardOK
<1>5. Clear(x, cap[x], snd, last) /\ Served(x, cap[x], snd, last, open)
  BY DEF Walks
<1>6. /\ \A s \in Clients : last[s][x] <= c.n
      /\ \A s \in Ahead(c, list) \cap Clients : last[s][x] < c.n
  BY <1>2, <1>5 DEF Clear
<1>7. \A s \in open \cap c.due \cap Clients : last[s][x] = c.n \/ s \in Ahead(c, list)
  <2> SUFFICES ASSUME NEW s \in open \cap c.due \cap Clients
               PROVE  last[s][x] = c.n \/ s \in Ahead(c, list)
    OBVIOUS
  <2>1. s \in open \cap cap[x].due \cap Clients
    OBVIOUS
  <2>2. \/ last[s][x] = cap[x].n
        \/ cap[x].pc = "send" /\ cap[x].to = s
        \/ s \in Ahead(cap[x], snd)
    BY <1>5, <2>1 DEF Served
  <2> QED BY <1>2, <2>2
<1>8. /\ Clear(x, d, list, last) /\ Served(x, d, list, last, open)
      /\ ~OnRound(d) => AllHave(x, c, last, open)
  <2>1. Ready(x, c, list, last, open)
    BY <1>6, <1>7 DEF Ready
  <2> QED BY <1>2, <2>1, OnwardKeeps
<1> HIDE DEF d
<1>9. /\ cap'[x] = d /\ \A y \in Captures : y # x => cap'[y] = curs[y]
      /\ cap' \in [Captures -> Cursor]
  BY <1>3 DEF d
<1>10. \A y \in Captures : OnRound(curs[y]) = OnRound(cap[y]) /\ Round(curs[y]) = Round(cap[y])
  BY DEF OnRound, Round
<1>11. \A y \in Captures : Round(cap[y]) \in Nat
  BY <1>0, RoundType DEF LogTypes
<1>12. Round(cap[x]) = c.n - 1 /\ c.n \in Nat
  BY <1>1, <1>2 DEF Round
<1>13. \A y \in Captures : Round(cap'[y]) \in Nat /\ Round(cap[y]) <= Round(cap'[y])
  <2> SUFFICES ASSUME NEW y \in Captures
               PROVE  Round(cap'[y]) \in Nat /\ Round(cap[y]) <= Round(cap'[y])
    OBVIOUS
  <2>1. CASE y = x
    BY <1>1, <1>2, <1>4, <1>9, <1>12, <2>1
  <2>2. CASE y # x
    BY <1>9, <1>10, <1>11, <2>2
  <2> QED BY <2>1, <2>2
<1>14. ~OnRound(d) => Round(cap[x]) < d.n
  BY <1>3, <1>12
<1>15. buffer' = Buffered(d, x)
  BY DEF d
<1>16. /\ buffer' \in Seq(Line) /\ Len(buffer') <= BufferSize
       /\ InLine(buffer', cap')
  <2>1. LogTypes /\ Copies
    OBVIOUS
  <2>2. /\ Buffered(d, x) \in Seq(Line) /\ Len(Buffered(d, x)) <= BufferSize
        /\ InLine(Buffered(d, x), cap')
    BY <1>3, <1>9, <1>13, <1>14, <2>1, BufferStep, Zenon
  <2> QED BY <1>15, <2>2
<1>17. LogTypes'
  <2>1. \A y \in Captures : CursorOK(cap'[y])
    <3> SUFFICES ASSUME NEW y \in Captures, y # x PROVE CursorOK(curs[y])
      BY <1>4, <1>9
    <3>1. CursorOK(cap[y])
      BY DEF LogTypes
    <3> QED BY <1>10, <3>1 DEF CursorOK
  <2> QED BY <1>9, <1>16, <2>1, CaptureTypes
<1>18. NotYetThere' /\ Copies'
  <2>1. \A y \in Captures : /\ Round(cap[y]) <= Round(cap'[y])
                            /\ cap'[y].to \in {cap[y].to, Startup} \cup ToSet(snd)
                            /\ cap'[y].due \subseteq cap[y].due \cup ToSet(snd)
    BY <1>3, <1>4, <1>9, <1>13
  <2> QED BY <1>16, <1>17, <2>1, CallsStand
<1>19. ASSUME NEW y \in Captures
       PROVE  Clear(y, cap'[y], list, last) /\ Served(y, cap'[y], list, last, open)
  <2>1. CASE y = x
    BY <1>8, <1>9, <2>1
  <2>2. CASE y # x
    <3>1. Clear(y, cap[y], snd, last) /\ Served(y, cap[y], snd, last, open)
      BY DEF Walks
    <3>2. Clear(y, curs[y], list, last)
      BY <1>10, <3>1 DEF Clear
    <3>3. Served(y, curs[y], list, last, open)
      <4> SUFFICES ASSUME OnRound(curs[y]), NEW s \in open \cap curs[y].due \cap Clients
                   PROVE  \/ last[s][y] = curs[y].n
                          \/ curs[y].pc = "send" /\ curs[y].to = s
                          \/ s \in Ahead(curs[y], list)
        BY DEF Served
      <4>1. s \in open \cap cap[y].due \cap Clients /\ OnRound(cap[y])
        BY <1>10
      <4>2. \/ last[s][y] = cap[y].n
            \/ cap[y].pc = "send" /\ cap[y].to = s
            \/ s \in Ahead(cap[y], snd)
        BY <3>1, <4>1 DEF Served
      <4> QED BY <4>2
    <3> QED BY <1>9, <2>2, <3>2, <3>3
  <2> QED BY <2>1, <2>2
<1>20. Walks'
  BY <1>19 DEF Walks
<1>21. WentOn(x)
  BY <1>2, <1>3, <1>8, <1>9 DEF AllHave, WentOn
<1> QED BY <1>17, <1>18, <1>20, <1>21

LEMMA SentInv ==
    ASSUME LogInv, NEW x \in Captures, Sent(x)
    PROVE  LogInv' /\ WentOn(x)
<1>1. /\ cap \in [Captures -> Cursor] /\ snd \in Seq(Streams) /\ Distinct(snd)
      /\ cap[x].pc = "sent" /\ OnRound(cap[x])
  BY DEF LogInv, LogTypes, Sent, OnRound
<1>2. /\ cap' = [cap EXCEPT ![x] = Onward(cap[x], snd)]
      /\ buffer' = Buffered(Onward(cap[x], snd), x)
      /\ snd' = snd /\ UNCHANGED <<ended, open, reader, todo, stopEvent, last, stalls>>
  BY DEF Sent, Capture
<1> QED BY <1>1, <1>2, GoesOn

LEMMA BrokenInv ==
    ASSUME LogInv, NEW x \in Captures, Broken(x)
    PROVE  LogInv' /\ WentOn(x)
<1> DEFINE s == cap[x].to
           places == {i \in 1..Len(snd) : snd[i] = s}
           place == CHOOSE i \in places : \A k \in places : i <= k
           list == IF places = {} THEN snd ELSE RemoveAt(snd, place)
           shifted == [y \in Captures |->
                          IF places = {} THEN cap[y] ELSE Shifted(y, place)]
           c == Onward(shifted[x], list)
<1>0. /\ cap \in [Captures -> Cursor] /\ snd \in Seq(Streams) /\ Distinct(snd) /\ LogTypes
      /\ cap[x].pc = "send" /\ OnRound(cap[x]) /\ s \notin open
  BY DEF LogInv, LogTypes, Broken, Caught, OnRound
<1>1. /\ snd' = list /\ cap' = [shifted EXCEPT ![x] = c] /\ buffer' = Buffered(c, x)
      /\ UNCHANGED <<ended, open, reader, todo, stopEvent, last, stalls>>
  BY DEF Broken, AfterBroken
<1>2. CASE places = {}
  <2>1. list = snd /\ shifted = cap
    BY <1>0, <1>2
  <2> HIDE DEF list, shifted, places
  <2> QED BY <1>0, <1>1, <2>1, GoesOn
<1>3. CASE places # {}
  <2>1. place \in 1..Len(snd) /\ snd[place] = s
    <3>1. places \in SUBSET Nat
      BY <1>0
    <3>2. PICK i \in places : \A k \in places : i <= k
      BY <1>3, <3>1, LeastExists
    <3>3. place \in places
      BY <3>2
    <3> QED BY <3>3
  <2>2. list = RemoveAt(snd, place) /\ shifted = [y \in Captures |-> Shifted(y, place)]
    BY <1>3
  <2> HIDE DEF list, shifted, places, place
  <2>3. /\ list \in Seq(Streams) /\ Len(list) = Len(snd) - 1
        /\ \A i \in 1..Len(snd) - 1 : list[i] = IF i < place THEN snd[i] ELSE snd[i + 1]
    BY <1>0, <2>1, <2>2, RemoveAtIs, Zenon
  <2>4. Distinct(list)
    <3> SUFFICES ASSUME NEW i \in 1..Len(list), NEW j \in 1..Len(list), list[i] = list[j]
                 PROVE  i = j
      BY DEF Distinct
    <3> DEFINE from(n) == IF n < place THEN n ELSE n + 1
    <3>1. /\ from(i) \in 1..Len(snd) /\ list[i] = snd[from(i)]
          /\ from(j) \in 1..Len(snd) /\ list[j] = snd[from(j)]
      BY <1>0, <2>1, <2>3
    <3>2. from(i) = from(j)
      BY <1>0, <3>1 DEF Distinct
    <3> QED BY <2>1, <3>2
  <2>5. ToSet(list) \subseteq ToSet(snd)
    <3> SUFFICES ASSUME NEW i \in 1..Len(list) PROVE list[i] \in ToSet(snd)
      BY <2>3 DEF ToSet
    <3>1. \/ i \in 1..Len(snd) /\ list[i] = snd[i]
          \/ i + 1 \in 1..Len(snd) /\ list[i] = snd[i + 1]
      BY <1>0, <2>1, <2>3
    <3> QED BY <1>0, <3>1 DEF ToSet
  <2>6. ASSUME NEW y \in Captures
        PROVE  /\ shifted[y] \in Cursor
               /\ shifted[y].pc = cap[y].pc /\ shifted[y].n = cap[y].n
               /\ shifted[y].eof = cap[y].eof /\ shifted[y].to = cap[y].to
               /\ shifted[y].due \subseteq cap[y].due
               /\ Ahead(shifted[y], list) \subseteq Ahead(cap[y], snd)
               /\ \A t \in Ahead(cap[y], snd) \cap shifted[y].due : t \in open =>
                      t \in Ahead(shifted[y], list)
    <3>1. shifted[y] = Shifted(y, place)
      BY <2>2
    <3>2. /\ shifted[y] \in Cursor
          /\ shifted[y].pc = cap[y].pc /\ shifted[y].n = cap[y].n
          /\ shifted[y].eof = cap[y].eof /\ shifted[y].to = cap[y].to
          /\ shifted[y].due \subseteq cap[y].due
          /\ Ahead(shifted[y], list) \subseteq Ahead(cap[y], snd)
          /\ \A t \in Ahead(cap[y], snd) \cap shifted[y].due :
                t = s \/ t \in Ahead(shifted[y], list)
      BY <1>0, <2>1, <2>2, <3>1, RemovedAhead
    <3> QED BY <1>0, <3>2
  <2>7. shifted \in [Captures -> Cursor]
    BY <2>2, <2>6
  <2> QED BY <1>0, <1>1, <2>3, <2>4, <2>5, <2>6, <2>7, GoesOn, ZenonT(60)
<1> QED BY <1>2, <1>3

\* A call that registers its stream comes last in every walk.
LEMMA RegisterInv ==
    ASSUME LogInv, NEW s \in Clients, Waiting(s), Register(s),
           UNCHANGED <<ended, cap, buffer, stopEvent, stalls>>,
           todo' \in [Clients -> Seq(Line)], todo'[s] = <<>>,
           last' \in [Clients -> [Captures -> Nat]],
           \A t \in Clients : t # s => todo'[t] = todo[t] /\ last'[t] = last[t],
           \A x \in Captures : last'[s][x] <= Round(cap[x])
    PROVE  LogInv'
<1> USE DEF LogInv
<1>0. /\ snd \in Seq(Streams) /\ s \in Streams /\ cap \in [Captures -> Cursor]
      /\ reader \in [Streams -> {"absent", "buffer", "reading", "sending", "stalled", "gone"}]
      /\ open \subseteq Streams /\ \A x \in Captures : CursorOK(cap[x])
      /\ last \in [Clients -> [Captures -> Nat]]
  BY DEF LogTypes, Streams
<1>1. /\ snd' = Append(snd, s) /\ open' = open \cup {s}
      /\ reader' = [reader EXCEPT ![s] = "reading"]
  BY DEF Register
<1>2. /\ snd' \in Seq(Streams) /\ Len(snd') = Len(snd) + 1 /\ snd'[Len(snd) + 1] = s
      /\ \A i \in 1..Len(snd) : snd'[i] = snd[i]
  BY <1>0, <1>1
<1>3. /\ reader'[s] = "reading" /\ \A t \in Clients : t # s => reader'[t] = reader[t]
      /\ reader' \in [Streams -> {"absent", "buffer", "reading", "sending", "stalled", "gone"}]
  BY <1>0, <1>1 DEF Streams
<1>4. /\ s \notin ToSet(snd)
      /\ \A x \in Captures : cap[x].to # s /\ s \notin cap[x].due
  BY DEF NotYetThere, Outside
<1>5. LogTypes'
  BY <1>0, <1>1, <1>2, <1>3 DEF LogTypes
<1>6. Distinct(snd)'
  <2> SUFFICES ASSUME NEW i \in 1..Len(snd'), NEW j \in 1..Len(snd'), snd'[i] = snd'[j]
               PROVE  i = j
    BY DEF Distinct
  <2>1. \A k \in 1..Len(snd) : snd[k] # s
    BY <1>0, <1>4 DEF ToSet
  <2>2. CASE i = Len(snd) + 1 /\ j = Len(snd) + 1
    BY <2>2
  <2>3. CASE i = Len(snd) + 1 /\ j # Len(snd) + 1
    <3>1. j \in 1..Len(snd)
      BY <1>0, <1>2, <2>3
    <3> QED BY <1>2, <2>1, <2>3, <3>1
  <2>4. CASE i # Len(snd) + 1 /\ j = Len(snd) + 1
    <3>1. i \in 1..Len(snd)
      BY <1>0, <1>2, <2>4
    <3> QED BY <1>2, <2>1, <2>4, <3>1
  <2>5. CASE i # Len(snd) + 1 /\ j # Len(snd) + 1
    <3>1. i \in 1..Len(snd) /\ j \in 1..Len(snd)
      BY <1>0, <1>2, <2>5
    <3>2. snd[i] = snd[j]
      BY <1>2, <3>1
    <3> QED BY <3>1, <3>2 DEF Distinct
  <2> QED BY <2>2, <2>3, <2>4, <2>5
<1>7. \A t \in Clients : Waiting(t)' => Waiting(t) /\ t # s
  BY <1>3 DEF Waiting
<1>8. ToSet(snd') = ToSet(snd) \cup {s}
  <2>1. DOMAIN snd = 1..Len(snd) /\ DOMAIN snd' = 1..Len(snd')
    BY <1>0, <1>2
  <2>2. 1..Len(snd') = 1..Len(snd) \cup {Len(snd) + 1}
    BY <1>0, <1>2
  <2>3. ToSet(snd') = {snd'[i] : i \in 1..Len(snd)} \cup {snd'[Len(snd) + 1]}
    BY <2>1, <2>2 DEF ToSet
  <2>4. {snd'[i] : i \in 1..Len(snd)} = {snd[i] : i \in 1..Len(snd)}
    BY <1>2
  <2> QED BY <1>2, <2>1, <2>3, <2>4 DEF ToSet
<1>9. NotYetThere'
  BY <1>7, <1>8 DEF NotYetThere, Outside
<1>10. Copies'
  <2>1. InLine(<<>>, cap)
    BY DEF InLine
  <2>2. CopyOK(s)'
    BY <1>3, <2>1 DEF CopyOK
  <2>3. ASSUME NEW t \in Clients, t # s PROVE CopyOK(t)'
    BY <1>3, <2>3 DEF Copies, CopyOK
  <2> QED BY <2>2, <2>3 DEF Copies
<1>11. ASSUME NEW x \in Captures
       PROVE  Clear(x, cap[x], snd', last') /\ Served(x, cap[x], snd', last', open')
  <2>1. Clear(x, cap[x], snd, last) /\ Served(x, cap[x], snd, last, open)
    BY DEF Walks
  <2>2. cap[x].idx \in Nat /\ cap[x].n \in Nat /\ CursorOK(cap[x])
    BY <1>0 DEF Cursor
  <2>3. /\ Ahead(cap[x], snd) \subseteq Ahead(cap[x], snd')
        /\ Ahead(cap[x], snd') \subseteq Ahead(cap[x], snd) \cup {s}
    <3>1. \A i \in cap[x].idx + 1..Len(snd) : /\ i \in cap[x].idx + 1..Len(snd')
                                             /\ i \in 1..Len(snd) /\ snd'[i] = snd[i]
      BY <1>0, <1>2, <2>2
    <3>2. \A i \in cap[x].idx + 1..Len(snd') :
             i \in cap[x].idx + 1..Len(snd) \/ snd'[i] = s
      BY <1>0, <1>2, <2>2
    <3> QED BY <3>1, <3>2, ZenonT(60) DEF Ahead
  <2>4. last'[s][x] \in Nat /\ last'[s][x] <= Round(cap[x])
    OBVIOUS
  <2>5. last'[s][x] <= cap[x].n /\ (OnRound(cap[x]) => last'[s][x] < cap[x].n)
    BY <2>2, <2>4 DEF Round, CursorOK
  <2>6. cap[x].to # s /\ s \notin cap[x].due
    BY <1>4
  <2>7. Clear(x, cap[x], snd', last')
    <3>1. \A t \in Clients : last'[t][x] <= cap[x].n
      BY <2>1, <2>5 DEF Clear
    <3>2. ASSUME OnRound(cap[x])
          PROVE  /\ cap[x].to \notin Ahead(cap[x], snd')
                 /\ \A t \in Ahead(cap[x], snd') \cap Clients : last'[t][x] < cap[x].n
                 /\ cap[x].pc = "send" /\ cap[x].to \in Clients =>
                       last'[cap[x].to][x] < cap[x].n
      <4>1. /\ cap[x].to \notin Ahead(cap[x], snd)
            /\ \A t \in Ahead(cap[x], snd) \cap Clients : last[t][x] < cap[x].n
            /\ cap[x].pc = "send" /\ cap[x].to \in Clients =>
                  last[cap[x].to][x] < cap[x].n
        BY <2>1, <3>2 DEF Clear
      <4>2. \A t \in Ahead(cap[x], snd') \cap Clients : last'[t][x] < cap[x].n
        BY <2>3, <2>5, <3>2, <4>1
      <4> QED BY <2>3, <2>6, <4>1, <4>2
    <3> QED BY <3>1, <3>2 DEF Clear
  <2>8. Served(x, cap[x], snd', last', open')
    <3> SUFFICES ASSUME OnRound(cap[x]), NEW t \in open' \cap cap[x].due \cap Clients
                 PROVE  \/ last'[t][x] = cap[x].n
                        \/ cap[x].pc = "send" /\ cap[x].to = t
                        \/ t \in Ahead(cap[x], snd')
      BY DEF Served
    <3>1. t # s /\ t \in open \cap cap[x].due \cap Clients
      BY <1>1, <2>6
    <3> QED BY <2>1, <2>3, <3>1 DEF Served
  <2> QED BY <2>7, <2>8
<1>12. Walks'
  BY <1>11 DEF Walks
<1> QED BY <1>5, <1>6, <1>9, <1>10, <1>12

LEMMA StreamInv ==
    ASSUME LogInv, NEW s \in Clients, NEW b \in BOOLEAN, StreamBackendLogs(s, b)
    PROVE  LogInv'
<1> USE DEF LogInv
<1>0. /\ reader \in [Streams -> {"absent", "buffer", "reading", "sending", "stalled", "gone"}]
      /\ todo \in [Clients -> Seq(Line)] /\ last \in [Clients -> [Captures -> Nat]]
      /\ buffer \in Seq(Line) /\ s \in Streams
  BY DEF LogTypes, Streams
<1>1. /\ reader[s] = "absent" /\ Waiting(s)
      /\ UNCHANGED <<ended, cap, buffer, stopEvent, last, stalls>>
  BY DEF StreamBackendLogs, Waiting
<1>2. todo[s] = <<>> /\ \A x \in Captures : last[s][x] = 0
  BY <1>1 DEF Copies, CopyOK
<1>3. CASE b /\ buffer # <<>>
  <2>1. /\ todo' = [todo EXCEPT ![s] = buffer] /\ reader' = [reader EXCEPT ![s] = "buffer"]
        /\ UNCHANGED <<snd, open>>
    BY <1>3 DEF StreamBackendLogs
  <2>2. /\ todo' \in [Clients -> Seq(Line)] /\ todo'[s] = buffer /\ reader'[s] = "buffer"
        /\ reader' \in [Streams -> {"absent", "buffer", "reading", "sending", "stalled", "gone"}]
        /\ \A t \in Clients : t # s => todo'[t] = todo[t] /\ reader'[t] = reader[t]
    BY <1>0, <2>1 DEF Streams
  <2>3. LogTypes' /\ Distinct(snd)'
    BY <1>1, <2>1, <2>2 DEF LogTypes
  <2>4. \A t \in Clients : Waiting(t)' => Waiting(t)
    BY <1>1, <2>2 DEF Waiting
  <2>5. NotYetThere'
    BY <1>1, <2>1, <2>4 DEF NotYetThere
  <2>6. CopyOK(s)'
    <3>1. InLine(buffer, cap)
      BY DEF Copies
    <3>2. ASSUME NEW i \in 1..Len(buffer) PROVE last[s][buffer[i][1]] < buffer[i][2]
      <4>1. buffer[i] \in Line
        BY <1>0
      <4>2. buffer[i][1] \in Captures /\ buffer[i][2] \in Nat /\ buffer[i][2] >= 1
        BY <3>1, <4>1 DEF Line, InLine
      <4> QED BY <1>2, <4>2
    <3> QED BY <1>1, <1>3, <2>2, <3>1, <3>2 DEF CopyOK
  <2>7. ASSUME NEW t \in Clients, t # s PROVE CopyOK(t)'
    BY <1>1, <2>2, <2>7 DEF Copies, CopyOK
  <2>8. Copies'
    BY <1>1, <2>6, <2>7 DEF Copies
  <2>9. Walks'
    BY <1>1, <2>1 DEF Walks
  <2> QED BY <2>3, <2>5, <2>8, <2>9
<1>4. CASE ~(b /\ buffer # <<>>)
  <2>1. Register(s) /\ todo' = todo
    BY <1>4 DEF StreamBackendLogs
  <2>2. \A x \in Captures : last'[s][x] <= Round(cap[x])
    BY <1>1 DEF NotYetThere, Outside
  <2> QED BY <1>0, <1>1, <1>2, <2>1, <2>2, RegisterInv
<1> QED BY <1>3, <1>4

LEMMA SentOfBufferInv ==
    ASSUME LogInv, NEW s \in Clients, SentOfBuffer(s)
    PROVE  LogInv'
<1> USE DEF LogInv
<1> DEFINE line == Head(todo[s])
           x == line[1]
<1>0. /\ reader \in [Streams -> {"absent", "buffer", "reading", "sending", "stalled", "gone"}]
      /\ todo \in [Clients -> Seq(Line)] /\ last \in [Clients -> [Captures -> Nat]]
      /\ s \in Streams /\ todo[s] \in Seq(Line) /\ cap \in [Captures -> Cursor]
  BY DEF LogTypes, Streams
<1>1. /\ reader[s] = "buffer" /\ Waiting(s)
      /\ last' = [last EXCEPT ![s][line[1]] = line[2]]
      /\ todo' = [todo EXCEPT ![s] = Tail(@)]
      /\ UNCHANGED <<ended, cap, buffer, stopEvent, stalls>>
  BY DEF SentOfBuffer, Waiting
<1>2. CopyOK(s) /\ todo[s] # <<>> /\ InLine(todo[s], cap)
  BY <1>1 DEF Copies, CopyOK
<1>3. line = todo[s][1] /\ 1 \in 1..Len(todo[s]) /\ line \in Line
  BY <1>0, <1>2
<1>4. x \in Captures /\ line[2] \in Nat /\ line[2] <= Round(cap[x])
  BY <1>2, <1>3 DEF Line, InLine
<1> HIDE DEF line
<1>5. /\ last' \in [Clients -> [Captures -> Nat]]
      /\ \A t \in Clients : t # s => last'[t] = last[t]
      /\ \A y \in Captures : last'[s][y] = IF y = x THEN line[2] ELSE last[s][y]
  BY <1>0, <1>1, <1>4
<1>6. /\ InLine(Tail(todo[s]), cap) /\ Tail(todo[s]) \in Seq(Line)
      /\ Len(Tail(todo[s])) = Len(todo[s]) - 1
      /\ \A i \in 1..Len(Tail(todo[s])) : Tail(todo[s])[i] = todo[s][i + 1]
  BY <1>0, <1>2, InLineTail
<1>7. /\ todo' \in [Clients -> Seq(Line)] /\ todo'[s] = Tail(todo[s])
      /\ \A t \in Clients : t # s => todo'[t] = todo[t]
  BY <1>0, <1>1, <1>6
<1>8. /\ s \notin ToSet(snd)
      /\ \A y \in Captures : /\ cap[y].to # s /\ s \notin cap[y].due
                             /\ last[s][y] <= Round(cap[y])
  BY <1>1 DEF NotYetThere, Outside
<1>9. \A y \in Captures : last'[s][y] <= Round(cap[y])
  BY <1>4, <1>5, <1>8
<1>10. CASE Len(todo[s]) = 1
  <2>1. Register(s)
    BY <1>10 DEF SentOfBuffer
  <2>2. todo'[s] = <<>>
    <3>1. todo'[s] \in Seq(Line) /\ Len(todo'[s]) = 0
      BY <1>6, <1>7, <1>10
    <3> QED BY <3>1
  <2> QED BY <1>1, <1>5, <1>7, <1>9, <2>1, <2>2, RegisterInv
<1>11. CASE Len(todo[s]) # 1
  <2>1. UNCHANGED <<snd, open, reader>>
    BY <1>11 DEF SentOfBuffer
  <2>2. LogTypes' /\ Distinct(snd)'
    BY <1>1, <1>5, <1>7, <2>1 DEF LogTypes
  <2>3. \A t \in Clients : Waiting(t)' => Waiting(t)
    BY <1>1, <1>7, <2>1 DEF Waiting
  <2>4. NotYetThere'
    <3> SUFFICES ASSUME NEW t \in Clients, Waiting(t)
                 PROVE  /\ t \notin ToSet(snd)
                        /\ \A y \in Captures : Outside(t, y, cap[y], last')
      BY <1>1, <2>1, <2>3 DEF NotYetThere
    <3>1. CASE t = s
      BY <1>8, <1>9, <3>1 DEF Outside
    <3>2. CASE t # s
      BY <1>5, <3>2 DEF NotYetThere, Outside
    <3> QED BY <3>1, <3>2
  <2>5. CopyOK(s)'
    <3>1. ASSUME NEW i \in 1..Len(todo'[s])
          PROVE  last'[s][todo'[s][i][1]] < todo'[s][i][2]
      <4> DEFINE later == todo[s][i + 1]
      <4>1. /\ i + 1 \in 1..Len(todo[s]) /\ todo'[s][i] = later /\ 1 < i + 1
            /\ i \in Nat
        BY <1>0, <1>6, <1>7, <3>1
      <4>2. later \in Line /\ later[1] \in Captures
        BY <1>0, <4>1 DEF Line
      <4>3. last[s][later[1]] < later[2]
        BY <1>2, <4>1 DEF CopyOK
      <4>4. x = later[1] => line[2] < later[2]
        BY <1>2, <1>3, <4>1 DEF InLine
      <4> HIDE DEF later
      <4> QED BY <1>5, <4>1, <4>2, <4>3, <4>4
    <3>2. todo'[s] # <<>>
      <4>1. Len(todo'[s]) # 0
        BY <1>0, <1>3, <1>6, <1>7, <1>11
      <4> QED BY <4>1
    <3> QED BY <1>1, <1>6, <1>7, <2>1, <3>1, <3>2 DEF CopyOK
  <2>6. ASSUME NEW t \in Clients, t # s PROVE CopyOK(t)'
    BY <1>1, <1>5, <1>7, <2>1, <2>6 DEF Copies, CopyOK
  <2>7. Copies'
    BY <1>1, <2>5, <2>6 DEF Copies
  <2>8. ASSUME NEW y \in Captures
        PROVE  Clear(y, cap[y], snd, last') /\ Served(y, cap[y], snd, last', open)
    <3>1. Clear(y, cap[y], snd, last) /\ Served(y, cap[y], snd, last, open)
      BY DEF Walks
    <3>2. cap[y] \in Cursor /\ cap[y].n \in Nat /\ cap[y].to # s /\ s \notin cap[y].due
      BY <1>0, <1>8 DEF Cursor
    <3>3. Round(cap[y]) \in Nat /\ Round(cap[y]) <= cap[y].n
      BY <3>2, RoundType DEF LogTypes, Round
    <3>4. last'[s][y] \in Nat /\ last'[s][y] <= cap[y].n
      BY <1>5, <1>9, <3>2, <3>3
    <3>5. s \notin Ahead(cap[y], snd)
      BY <1>8, <3>2 DEF Ahead, ToSet, Cursor
    <3>6. Clear(y, cap[y], snd, last')
      BY <1>5, <3>1, <3>2, <3>4, <3>5 DEF Clear
    <3>7. Served(y, cap[y], snd, last', open)
      BY <1>5, <3>1, <3>2 DEF Served
    <3> QED BY <3>6, <3>7
  <2>9. Walks'
    BY <1>1, <2>1, <2>8 DEF Walks
  <2> QED BY <2>2, <2>4, <2>7, <2>9
<1> QED BY <1>10, <1>11

LEMMA LogNextInv == LogInv /\ [LogNext]_logVars => LogInv'
<1> SUFFICES ASSUME LogInv, [LogNext]_logVars PROVE LogInv'
  OBVIOUS
<1>0. /\ LogTypes /\ Startup \in Streams /\ \A s \in Clients : s \in Streams /\ s # Startup
      /\ MaxStalls \in Nat
  BY LogBounds, StartupAssumption DEF LogInv, Streams
<1>1. ASSUME NEW x \in Captures, CaptureStep(x) PROVE LogInv'
  BY <1>1, ReadLineInv, SendLineInv, SentInv, BrokenInv DEF CaptureStep
<1>2. CASE TellStop
  BY <1>0, <1>2, QuietStep DEF TellStop, LogTypes
<1>3. ASSUME NEW s \in Clients, NEW b \in BOOLEAN, StreamBackendLogs(s, b) PROVE LogInv'
  BY <1>3, StreamInv
<1>4. ASSUME NEW s \in Clients, ClientStep(s) PROVE LogInv'
  <2>1. CASE SentOfBuffer(s)
    BY <2>1, SentOfBufferInv
  <2>2. CASE SentToClient(s)
    BY <1>0, <2>2, QuietStep DEF SentToClient, LogTypes
  <2> QED BY <1>4, <2>1, <2>2 DEF ClientStep
<1>5. ASSUME NEW s \in Clients, ClientStalls(s) PROVE LogInv'
  BY <1>0, <1>5, QuietStep DEF ClientStalls, Stall, LogTypes
<1>6. ASSUME NEW s \in Clients, ClientLeaves(s) PROVE LogInv'
  BY <1>0, <1>6, QuietStep DEF ClientLeaves, LogTypes
<1>7. CASE StartupTimesOut
  BY <1>0, <1>7, QuietStep DEF StartupTimesOut, Stall, LogTypes
<1>8. CASE ProcessEnds
  BY <1>0, <1>8, QuietStep DEF ProcessEnds, LogTypes
<1>9. CASE UNCHANGED logVars
  BY <1>0, <1>9, QuietStep DEF logVars, LogTypes
<1> QED BY <1>1, <1>2, <1>3, <1>4, <1>5, <1>6, <1>7, <1>8, <1>9 DEF LogNext

LEMMA LogInductive == LogSpec => []LogInv
<1>1. LogInit => LogInv
  BY LogInitInv
<1>2. LogInv /\ [LogNext]_logVars => LogInv'
  BY LogNextInv
<1> QED BY <1>1, <1>2, PTL DEF LogSpec

\* The values of LogStreams' variables, and a buffer that does not grow beyond its
\* length, for any number of captures, clients and lines.
THEOREM LogValues == LogSpec => []LogTypeOK
<1>1. LogInv => LogTypeOK
  <2> SUFFICES ASSUME LogTypes PROVE LogTypeOK
    BY DEF LogInv
  <2>1. ASSUME NEW x \in Captures
        PROVE  /\ cap[x].pc \in {"read", "send", "sent", "done"}
               /\ cap[x].n \in 0..MaxLines + 1
               /\ cap[x].eof \in BOOLEAN
               /\ cap[x].to \in Streams /\ cap[x].due \subseteq Streams
    <3>1. cap[x] \in Cursor /\ cap[x].n <= MaxLines + 1 /\ MaxLines \in Nat
      BY LogBounds DEF LogTypes, CursorOK
    <3> QED BY <3>1 DEF Cursor
  <2>2. ToSet(snd) \subseteq Streams
    BY DEF LogTypes, ToSet
  <2> QED BY <2>1, <2>2 DEF LogTypes, LogTypeOK
<1> QED BY <1>1, LogInductive, PTL

\* What a client is sent of a capture is in order and no line is sent twice: the copy of
\* the buffer a call starts with and the lines handed round after it do not overlap,
\* whenever the call registers and whatever streams are closed meanwhile.
THEOREM LinesInOrder == LogSpec => InOrder
<1>1. LogInv => /\ \A x \in Captures :
                      cap[x].pc = "send" /\ cap[x].to \in Clients =>
                          last[cap[x].to][x] < cap[x].n
                /\ \A s \in Clients :
                      todo[s] # <<>> => last[s][Head(todo[s])[1]] < Head(todo[s])[2]
  <2> SUFFICES ASSUME LogInv
               PROVE  /\ \A x \in Captures :
                            cap[x].pc = "send" /\ cap[x].to \in Clients =>
                                last[cap[x].to][x] < cap[x].n
                      /\ \A s \in Clients :
                            todo[s] # <<>> => last[s][Head(todo[s])[1]] < Head(todo[s])[2]
    OBVIOUS
  <2>1. \A x \in Captures : cap[x].pc = "send" /\ cap[x].to \in Clients =>
                                last[cap[x].to][x] < cap[x].n
    BY DEF LogInv, Walks, Clear, OnRound
  <2>2. ASSUME NEW s \in Clients, todo[s] # <<>>
        PROVE  last[s][Head(todo[s])[1]] < Head(todo[s])[2]
    <3>1. todo[s] \in Seq(Line) /\ CopyOK(s)
      BY DEF LogInv, LogTypes, Copies
    <3>2. Head(todo[s]) = todo[s][1] /\ 1 \in 1..Len(todo[s])
      BY <2>2, <3>1
    <3> QED BY <3>1, <3>2 DEF CopyOK
  <2> QED BY <2>1, <2>2
<1>2. LogInv => [/\ \A x \in Captures :
                       cap[x].pc = "send" /\ cap'[x].pc = "sent" /\ cap[x].to \in Clients =>
                           last[cap[x].to][x] < cap[x].n
                 /\ \A s \in Clients :
                       todo[s] # <<>> /\ todo'[s] = Tail(todo[s]) =>
                           last[s][Head(todo[s])[1]] < Head(todo[s])[2]]_logVars
  BY <1>1
<1> QED BY <1>2, LogInductive, PTL DEF InOrder

\* A line that has been handed round has reached every client it was due to that is
\* still there, and the only ones it is not due to any more are those a removal moved
\* behind the walk: for any number of streams, removed by either capture at any moment.
THEOREM NoClientIsSkipped == LogSpec => NoneSkipped
<1>1. ASSUME LogInv, LogNext, NEW x \in Captures, RoundEnds(x)
      PROVE  AllHave(x, cap'[x], last, open) /\ cap'[x].n = cap[x].n
  <2>0. /\ cap \in [Captures -> Cursor] /\ OnRound(cap[x]) /\ ~OnRound(cap'[x])
        /\ cap'[x].pc # cap[x].pc
    BY <1>1 DEF LogInv, LogTypes, RoundEnds, OnRound
  <2>1. PICK y \in Captures : CaptureStep(y)
    BY <1>1, <2>0 DEF LogNext, TellStop, StreamBackendLogs, ClientStep, SentOfBuffer,
                      SentToClient, ClientStalls, ClientLeaves, StartupTimesOut, ProcessEnds
  <2>2. CASE ReadLine(y)
    <3>1. cap[y].pc = "read" /\ \A z \in Captures : z # y => cap'[z] = cap[z]
      BY <2>0, <2>2 DEF ReadLine, Capture
    <3> QED BY <2>0, <3>1 DEF OnRound
  <2>3. CASE SendLine(y)
    <3>1. cap' = [cap EXCEPT ![y].pc = "sent"]
      BY <2>3 DEF SendLine
    <3>2. cap'[x].pc \in {cap[x].pc, "sent"}
      BY <2>0, <3>1 DEF Cursor
    <3> QED BY <2>0, <3>2 DEF OnRound
  <2>4. CASE Sent(y) \/ Broken(y)
    <3>1. WentOn(y)
      BY <1>1, <2>4, SentInv, BrokenInv
    <3>2. y = x
      BY <2>0, <3>1 DEF WentOn
    <3> QED BY <2>0, <3>1, <3>2 DEF WentOn
  <2> QED BY <2>1, <2>2, <2>3, <2>4 DEF CaptureStep
<1>2. LogInv /\ [LogNext]_logVars =>
         [\A x \in Captures :
             RoundEnds(x) => \A s \in open \cap cap'[x].due \cap Clients :
                                 last[s][x] = cap[x].n]_logVars
  <2> SUFFICES ASSUME LogInv, LogNext, NEW x \in Captures, RoundEnds(x),
                      NEW s \in open \cap cap'[x].due \cap Clients
               PROVE  last[s][x] = cap[x].n
    OBVIOUS
  <2> QED BY <1>1 DEF AllHave
<1> QED BY <1>2, LogInductive, PTL DEF LogSpec, NoneSkipped
=============================================================================

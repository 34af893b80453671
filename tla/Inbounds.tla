------------------------------ MODULE Inbounds ------------------------------
(***************************************************************************)
(* From an inbound of the configuration file to what the panel is told of  *)
(* it (XrayConfig, SingBoxConfig: _resolve_inbounds; FetchBackends), and   *)
(* to the account of a user in it (accounts_map, key_gen).  The panel      *)
(* makes the links of its users from what it is told.                      *)
(*                                                                         *)
(* A value of the file is the key it is found under, and a host whether it *)
(* is one string or a list: nothing else about them matters here.          *)
(***************************************************************************)
EXTENDS Naturals, Sequences

CONSTANTS
    Protocols,    \* protocols of the files, as they may be spelled
    Lower,        \* str.lower()
    Networks,     \* values of "network" and of the type of a transport
    ShortIds,     \* values of shortIds and short_id; a string is a list of one
    Flows,        \* values of XRAY_VLESS_REALITY_FLOW
    Keys,         \* keys of users
    UuidKeys,     \* those that are a UUID
    Null          \* None, and what a file does not have

Vision == "xtls-rprx-vision"

ASSUME ProtocolsAssumption == Lower \in [Protocols -> Protocols]
ASSUME ShortIdsAssumption == ShortIds \subseteq Seq(STRING)
ASSUME KeysAssumption == UuidKeys \subseteq Keys
ASSUME NullAssumption ==
    /\ Null \notin Protocols \cup Networks \cup Flows
    /\ Null \notin [flow : Flows \cup {Null}, by : {"email", "name", "username"}]

\* Reality, with a private key that xray takes or not; Null: the settings are missing.
Reality == [valid : BOOLEAN, shortIds : ShortIds] \cup {Null}

\* transport_map, with its default
Transport(n) ==
    CASE n \in {"splithttp", "xhttp"} -> "splithttp"
      [] n \in {"kcp", "mkcp"}        -> "kcp"
      [] n \in {"h2", "h3", "http"}  -> "http"
      [] n \in {"ws", "websocket"}   -> "ws"
      [] n \in {"grpc", "httpupgrade", "quic"} -> n
      [] OTHER                       -> "tcp"

\* An inbound of an xray file.  own: what the settings of its transport are: missing,
\* or with the host as a string or a list; under: the spelling of the network they are
\* named with ("kcp" for kcpSettings), which need not be the one of "network".  Under
\* Reality they do not matter here.
XrayFiles ==
    {f \in [kind : {"xray"}, protocol : Protocols, tag : {"", "in", Null},
            network : Networks, own : {Null, "string", "list"}, under : Networks,
            security : {"none", "tls"}, reality : {Null}]
           \cup
           [kind : {"xray"}, protocol : Protocols, tag : {"in"},
            network : Networks, own : {Null}, under : Networks,
            security : {"reality"}, reality : Reality] :
        /\ Transport(f.under) = Transport(f.network)
        /\ f.own = Null => f.under = f.network}

\* An inbound of a sing-box file.  extra: obfs, or the version of shadowtls.
SingBoxFiles ==
    [kind : {"sing-box"}, protocol : Protocols, tag : {"", "in", Null},
     network : Networks \cup {Null}, own : {"string", "list"}, security : {"none", "tls"},
     reality : {Null}, extra : {Null, "part", "whole"}]
    \cup
    [kind : {"sing-box"}, protocol : Protocols, tag : {"in"}, network : {Null}, own : {Null},
     security : {"reality"}, reality : Reality \ {Null}, extra : {Null, "part", "whole"}]

VARIABLES
    file,     \* the inbound
    plain,    \* AUTH_GENERATION_ALGORITHM is plain
    flow,     \* XRAY_VLESS_REALITY_FLOW
    started,  \* start() has run, or raised
    listed,   \* the settings of the inbound, Null if it is left out
    member,   \* the user is stored with this inbound
    account,  \* the account of the user, or Null
    refused   \* the last attempt to make it raised

inboundsVars == <<file, plain, flow, started, listed, member, account, refused>>

(***************************************************************************)
(* _resolve_inbounds of XrayConfig.                                        *)
(***************************************************************************)
XrayProtocols == {"vmess", "trojan", "vless", "shadowsocks"}

\* Mutant: one spelling of each.
OneSpelling == {"ws", "httpupgrade", "splithttp"}

HostLike == {"ws", "websocket", "httpupgrade", "splithttp", "xhttp"}

FirstNonEmpty(values) ==
    LET full == {i \in DOMAIN values : values[i] # ""} IN
    IF full = {} THEN "" ELSE values[CHOOSE i \in full : \A k \in full : i <= k]

Listify(own) == IF own = Null THEN "empty" ELSE "list"

\* stream.get(f"{net}Settings"): the settings under another spelling are not found.
Found(f) == IF f.under = f.network THEN f.own ELSE Null

\* The keys path, host and header_type are taken from.
XrayPlace(f) ==
    LET n == f.network
        own == Found(f)
        Key(k) == IF own # Null THEN k ELSE Null
    IN CASE n \in {"tcp", "raw"} ->
              [path |-> IF own = "list" THEN "request.path" ELSE Null,
               host |-> IF own = "list" THEN "list" ELSE "empty",
               header |-> Key("header.type")]
         [] n \in HostLike -> [path |-> Key("path"), host |-> Listify(own), header |-> Null]
         [] n = "grpc" -> [path |-> Key("serviceName"), host |-> "empty", header |-> Null]
         [] n \in {"kcp", "mkcp"} ->
              [path |-> Key("seed"), host |-> "empty", header |-> Key("header.type")]
         [] n = "quic" -> [path |-> Key("key"), host |-> Key("string"),
                           header |-> Key("header.type")]
         [] n = "http" -> [path |-> Key("path"), host |-> own, header |-> Null]
         [] OTHER -> [path |-> Null, host |-> "empty", header |-> Null]

\* Mutant: every protocol over Reality has the flow.
FlowOfAll(f) ==
    IF f.security = "reality" /\ Transport(f.network) = "tcp" THEN flow ELSE Null

FlowOf(f) ==
    IF f.security = "reality" /\ f.protocol = "vless" /\ Transport(f.network) = "tcp"
    THEN flow ELSE Null

XrayTakes(f) == Lower[f.protocol] \in XrayProtocols /\ f.tag # Null

XraySettings(f) ==
    [protocol |-> f.protocol,
     network  |-> IF f.protocol = "shadowsocks" THEN Null ELSE Transport(f.network),
     tls      |-> f.security,
     flow     |-> FlowOf(f),
     sid      |-> IF f.security = "reality" THEN FirstNonEmpty(f.reality.shortIds) ELSE Null,
     place    |-> XrayPlace(f)]

(***************************************************************************)
(* _resolve_inbounds of SingBoxConfig.                                     *)
(***************************************************************************)
\* Mutant: inbounds without users are let through too.
MoreTypes ==
    {"shadowsocks", "vmess", "trojan", "vless", "hysteria2", "tuic", "shadowtls", "anytls",
     "direct"}

SingBoxTypes ==
    {"shadowsocks", "vmess", "trojan", "vless", "hysteria2", "tuic", "shadowtls", "anytls"}

SingBoxPlace(f) ==
    LET n == f.network
        obfs == f.protocol = "hysteria2" /\ f.extra = "whole"
    IN [path   |-> IF obfs THEN "obfs.password"
                   ELSE IF n \in {"ws", "http", "httpupgrade"} THEN "path"
                   ELSE IF n = "grpc" THEN "service_name" ELSE Null,
        host   |-> IF n = "http" THEN f.own ELSE "empty",
        header |-> IF obfs THEN "obfs.type" ELSE IF n = "http" THEN "http" ELSE Null]

SingBoxTakes(f) == f.protocol \in SingBoxTypes /\ f.tag \notin {"", Null}

SingBoxSettings(f) ==
    [protocol |-> f.protocol,
     network  |-> IF f.network = "http" THEN "tcp" ELSE f.network,
     tls      |-> f.security,
     flow     |-> Null,
     sid      |-> IF f.security = "reality" THEN FirstNonEmpty(f.reality.shortIds) ELSE Null,
     place    |-> SingBoxPlace(f)]

Takes(f) == IF f.kind = "xray" THEN XrayTakes(f) ELSE SingBoxTakes(f)

Settings(f) == IF f.kind = "xray" THEN XraySettings(f) ELSE SingBoxSettings(f)

\* tls_settings may be None, and get_x25519 returns None or raises.
Raises(f) ==
    Takes(f) /\ f.security = "reality" /\ (IF f.reality = Null THEN TRUE ELSE ~f.reality.valid)

(***************************************************************************)
(* Accounts.                                                               *)
(***************************************************************************)
\* The credentials of the accounts of a protocol; an unknown one is a KeyError.
XrayAccounts ==
    [p \in {"shadowsocks", "trojan", "vmess", "vless"} |->
        IF p \in {"vmess", "vless"} THEN {"uuid"} ELSE {"password"}]

SingBoxAccounts ==
    [p \in {"shadowsocks", "trojan", "vmess", "vless", "shadowtls", "tuic", "hysteria2",
            "anytls", "naive", "socks", "mixed", "http"} |->
        CASE p \in {"vmess", "vless"} -> {"uuid"}
          [] p = "tuic"              -> {"uuid", "password"}
          [] OTHER                   -> {"password"}]

\* What an account of sing-box calls its user.
NameKey(p) == IF p \in {"naive", "socks", "http", "mixed"} THEN "username" ELSE "name"

\* generate_uuid takes a key for a UUID when the algorithm is plain.
Generates(fields, key) == plain /\ "uuid" \in fields => key \in UuidKeys

\* add_user: of the accounts of xray only that of vless has a flow, one of XTLSFlows.
XrayAccount(key) ==
    LET p == listed.protocol IN
    IF p \notin DOMAIN XrayAccounts THEN Null
    ELSE IF ~Generates(XrayAccounts[p], key) THEN Null
    ELSE IF p # "vless" THEN [flow |-> Null, by |-> "email"]
    ELSE IF listed.flow \notin {Null, "", Vision} THEN Null
    ELSE [flow |-> listed.flow, by |-> "email"]

\* append_user
SingBoxAccount(key) ==
    LET p == listed.protocol IN
    IF p \notin DOMAIN SingBoxAccounts THEN Null
    ELSE IF ~Generates(SingBoxAccounts[p], key) THEN Null
    ELSE [flow |-> Null, by |-> NameKey(p)]

\* The keys remove_user of xray and pop_user find an account by.
FoundBy == {"email", "name", "username"}

-----------------------------------------------------------------------------
InboundsInit ==
    /\ file \in XrayFiles \cup SingBoxFiles
    /\ plain \in BOOLEAN
    /\ flow \in Flows
    /\ started = FALSE
    /\ listed = Null
    /\ member = FALSE
    /\ account = Null
    /\ refused = FALSE

\* start() of the backend, and FetchBackends, which tells the panel what it found.
Start ==
    /\ ~started
    /\ started' = TRUE
    /\ listed' = IF Takes(file) /\ ~Raises(file) THEN Settings(file) ELSE Null
    /\ UNCHANGED <<file, plain, flow, member, account, refused>>

\* _update_user with the tag of the inbound: nothing is stored when add_user raises.
AddUser(key) ==
    LET new == IF file.kind = "xray" THEN XrayAccount(key) ELSE SingBoxAccount(key) IN
    /\ listed # Null
    /\ ~member
    /\ account' = new
    /\ refused' = (new = Null)
    /\ member' = (new # Null)
    /\ UNCHANGED <<file, plain, flow, started, listed>>

\* _update_user without it
RemoveUser ==
    /\ member
    /\ member' = FALSE
    /\ account' = IF account.by \in FoundBy THEN Null ELSE account
    /\ UNCHANGED <<file, plain, flow, started, listed, refused>>

InboundsNext == Start \/ (\E key \in Keys : AddUser(key)) \/ RemoveUser

InboundsSpec == InboundsInit /\ [][InboundsNext]_inboundsVars

-----------------------------------------------------------------------------
(***************************************************************************)
(* Properties.                                                             *)
(***************************************************************************)
\* The values of the variables; the user that is stored has an account in the inbound,
\* and the account goes with the user.
InboundsTypeOK ==
    /\ file \in XrayFiles \cup SingBoxFiles
    /\ {plain, started, member, refused} \subseteq BOOLEAN
    /\ flow \in Flows
    /\ listed # Null => started
    /\ member => listed # Null
    /\ member = (account # Null)

\* Every inbound the panel is told of takes every user: each protocol _resolve_inbounds
\* lets through has an account.  It does not if the file of xray has the protocol in
\* upper case (the check lowers it, accounts_map does not), if xray's accounts do not
\* know the flow of the environment, or if a plain key has to be a UUID.
TakesUsers ==
    refused =>
        \/ file.kind = "xray" /\ Lower[file.protocol] # file.protocol
        \/ listed.flow \notin {Null, "", Vision}
        \/ plain /\ listed.protocol \in {"vmess", "vless", "tuic"}

\* The flow the panel is told is the one of the account: a client that uses another is
\* turned away.
FlowAgrees == member => account.flow = listed.flow

\* The short id the panel is told is one of the inbound, and it is the empty one only
\* if the inbound has no other.
SidServed ==
    listed # Null /\ file.security = "reality" =>
        LET ids == file.reality.shortIds IN
        IF \A i \in DOMAIN ids : ids[i] = "" THEN listed.sid = ""
        ELSE listed.sid # "" /\ \E i \in DOMAIN ids : ids[i] = listed.sid

\* The tables of spellings agree: the panel is told the same of two inbounds of xray
\* that use one spelling each of a network transport_map knows, for the network and
\* for the name of its settings, but for h2 and h3, whose settings are not read.  Where
\* the two of an inbound differ (network "websocket", wsSettings), the lookup of
\* _config.py:170 misses the settings, and another spelling of the network alone
\* changes the place that is told, and nothing else.
Spelled(n) == n \notin {"h2", "h3"} /\ (Transport(n) # "tcp" \/ n \in {"tcp", "raw"})

\* f with its network spelled n, and the settings found if they were.
Respelled(f, n) ==
    [f EXCEPT !.network = n, !.under = IF f.under = f.network THEN n ELSE f.network]

SpellingsAlike ==
    listed # Null /\ file.kind = "xray" /\ Spelled(file.network) =>
        \A n \in Networks \ {file.network} :
            Spelled(n) /\ Transport(n) = Transport(file.network) =>
                LET other == XraySettings([file EXCEPT !.network = n]) IN
                /\ XraySettings(Respelled(file, n)) = listed
                /\ other = [listed EXCEPT !.place = other.place]
                /\ file.own = Null => other = listed
=============================================================================

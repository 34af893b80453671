------------------------------ MODULE UserSync ------------------------------
(***************************************************************************)
(* The handlers of MarzService that add, change and remove users, between  *)
(* the sqlite storage and the accounts of the running xray process, with   *)
(* the life of that process: its death, the watchdog's start, the          *)
(* RestartBackend call and the crash of the node.                          *)
(*                                                                         *)
(* A step runs from one await that can suspend to the next.  A storage     *)
(* operation is one step here (SqliteStorage splits it into statements),   *)
(* and starts of xray do not overlap (XrayBackend lets them).              *)
(***************************************************************************)
EXTENDS FiniteSets, Naturals

CONSTANTS
    Ids,            \* user ids the panel uses
    Idents,         \* what identifies a user to xray: a username and a key
    Names,          \* usernames
    NameOf,         \* the username of an identity: xray's email is id.username
    Tags,           \* inbound tags
    Outs,           \* lists of outbounds of a user
    NoOuts,         \* the empty list, the one of a row just created
    Tasks,          \* gRPC handlers running at once
    NoRow,          \* the user has no row in the storage
    NoJob,          \* the handler is between two users
    Configs,        \* xray configurations: the sets of tags they declare
    InitialConfig,  \* the one on disk when the node first starts
    BadConfig,      \* a saved file that XrayConfig cannot use
    Requests,       \* user updates the panel may send through SyncUsers
    Batches,        \* what RepopulateUsers may carry
    Restarts,       \* the kinds of RestartBackend calls the panel makes
    MaxFaults       \* bound on crashes, cancellations and deaths of xray

RequestSet == [id : Ids, ident : Idents, tags : SUBSET Tags, outs : Outs]

ASSUME NameOfAssumption == NameOf \in [Idents -> Names]
ASSUME OutsAssumption == NoOuts \in Outs
ASSUME ConfigsAssumption ==
    Configs \subseteq SUBSET Tags /\ InitialConfig \in Configs
ASSUME BadConfigAssumption == BadConfig \notin Configs
ASSUME RequestsAssumption == Requests \subseteq RequestSet
ASSUME BatchesAssumption ==
    /\ Batches \subseteq SUBSET RequestSet
    /\ \A b \in Batches : \A r, s \in b : r.id = s.id => r = s
ASSUME RestartsAssumption == Restarts \subseteq {"good", "bad", "bare"}
ASSUME MaxFaultsAssumption == MaxFaults \in Nat

Row == [ident : Idents, tags : SUBSET Tags, outs : Outs]

Stored == [id : Ids, ident : Idents, tags : SUBSET Tags]

Job == [uid : Ids, stage : {"call", "outs"}, del : BOOLEAN,
        old : Idents, new : Idents,
        rem : SUBSET Tags, add : SUBSET Tags,
        tags : SUBSET Tags, outs : Outs]

ASSUME NoRowAssumption == NoRow \notin Row
ASSUME NoJobAssumption == NoJob \notin Job

Account == [tag : Tags, id : Ids, ident : Idents]

\* What a RepopulateUsers call may count on: the tags registered all along, and the
\* users it shares with other handlers.
Span == [kept : SUBSET Tags, others : SUBSET Ids]

Causes == {"none", "overlap", "stale", "cancel", "abort", "bare", "late"}

VARIABLES
    db,        \* [Ids -> Row \cup {NoRow}], tables users, user_inbounds, user_outbounds
    inbounds,  \* the registry SqliteStorage._inbounds
    claimed,   \* XrayBackend._inbound_tags, which contains_tag answers from
    disk,      \* the configuration file
    proc,      \* the xray process: dead, starting (not listening yet), up, or
               \* silent: it listens and holds its accounts, but answers no call
    accounts,  \* the accounts xray holds
    armed,     \* XrayBackend._started_once
    boot,      \* where XrayBackend.start() or the bare restart is
    serving,   \* main() has started the gRPC server
    stream,    \* per handler: the RPC and what is left of it
    job,       \* per handler: the user _update_user or the sweep is working on
    span,      \* history, per handler: what its RepopulateUsers may count on
    cause,     \* history: why storage and xray need not agree on a user
    faults     \* history: crashes, cancellations and deaths so far

vars == <<db, inbounds, claimed, disk, proc, accounts, armed, boot, serving,
          stream, job, span, cause, faults>>

node == <<inbounds, claimed, disk, armed, boot, serving>>

(***************************************************************************)
(* Records the program starts from.                                        *)
(***************************************************************************)
IdleStream == [pc |-> "idle", batch |-> {}, todo |-> {}, stale |-> {}]

NoSpan == [kept |-> {}, others |-> {}]

Off == [pc |-> "off", by |-> "main", todo |-> {}, batch |-> {}]

\* start() reads users and policies from the storage for its caller "by".
Reading(by) == [Off EXCEPT !.pc = "read", !.by = by]

\* Another handler than t is updating u, or is about to sweep it.
BusyBut(t, u) ==
    \E s \in Tasks \ {t} :
        \/ job[s] # NoJob /\ job[s].uid = u
        \/ \E e \in stream[s].stale : e.id = u

Busy(u) ==
    \E s \in Tasks :
        \/ job[s] # NoJob /\ job[s].uid = u
        \/ \E e \in stream[s].stale : e.id = u

\* The tags of u's row that are registered: what User.inbounds is read as.
Hydrated(u) == db[u].tags \cap inbounds

\* xray listens, and holds accounts.
Live == proc \in {"up", "silent"}

\* Users S lose the agreement of storage and xray because of c, unless they
\* had lost it before.
Blame(S, c) ==
    [u \in Ids |-> IF u \in S /\ cause[u] = "none" THEN c ELSE cause[u]]

Init ==
    /\ db = [u \in Ids |-> NoRow]
    /\ inbounds = InitialConfig
    /\ claimed = {}
    /\ disk = InitialConfig
    /\ proc = "dead"
    /\ accounts = {}
    /\ armed = FALSE
    /\ boot = Reading("main")
    /\ serving = FALSE
    /\ stream = [t \in Tasks |-> IdleStream]
    /\ job = [t \in Tasks |-> NoJob]
    /\ span = [t \in Tasks |-> NoSpan]
    /\ cause = [u \in Ids |-> "none"]
    /\ faults = 0

(***************************************************************************)
(* _update_user.  The reads and the choice of branch are one step: the     *)
(* registry lookups that follow list_users(id) do not suspend.             *)
(***************************************************************************)
\* Handler t has a job on u: a RepopulateUsers of another handler shares it.
Shared(t, u) ==
    [s \in Tasks |-> IF s # t /\ stream[s].pc # "idle"
                     THEN [span[s] EXCEPT !.others = @ \cup {u}]
                     ELSE span[s]]

Begin(t, j) ==
    /\ job' = [job EXCEPT ![t] = j]
    /\ span' = Shared(t, j.uid)
    /\ cause' = IF BusyBut(t, j.uid) \/ boot.pc # "off"
                THEN Blame({j.uid}, "overlap")
                ELSE IF j.rem \cup j.add \subseteq claimed
                     THEN cause
                     ELSE Blame({j.uid}, "stale")

\* What is left to do for request r: accounts to remove, accounts to add, and
\* the rows to write.
Work(r, old, rem, add) ==
    [uid |-> r.id, stage |-> "call", del |-> FALSE, old |-> old, new |-> r.ident,
     rem |-> rem, add |-> add, tags |-> r.tags \cap inbounds, outs |-> r.outs]

Removal(id, ident, tags) ==
    [uid |-> id, stage |-> "call", del |-> TRUE, old |-> ident, new |-> ident,
     rem |-> tags, add |-> {}, tags |-> {}, outs |-> NoOuts]

NewUser(t, r) ==
    /\ db[r.id] = NoRow
    /\ r.tags # {}
    /\ Begin(t, Work(r, r.ident, {}, r.tags \cap inbounds))

DropUser(t, r) ==
    /\ db[r.id] # NoRow
    /\ r.tags = {}
    /\ Begin(t, Removal(r.id, db[r.id].ident, Hydrated(r.id)))

AbsentUser(r) ==
    /\ db[r.id] = NoRow
    /\ r.tags = {}
    /\ UNCHANGED <<job, span, cause>>

\* Mutant: every requested inbound is added, not only the new ones.
ReAddAll(t, r) ==
    /\ db[r.id] # NoRow
    /\ r.tags # {}
    /\ db[r.id].ident = r.ident
    /\ Begin(t, Work(r, r.ident, Hydrated(r.id) \ r.tags, r.tags \cap inbounds))

SameIdentity(t, r) ==
    /\ db[r.id] # NoRow
    /\ r.tags # {}
    /\ db[r.id].ident = r.ident
    /\ Begin(t, Work(r, r.ident, Hydrated(r.id) \ r.tags,
                     (r.tags \cap inbounds) \ Hydrated(r.id)))

\* Mutant: a changed username or key is handled as any other update.
IdentityIgnored(t, r) ==
    /\ db[r.id] # NoRow
    /\ r.tags # {}
    /\ db[r.id].ident # r.ident
    /\ Begin(t, Work(r, db[r.id].ident, Hydrated(r.id) \ r.tags,
                     (r.tags \cap inbounds) \ Hydrated(r.id)))

NewIdentity(t, r) ==
    /\ db[r.id] # NoRow
    /\ r.tags # {}
    /\ db[r.id].ident # r.ident
    /\ Begin(t, Work(r, db[r.id].ident, Hydrated(r.id), r.tags \cap inbounds))

UpdateUser(t, r) ==
    \/ NewUser(t, r)
    \/ DropUser(t, r)
    \/ AbsentUser(r)
    \/ SameIdentity(t, r)
    \/ NewIdentity(t, r)

(***************************************************************************)
(* The calls to xray.  All removals precede all additions.  An update that *)
(* fails ends its RPC: nothing is rolled back.                             *)
(***************************************************************************)
Abort(t) ==
    /\ job' = [job EXCEPT ![t] = NoJob]
    /\ stream' = [stream EXCEPT ![t] = IdleStream]
    /\ span' = [span EXCEPT ![t] = NoSpan]

\* The update is over; SyncUsers then waits for the next message.
Finish(t) ==
    /\ job' = [job EXCEPT ![t] = NoJob]
    /\ UNCHANGED <<stream, span>>

HasCalls(t) == job[t] # NoJob /\ job[t].rem \cup job[t].add # {}

\* _resolve_tag raises for a tag no backend claims.
UnclaimedTag(t, tag) ==
    /\ tag \notin claimed
    /\ Abort(t)
    /\ UNCHANGED accounts

Called(t, field, tag) ==
    /\ job' = IF field = "rem"
              THEN [job EXCEPT ![t].rem = @ \ {tag}]
              ELSE [job EXCEPT ![t].add = @ \ {tag}]
    /\ UNCHANGED <<stream, span>>

\* Mutant: a call that reaches nobody is made again until it does.
UnreachableRetried(t, field, tag) ==
    /\ tag \in claimed
    /\ ~Live
    /\ UNCHANGED <<job, stream, span, accounts>>

\* Nothing listens: the OSError is logged and the call counts as done.  A call
\* to an xray that is silent waits: it has no timeout.
Unreachable(t, field, tag) ==
    /\ tag \in claimed
    /\ ~Live
    /\ Called(t, field, tag)
    /\ UNCHANGED accounts

Holders(tag, id, ident) ==
    {a \in accounts : a.tag = tag /\ a.id = id /\ NameOf[a.ident] = NameOf[ident]}

RemoveAccount(t, tag) ==
    /\ tag \in claimed
    /\ proc = "up"
    /\ IF Holders(tag, job[t].uid, job[t].old) = {}
       THEN Abort(t) /\ UNCHANGED accounts      \* EmailNotFoundError
       ELSE /\ accounts' = accounts \ Holders(tag, job[t].uid, job[t].old)
            /\ Called(t, "rem", tag)

AddAccount(t, tag) ==
    /\ tag \in claimed
    /\ proc = "up"
    /\ IF Holders(tag, job[t].uid, job[t].new) # {}
       THEN Abort(t) /\ UNCHANGED accounts      \* EmailExistsError
       ELSE /\ accounts' = accounts \cup
                   {[tag |-> tag, id |-> job[t].uid, ident |-> job[t].new]}
            /\ Called(t, "add", tag)

RemoveCall(t) ==
    /\ job[t] # NoJob
    /\ \E tag \in job[t].rem :
          \/ UnclaimedTag(t, tag)
          \/ Unreachable(t, "rem", tag)
          \/ RemoveAccount(t, tag)
    /\ UNCHANGED <<db, node, proc, cause, faults>>

\* Mutant: additions do not wait for the removals.
AddCallUnordered(t) ==
    /\ job[t] # NoJob
    /\ \E tag \in job[t].add :
          \/ UnclaimedTag(t, tag)
          \/ Unreachable(t, "add", tag)
          \/ AddAccount(t, tag)
    /\ UNCHANGED <<db, node, proc, cause, faults>>

AddCall(t) ==
    /\ job[t] # NoJob
    /\ job[t].rem = {}
    /\ \E tag \in job[t].add :
          \/ UnclaimedTag(t, tag)
          \/ Unreachable(t, "add", tag)
          \/ AddAccount(t, tag)
    /\ UNCHANGED <<db, node, proc, cause, faults>>

(***************************************************************************)
(* The storage operations that follow the calls.                           *)
(***************************************************************************)
CallsDone(t) ==
    /\ job[t] # NoJob
    /\ job[t].stage = "call"
    /\ job[t].rem = {}
    /\ job[t].add = {}

OutsOf(u) == IF db[u] = NoRow THEN NoOuts ELSE db[u].outs

TagsOf(u) == IF db[u] = NoRow THEN {} ELSE db[u].tags

StoreInbounds(t) ==
    /\ CallsDone(t)
    /\ ~job[t].del
    /\ db' = [db EXCEPT ![job[t].uid] =
                 [ident |-> job[t].new, tags |-> job[t].tags,
                  outs |-> OutsOf(job[t].uid)]]
    /\ job' = [job EXCEPT ![t].stage = "outs"]
    /\ UNCHANGED <<stream, span, accounts, node, proc, cause, faults>>

\* The upsert creates the row again when another handler deleted it.
StoreOutbounds(t) ==
    /\ job[t] # NoJob
    /\ job[t].stage = "outs"
    /\ db' = [db EXCEPT ![job[t].uid] =
                 [ident |-> job[t].new, tags |-> TagsOf(job[t].uid),
                  outs |-> job[t].outs]]
    /\ Finish(t)
    /\ UNCHANGED <<accounts, node, proc, cause, faults>>

DeleteUser(t) ==
    /\ CallsDone(t)
    /\ job[t].del
    /\ db' = [db EXCEPT ![job[t].uid] = NoRow]
    /\ Finish(t)
    /\ UNCHANGED <<accounts, node, proc, cause, faults>>

(***************************************************************************)
(* The RPCs.  A SyncUsers stream is open while the panel is connected; its *)
(* handler takes one message at a time.                                    *)
(***************************************************************************)
SyncUsers(t, r) ==
    /\ serving
    /\ stream[t].pc = "idle"
    /\ job[t] = NoJob
    /\ UpdateUser(t, r)
    /\ UNCHANGED <<db, stream, accounts, node, proc, faults>>

RepopulateUsers(t, b) ==
    /\ serving
    /\ stream[t].pc = "idle"
    /\ job[t] = NoJob
    /\ stream' = [stream EXCEPT ![t] =
                     [pc |-> "repop", batch |-> b, todo |-> b, stale |-> {}]]
    /\ span' = [span EXCEPT ![t] =
                   [kept |-> inbounds,
                    others |-> {u \in Ids : \E s \in Tasks \ {t} :
                                               job[s] # NoJob /\ job[s].uid = u}]]
    /\ UNCHANGED <<db, job, cause, accounts, node, proc, faults>>

RepopulateNext(t) ==
    /\ stream[t].pc = "repop"
    /\ job[t] = NoJob
    /\ \E r \in stream[t].todo :
          /\ UpdateUser(t, r)
          /\ stream' = [stream EXCEPT ![t].todo = @ \ {r}]
    /\ UNCHANGED <<db, accounts, node, proc, faults>>

\* Mutant: the sweep spares the users not yet handled, of which none is left.
LeftIds(t) == {r.id : r \in stream[t].todo}

BatchIds(t) == {r.id : r \in stream[t].batch}

\* list_users() of the sweep, cut down to the users it will remove.
ListStale(t) ==
    /\ stream[t].pc = "repop"
    /\ job[t] = NoJob
    /\ stream[t].todo = {}
    /\ LET gone == {u \in Ids \ BatchIds(t) : db[u] # NoRow}
       IN  /\ stream' = [stream EXCEPT ![t] =
                  [pc |-> "sweep", batch |-> stream[t].batch, todo |-> {},
                   stale |-> {[id |-> u, ident |-> db[u].ident, tags |-> Hydrated(u)] :
                                u \in gone}]]
           /\ cause' = Blame({u \in gone : BusyBut(t, u) \/ boot.pc # "off"},
                             "overlap")
    /\ UNCHANGED <<db, job, span, accounts, node, proc, faults>>

SweepNext(t) ==
    /\ stream[t].pc = "sweep"
    /\ job[t] = NoJob
    /\ \E e \in stream[t].stale :
          /\ Begin(t, Removal(e.id, e.ident, e.tags))
          /\ stream' = [stream EXCEPT ![t].stale = @ \ {e}]
    /\ UNCHANGED <<db, accounts, node, proc, faults>>

SweepDone(t) ==
    /\ stream[t].pc = "sweep"
    /\ job[t] = NoJob
    /\ stream[t].stale = {}
    /\ stream' = [stream EXCEPT ![t] = IdleStream]
    /\ span' = [span EXCEPT ![t] = NoSpan]
    /\ UNCHANGED <<db, job, cause, accounts, node, proc, faults>>

\* The connection of the panel is lost: grpclib cancels the handler wherever
\* it awaits.  Calls already answered are not undone.
Cancel(t) ==
    /\ faults < MaxFaults
    /\ job[t] # NoJob \/ stream[t].pc # "idle"
    /\ Abort(t)
    /\ faults' = faults + 1
    /\ cause' = IF job[t] # NoJob /\ job[t].stage = "call"
                THEN Blame({job[t].uid}, "cancel")
                ELSE cause
    /\ UNCHANGED <<db, accounts, node, proc>>

(***************************************************************************)
(* The xray process and XrayBackend.start().                               *)
(***************************************************************************)
\* The process is gone with its accounts.  Handlers in A were waiting for a
\* reply: the stream to xray terminates and the update aborts.  The others go
\* on with the registry that is left.
ProcessGone(A) ==
    /\ Live \/ A = {}
    /\ \A t \in A : HasCalls(t)
    /\ accounts' = {}
    /\ job' = [t \in Tasks |-> IF t \in A THEN NoJob ELSE job[t]]
    /\ stream' = [t \in Tasks |-> IF t \in A THEN IdleStream ELSE stream[t]]
    /\ span' = [t \in Tasks |-> IF t \in A THEN NoSpan
                               ELSE [span[t] EXCEPT !.kept = @ \cap inbounds']]

\* xray keeps its socket but answers no call any more.
Hang ==
    /\ faults < MaxFaults
    /\ proc = "up"
    /\ proc' = "silent"
    /\ faults' = faults + 1
    /\ UNCHANGED <<db, accounts, node, stream, job, span, cause>>

Die ==
    /\ faults < MaxFaults
    /\ proc # "dead"
    /\ proc' = "dead"
    /\ UNCHANGED <<db, inbounds, claimed, disk, armed, serving, cause>>
    /\ \E A \in SUBSET Tasks : ProcessGone(A)
    /\ faults' = faults + 1
    \* start() was waiting for a reply: it raises, and RestartBackend or the
    \* watchdog reports it
    /\ \/ UNCHANGED boot
       \/ /\ serving /\ Live
          /\ boot.pc = "load" /\ boot.batch # {}
          /\ boot' = Off

\* A start from scratch builds the accounts anew from the storage, so users
\* no handler is working on are in agreement again when it is over.
AfreshBut(S) == [u \in Ids |-> IF u \in S THEN "overlap" ELSE "none"]

BusyUsers == {u \in Ids : Busy(u)}

\* The watchdog: start() from the configuration on disk.  register_inbounds
\* adds to the registry.  (It logs a start() that raises on a bad file.)
AutoRestart ==
    /\ serving
    /\ armed
    /\ boot.pc = "off"
    /\ proc = "dead"
    /\ disk \in Configs
    /\ inbounds' = inbounds \cup disk
    /\ boot' = Reading("watchdog")
    /\ cause' = AfreshBut(BusyUsers)
    /\ UNCHANGED <<db, claimed, disk, proc, accounts, armed, serving,
                   stream, job, span, faults>>

\* RestartBackend with a configuration: stop() and the synchronous head of
\* start().  stop() takes only the claimed tags out of the registry, so those
\* of a start that was cancelled before it claimed them stay.  The handlers'
\* steps while stop() waits for the process are those with the process dead
\* just before.
Restart(cfg) ==
    /\ serving
    /\ boot.pc = "off"
    /\ proc' = "dead"
    /\ armed' = FALSE
    /\ inbounds' = (inbounds \ claimed) \cup cfg
    /\ claimed' = {}
    /\ disk' = cfg
    /\ boot' = Reading("rpc")
    /\ \E A \in SUBSET Tasks :
          /\ ProcessGone(A)
          /\ cause' = AfreshBut({u \in Ids : Busy(u)'})
    /\ UNCHANGED <<db, serving, faults>>

\* The same with a configuration start() raises on, before it is saved (no
\* JSON) or after (XrayConfig): stop() is done and nothing is registered.
BadRestart ==
    /\ serving
    /\ boot.pc = "off"
    /\ proc' = "dead"
    /\ armed' = FALSE
    /\ inbounds' = inbounds \ claimed
    /\ claimed' = {}
    /\ disk' \in {disk, BadConfig}
    /\ \E A \in SUBSET Tasks :
          /\ ProcessGone(A)
          /\ cause' = Blame({u \in Ids : Busy(u)'}, "overlap")
    /\ UNCHANGED <<db, boot, serving, faults>>

\* RestartBackend without one: XrayCore.restart(self._config) alone.
BareRestart ==
    /\ serving
    /\ boot.pc = "off"
    /\ UNCHANGED <<db, inbounds, claimed, disk, armed, serving, faults>>
    /\ \E A \in SUBSET Tasks : ProcessGone(A)
    /\ proc' = "starting"
    /\ boot' = [Off EXCEPT !.pc = "wait", !.by = "bare"]
    /\ cause' = Blame(Ids, "bare")

Spawn ==
    /\ boot.pc = "read"
    /\ claimed' = disk
    /\ proc' = "starting"
    /\ boot' = [boot EXCEPT !.pc = "wait"]
    /\ UNCHANGED <<db, inbounds, disk, accounts, armed, serving, stream, job, span, cause, faults>>

\* xray binds its ports and prints that it started.
Listen ==
    /\ proc = "starting"
    /\ proc' = "up"
    /\ cause' = IF boot.pc = "wait" THEN cause ELSE Blame(Ids, "late")
    /\ UNCHANGED <<db, accounts, node, stream, job, span, faults>>

\* XrayCore.start returns: xray said it started, died, or said nothing for
\* four seconds.
Started ==
    /\ boot.pc = "wait"
    /\ IF boot.by = "bare"
       THEN boot' = Off /\ UNCHANGED armed
       ELSE boot' = [boot EXCEPT !.pc = "load", !.todo = claimed] /\ armed' = TRUE
    /\ UNCHANGED <<db, inbounds, claimed, disk, proc, accounts, serving, stream, job, span,
                   cause, faults>>

\* xray died before it had read its configuration: writing it raises.
StartFails ==
    /\ serving
    /\ boot.pc = "wait"
    /\ proc = "dead"
    /\ boot' = Off
    /\ UNCHANGED <<db, inbounds, claimed, disk, proc, accounts, armed, serving,
                   stream, job, span, cause, faults>>

\* Mutant: the query forgets the tag.
ListEveryUser(tag) ==
    /\ boot.pc = "load"
    /\ boot.batch = {}
    /\ tag \in boot.todo
    /\ boot' = [boot EXCEPT
          !.todo = @ \ {tag},
          !.batch = {[tag |-> tag, id |-> u, ident |-> db[u].ident] :
                        u \in {v \in Ids : db[v] # NoRow}}]
    /\ UNCHANGED <<db, inbounds, claimed, disk, proc, accounts, armed, serving,
                   stream, job, span, cause, faults>>

ListInboundUsers(tag) ==
    /\ boot.pc = "load"
    /\ boot.batch = {}
    /\ tag \in boot.todo
    /\ boot' = [boot EXCEPT
          !.todo = @ \ {tag},
          !.batch = {[tag |-> tag, id |-> u, ident |-> db[u].ident] :
                        u \in {v \in Ids : db[v] # NoRow /\ tag \in db[v].tags}}]
    /\ UNCHANGED <<db, inbounds, claimed, disk, proc, accounts, armed, serving,
                   stream, job, span, cause, faults>>

\* add_storage_users ends at the first user xray already knows.
LoadUser ==
    /\ boot.pc = "load"
    /\ proc # "silent"
    /\ \E a \in boot.batch :
          IF ~Live
          THEN /\ boot' = [boot EXCEPT !.batch = @ \ {a}]
               /\ UNCHANGED <<accounts, cause>>
          ELSE IF Holders(a.tag, a.id, a.ident) = {}
          THEN /\ boot' = [boot EXCEPT !.batch = @ \ {a}]
               /\ accounts' = accounts \cup {a}
               /\ UNCHANGED cause
          ELSE /\ boot' = Off
               /\ cause' = Blame(Ids, "abort")
               /\ UNCHANGED accounts
    /\ UNCHANGED <<db, inbounds, claimed, disk, proc, armed, serving, stream, job, span, faults>>

\* start() returns; at the node's start the gRPC server follows.
BootDone ==
    /\ boot.pc = "load"
    /\ boot.batch = {}
    /\ boot.todo = {}
    /\ boot' = Off
    /\ serving' = TRUE
    /\ UNCHANGED <<db, inbounds, claimed, disk, proc, accounts, armed, stream, job, span,
                   cause, faults>>

\* The panel goes away while RestartBackend waits for the process to end.
CancelStop ==
    /\ faults < MaxFaults
    /\ serving
    /\ boot.pc = "off"
    /\ proc # "dead"
    /\ proc' = "dead"
    /\ UNCHANGED <<db, inbounds, claimed, disk, boot, serving, cause>>
    /\ \E A \in SUBSET Tasks : ProcessGone(A)
    /\ armed' = FALSE
    /\ faults' = faults + 1

\* The panel goes away while RestartBackend waits for xray to start or adds
\* the stored users.
CancelRestart ==
    /\ faults < MaxFaults
    /\ boot.pc # "off"
    /\ boot.by \in {"rpc", "bare"}
    /\ boot' = Off
    /\ cause' = Blame(Ids, "abort")
    /\ faults' = faults + 1
    /\ UNCHANGED <<db, inbounds, claimed, disk, proc, accounts, armed, serving,
                   stream, job, span>>

\* The node process ends and is started again: the storage and the
\* configuration file survive, the registry is made anew.  On a bad file the
\* node does not come up: it has stopped for good.
NodeRestart ==
    /\ faults < MaxFaults
    /\ disk \in Configs
    /\ inbounds' = disk
    /\ faults' = faults + 1
    /\ proc' = "dead"
    /\ accounts' = {}
    /\ armed' = FALSE
    /\ claimed' = {}
    /\ boot' = Reading("main")
    /\ serving' = FALSE
    /\ stream' = [t \in Tasks |-> IdleStream]
    /\ job' = [t \in Tasks |-> NoJob]
    /\ span' = [t \in Tasks |-> NoSpan]
    /\ cause' = [u \in Ids |-> "none"]
    /\ UNCHANGED <<db, disk>>

(***************************************************************************)
(* The specification.                                                      *)
(***************************************************************************)
\* Steps of a handler once its RPC has begun.
Handler(t) ==
    \/ RepopulateNext(t) \/ ListStale(t) \/ SweepNext(t) \/ SweepDone(t)
    \/ RemoveCall(t) \/ AddCall(t)
    \/ StoreInbounds(t) \/ StoreOutbounds(t) \/ DeleteUser(t)

\* Steps of start() and of the process it started.
Boot ==
    \/ Spawn \/ Listen \/ Started
    \/ (\E tag \in Tags : ListInboundUsers(tag))
    \/ LoadUser \/ BootDone

Panel ==
    \/ \E t \in Tasks, r \in Requests : SyncUsers(t, r)
    \/ \E t \in Tasks, b \in Batches : RepopulateUsers(t, b)
    \/ "good" \in Restarts /\ \E cfg \in Configs : Restart(cfg)
    \/ "bad" \in Restarts /\ BadRestart
    \/ "bare" \in Restarts /\ BareRestart

Faults ==
    \/ \E t \in Tasks : Cancel(t)
    \/ Hang \/ Die \/ StartFails \/ CancelStop \/ CancelRestart \/ NodeRestart

Next ==
    \/ Panel
    \/ \E t \in Tasks : Handler(t)
    \/ Boot
    \/ AutoRestart
    \/ Faults

Spec == Init /\ [][Next]_vars

FairSpec ==
    /\ Spec
    /\ \A t \in Tasks : WF_vars(Handler(t))
    /\ WF_vars(Boot)

(***************************************************************************)
(* Properties.                                                             *)
(***************************************************************************)
\* Every variable keeps its type; a start that waits for the storage has a
\* configuration it could read.
TypeOK ==
    /\ db \in [Ids -> Row \cup {NoRow}]
    /\ inbounds \subseteq Tags
    /\ claimed \subseteq Tags
    /\ disk \in Configs \cup {BadConfig}
    /\ proc \in {"dead", "starting", "up", "silent"}
    /\ accounts \subseteq Account
    /\ armed \in BOOLEAN
    /\ boot \in [pc : {"off", "read", "wait", "load"}, by : {"main", "watchdog", "rpc", "bare"},
                 todo : SUBSET Tags, batch : SUBSET Account]
    /\ boot.pc = "read" => disk \in Configs
    /\ serving \in BOOLEAN
    /\ stream \in [Tasks -> [pc : {"idle", "repop", "sweep"},
                             batch : SUBSET RequestSet, todo : SUBSET RequestSet,
                             stale : SUBSET Stored]]
    /\ job \in [Tasks -> Job \cup {NoJob}]
    /\ span \in [Tasks -> Span]
    /\ cause \in [Ids -> Causes]
    /\ faults \in 0..MaxFaults

AccountsOf(u) == {a \in accounts : a.id = u}

Held(u, ident, tags) == {[tag |-> tag, id |-> u, ident |-> ident] : tag \in tags}

\* What xray should hold of u by the storage: the accounts on the tags of its
\* row that the configuration it was started with declares.
Due(u) == IF db[u] = NoRow THEN {} ELSE Held(u, db[u].ident, db[u].tags \cap claimed)

Settled(u) == proc = "up" /\ boot.pc = "off" /\ ~Busy(u)

AgreementFor(C) ==
    \A u \in Ids : (Settled(u) /\ cause[u] \in C) => AccountsOf(u) = Due(u)

\* Once its handlers are done and xray is up, a user has exactly the
\* accounts the storage gives it: with its stored credential, on its stored
\* tags that the running configuration declares (service.py:116-162 with
\* xray_backend.py:104-107,121-140).
Agreement == AgreementFor({"none"})

\* xray never holds two credentials of a user at once, not even while its
\* username or key is being changed (service.py:155-157).
OneCredential ==
    \A u \in Ids : cause[u] = "none" =>
        \A a, b \in AccountsOf(u) : a.ident = b.ident

\* An update that has calls left and meets neither a death of xray nor a
\* cancellation goes on: neither _resolve_tag nor xray refuses a call of it
\* (service.py:60-78), unless it began with a tag that is registered and that
\* no backend claims.
NeverRefused ==
    \A t \in Tasks :
        (HasCalls(t) /\ job'[t] = NoJob /\ proc' = proc /\ faults' = faults)
            => cause'[job[t].uid] # "none"

UpdatesNeverRefused == [][NeverRefused]_vars

(***************************************************************************)
(* What the comments of the code say beyond that.  Each of these excuses   *)
(* every cause but one.                                                    *)
(***************************************************************************)
\* "start() repopulates storage users" (xray_backend.py:76): also those of
\* whom no handler was at work.
StartRepopulates == AgreementFor({"none", "abort"})

\* "Add/Update/Delete users based on calls from the client" (service.py:48): also a user
\* of whom the client names a tag that is registered and that no backend claims.
TagsAreClaimed == AgreementFor({"none", "stale"})

\* "either start or die" (xray/_runner.py:64): by the end of its wait xray
\* has started, and takes the users, or is dead.
StartsOrDies == AgreementFor({"none", "late"})

\* When RepopulateUsers answers, the storage holds the users of the message
\* as it gives them, and no other (service.py:195-211): of their tags, all
\* that were registered during the whole call.  A user that another handler
\* worked on meanwhile is left out.
StoredAs(r, kept) ==
    /\ db[r.id] # NoRow
    /\ db[r.id].ident = r.ident /\ db[r.id].outs = r.outs
    /\ r.tags \cap kept \subseteq db[r.id].tags /\ db[r.id].tags \subseteq r.tags

Reconciled(t) ==
    \A u \in Ids \ span[t].others :
        \/ /\ \A r \in stream[t].batch : r.id = u => r.tags = {}
           /\ db[u] = NoRow
        \/ \E r \in stream[t].batch :
              r.id = u /\ r.tags # {} /\ StoredAs(r, span[t].kept)

RepopulateReconciles ==
    [][\A t \in Tasks :
          (stream[t].pc = "sweep" /\ stream'[t].pc = "idle" /\ job[t] = NoJob
             /\ faults' = faults)
          => Reconciled(t)]_vars

\* Every handler ends, with its work done or with an error, and so does every
\* start of xray, whatever becomes of xray meanwhile; only an xray that
\* listens and answers nothing holds them up, as no call has a timeout.
EveryCallEnds ==
    /\ \A t \in Tasks : (stream[t].pc # "idle" \/ job[t] # NoJob)
                            ~> \/ stream[t].pc = "idle" /\ job[t] = NoJob
                               \/ proc = "silent"
    /\ boot.pc # "off" ~> boot.pc = "off" \/ proc = "silent"

(***************************************************************************)
(* The inductive invariant behind Agreement, OneCredential and             *)
(* UpdatesNeverRefused: what is true of a user at every step of the one    *)
(* handler, or of the start, that works on it.                             *)
(***************************************************************************)
Works(t, u) ==
    \/ job[t] # NoJob /\ job[t].uid = u
    \/ \E e \in stream[t].stale : e.id = u

\* The process, its start and its tags, whoever the users are: what is
\* claimed is registered, and is what the file declares once a start got that
\* far and for as long as the watchdog would start from it.
BootOK ==
    /\ ~Live => accounts = {}
    /\ claimed \subseteq inbounds
    /\ armed => claimed = disk
    /\ boot.pc = "read" => proc = "dead" /\ boot.by # "bare" /\ disk \subseteq inbounds
    /\ boot.pc \in {"read", "wait"} => boot.batch = {}
    /\ boot.pc = "wait" /\ boot.by # "bare" => claimed = disk
    /\ boot.pc = "load" => claimed = disk /\ boot.todo \subseteq claimed
    /\ \A t \in Tasks : stream[t].pc # "sweep" => stream[t].stale = {}

\* One worker at a time, none while xray is being started.
SoleWorker(u) ==
    /\ \A s, t \in Tasks : Works(s, u) /\ Works(t, u) => s = t
    /\ \A t \in Tasks : job[t] # NoJob /\ job[t].uid = u
                            => \A e \in stream[t].stale : e.id # u
    /\ boot.pc # "off" => \A t \in Tasks : ~Works(t, u)

BootUser(u) ==
    /\ boot.pc = "wait" => boot.by # "bare" /\ AccountsOf(u) = {}
    /\ boot.pc = "load" =>
          /\ \A x \in boot.batch : x.id = u => x \in Due(u) /\ x.tag \notin boot.todo
          /\ Live =>
                AccountsOf(u) = {x \in Due(u) : x.tag \notin boot.todo /\ x \notin boot.batch}

QuietUser(u) ==
    (Live /\ boot.pc = "off" /\ \A t \in Tasks : job[t] = NoJob \/ job[t].uid # u)
        => AccountsOf(u) = Due(u)

\* A snapshot the sweep has not come to is still what the storage says.
StaleUser(u) ==
    \A t \in Tasks : \A e \in stream[t].stale :
        e.id = u => /\ db[u] # NoRow
                    /\ e.ident = db[u].ident
                    /\ e.tags = Hydrated(u)

\* Where an update stands: the old accounts it has still to remove and the
\* new ones it need not add any more.
WorkedUser(u) ==
    \A t \in Tasks : (job[t] # NoJob /\ job[t].uid = u) =>
        LET j == job[t]
        IN  /\ j.rem \cup j.add \subseteq claimed
            /\ j.tags \subseteq inbounds
            /\ j.add \subseteq j.tags
            /\ j.rem \cap (j.tags \ j.add) = {}
            /\ j.old # j.new /\ j.rem # {} => j.add = j.tags
            /\ j.del => j.tags = {}
            /\ Live => AccountsOf(u) =
                          Held(u, j.old, j.rem)
                             \cup Held(u, j.new, (j.tags \ j.add) \cap claimed)
            /\ j.stage = "outs" => /\ j.rem = {} /\ j.add = {} /\ ~j.del
                                   /\ db[u] # NoRow
                                   /\ db[u].ident = j.new /\ db[u].tags = j.tags

\* Holds of every user the history gives no cause against.
UserInv(u) ==
    /\ SoleWorker(u)
    /\ BootUser(u)
    /\ QuietUser(u)
    /\ StaleUser(u)
    /\ WorkedUser(u)

IInv == BootOK /\ \A u \in Ids : cause[u] = "none" => UserInv(u)

=============================================================================

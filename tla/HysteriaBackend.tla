-------------------------- MODULE HysteriaBackend --------------------------
(***************************************************************************)
(* HysteriaBackend, the handlers that change its users, and either         *)
(* storage.  Hysteria holds no accounts: it asks the node, over HTTP,      *)
(* whether a password is good, and the node answers from a dictionary of   *)
(* its own, which start() does not fill and stop() does not empty.         *)
(*                                                                         *)
(* A step runs from one await that can suspend to the next; MemoryStorage  *)
(* never suspends.  A user has one handler at a time (UserSync has more),  *)
(* its password is its key, and of its inbounds this one is told apart.    *)
(***************************************************************************)
EXTENDS FiniteSets, Naturals

CONSTANTS
    Ids,         \* user ids
    Keys,        \* keys, and the passwords made of them
    Callers,     \* RestartBackend calls at once
    Settings,    \* values of durable
    NoRow,       \* the user has no row
    NoJob,       \* no handler works on the user
    MaxCalls,    \* bound on RestartBackend calls
    MaxFaults    \* bound on deaths, cancellations and restarts of the node

ASSUME SettingsAssumption == Settings \subseteq BOOLEAN
ASSUME BoundsAssumption == MaxCalls \in Nat /\ MaxFaults \in Nat

\* on: hysteria2 is among the user's inbounds.
Row == [key : Keys, on : BOOLEAN]

\* What is left of _update_user: the old password to remove, the new one to add,
\* and the row to write, or NoRow to delete it.
Job == [stage : {"remove", "kick", "add", "write"}, old : Keys, add : BOOLEAN,
        row : Row \cup {NoRow}]

ASSUME NoneAssumption == NoRow \notin Row /\ NoJob \notin Job

\* A configuration is one HysteriaConfig accepts, or one it raises on, as it does
\* on the empty one: a request that carries none has the empty string.
Configs == {"good", "bad"}

\* The inbounds a request asks for: hysteria2, only others, or none.
Wants == {"hysteria2", "others", "none"}

VARIABLES
    durable,     \* the storage is SqliteStorage, else MemoryStorage
    serving,     \* main() has started the server
    rows,        \* the storage's users
    registered,  \* hysteria2 is in the storage's registry of inbounds
    users,       \* _users
    job,         \* per user: its handler
    file,        \* the configuration on the disk
    site,        \* _auth_site is a site of _app_runner, which stop() insists on
    call,        \* per caller: where restart() is, and its configuration
    calls,       \* RestartBackend calls so far
    proc,        \* the process of the runner
    old,         \* a process that was terminated has not ended
    sessions,    \* clients of the process
    cause,       \* history: why rows and users need not agree on a user
    unkicked,    \* history: users a request to send away was cut short of
    hurt,        \* history: since the last start, a call was cut short or the process ended
    faults       \* history: deaths, cancellations and restarts so far

store == <<durable, rows, registered>>
handlers == <<users, job, cause>>
restarts == <<file, site, call, calls>>
process == <<proc, old, sessions, unkicked>>
vars == <<serving, store, handlers, restarts, process, hurt, faults>>

Idle == [pc |-> "idle", config |-> "good"]

Init ==
    /\ durable \in Settings
    /\ serving = TRUE
    /\ rows = [u \in Ids |-> NoRow]
    /\ registered = TRUE
    /\ users = {}
    /\ job = [u \in Ids |-> NoJob]
    /\ file = "good"
    /\ site = TRUE
    /\ call = [c \in Callers |-> Idle]
    /\ calls = 0
    /\ proc = "starting"
    /\ old = FALSE
    /\ sessions = {}
    /\ cause = [u \in Ids |-> {}]
    /\ unkicked = {}
    /\ hurt = FALSE
    /\ faults = 0

Fault == faults < MaxFaults /\ faults' = faults + 1

\* With MemoryStorage a handler suspends only while it waits for a kick.
OthersRun == ~durable => \A u \in Ids : job[u] # NoJob => job[u].stage = "kick"

Blame(S, why) ==
    [u \in Ids |-> IF u \in S THEN cause[u] \cup {why} ELSE cause[u]]

(***************************************************************************)
(* _update_user.                                                           *)
(***************************************************************************)
\* The user's row lists the inbound, as the storage reads it: SqliteStorage looks
\* it up in the registry.
Has(u) == rows[u] # NoRow /\ rows[u].on /\ (durable => registered)

Begin(u, remove, old_key, add, row) ==
    /\ job' = [job EXCEPT ![u] =
                  [stage |-> IF remove THEN "remove" ELSE "add", old |-> old_key,
                   add |-> add, row |-> row]]
    /\ cause' = IF registered THEN cause ELSE Blame({u}, "window")

Wanted(want) == want = "hysteria2" /\ registered

NewUser(u, k, want) ==
    /\ rows[u] = NoRow
    /\ want # "none"
    /\ Begin(u, FALSE, k, Wanted(want), [key |-> k, on |-> Wanted(want)])

\* Mutant: the row is deleted and nothing else.
DropRow(u, want) ==
    /\ rows[u] # NoRow
    /\ want = "none"
    /\ Begin(u, FALSE, rows[u].key, FALSE, NoRow)

DropUser(u, want) ==
    /\ rows[u] # NoRow
    /\ want = "none"
    /\ Begin(u, Has(u), rows[u].key, FALSE, NoRow)

SameIdentity(u, k, want) ==
    /\ rows[u] # NoRow
    /\ want # "none"
    /\ k = rows[u].key
    /\ Begin(u, Has(u) /\ want = "others" /\ registered, k,
             Wanted(want) /\ ~Has(u), [key |-> k, on |-> Wanted(want)])

\* Mutant: a key that changed is handled as one that did not.
IdentityIgnored(u, k, want) ==
    /\ rows[u] # NoRow
    /\ want # "none"
    /\ k # rows[u].key
    /\ Begin(u, Has(u) /\ want = "others" /\ registered, k,
             Wanted(want) /\ ~Has(u), [key |-> k, on |-> Wanted(want)])

NewIdentity(u, k, want) ==
    /\ rows[u] # NoRow
    /\ want # "none"
    /\ k # rows[u].key
    /\ Begin(u, Has(u), rows[u].key, Wanted(want), [key |-> k, on |-> Wanted(want)])

UpdateUser(u, k, want) ==
    /\ serving
    /\ OthersRun
    /\ job[u] = NoJob
    /\ \/ NewUser(u, k, want)
       \/ DropUser(u, want)
       \/ SameIdentity(u, k, want)
       \/ NewIdentity(u, k, want)
    /\ UNCHANGED <<serving, store, users, restarts, process, hurt, faults>>

At(u, stage) == job[u] # NoJob /\ job[u].stage = stage

Enter(u, stage) == job' = [job EXCEPT ![u].stage = stage]

\* Mutant: the client is sent away first and its password removed later.
KickedFirst(u) ==
    \/ /\ At(u, "remove")
       /\ Enter(u, IF <<u, job[u].old>> \in users THEN "kick" ELSE "add")
       /\ sessions' = IF proc = "up" THEN {s \in sessions : s[1] # u} ELSE sessions
       /\ UNCHANGED <<serving, store, users, restarts, proc, old, unkicked, cause, hurt, faults>>
    \/ /\ At(u, "kick")
       /\ users' = users \ {<<u, job[u].old>>}
       /\ Enter(u, "add")
       /\ UNCHANGED <<serving, store, restarts, process, cause, hurt, faults>>

\* HysteriaBackend.remove_user() up to the request: it ends early for a password
\* that is not in the dictionary.
RemovePassword(u) ==
    /\ At(u, "remove")
    /\ users' = users \ {<<u, job[u].old>>}
    /\ Enter(u, IF <<u, job[u].old>> \in users THEN "kick" ELSE "add")
    /\ UNCHANGED <<serving, store, restarts, process, cause, hurt, faults>>

EndFailed(u) ==
    /\ job' = [job EXCEPT ![u] = NoJob]
    /\ cause' = Blame({u}, "failed")

\* The request to the process; ClientConnectorError ends the handler.
Kick(u) ==
    /\ At(u, "kick")
    /\ IF proc = "up"
       THEN /\ sessions' = {s \in sessions : s[1] # u}
            /\ unkicked' = unkicked \ {u}
            /\ Enter(u, "add")
            /\ UNCHANGED cause
       ELSE EndFailed(u) /\ UNCHANGED <<sessions, unkicked>>
    /\ UNCHANGED <<serving, store, users, restarts, proc, old, hurt, faults>>

\* HysteriaBackend.remove_user()
RemoveCall(u) == RemovePassword(u) \/ Kick(u)

\* HysteriaBackend.add_user()
AddCall(u) ==
    /\ At(u, "add")
    /\ users' = IF job[u].add THEN users \cup {<<u, job[u].row.key>>} ELSE users
    /\ Enter(u, "write")
    /\ UNCHANGED <<serving, store, restarts, process, cause, hurt, faults>>

PasswordsOf(u) == {k \in Keys : <<u, k>> \in users}

PasswordsBy(row) == IF row = NoRow \/ ~row.on THEN {} ELSE {row.key}

\* The storage's part, which ends the handler.
WriteUser(u) ==
    /\ At(u, "write")
    /\ rows' = [rows EXCEPT ![u] = job[u].row]
    /\ job' = [job EXCEPT ![u] = NoJob]
    /\ cause' = IF PasswordsOf(u) = PasswordsBy(job[u].row)
                THEN [cause EXCEPT ![u] = {}] ELSE cause
    /\ UNCHANGED <<serving, durable, registered, users, restarts, process, hurt, faults>>

\* grpclib cancels the handler where it suspends, or sqlite raises.  The process
\* may never see a request that was on its way.
HandlerFails(u) ==
    /\ Fault
    /\ job[u] # NoJob
    /\ durable \/ job[u].stage = "kick"
    /\ EndFailed(u)
    /\ unkicked' = IF job[u].stage = "kick" THEN unkicked \cup {u} ELSE unkicked
    /\ UNCHANGED <<serving, store, users, restarts, proc, old, sessions, hurt>>

(***************************************************************************)
(* restart().                                                              *)
(***************************************************************************)
RestartBackend(c, config) ==
    /\ serving
    /\ OthersRun
    /\ call[c] = Idle
    /\ calls < MaxCalls
    /\ calls' = calls + 1
    /\ call' = [call EXCEPT ![c] = [pc |-> "wait", config |-> config]]
    /\ UNCHANGED <<serving, store, handlers, file, site, process, hurt, faults>>

Within(c) == call[c].pc \notin {"idle", "wait"}

Locked == \E c \in Callers : Within(c)

\* Mutant: the lock is kept when start() raises.
KeepsLock(c) == call' = [call EXCEPT ![c].pc = "stuck"]

\* The call ends with an exception, which releases the lock.
Raise(c) == call' = [call EXCEPT ![c] = Idle]

\* remove_inbound(): MemoryStorage takes it from its users too.
RemoveInbound ==
    /\ registered' = FALSE
    /\ IF durable
       THEN UNCHANGED <<rows, cause>>
       ELSE /\ rows' = [u \in Ids |-> IF rows[u] = NoRow THEN NoRow
                                      ELSE [rows[u] EXCEPT !.on = FALSE]]
            /\ cause' = Blame({u \in Ids : rows[u] # NoRow /\ rows[u].on}, "stripped")

\* lock.acquire()
Enters(c) == call[c].pc = "wait" /\ ~Locked

\* The lock, stop(), and start() up to its first await: the configuration is on the
\* disk before it has been read.
Stop(c) ==
    /\ OthersRun
    /\ Enters(c)
    /\ site
    /\ site' = FALSE
    /\ RemoveInbound
    /\ old' = (old \/ proc # "none")
    /\ proc' = "none"
    /\ sessions' = {}
    /\ unkicked' = {}
    /\ file' = call[c].config
    /\ call' = [call EXCEPT ![c].pc = "cleanup"]
    /\ UNCHANGED <<serving, durable, users, job, calls, hurt, faults>>

\* aiohttp raises when the site to stop has been stopped before.
StopRaises(c) ==
    /\ OthersRun
    /\ Enters(c)
    /\ ~site
    /\ Raise(c)
    /\ UNCHANGED <<serving, store, handlers, file, site, calls, process, hurt, faults>>

\* The old runner has been cleaned up, and a new site listens.
StartSite(c) ==
    /\ OthersRun
    /\ call[c].pc = "cleanup"
    /\ site' = TRUE
    /\ call' = [call EXCEPT ![c].pc = "configure"]
    /\ UNCHANGED <<serving, store, handlers, file, calls, process, hurt, faults>>

\* HysteriaConfig and register_inbounds()
Configure(c) ==
    /\ OthersRun
    /\ call[c].pc = "configure"
    /\ IF call[c].config = "good"
       THEN /\ registered' = TRUE
            /\ call' = [call EXCEPT ![c].pc = "spawn"]
       ELSE Raise(c) /\ UNCHANGED registered
    /\ UNCHANGED <<serving, durable, rows, handlers, file, site, calls, process, hurt, faults>>

\* Hysteria.start(): nothing waits for the old process to end.
Spawn(c) ==
    /\ OthersRun
    /\ call[c].pc = "spawn"
    /\ proc' = "starting"
    /\ hurt' = FALSE
    /\ call' = [call EXCEPT ![c] = Idle]
    /\ UNCHANGED <<serving, store, handlers, file, site, calls, old, sessions, unkicked, faults>>

Restart(c) == Stop(c) \/ StopRaises(c) \/ StartSite(c) \/ Configure(c) \/ Spawn(c)

\* grpclib cancels the call.
CancelCall(c) ==
    /\ Fault
    /\ OthersRun
    /\ call[c] # Idle
    /\ hurt' = TRUE
    /\ call' = [call EXCEPT ![c] = Idle]
    /\ UNCHANGED <<serving, store, handlers, file, site, calls, process>>

(***************************************************************************)
(* hysteria and its clients.                                               *)
(***************************************************************************)
ComeUp ==
    /\ proc = "starting"
    /\ ~old
    /\ proc' = "up"
    /\ UNCHANGED <<serving, store, handlers, restarts, old, sessions, unkicked, hurt, faults>>

\* The port is still taken: the process exits, and there is no watchdog.
Occupied ==
    /\ proc = "starting"
    /\ old
    /\ proc' = "none"
    /\ hurt' = TRUE
    /\ UNCHANGED <<serving, store, handlers, restarts, old, sessions, unkicked, faults>>

OldEnds ==
    /\ old
    /\ old' = FALSE
    /\ UNCHANGED <<serving, store, handlers, restarts, proc, sessions, unkicked, hurt, faults>>

Die ==
    /\ Fault
    /\ proc # "none"
    /\ proc' = "none"
    /\ sessions' = {}
    /\ unkicked' = {}
    /\ hurt' = TRUE
    /\ UNCHANGED <<serving, store, handlers, restarts, old>>

\* A client gives its password, and _auth_callback() finds it.
Connect(u, k) ==
    /\ OthersRun
    /\ proc = "up"
    /\ site
    /\ <<u, k>> \in users
    /\ sessions' = sessions \cup {<<u, k>>}
    /\ UNCHANGED <<serving, store, handlers, restarts, proc, old, unkicked, hurt, faults>>

Disconnect(s) ==
    /\ sessions' = sessions \ {s}
    /\ UNCHANGED <<serving, store, handlers, restarts, proc, old, unkicked, hurt, faults>>

(***************************************************************************)
(* The node ends; it starts again unless the configuration is bad.  The    *)
(* dictionary is then empty whatever the storage kept.                     *)
(***************************************************************************)
NodeRestart ==
    /\ Fault
    /\ serving' = (file = "good")
    /\ IF durable
       THEN /\ UNCHANGED rows
            /\ cause' = [u \in Ids |->
                  IF rows[u] # NoRow /\ rows[u].on THEN {"reboot"} ELSE {}]
       ELSE /\ rows' = [u \in Ids |-> NoRow]
            /\ cause' = [u \in Ids |-> {}]
    /\ registered' = (file = "good")
    /\ users' = {}
    /\ job' = [u \in Ids |-> NoJob]
    /\ site' = TRUE
    /\ call' = [c \in Callers |-> Idle]
    /\ proc' = IF file = "good" THEN "starting" ELSE "none"
    /\ old' = FALSE
    /\ sessions' = {}
    /\ unkicked' = {}
    /\ hurt' = (file = "bad")
    /\ UNCHANGED <<durable, file, calls>>

Handler(u) == RemoveCall(u) \/ AddCall(u) \/ WriteUser(u)

Process == ComeUp \/ Occupied \/ OldEnds

Next ==
    \/ \E u \in Ids, k \in Keys, want \in Wants : UpdateUser(u, k, want)
    \/ \E u \in Ids : Handler(u) \/ HandlerFails(u)
    \/ \E c \in Callers, config \in Configs : RestartBackend(c, config)
    \/ \E c \in Callers : Restart(c) \/ CancelCall(c)
    \/ Process
    \/ Die
    \/ \E u \in Ids, k \in Keys : Connect(u, k)
    \/ \E s \in sessions : Disconnect(s)
    \/ NodeRestart

\* The event loop runs what is ready, asyncio.Lock serves its waiters in turn, and a
\* process comes up or exits.
Fairness ==
    /\ \A u \in Ids : WF_vars(Handler(u))
    /\ \A c \in Callers : SF_vars(Restart(c))
    /\ WF_vars(Process)

Spec == Init /\ [][Next]_vars /\ Fairness

-----------------------------------------------------------------------------
(***************************************************************************)
(* Properties.                                                             *)
(***************************************************************************)
\* The values of the variables; at most one call is between stop() and the end of
\* start().
TypeOK ==
    /\ durable \in BOOLEAN /\ serving \in BOOLEAN /\ registered \in BOOLEAN
    /\ rows \in [Ids -> Row \cup {NoRow}]
    /\ users \subseteq Ids \X Keys
    /\ job \in [Ids -> Job \cup {NoJob}]
    /\ file \in Configs
    /\ site \in BOOLEAN
    /\ call \in [Callers -> [pc : {"idle", "wait", "cleanup", "configure", "spawn"},
                             config : Configs]]
    /\ \A c, d \in Callers : Within(c) /\ Within(d) => c = d
    /\ proc \in {"none", "starting", "up"} /\ old \in BOOLEAN
    /\ sessions \subseteq Ids \X Keys
    /\ cause \in [Ids -> SUBSET {"window", "stripped", "failed", "reboot"}]
    /\ unkicked \subseteq Ids
    /\ hurt \in BOOLEAN
    /\ calls \in 0..MaxCalls
    /\ faults \in 0..MaxFaults

\* A password hysteria is told is good is the key the user's row has, and the row
\* lists the inbound, unless a handler of the user failed or ran while stop() had
\* taken the inbound from the registry, or MemoryStorage took it from the rows.
\* The variables have their types.
NoStrangers ==
    /\ TypeOK
    /\ \A u \in Ids :
          job[u] = NoJob =>
              \/ PasswordsOf(u) \subseteq PasswordsBy(rows[u])
              \/ cause[u] \cap {"window", "stripped", "failed"} # {}

\* A user whose row lists the inbound is let in, unless its handler failed or ran
\* while the inbound was not registered, or the node restarted: SqliteStorage then
\* has users the dictionary has not.
NobodyMissing ==
    \A u \in Ids :
        job[u] = NoJob =>
            \/ PasswordsBy(rows[u]) \subseteq PasswordsOf(u)
            \/ cause[u] \cap {"window", "failed", "reboot"} # {}

\* A client that is connected has a password that is good, or is about to be sent
\* away: removals reach those who were let in before, whatever dies or restarts,
\* unless the request was cut short.  No other is made: the password is gone.
SessionsAreUsers ==
    \A s \in sessions : s \in users \/ At(s[1], "kick") \/ s[1] \in unkicked

\* A call with a bad configuration is under way.
BadRuns == \E c \in Callers : call[c].pc \in {"cleanup", "configure"} /\ call[c].config = "bad"

\* A RestartBackend call with a good configuration ends with hysteria up, after one
\* with a bad configuration too, unless a bad one follows, a call is cut short, the
\* process dies or meets the one before it, or the node restarts with a
\* bad configuration on the disk.
Recovers ==
    (\E c \in Callers : call[c].pc # "idle" /\ call[c].config = "good")
        ~> (proc = "up" \/ hurt \/ BadRuns)
=============================================================================

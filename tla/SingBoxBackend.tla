--------------------------- MODULE SingBoxBackend ---------------------------
(***************************************************************************)
(* SingBoxBackend keeps the users in the configuration of sing-box.  The   *)
(* user handlers change it in memory; a task of its own writes it out and  *)
(* has the process read it again; start() builds it anew from the storage. *)
(* RestartBackend calls and a watchdog start and stop the process.  A step *)
(* runs from one await to the next.                                        *)
(*                                                                         *)
(* The model begins when main() has started the backend.  A user has one   *)
(* identity and one handler at a time, which reads the row and changes the *)
(* accounts in one step (UserSync has the rest).                           *)
(***************************************************************************)
EXTENDS Naturals

CONSTANTS
    Users,
    Tags,       \* inbound tags
    Files,      \* configurations SingBoxConfig accepts: the tags of each
    BadFiles,   \* well-formed JSON that SingBoxConfig raises on
    Bare,       \* RestartBackend without a configuration
    Requests,   \* what the panel asks for: the tags of a user
    Callers,    \* RestartBackend handlers running at once
    Procs,      \* processes that can exist at once
    NoProc,     \* SingBoxRunner._process is None
    NoChange,   \* no handler works on the user
    Settings,   \* values of SING_BOX_RESTART_ON_FAILURE
    MaxEvents   \* bound on requests, calls, deaths of sing-box and failures

ASSUME FilesAssumption ==
    /\ Files \subseteq SUBSET Tags
    /\ Files \cap BadFiles = {}
    /\ Bare \notin Files \cup BadFiles
ASSUME RequestsAssumption == Requests \subseteq SUBSET Tags
ASSUME NoChangeAssumption == \A tags \in SUBSET Tags : tags # NoChange
ASSUME ProcsAssumption == NoProc \notin Procs
ASSUME CallersAssumption == "watchdog" \notin Callers
ASSUME SettingsAssumption == Settings \subseteq BOOLEAN
ASSUME MaxEventsAssumption == MaxEvents \in Nat

Actors == Callers \cup {"watchdog"}

VARIABLES
    autoRestart,  \* SING_BOX_RESTART_ON_FAILURE
    db,           \* per user: the inbounds stored
    pending,      \* per user: what its handler is about to store
    disk,         \* the configuration file
    conf,         \* the inbounds of _config
    accounts,     \* the users in _config, per inbound
    full,         \* the users in the file the process reads
    claimed,      \* _inbound_tags, and the registry of the storage
    due,          \* _config_update_event
    updater,      \* _user_update_handler goes on
    handle,       \* SingBoxRunner._process
    proc,         \* per process: its life, the users it has, whether a
                  \* SIGHUP waits and whether its output is captured
    terminating,  \* the process stop() waits for
    woken,        \* stop_event has woken the watchdog
    pc,           \* per actor: where it awaits
    arg,          \* per actor: the configuration it was called with, or Bare
    todo,         \* per actor: the inbounds whose users it has still to read
    mixed,        \* history: a start read the user while a handler changed it
    cut,          \* history: a start was cancelled while it read the users
    late,         \* history: a start changed _config and brought up no process
    disarmed,     \* history: a RestartBackend call stopped sing-box and failed
    events        \* history: requests, calls, deaths and failures so far

storage == <<db, pending>>
backend == <<disk, conf, accounts, full, claimed, due, updater>>
runner == <<handle, proc, terminating, woken>>
actors == <<pc, arg, todo>>
history == <<mixed, cut, late, disarmed>>
vars == <<autoRestart, storage, backend, runner, actors, history, events>>

Accounts == [Tags -> SUBSET Users]

NoAccounts == [t \in Tags |-> {}]

Process == [life : {"booting", "up", "stopping", "dead"}, loaded : Accounts,
            hup : BOOLEAN, logged : BOOLEAN]

\* The users the storage has for the inbounds of file f.
Stored(f) == [t \in Tags |-> IF t \in f THEN {u \in Users : t \in db[u]} ELSE {}]

Alive(p) == proc[p].life # "dead"

Running == handle # NoProc /\ Alive(handle)

StartSteps == {"load", "policies", "spawn"}

Loading == \E a \in Actors : pc[a] = "load"

Starting(a) == pc[a] \in StartSteps

\* Mutant: the lock is given up when the process has stopped.
LockedToStop == \E a \in Callers : pc[a] = "stop"

\* _restart_lock.locked()
RestartLocked == \E a \in Callers : pc[a] = "stop" \/ Starting(a)

Init ==
    \E f \in Files, p \in Procs :
        /\ autoRestart \in Settings
        /\ db \in [Users -> Requests]
        /\ pending = [u \in Users |-> NoChange]
        /\ disk = f
        /\ conf = f
        /\ accounts = Stored(f)
        /\ full = Stored(f)
        /\ claimed = f
        /\ due = FALSE
        /\ updater = TRUE
        /\ handle = p
        /\ proc = [q \in Procs |->
              IF q = p
              THEN [life |-> "up", loaded |-> Stored(f), hup |-> FALSE, logged |-> TRUE]
              ELSE [life |-> "dead", loaded |-> NoAccounts, hup |-> FALSE, logged |-> FALSE]]
        /\ terminating = NoProc
        /\ woken = FALSE
        /\ pc = [a \in Actors |-> "idle"]
        /\ arg = [a \in Actors |-> Bare]
        /\ todo = [a \in Actors |-> {}]
        /\ mixed = [u \in Users |-> FALSE]
        /\ cut = FALSE
        /\ late = FALSE
        /\ disarmed = FALSE
        /\ events = 0

Event == events < MaxEvents /\ events' = events + 1

(***************************************************************************)
(* The handlers of the users.                                              *)
(***************************************************************************)
\* A second entry of a user counts as one: pop_user takes all of them out.
AppendUser(users, u, tags) ==
    [t \in Tags |-> IF t \in tags \cap conf THEN users[t] \cup {u} ELSE users[t]]

PopUser(users, u, tags) ==
    [t \in Tags |-> IF t \in tags THEN users[t] \ {u} ELSE users[t]]

\* Mutant: remove_user only takes the user out of the configuration.
ChangedOnAdd(old, new) == new \ old # {}

Changed(old, new) == old # new

\* _update_user(): the row is read, the accounts of inbounds that are
\* registered are removed and added, and the update event is set.
UpdateUser(u, tags) ==
    LET new == tags \cap claimed
        old == db[u] \cap claimed
    IN  /\ Event
        /\ pending[u] = NoChange
        /\ accounts' = AppendUser(PopUser(accounts, u, old \ new), u, new \ old)
        /\ due' = (due \/ Changed(old, new))
        /\ pending' = [pending EXCEPT ![u] = new]
        /\ mixed' = [mixed EXCEPT ![u] = @ \/ Loading]
        /\ UNCHANGED <<autoRestart, db, disk, conf, full, claimed, updater, runner, actors, cut,
                      late, disarmed>>

\* The row is written, or deleted.
StoreUser(u) ==
    /\ pending[u] # NoChange
    /\ db' = [db EXCEPT ![u] = pending[u]]
    /\ pending' = [pending EXCEPT ![u] = NoChange]
    /\ UNCHANGED <<autoRestart, backend, runner, actors, history, events>>

\* The handler is cancelled, or the storage raises.
HandlerFails(u) ==
    /\ Event
    /\ pending[u] # NoChange
    /\ pending' = [pending EXCEPT ![u] = NoChange]
    /\ mixed' = [mixed EXCEPT ![u] = TRUE]
    /\ UNCHANGED <<autoRestart, db, backend, runner, actors, cut, late, disarmed>>

\* Mutant: the file is not written before the process is told to read it.
Unsaved == full

Saved == accounts

\* _user_update_handler() finds the event set.  reload() takes a process
\* that ended for one that got the signal; without a process it raises.
UpdateUsers ==
    /\ updater
    /\ due
    /\ full' = Saved
    /\ due' = (handle = NoProc)
    /\ updater' = (handle # NoProc)
    /\ proc' = IF Running THEN [proc EXCEPT ![handle].hup = TRUE] ELSE proc
    /\ late' = (late /\ ~Running)
    /\ UNCHANGED <<autoRestart, storage, disk, conf, accounts, claimed, handle, terminating,
                   woken, actors, mixed, cut, disarmed, events>>

(***************************************************************************)
(* start(), by a RestartBackend call or the watchdog.                      *)
(***************************************************************************)
\* The coroutine of a ends; an exception ends the watchdog for good.
Return(a) ==
    /\ pc' = [pc EXCEPT ![a] = "idle"]
    /\ arg' = [arg EXCEPT ![a] = Bare]
    /\ todo' = [todo EXCEPT ![a] = {}]

RaiseIn(a) ==
    /\ pc' = [pc EXCEPT ![a] = IF a = "watchdog" THEN "dead" ELSE "idle"]
    /\ arg' = [arg EXCEPT ![a] = Bare]
    /\ todo' = [todo EXCEPT ![a] = {}]

Accepts(f) == f \in Files

\* Mutant: start() goes on with the accounts it had.
OldAccounts == accounts

FreshAccounts == NoAccounts

\* The head of start() on file f, up to its first await.
StartHead(a, f) ==
    /\ disk' = f
    /\ IF Accepts(f)
       THEN /\ conf' = f
            /\ accounts' = FreshAccounts
            /\ claimed' = f
            /\ pc' = [pc EXCEPT ![a] = IF f = {} THEN "policies" ELSE "load"]
            /\ todo' = [todo EXCEPT ![a] = f]
            /\ mixed' = [u \in Users |-> pending[u] # NoChange]
            /\ cut' = FALSE
            /\ late' = (late /\ \E b \in Actors \ {a} : Starting(b))
            /\ UNCHANGED arg
       ELSE /\ RaiseIn(a)
            /\ UNCHANGED <<conf, accounts, mixed, cut, late>>

\* add_storage_users(): the users of one inbound.
LoadInbound(a) ==
    /\ pc[a] = "load"
    /\ \E t \in todo[a] :
          /\ accounts' = [accounts EXCEPT ![t] = @ \cup (IF t \in conf THEN Stored({t})[t] ELSE {})]
          /\ todo' = [todo EXCEPT ![a] = @ \ {t}]
          /\ pc' = [pc EXCEPT ![a] = IF todo[a] = {t} THEN "policies" ELSE "load"]
    /\ UNCHANGED <<autoRestart, storage, disk, conf, full, claimed, due, updater, runner, arg,
                   history, events>>

\* The policies are there: the file is written, and runner.start() refuses
\* a second process.
Launch(a) ==
    /\ pc[a] = "policies"
    /\ full' = accounts
    /\ IF Running
       THEN RaiseIn(a) /\ late' = TRUE
       ELSE pc' = [pc EXCEPT ![a] = "spawn"] /\ UNCHANGED <<arg, todo, late>>
    /\ UNCHANGED <<autoRestart, storage, disk, conf, accounts, claimed, due, updater, runner,
                   mixed, cut, disarmed, events>>

Spawn(a) ==
    /\ pc[a] = "spawn"
    /\ \E p \in Procs :
          /\ ~Alive(p)
          /\ ~proc[p].logged
          /\ handle' = p
          /\ proc' = [proc EXCEPT ![p] =
                [life |-> "booting", loaded |-> NoAccounts, hup |-> FALSE, logged |-> TRUE]]
    /\ Return(a)
    /\ disarmed' = FALSE
    /\ UNCHANGED <<autoRestart, storage, backend, terminating, woken, mixed, cut, late, events>>

(***************************************************************************)
(* RestartBackend.                                                         *)
(***************************************************************************)
RestartBackend(a, f) ==
    /\ Event
    /\ pc[a] = "idle"
    /\ pc' = [pc EXCEPT ![a] = "lock"]
    /\ arg' = [arg EXCEPT ![a] = f]
    /\ UNCHANGED <<autoRestart, storage, backend, runner, todo, history>>

\* What follows runner.stop(): the inbounds are given up and start() begins.
\* Without a configuration, runner.start() is handed _config for a path.
AfterStop(a) ==
    /\ IF arg[a] = Bare
       THEN RaiseIn(a) /\ UNCHANGED <<disk, conf, accounts, claimed, mixed, cut, late>>
       ELSE /\ StartHead(a, arg[a])
            /\ ~Accepts(arg[a]) => claimed' = {}
    /\ disarmed' = (disarmed \/ ~Accepts(arg[a]))
    /\ UNCHANGED <<autoRestart, storage, full, due, updater, events>>

Acquire(a) ==
    /\ pc[a] = "lock"
    /\ ~RestartLocked
    /\ IF Running
       THEN /\ proc' = [proc EXCEPT ![handle].life = "stopping"]
            /\ handle' = NoProc
            /\ terminating' = handle
            /\ pc' = [pc EXCEPT ![a] = "stop"]
            /\ UNCHANGED <<autoRestart, storage, backend, woken, arg, todo, history, events>>
       ELSE AfterStop(a) /\ UNCHANGED runner

\* The capture of the output has ended.  The watchdog, which the stop event
\* woke first, has looked at the lock.
Stopped(a) ==
    /\ pc[a] = "stop"
    /\ ~Alive(terminating)
    /\ ~proc[terminating].logged
    /\ ~woken
    /\ terminating' = NoProc
    /\ AfterStop(a)
    /\ UNCHANGED <<handle, proc, woken>>

(***************************************************************************)
(* The watchdog, and the process.                                          *)
(***************************************************************************)
\* Mutant: only the end of a process that still runs is told.
ToldIfRunning(p) == pc["watchdog"] = "idle" /\ Running /\ p = handle

Told(p) == pc["watchdog"] = "idle"

OutputEnds(p) ==
    /\ ~Alive(p)
    /\ proc[p].logged
    /\ proc' = [proc EXCEPT ![p].logged = FALSE]
    /\ woken' = (woken \/ Told(p))
    /\ UNCHANGED <<autoRestart, storage, backend, handle, terminating, actors, history, events>>

Unexpected == ~RestartLocked

StopNoticed ==
    /\ woken
    /\ woken' = FALSE
    /\ pc' = [pc EXCEPT !["watchdog"] =
          IF Unexpected /\ autoRestart THEN "sleep" ELSE "idle"]
    /\ UNCHANGED <<autoRestart, storage, backend, handle, proc, terminating, arg, todo, history,
                   events>>

\* The sleep is over: start(), whatever has happened meanwhile.
Wake ==
    /\ pc["watchdog"] = "sleep"
    /\ StartHead("watchdog", disk)
    /\ ~Accepts(disk) => UNCHANGED claimed
    /\ UNCHANGED <<autoRestart, storage, full, due, updater, runner, disarmed, events>>

Occupied(p) == \E q \in Procs \ {p} : proc[q].life \in {"up", "stopping"}

\* sing-box reads its file and takes the ports.
ComeUp(p) ==
    /\ proc[p].life = "booting"
    /\ ~Occupied(p)
    /\ proc' = [proc EXCEPT ![p].life = "up", ![p].loaded = full]
    /\ UNCHANGED <<autoRestart, storage, backend, handle, terminating, woken, actors, history,
                   events>>

Reread(p) ==
    /\ proc[p].life = "up"
    /\ proc[p].hup
    /\ proc' = [proc EXCEPT ![p].loaded = full, ![p].hup = FALSE]
    /\ UNCHANGED <<autoRestart, storage, backend, handle, terminating, woken, actors, history,
                   events>>

\* A terminated process ends, and one that finds its ports taken.
Exit(p) ==
    /\ \/ proc[p].life = "stopping"
       \/ proc[p].life = "booting" /\ Occupied(p)
    /\ proc' = [proc EXCEPT ![p].life = "dead"]
    /\ UNCHANGED <<autoRestart, storage, backend, handle, terminating, woken, actors, history,
                   events>>

Die(p) ==
    /\ Event
    /\ proc[p].life \in {"booting", "up"}
    /\ proc' = [proc EXCEPT ![p].life = "dead"]
    /\ UNCHANGED <<autoRestart, storage, backend, handle, terminating, woken, actors, history>>

\* grpclib cancels a RestartBackend handler.  What it awaits is cancelled
\* too: the capture of the output, the creation of a process.
Cancel(a) ==
    /\ Event
    /\ pc[a] # "idle"
    /\ Return(a)
    /\ proc' = IF pc[a] = "stop" THEN [proc EXCEPT ![terminating].logged = FALSE] ELSE proc
    /\ terminating' = IF pc[a] = "stop" THEN NoProc ELSE terminating
    /\ cut' = (cut \/ pc[a] = "load")
    /\ late' = (late \/ Starting(a))
    /\ disarmed' = (disarmed \/ pc[a] = "stop" \/ Starting(a))
    /\ UNCHANGED <<autoRestart, storage, backend, handle, woken, mixed>>

(***************************************************************************)
(* The specification.                                                      *)
(***************************************************************************)
Handler(u) == StoreUser(u)

Start(a) == LoadInbound(a) \/ Launch(a) \/ Spawn(a)

Restarting(a) == Acquire(a) \/ Stopped(a) \/ Start(a)

Watchdog == StopNoticed \/ Wake \/ Start("watchdog")

SingBox(p) == OutputEnds(p) \/ ComeUp(p) \/ Reread(p) \/ Exit(p)

System ==
    \/ \E u \in Users : Handler(u)
    \/ UpdateUsers
    \/ \E a \in Callers : Restarting(a)
    \/ Watchdog
    \/ \E p \in Procs : SingBox(p)

Next ==
    \/ System
    \/ \E u \in Users, tags \in Requests : UpdateUser(u, tags)
    \/ \E u \in Users : HandlerFails(u)
    \/ \E a \in Callers, f \in Files \cup BadFiles \cup {Bare} : RestartBackend(a, f)
    \/ \E p \in Procs : Die(p)
    \/ \E a \in Callers : Cancel(a)

Spec == Init /\ [][Next]_vars

\* The event loop runs every task that is ready; every process goes on.
FairSpec ==
    /\ Spec
    /\ \A u \in Users : WF_vars(Handler(u))
    /\ WF_vars(UpdateUsers)
    /\ \A a \in Callers : WF_vars(Restarting(a))
    /\ WF_vars(Watchdog)
    /\ \A p \in Procs : WF_vars(SingBox(p))

(***************************************************************************)
(* Properties.                                                             *)
(***************************************************************************)
TypeOK ==
    /\ autoRestart \in BOOLEAN
    /\ db \in [Users -> SUBSET Tags]
    /\ pending = [u \in Users |-> pending[u]]
    /\ \A u \in Users : pending[u] = NoChange \/ pending[u] \subseteq Tags
    /\ disk \in Files \cup BadFiles
    /\ conf \in Files
    /\ accounts \in Accounts
    /\ full \in Accounts
    /\ claimed \in SUBSET Tags
    /\ due \in BOOLEAN
    /\ updater \in BOOLEAN
    /\ handle \in Procs \cup {NoProc}
    /\ proc \in [Procs -> Process]
    /\ terminating \in Procs \cup {NoProc}
    /\ woken \in BOOLEAN
    /\ pc \in [Actors -> {"idle", "lock", "stop", "sleep", "dead"} \cup StartSteps]
    /\ arg \in [Actors -> Files \cup BadFiles \cup {Bare}]
    /\ todo \in [Actors -> SUBSET Tags]
    /\ mixed \in [Users -> BOOLEAN]
    /\ cut \in BOOLEAN
    /\ late \in BOOLEAN
    /\ disarmed \in BOOLEAN
    /\ events \in 0..MaxEvents

\* Unless a start reads the users, _config has exactly those the storage has
\* for its inbounds, however starts and handlers follow each other or overlap
\* (singbox_backend.py:83-86,132-140); the variables have their types.  Excused
\* are the users whose handler failed or met a start (mixed), and, until the
\* next start, all of them once a start was cancelled while it read (cut).
ConfigAgrees ==
    /\ TypeOK
    /\ (~cut /\ ~Loading /\ claimed = conf) =>
          \A u \in Users : (pending[u] = NoChange /\ ~mixed[u]) =>
              \A t \in conf : u \in accounts[t] <=> t \in db[u]

AtRest == \A a \in Actors : ~Starting(a)

\* The users a process has once it has read its file.
Due(p) == IF proc[p].life = "booting" \/ proc[p].hup THEN full ELSE proc[p].loaded

\* No change is forgotten: when the process would not have the users of
\* _config once it has done what it was told, the update event is set
\* (singbox_backend.py:61-66).  Excused is a process for which _config was
\* changed behind its back (late): by a start that found it running and raised
\* (116, _runner.py:36), as two starts at once do, or by one that was
\* cancelled, until the next update or start.
ChangesAreDue == (AtRest /\ ~late /\ Running) => due \/ Due(handle) = accounts

\* Every change reaches the process (singbox_backend.py:61-66), unless it runs
\* no more, the task that reloads it has ended, or a start changed _config and
\* neither brought up a process nor told the one that runs (late): those users
\* are missing until the next change or start.
ChangesArrive ==
    []<>(\/ ~Running
         \/ proc[handle].loaded = accounts
         \/ ~updater
         \/ late)

\* RestartBackend calls alone never leave a process behind: the processes
\* alive are the one the runner holds and those it terminated
\* (_runner.py:35-36,53-55).
PlannedOneProcess ==
    ~autoRestart =>
        \A p \in Procs : proc[p].life \in {"booting", "up"} => p = handle

\* The watchdog starts sing-box again after a death
\* (singbox_backend.py:88-97), unless it has ended or a RestartBackend call
\* failed and left sing-box stopped: a process always comes to serve.
Recovers ==
    autoRestart => []<>(\/ \E p \in Procs : proc[p].life = "up"
                        \/ disarmed
                        \/ pc["watchdog"] = "dead")

=============================================================================

----------------------------- MODULE XrayBackend -----------------------------
(***************************************************************************)
(* Who starts and stops xray: RestartBackend calls, and the two watchdog   *)
(* tasks of XrayBackend, one woken by the runner's stop event, one         *)
(* polling.  They share the runner's process handle and the fields start() *)
(* writes on its way, each step running from one await to the next.        *)
(*                                                                         *)
(* The model begins when main() has started the backend.  The accounts and *)
(* the stored users are the concern of UserSync.                           *)
(***************************************************************************)
EXTENDS FiniteSets, Naturals

CONSTANTS
    Callers,    \* RestartBackend handlers running at once
    Procs,      \* processes that can exist at once
    Files,      \* configurations XrayConfig accepts
    BadFiles,   \* well-formed JSON that XrayConfig raises on
    Bare,       \* RestartBackend without a configuration
    NoFile,     \* no inbound tag is claimed
    NoProc,     \* XrayCore._process is None
    NoPlan,     \* the actor is not about to create a process
    Settings,   \* values of XRAY_RESTART_ON_FAILURE
    MaxEvents   \* bound on RestartBackend calls, deaths of xray and cancellations

Watchdogs == {"event", "poll"}

Actors == Callers \cup Watchdogs

\* Who picked the port of xray's API: start() takes a free one each time.
Ports == Actors \cup {"main"}

ASSUME ProcsAssumption == NoProc \notin Procs
ASSUME FilesAssumption ==
    /\ Files # {}
    /\ Files \cap BadFiles = {}
    /\ NoFile \notin Files
    /\ Bare \notin Files \cup BadFiles
ASSUME CallersAssumption == Callers \cap (Watchdogs \cup {"main"}) = {}
ASSUME SettingsAssumption == Settings \subseteq BOOLEAN
ASSUME MaxEventsAssumption == MaxEvents \in Nat

VARIABLES
    autoRestart,  \* XRAY_RESTART_ON_FAILURE
    disk,         \* the configuration file
    config,       \* XrayBackend._config: its file and the port of the API
    claimed,      \* _inbound_tags: the file whose tags it holds
    api,          \* _api: the port it calls
    armed,        \* _started_once
    handle,       \* XrayCore._process
    given,        \* the configuration written to the process of handle
    proc,         \* per process: its life and whether its output is captured
    terminating,  \* the process XrayCore.stop() waits for
    stopEvent,    \* XrayCore.stop_event
    leaked,       \* a log stream nobody reads is left in _snd_streams
    pc,           \* per actor: where it awaits
    arg,          \* per actor: the configuration it was called with, or Bare
    plan,         \* per actor: the XrayConfig its runner.start has been given
    torn,         \* history: a start was cut short, or two overlapped
    events        \* history: calls, deaths of xray and cancellations so far

fields == <<disk, config, claimed, api, armed>>
runner == <<handle, given, proc, terminating, stopEvent, leaked>>
actors == <<pc, arg, plan>>
history == <<torn, events>>
vars == <<autoRestart, fields, runner, actors, history>>

Config == [file : Files, port : Ports]

Process == [life : {"booting", "up", "stopping", "dead"}, captured : BOOLEAN]

StartSteps == {"read", "spawn", "write", "wait", "load"}

Alive(p) == proc[p].life # "dead"

Running == handle # NoProc /\ Alive(handle)

InStart(a) == pc[a] \in StartSteps

Holding(a) == pc[a] = "stop" \/ InStart(a)

\* Mutant: the restart lock is released before the new start.
LockedToStop == \E a \in Callers : pc[a] = "stop"

\* _restart_lock.locked() and _auto_restart_lock.locked(): each is held by the
\* actor between its acquisition and the `finally` of its coroutine.
RestartLocked == \E a \in Callers : Holding(a)

AutoRestartLocked == \E a \in Watchdogs : pc[a] = "sleep" \/ InStart(a)

Init ==
    \E f \in Files, p \in Procs, slow \in BOOLEAN :
        LET c == [file |-> f, port |-> "main"]
        IN  /\ autoRestart \in Settings
            /\ disk = f
            /\ config = c
            /\ claimed = f
            /\ api = "main"
            /\ armed = TRUE
            /\ handle = p
            /\ given = c
            /\ proc = [x \in Procs |->
                  [life |-> IF x # p THEN "dead" ELSE IF slow THEN "booting" ELSE "up",
                   captured |-> x = p]]
            /\ terminating = NoProc
            /\ stopEvent = FALSE
            /\ leaked = slow
            /\ pc = [a \in Actors |-> "idle"]
            /\ arg = [a \in Actors |-> Bare]
            /\ plan = [a \in Actors |-> NoPlan]
            /\ torn = FALSE
            /\ events = 0

(***************************************************************************)
(* Pieces of the actions below.                                            *)
(***************************************************************************)
Goto(a, l) == pc' = [pc EXCEPT ![a] = l] /\ UNCHANGED arg

\* The coroutine of a ends.
Return(a) ==
    /\ pc' = [pc EXCEPT ![a] = "idle"]
    /\ arg' = [arg EXCEPT ![a] = Bare]

Overlapping(a) == \E b \in Actors \ {a} : InStart(b)

\* The head of start() on file f, up to its first await.  It raises on a bad
\* file, which is on the disk by then.
StartHead(a, f) ==
    /\ disk' = f
    /\ IF f \in Files
       THEN /\ config' = [file |-> f, port |-> a]
            /\ torn' = Overlapping(a)
            /\ Goto(a, "read")
       ELSE /\ torn' = TRUE
            /\ Return(a)
            /\ UNCHANGED config

\* What follows runner.stop() without an await: with a configuration, the
\* tags are given up and start() begins; without, runner.start(self._config).
AfterStop(a) ==
    IF arg[a] = Bare
    THEN /\ plan' = [plan EXCEPT ![a] = config]
         /\ torn' = (torn \/ Overlapping(a))
         /\ Goto(a, "spawn")
         /\ UNCHANGED <<disk, config, claimed>>
    ELSE /\ claimed' = NoFile
         /\ StartHead(a, arg[a])
         /\ UNCHANGED plan

(***************************************************************************)
(* RestartBackend: XrayBackend.restart with stop() and start().            *)
(***************************************************************************)
RestartBackend(a, f) ==
    /\ events < MaxEvents
    /\ pc[a] = "idle"
    /\ pc' = [pc EXCEPT ![a] = "lock"]
    /\ arg' = [arg EXCEPT ![a] = f]
    /\ events' = events + 1
    /\ UNCHANGED <<autoRestart, fields, runner, plan, torn>>

\* The lock is free.  stop() disarms the watchdogs; runner.stop() returns at
\* once when nothing runs, and terminates the process otherwise.
Acquire(a) ==
    /\ pc[a] = "lock"
    /\ ~RestartLocked
    /\ armed' = (armed /\ arg[a] = Bare)
    /\ IF Running
       THEN /\ proc' = [proc EXCEPT ![handle].life = "stopping"]
            /\ terminating' = handle
            /\ Goto(a, "stop")
            /\ UNCHANGED <<disk, config, claimed, plan, torn>>
       ELSE AfterStop(a) /\ UNCHANGED <<proc, terminating>>
    /\ UNCHANGED <<autoRestart, api, handle, given, stopEvent, leaked, events>>

\* The process has ended.
Stopped(a) ==
    /\ pc[a] = "stop"
    /\ ~Alive(terminating)
    /\ terminating' = NoProc
    /\ handle' = NoProc
    /\ AfterStop(a)
    /\ UNCHANGED <<autoRestart, api, armed, given, proc, stopEvent, leaked, events>>

\* Three seconds have passed: the process the runner holds by now is killed.
Killed(a) ==
    /\ pc[a] = "stop"
    /\ Alive(terminating)
    /\ terminating' = NoProc
    /\ handle' = NoProc
    /\ IF handle # NoProc
       THEN /\ proc' = [proc EXCEPT ![handle].life = "dead"]
            /\ AfterStop(a)
       ELSE /\ Return(a)
            /\ torn' = TRUE
            /\ UNCHANGED <<disk, config, claimed, plan, proc>>
    /\ UNCHANGED <<autoRestart, api, armed, given, stopEvent, leaked, events>>

(***************************************************************************)
(* The rest of start(), whoever calls it.                                  *)
(***************************************************************************)
\* Mutant: the client of the last API port is kept.
ReadOldApi(a) ==
    /\ pc[a] = "read"
    /\ claimed' = config.file
    /\ IF Running
       THEN Return(a) /\ torn' = TRUE /\ UNCHANGED plan
       ELSE /\ plan' = [plan EXCEPT ![a] = config]
            /\ Goto(a, "spawn")
            /\ UNCHANGED torn
    /\ UNCHANGED <<autoRestart, disk, config, api, armed, runner, events>>

\* The users and policies are read; runner.start raises when xray runs.
Read(a) ==
    /\ pc[a] = "read"
    /\ claimed' = config.file
    /\ api' = a
    /\ IF Running
       THEN Return(a) /\ torn' = TRUE /\ UNCHANGED plan
       ELSE /\ plan' = [plan EXCEPT ![a] = config]
            /\ Goto(a, "spawn")
            /\ UNCHANGED torn
    /\ UNCHANGED <<autoRestart, disk, config, armed, runner, events>>

\* A process that is gone and that nobody waits for any more.
Unused(p) ==
    ~Alive(p) /\ p \notin {handle, terminating} /\ (leaked \/ ~proc[p].captured)

\* create_subprocess_shell returns, and the configuration is written.
Spawn(a) ==
    /\ pc[a] = "spawn"
    /\ \E p \in Procs : Unused(p)
    /\ LET p == CHOOSE q \in Procs : Unused(q)
       IN  /\ proc' = [proc EXCEPT ![p] = [life |-> "booting", captured |-> FALSE]]
           /\ handle' = p
    /\ given' = plan[a]
    /\ plan' = [plan EXCEPT ![a] = NoPlan]
    /\ Goto(a, "write")
    /\ UNCHANGED <<autoRestart, fields, terminating, stopEvent, leaked, history>>

\* The configuration is drained and the log capture of the current process
\* begins.
Written(a) ==
    /\ pc[a] = "write"
    /\ handle # NoProc
    /\ proc' = [proc EXCEPT ![handle].captured = TRUE]
    /\ Goto(a, "wait")
    /\ UNCHANGED <<autoRestart, fields, handle, given, terminating, stopEvent, leaked, plan,
                   history>>

\* The pipe is broken, or the process object is None.
WriteFails(a) ==
    /\ pc[a] = "write"
    /\ ~Running
    /\ torn' = TRUE
    /\ Return(a)
    /\ UNCHANGED <<autoRestart, fields, runner, plan, events>>

\* runner.start returns.  XrayBackend.start arms the watchdogs and adds the
\* stored users; a bare restart is over.
RunnerStarted(a) ==
    /\ armed' = (armed \/ arg[a] # Bare \/ a \in Watchdogs)
    /\ IF a \in Callers /\ arg[a] = Bare THEN Return(a) ELSE Goto(a, "load")
    /\ UNCHANGED <<autoRestart, disk, config, claimed, api, handle, given, proc,
                   terminating, stopEvent, plan, history>>

\* A line says that xray has started, or the end of the output that it died.
Heard(a) ==
    /\ pc[a] = "wait"
    /\ ~leaked
    /\ handle # NoProc => proc[handle].life # "booting"
    /\ UNCHANGED leaked
    /\ RunnerStarted(a)

\* Four seconds have passed: the log stream stays open, unread, and every
\* capture blocks on it from now on.
TimedOut(a) ==
    /\ pc[a] = "wait"
    /\ leaked' = TRUE
    /\ RunnerStarted(a)

\* add_storage_users returns or raises.
Loaded(a) ==
    /\ pc[a] = "load"
    /\ Return(a)
    /\ UNCHANGED <<autoRestart, fields, runner, plan, history>>

(***************************************************************************)
(* The watchdogs.                                                          *)
(***************************************************************************)
\* _recover_stopped_runner up to its sleep.
Recover(a) ==
    IF armed /\ ~Running /\ ~RestartLocked /\ ~AutoRestartLocked /\ autoRestart
    THEN Goto(a, "sleep")
    ELSE UNCHANGED <<pc, arg>>

\* _restart_on_failure.
StopNoticed ==
    /\ pc["event"] = "idle"
    /\ stopEvent
    /\ stopEvent' = FALSE
    /\ Recover("event")
    /\ UNCHANGED <<autoRestart, fields, handle, given, proc, terminating, leaked, plan,
                   history>>

\* Mutant: the poll trusts the stop event to tell of deaths.
PollAfterEvent ==
    /\ pc["poll"] = "idle"
    /\ armed
    /\ ~Running
    /\ stopEvent
    /\ Recover("poll")
    /\ UNCHANGED <<autoRestart, fields, runner, plan, history>>

\* _poll_runner_health.
Poll ==
    /\ pc["poll"] = "idle"
    /\ armed
    /\ ~Running
    /\ Recover("poll")
    /\ UNCHANGED <<autoRestart, fields, runner, plan, history>>

\* The rest of _recover_stopped_runner: start() from the disk, or nothing.
Wake(a) ==
    /\ pc[a] = "sleep"
    /\ IF Running \/ RestartLocked
       THEN Return(a) /\ UNCHANGED <<disk, config, torn>>
       ELSE StartHead(a, disk)
    /\ UNCHANGED <<autoRestart, claimed, api, armed, runner, plan, events>>

(***************************************************************************)
(* xray and the capture of its output.                                     *)
(***************************************************************************)
\* xray binds its ports, which no other process may have.
ComeUp(p) ==
    /\ proc[p].life = "booting"
    /\ \A q \in Procs \ {p} : proc[q].life \notin {"up", "stopping"}
    /\ proc' = [proc EXCEPT ![p].life = "up"]
    /\ UNCHANGED <<autoRestart, fields, handle, given, terminating, stopEvent, leaked, actors,
                   history>>

PortsTaken(p) ==
    /\ proc[p].life = "booting"
    /\ \E q \in Procs \ {p} : proc[q].life \in {"up", "stopping"}
    /\ proc' = [proc EXCEPT ![p].life = "dead"]
    /\ UNCHANGED <<autoRestart, fields, handle, given, terminating, stopEvent, leaked, actors,
                   history>>

\* A terminated process ends.
Exit(p) ==
    /\ proc[p].life = "stopping"
    /\ proc' = [proc EXCEPT ![p].life = "dead"]
    /\ UNCHANGED <<autoRestart, fields, handle, given, terminating, stopEvent, leaked, actors,
                   history>>

Die(p) ==
    /\ events < MaxEvents
    /\ proc[p].life \in {"booting", "up"}
    /\ proc' = [proc EXCEPT ![p].life = "dead"]
    /\ events' = events + 1
    /\ UNCHANGED <<autoRestart, fields, handle, given, terminating, stopEvent, leaked, actors,
                   torn>>

\* The capture has read both pipes to their end, unless a send blocks it.
OutputEnds(p) ==
    /\ proc[p].life = "dead"
    /\ proc[p].captured
    /\ ~leaked
    /\ proc' = [proc EXCEPT ![p].captured = FALSE]
    /\ stopEvent' = TRUE
    /\ UNCHANGED <<autoRestart, fields, handle, given, terminating, leaked, actors, history>>

\* grpclib cancels a RestartBackend handler.  A process being created is
\* closed by asyncio; a start or stop under way is left as it is, the wait for
\* the first line with its stream open.
Cancel(a) ==
    /\ events < MaxEvents
    /\ pc[a] # "idle"
    /\ Return(a)
    /\ plan' = [plan EXCEPT ![a] = NoPlan]
    /\ torn' = (torn \/ pc[a] \notin {"lock", "load"})
    /\ leaked' = (leaked \/ pc[a] = "wait")
    /\ terminating' = IF pc[a] = "stop" THEN NoProc ELSE terminating
    /\ events' = events + 1
    /\ UNCHANGED <<autoRestart, fields, handle, given, proc, stopEvent>>

(***************************************************************************)
(* The specification.                                                      *)
(***************************************************************************)
Start(a) ==
    \/ Read(a) \/ Spawn(a) \/ Written(a) \/ WriteFails(a)
    \/ Heard(a) \/ TimedOut(a) \/ Loaded(a)

Restarting(a) == Acquire(a) \/ Stopped(a) \/ Killed(a)

Xray(p) == ComeUp(p) \/ PortsTaken(p) \/ Exit(p) \/ OutputEnds(p)

\* What the event loop and the kernel do of themselves.
System ==
    \/ \E a \in Callers : Restarting(a)
    \/ \E a \in Actors : Start(a)
    \/ StopNoticed
    \/ Poll
    \/ \E a \in Watchdogs : Wake(a)
    \/ \E p \in Procs : Xray(p)

Next ==
    \/ \E a \in Callers, f \in Files \cup BadFiles \cup {Bare} : RestartBackend(a, f)
    \/ System
    \/ \E p \in Procs : Die(p)
    \/ \E a \in Callers : Cancel(a)

Spec == Init /\ [][Next]_vars

FairSpec == Spec /\ WF_vars(System)

(***************************************************************************)
(* Properties.                                                             *)
(***************************************************************************)
TypeOK ==
    /\ autoRestart \in BOOLEAN
    /\ disk \in Files \cup BadFiles
    /\ config \in Config
    /\ claimed \in Files \cup {NoFile}
    /\ api \in Ports
    /\ armed \in BOOLEAN
    /\ handle \in Procs \cup {NoProc}
    /\ given \in Config \cup {NoPlan}
    /\ proc \in [Procs -> Process]
    /\ terminating \in Procs \cup {NoProc}
    /\ stopEvent \in BOOLEAN
    /\ leaked \in BOOLEAN
    /\ pc \in [Actors -> {"idle", "lock", "stop", "sleep"} \cup StartSteps]
    /\ arg \in [Actors -> Files \cup BadFiles \cup {Bare}]
    /\ plan \in [Actors -> Config \cup {NoPlan}]
    /\ torn \in BOOLEAN
    /\ events \in 0..MaxEvents

\* "Xray is started already" (xray/_runner.py:37-38): no process is started
\* while another is alive, so every process alive is the one the runner holds.
OneProcess == \A p \in Procs : Alive(p) => p = handle

\* RestartBackend calls alone, whatever is cancelled or raises, never leave a
\* process behind.
PlannedOneProcess == ~autoRestart => OneProcess

AtRest == \A a \in Actors : pc[a] \in {"idle", "lock", "sleep"}

\* When xray runs and the last start was neither cut short nor overlapped,
\* the node calls the API port of that very process and claims its tags
\* (xray_backend.py:121-140).
Coherent ==
    (AtRest /\ Running /\ ~torn) =>
        /\ given = config
        /\ api = config.port
        /\ claimed = config.file

Orphan == \E p \in Procs : Alive(p) /\ p # handle

\* The watchdogs bring xray back, whichever of its deaths they were told of
\* ("watchdog stays alive", xray_backend.py:80), unless RestartBackend has
\* disarmed them, spoiled the configuration or left a process behind.
Recovers ==
    autoRestart => []<>(\/ Running /\ proc[handle].life = "up"
                        \/ ~armed
                        \/ disk \in BadFiles
                        \/ Orphan)

(***************************************************************************)
(* The invariant behind PlannedOneProcess: one RestartBackend handler at a *)
(* time is between acquiring the lock and releasing it, and while it waits *)
(* for a new process none is alive.                                        *)
(***************************************************************************)
OneHolder == \A a, b \in Callers : Holding(a) /\ Holding(b) => a = b

Planned ==
    ~autoRestart =>
        /\ \A a \in Watchdogs : pc[a] = "idle"
        /\ OneProcess
        /\ \A a \in Callers : pc[a] = "stop" => terminating = handle /\ handle # NoProc
        /\ \A a \in Callers : pc[a] = "spawn" => \A p \in Procs : ~Alive(p)

=============================================================================

------------------------ MODULE SingBoxBackendProofs ------------------------
(***************************************************************************)
(* Of SingBoxBackend, for any users, inbounds, configurations, calls and   *)
(* processes: who is in the configuration, that every change of it is told *)
(* to the process, and that planned restarts leave no process behind.      *)
(***************************************************************************)
EXTENDS SingBoxBackend, TLAPS

-----------------------------------------------------------------------------
(***************************************************************************)
(* The inductive invariant.                                                *)
(***************************************************************************)
Holding(a) == pc[a] = "stop" \/ Starting(a)

\* One RestartBackend call at a time has the lock.
OneHolder == \A a, b \in Callers : Holding(a) /\ Holding(b) => a = b

Serves(p) == proc[p].life \in {"booting", "up"}

\* Without the watchdog, a process is started only when none serves.
Planned ==
    ~autoRestart =>
        /\ pc["watchdog"] = "idle"
        /\ \A p \in Procs : Serves(p) => p = handle
        /\ \A a \in Callers : pc[a] = "spawn" => \A p \in Procs : ~Serves(p)

Preparing(a) == pc[a] \in {"load", "policies"}

\* When no start is on the way to write it, the file has what _config has.
FileReady == (~late /\ \A a \in Actors : ~Preparing(a)) => due \/ full = accounts

\* What _config should have of u: what is stored, or is about to be.
Meant(u) == IF pending[u] = NoChange THEN db[u] ELSE pending[u]

\* Of the inbounds a start has still to read, _config may lack users.
Unread(t) == \E a \in Actors : pc[a] = "load" /\ t \in todo[a]

Agrees(u) ==
    \A t \in conf : /\ u \in accounts[t] => t \in Meant(u)
                    /\ t \in Meant(u) => Unread(t) \/ u \in accounts[t]

Agreement == ~cut /\ claimed = conf => \A u \in Users : ~mixed[u] => Agrees(u)

\* A start reads the rows of users no handler works on, the mixed ones apart.
Unmixed == Loading => \A u \in Users : mixed[u] \/ pending[u] = NoChange

\* The stop event wakes a watchdog that waits for it.
WokenIdle == woken => pc["watchdog"] = "idle"

IInv ==
    /\ TypeOK
    /\ WokenIdle
    /\ OneHolder
    /\ Planned
    /\ FileReady
    /\ ChangesAreDue
    /\ Unmixed
    /\ Agreement

-----------------------------------------------------------------------------
(***************************************************************************)
(* Types.                                                                  *)
(***************************************************************************)
Steps == {"idle", "lock", "stop", "sleep", "dead"} \cup StartSteps

Args == Files \cup BadFiles \cup {Bare}

LEMMA AccountsType ==
    /\ NoAccounts \in Accounts
    /\ TypeOK => \A f : Stored(f) \in Accounts
  BY DEF NoAccounts, Stored, Accounts, TypeOK

LEMMA TypesInit == Init => TypeOK
<1> SUFFICES ASSUME NEW f \in Files, NEW p \in Procs, autoRestart \in Settings,
                    db \in [Users -> Requests],
                    pending = [u \in Users |-> NoChange],
                    disk = f /\ conf = f /\ accounts = Stored(f) /\ full = Stored(f)
                       /\ claimed = f /\ due = FALSE /\ updater = TRUE /\ handle = p,
                    proc = [q \in Procs |->
                       IF q = p
                       THEN [life |-> "up", loaded |-> Stored(f), hup |-> FALSE, logged |-> TRUE]
                       ELSE [life |-> "dead", loaded |-> NoAccounts, hup |-> FALSE,
                             logged |-> FALSE]],
                    terminating = NoProc /\ woken = FALSE,
                    pc = [a \in Actors |-> "idle"],
                    arg = [a \in Actors |-> Bare],
                    todo = [a \in Actors |-> {}],
                    mixed = [u \in Users |-> FALSE],
                    cut = FALSE /\ late = FALSE /\ disarmed = FALSE /\ events = 0
             PROVE  TypeOK
  BY DEF Init
<1>1. db \in [Users -> SUBSET Tags]
  BY RequestsAssumption
<1>2. Stored(f) \in Accounts /\ NoAccounts \in Accounts
  BY DEF Stored, NoAccounts, Accounts
<1>3. proc \in [Procs -> Process]
  BY <1>2 DEF Process
<1>4. f \subseteq Tags /\ events \in 0..MaxEvents /\ autoRestart \in BOOLEAN
  BY FilesAssumption, SettingsAssumption, MaxEventsAssumption
<1>5. /\ pc \in [Actors -> Steps] /\ arg \in [Actors -> Args]
      /\ todo \in [Actors -> SUBSET Tags]
  BY DEF Steps, Args
<1>. QED
  BY <1>1, <1>2, <1>3, <1>4, <1>5 DEF TypeOK, Steps, Args

\* The coroutine of an actor ends.
LEMMA ReturnType ==
    ASSUME TypeOK, NEW a \in Actors, Return(a) \/ RaiseIn(a)
    PROVE  /\ pc' \in [Actors -> Steps] /\ arg' \in [Actors -> Args]
           /\ todo' \in [Actors -> SUBSET Tags]
  BY DEF TypeOK, Return, RaiseIn, Steps, Args

\* The head of start().
LEMMA HeadType ==
    ASSUME TypeOK, NEW a \in Actors, NEW f \in Files \cup BadFiles, StartHead(a, f)
    PROVE  /\ disk' \in Files \cup BadFiles /\ conf' \in Files /\ accounts' \in Accounts
           /\ Accepts(f) => claimed' \in SUBSET Tags
           /\ pc' \in [Actors -> Steps] /\ arg' \in [Actors -> Args]
           /\ todo' \in [Actors -> SUBSET Tags]
           /\ mixed' \in [Users -> BOOLEAN] /\ cut' \in BOOLEAN /\ late' \in BOOLEAN
<1>1. CASE f \in Files
  <2>1. f \subseteq Tags
    BY <1>1, FilesAssumption
  <2>2. pc' \in [Actors -> Steps] /\ todo' \in [Actors -> SUBSET Tags]
    BY <1>1, <2>1 DEF StartHead, Accepts, TypeOK, Steps, StartSteps
  <2>3. cut' \in BOOLEAN /\ late' \in BOOLEAN
    BY <1>1 DEF StartHead, Accepts, TypeOK
  <2>. QED
    BY <1>1, <2>1, <2>2, <2>3, AccountsType
    DEF StartHead, Accepts, FreshAccounts, TypeOK, Args
<1>2. CASE f \notin Files
  BY <1>2, ReturnType DEF StartHead, Accepts, TypeOK
<1>. QED
  BY <1>1, <1>2

\* The handlers of the users, and what follows them.
LEMMA UserTypes ==
    ASSUME TypeOK,
           \/ \E u \in Users, tags \in Requests : UpdateUser(u, tags)
           \/ \E u \in Users : StoreUser(u) \/ HandlerFails(u)
           \/ UpdateUsers
    PROVE  TypeOK'
<1>1. ASSUME NEW u \in Users, NEW tags \in Requests, UpdateUser(u, tags)
      PROVE  TypeOK'
  <2> DEFINE new == tags \cap claimed
             old == db[u] \cap claimed
  <2>1. new \in SUBSET Tags
    BY DEF TypeOK
  <2>2. accounts' \in Accounts
    <3>1. PopUser(accounts, u, old \ new) \in Accounts
      BY DEF PopUser, Accounts, TypeOK
    <3>. QED
      BY <1>1, <3>1 DEF UpdateUser, AppendUser, Accounts
  <2>3. events' \in 0..MaxEvents
    BY <1>1, MaxEventsAssumption DEF UpdateUser, Event, TypeOK
  <2>4. due' \in BOOLEAN
    BY <1>1 DEF UpdateUser, Changed, TypeOK
  <2>5. mixed' \in [Users -> BOOLEAN]
    BY <1>1 DEF UpdateUser, Loading, TypeOK
  <2>6. /\ pending' = [v \in Users |-> pending'[v]]
        /\ \A v \in Users : pending'[v] = NoChange \/ pending'[v] \subseteq Tags
    BY <1>1, <2>1 DEF UpdateUser, TypeOK
  <2>. QED
    BY <1>1, <2>2, <2>3, <2>4, <2>5, <2>6 DEF UpdateUser, TypeOK, runner, actors
<1>2. ASSUME NEW u \in Users, StoreUser(u)
      PROVE  TypeOK'
  <2>1. /\ pending' = [v \in Users |-> pending'[v]]
        /\ \A v \in Users : pending'[v] = NoChange \/ pending'[v] \subseteq Tags
    BY <1>2 DEF StoreUser, TypeOK
  <2>2. db' \in [Users -> SUBSET Tags]
    BY <1>2 DEF StoreUser, TypeOK
  <2>. QED
    BY <1>2, <2>1, <2>2 DEF StoreUser, TypeOK, backend, runner, actors, history
<1>3. ASSUME NEW u \in Users, HandlerFails(u)
      PROVE  TypeOK'
  <2>1. /\ pending' = [v \in Users |-> pending'[v]]
        /\ \A v \in Users : pending'[v] = NoChange \/ pending'[v] \subseteq Tags
    BY <1>3 DEF HandlerFails, TypeOK
  <2>2. events' \in 0..MaxEvents /\ mixed' \in [Users -> BOOLEAN]
    BY <1>3, MaxEventsAssumption DEF HandlerFails, Event, TypeOK
  <2>. QED
    BY <1>3, <2>1, <2>2 DEF HandlerFails, TypeOK, backend, runner, actors
<1>4. CASE UpdateUsers
  <2>1. proc' \in [Procs -> Process]
    <3>1. CASE Running
      <4>1. handle \in Procs /\ [proc[handle] EXCEPT !.hup = TRUE] \in Process
        BY <3>1 DEF Running, TypeOK, Process
      <4>. QED
        BY <1>4, <3>1, <4>1 DEF UpdateUsers, TypeOK
    <3>2. CASE ~Running
      BY <1>4, <3>2 DEF UpdateUsers, TypeOK
    <3>. QED
      BY <3>1, <3>2
  <2>. QED
    BY <1>4, <2>1 DEF UpdateUsers, Saved, Running, TypeOK, storage, actors
<1>. QED
  BY <1>1, <1>2, <1>3, <1>4

\* start(), whoever calls it.
LEMMA StartTypes ==
    ASSUME TypeOK, NEW a \in Actors, Start(a)
    PROVE  TypeOK'
<1>1. CASE LoadInbound(a)
  <2>1. PICK t \in todo[a] :
            /\ accounts' = [accounts EXCEPT ![t] = @ \cup (IF t \in conf THEN Stored({t})[t]
                                                           ELSE {})]
            /\ todo' = [todo EXCEPT ![a] = @ \ {t}]
            /\ pc' = [pc EXCEPT ![a] = IF todo[a] = {t} THEN "policies" ELSE "load"]
    BY <1>1 DEF LoadInbound
  <2>2. Stored({t}) \in Accounts /\ t \in Tags
    BY <2>1, AccountsType DEF TypeOK
  <2>3. accounts' \in Accounts
    BY <2>1, <2>2 DEF Accounts, TypeOK
  <2>4. pc' \in [Actors -> Steps] /\ todo' \in [Actors -> SUBSET Tags]
    BY <2>1 DEF TypeOK, Steps, StartSteps
  <2>. QED
    BY <1>1, <2>3, <2>4 DEF LoadInbound, TypeOK, Steps, storage, runner, history
<1>2. CASE Launch(a)
  <2>1. /\ pc' \in [Actors -> Steps] /\ arg' \in [Actors -> Args]
        /\ todo' \in [Actors -> SUBSET Tags]
    <3>1. CASE Running
      BY <1>2, <3>1, ReturnType DEF Launch
    <3>2. CASE ~Running
      BY <1>2, <3>2 DEF Launch, TypeOK, Steps, Args, StartSteps
    <3>. QED
      BY <3>1, <3>2
  <2>. QED
    BY <1>2, <2>1, ZenonT(60) DEF Launch, TypeOK, Steps, Args, storage, runner
<1>3. CASE Spawn(a)
  <2>1. PICK p \in Procs :
            /\ handle' = p
            /\ proc' = [proc EXCEPT ![p] =
                  [life |-> "booting", loaded |-> NoAccounts, hup |-> FALSE, logged |-> TRUE]]
    BY <1>3 DEF Spawn
  <2>2. proc' \in [Procs -> Process]
    BY <2>1, AccountsType DEF Process, TypeOK
  <2>3. /\ pc' \in [Actors -> Steps] /\ arg' \in [Actors -> Args]
        /\ todo' \in [Actors -> SUBSET Tags]
    BY <1>3, ReturnType DEF Spawn
  <2>. QED
    BY <1>3, <2>1, <2>2, <2>3 DEF Spawn, TypeOK, Steps, Args, storage, backend
<1>. QED
  BY <1>1, <1>2, <1>3 DEF Start

\* RestartBackend.
LEMMA CallTypes ==
    ASSUME TypeOK, NEW a \in Callers,
           \/ \E f \in Files \cup BadFiles \cup {Bare} : RestartBackend(a, f)
           \/ Acquire(a) \/ Stopped(a) \/ Cancel(a)
    PROVE  TypeOK'
<1>1. a \in Actors
  BY DEF Actors
<1>2. CASE \E f \in Files \cup BadFiles \cup {Bare} : RestartBackend(a, f)
  <2>1. /\ pc' \in [Actors -> Steps] /\ arg' \in [Actors -> Args]
        /\ events' \in 0..MaxEvents
    BY <1>1, <1>2, MaxEventsAssumption DEF RestartBackend, Event, TypeOK, Steps, Args
  <2>. QED
    BY <1>2, <2>1 DEF RestartBackend, TypeOK, Steps, Args, storage, backend, runner, history
<1>3. ASSUME AfterStop(a), proc' \in [Procs -> Process],
             handle' \in Procs \cup {NoProc}, terminating' \in Procs \cup {NoProc},
             woken' \in BOOLEAN
      PROVE  TypeOK'
  <2>1. UNCHANGED <<autoRestart, storage, full, due, updater, events>>
        /\ disarmed' \in BOOLEAN
    BY <1>3 DEF AfterStop, Accepts, TypeOK
  <2>2. CASE arg[a] = Bare
    BY <1>1, <1>3, <2>1, <2>2, ReturnType DEF AfterStop, TypeOK, Steps, Args, storage
  <2>3. CASE arg[a] # Bare
    <3>1. arg[a] \in Files \cup BadFiles /\ StartHead(a, arg[a])
      BY <1>1, <1>3, <2>3 DEF AfterStop, TypeOK
    <3>2. claimed' \in SUBSET Tags
      <4>1. CASE Accepts(arg[a])
        BY <1>1, <3>1, <4>1, HeadType
      <4>2. CASE ~Accepts(arg[a])
        BY <1>3, <2>3, <4>2 DEF AfterStop
      <4>. QED
        BY <4>1, <4>2
    <3>3. /\ disk' \in Files \cup BadFiles /\ conf' \in Files /\ accounts' \in Accounts
          /\ pc' \in [Actors -> Steps] /\ arg' \in [Actors -> Args]
          /\ todo' \in [Actors -> SUBSET Tags]
          /\ mixed' \in [Users -> BOOLEAN] /\ cut' \in BOOLEAN /\ late' \in BOOLEAN
      BY <1>1, <3>1, HeadType
    <3>. QED
      BY <1>3, <2>1, <3>2, <3>3 DEF TypeOK, Steps, Args, storage
  <2>. QED
    BY <2>2, <2>3
<1>4. CASE Acquire(a)
  <2>1. CASE Running
    <3>1. handle \in Procs /\ [proc[handle] EXCEPT !.life = "stopping"] \in Process
      BY <2>1 DEF Running, TypeOK, Process
    <3>2. proc' \in [Procs -> Process] /\ pc' \in [Actors -> Steps]
      BY <1>4, <2>1, <3>1 DEF Acquire, TypeOK, Steps
    <3>. QED
      BY <1>4, <2>1, <3>1, <3>2 DEF Acquire, TypeOK, Steps, storage, backend, history
  <2>2. CASE ~Running
    BY <1>3, <1>4, <2>2 DEF Acquire, TypeOK, runner
  <2>. QED
    BY <2>1, <2>2
<1>5. CASE Stopped(a)
  BY <1>3, <1>5 DEF Stopped, TypeOK
<1>6. CASE Cancel(a)
  <2>1. proc' \in [Procs -> Process]
    <3>1. \A p \in Procs : [proc[p] EXCEPT !.logged = FALSE] \in Process
      BY ZenonT(60) DEF TypeOK, Process
    <3>. QED
      BY <1>6, <3>1 DEF Cancel, TypeOK
  <2>2. /\ pc' \in [Actors -> Steps] /\ arg' \in [Actors -> Args]
        /\ todo' \in [Actors -> SUBSET Tags]
    BY <1>1, <1>6, ReturnType DEF Cancel
  <2>3. events' \in 0..MaxEvents
    BY <1>6, MaxEventsAssumption DEF Cancel, Event, TypeOK
  <2>4. cut' \in BOOLEAN /\ late' \in BOOLEAN /\ disarmed' \in BOOLEAN
    BY <1>6 DEF Cancel, Starting, TypeOK
  <2>. QED
    BY <1>6, <2>1, <2>2, <2>3, <2>4 DEF Cancel, TypeOK, Steps, Args, storage, backend
<1>. QED
  BY <1>2, <1>4, <1>5, <1>6

\* The watchdog and the processes.
LEMMA ProcessTypes ==
    ASSUME TypeOK,
           \/ StopNoticed \/ Wake
           \/ \E p \in Procs : SingBox(p) \/ Die(p)
    PROVE  TypeOK'
<1>0. "watchdog" \in Actors
  BY DEF Actors
<1>1. CASE StopNoticed
  BY <1>0, <1>1 DEF StopNoticed, TypeOK, storage, backend, history
<1>2. CASE Wake
  <2>1. StartHead("watchdog", disk) /\ disk \in Files \cup BadFiles
    BY <1>2 DEF Wake, TypeOK
  <2>2. claimed' \in SUBSET Tags
    BY <1>0, <1>2, <2>1, HeadType DEF Wake, TypeOK
  <2>3. /\ disk' \in Files \cup BadFiles /\ conf' \in Files /\ accounts' \in Accounts
        /\ pc' \in [Actors -> Steps] /\ arg' \in [Actors -> Args]
        /\ todo' \in [Actors -> SUBSET Tags]
        /\ mixed' \in [Users -> BOOLEAN] /\ cut' \in BOOLEAN /\ late' \in BOOLEAN
    BY <1>0, <2>1, HeadType
  <2>. QED
    BY <1>2, <2>2, <2>3 DEF Wake, TypeOK, Steps, Args, storage, runner
<1>3. ASSUME NEW p \in Procs, NEW q \in Process, proc' = [proc EXCEPT ![p] = q],
             UNCHANGED <<autoRestart, storage, backend, handle, terminating, actors, history>>,
             woken' \in BOOLEAN, events' \in 0..MaxEvents
      PROVE  TypeOK'
  BY <1>3 DEF TypeOK, storage, backend, actors, history
<1>4. ASSUME NEW p \in Procs, SingBox(p) \/ Die(p)
      PROVE  TypeOK'
  <2>1. proc[p] \in Process /\ full \in Accounts
    BY DEF TypeOK
  <2>2. CASE OutputEnds(p)
    <3>1. [proc[p] EXCEPT !.logged = FALSE] \in Process
      BY <2>1 DEF Process
    <3>2. proc' = [proc EXCEPT ![p] = [proc[p] EXCEPT !.logged = FALSE]]
          /\ woken' \in BOOLEAN /\ events' \in 0..MaxEvents
      BY <2>2 DEF OutputEnds, Told, TypeOK
    <3>. QED
      BY <1>3, <2>2, <3>1, <3>2 DEF OutputEnds
  <2>3. CASE ComeUp(p)
    <3>1. [proc[p] EXCEPT !.life = "up", !.loaded = full] \in Process
      BY <2>1 DEF Process
    <3>2. proc' = [proc EXCEPT ![p] = [proc[p] EXCEPT !.life = "up", !.loaded = full]]
          /\ woken' \in BOOLEAN /\ events' \in 0..MaxEvents
      BY <2>3 DEF ComeUp, TypeOK
    <3>. QED
      BY <1>3, <2>3, <3>1, <3>2 DEF ComeUp
  <2>4. CASE Reread(p)
    <3>1. [proc[p] EXCEPT !.loaded = full, !.hup = FALSE] \in Process
      BY <2>1 DEF Process
    <3>2. proc' = [proc EXCEPT ![p] = [proc[p] EXCEPT !.loaded = full, !.hup = FALSE]]
          /\ woken' \in BOOLEAN /\ events' \in 0..MaxEvents
      BY <2>4 DEF Reread, TypeOK
    <3>. QED
      BY <1>3, <2>4, <3>1, <3>2 DEF Reread
  <2>5. CASE Exit(p) \/ Die(p)
    <3>1. [proc[p] EXCEPT !.life = "dead"] \in Process
      BY <2>1 DEF Process
    <3>2. proc' = [proc EXCEPT ![p] = [proc[p] EXCEPT !.life = "dead"]]
          /\ woken' \in BOOLEAN /\ events' \in 0..MaxEvents
      BY <2>5, MaxEventsAssumption DEF Exit, Die, Event, TypeOK
    <3>. QED
      BY <1>3, <2>5, <3>1, <3>2 DEF Exit, Die
  <2>. QED
    BY <1>4, <2>2, <2>3, <2>4, <2>5 DEF SingBox
<1>. QED
  BY <1>1, <1>2, <1>4

-----------------------------------------------------------------------------
(***************************************************************************)
(* The steps.                                                              *)
(***************************************************************************)
\* A start on f has begun.
Accepted(a, f) ==
    /\ conf' = f /\ accounts' = NoAccounts /\ claimed' = f
    /\ pc' = [pc EXCEPT ![a] = IF f = {} THEN "policies" ELSE "load"]
    /\ todo' = [todo EXCEPT ![a] = f]
    /\ mixed' = [u \in Users |-> pending[u] # NoChange]
    /\ cut' = FALSE
    /\ late' \in BOOLEAN

\* The configuration was none that sing-box can be started with.
Rejected(a) ==
    /\ UNCHANGED <<conf, accounts, mixed, cut, late>>
    /\ claimed' = claimed \/ claimed' = {}
    /\ pc' = [pc EXCEPT ![a] = IF a = "watchdog" THEN "dead" ELSE "idle"]
    /\ todo' = [todo EXCEPT ![a] = {}]

\* What a RestartBackend call does when sing-box has stopped, and the watchdog when it
\* has slept.
Heads(a) ==
    /\ pc[a] \in {"lock", "stop", "sleep"}
    /\ pc[a] = "lock" => ~RestartLocked
    /\ pc[a] = "sleep" => a = "watchdog"
    /\ UNCHANGED <<autoRestart, storage, full, due, handle, proc, woken>>
    /\ (\E f \in Files : Accepted(a, f)) \/ Rejected(a)

LEMMA Heading ==
    ASSUME TypeOK
    PROVE  /\ \A a \in Callers : (Acquire(a) /\ ~Running) \/ Stopped(a) => Heads(a)
           /\ Wake => Heads("watchdog")
<1>1. ASSUME NEW a \in Callers, AfterStop(a)
      PROVE  (\E f \in Files : Accepted(a, f)) \/ Rejected(a)
  <2>1. a # "watchdog"
    BY CallersAssumption
  <2>2. CASE arg[a] = Bare
    BY <1>1, <2>1, <2>2 DEF AfterStop, RaiseIn, Rejected
  <2>3. CASE arg[a] # Bare /\ arg[a] \in Files
    BY <1>1, <2>3 DEF AfterStop, StartHead, Accepts, FreshAccounts, Accepted
  <2>4. CASE arg[a] # Bare /\ arg[a] \notin Files
    BY <1>1, <2>4 DEF AfterStop, StartHead, Accepts, RaiseIn, Rejected
  <2>. QED
    BY <2>2, <2>3, <2>4
<1>2. ASSUME NEW a \in Callers, Acquire(a) /\ ~Running
      PROVE  Heads(a)
  <2>1. AfterStop(a) /\ UNCHANGED runner /\ pc[a] = "lock" /\ ~RestartLocked
    BY <1>2 DEF Acquire
  <2>. QED
    BY <1>1, <2>1 DEF AfterStop, Heads, runner
<1>3. ASSUME NEW a \in Callers, Stopped(a)
      PROVE  Heads(a)
  BY <1>1, <1>3 DEF Stopped, AfterStop, Heads
<1>4. ASSUME Wake
      PROVE  Heads("watchdog")
  <2>1. CASE disk \in Files
    BY <1>4, <2>1 DEF Wake, StartHead, Accepts, FreshAccounts, Accepted, Heads, runner
  <2>2. CASE disk \notin Files
    BY <1>4, <2>2 DEF Wake, StartHead, Accepts, RaiseIn, Rejected, Heads, runner
  <2>. QED
    BY <2>1, <2>2
<1>. QED
  BY <1>2, <1>3, <1>4

LEMMA TypesStep == TypeOK /\ [Next]_vars => TypeOK'
<1> SUFFICES ASSUME TypeOK, [Next]_vars PROVE TypeOK'
  OBVIOUS
<1>1. CASE UNCHANGED vars
  BY <1>1 DEF vars, storage, backend, runner, actors, history, TypeOK
<1>2. \A a \in Callers : a \in Actors
  BY DEF Actors
<1>3. "watchdog" \in Actors
  BY DEF Actors
<1>4. CASE System
  BY <1>2, <1>3, <1>4, UserTypes, StartTypes, CallTypes, ProcessTypes
  DEF System, Handler, Restarting, Watchdog
<1>. QED
  BY <1>1, <1>4, UserTypes, CallTypes, ProcessTypes DEF Next

\* The steps, as the proofs below tell them apart.
LEMMA Cases ==
    ASSUME TypeOK, [Next]_vars
    PROVE  \/ \E u \in Users, tags \in Requests : UpdateUser(u, tags)
           \/ \E u \in Users : StoreUser(u) \/ HandlerFails(u)
           \/ UpdateUsers
           \/ \E a \in Actors : Start(a) \/ Heads(a)
           \/ \E a \in Callers : (Acquire(a) /\ Running) \/ Cancel(a)
           \/ \E a \in Callers, f \in Args : RestartBackend(a, f)
           \/ StopNoticed
           \/ \E p \in Procs : SingBox(p) \/ Die(p)
           \/ UNCHANGED vars
<1>1. \A a \in Callers : a \in Actors
  BY DEF Actors
<1>2. "watchdog" \in Actors
  BY DEF Actors
<1>3. ASSUME NEW a \in Callers, Restarting(a)
      PROVE  Heads(a) \/ Start(a) \/ (Acquire(a) /\ Running)
  BY <1>3, Heading DEF Restarting
<1>4. CASE System
  BY <1>1, <1>2, <1>3, <1>4, Heading DEF System, Handler, Watchdog
<1>. QED
  BY <1>1, <1>2, <1>4 DEF Next, Args

\* What a process does changes nothing else, and none begins to serve.
LEMMA ProcessSteps ==
    ASSUME TypeOK, NEW p \in Procs, SingBox(p) \/ Die(p)
    PROVE  /\ UNCHANGED <<autoRestart, storage, backend, handle, actors, mixed, cut, late>>
           /\ \A q \in Procs : (Alive(q)' => Alive(q)) /\ (Serves(q)' => Serves(q))
           /\ woken' => woken \/ pc["watchdog"] = "idle"
           /\ \A q \in Procs : Alive(q)' => Due(q)' = Due(q)
<1>1. UNCHANGED <<autoRestart, storage, backend, handle, actors, mixed, cut, late>>
  BY DEF SingBox, OutputEnds, ComeUp, Reread, Exit, Die, history
<1>2. woken' => woken \/ pc["watchdog"] = "idle"
  BY DEF SingBox, OutputEnds, Told, ComeUp, Reread, Exit, Die
<1>3. \A q \in Procs \ {p} : proc'[q] = proc[q]
  BY DEF SingBox, OutputEnds, ComeUp, Reread, Exit, Die, TypeOK
<1>4. /\ Alive(p)' => Alive(p)
      /\ Serves(p)' => Serves(p)
      /\ Alive(p)' => Due(p)' = Due(p)
  <2>1. proc[p] \in Process
    BY DEF TypeOK
  <2>2. CASE OutputEnds(p)
    BY <1>1, <2>1, <2>2 DEF OutputEnds, Process, Alive, Serves, Due, backend, TypeOK
  <2>3. CASE ComeUp(p)
    BY <1>1, <2>1, <2>3 DEF ComeUp, Process, Alive, Serves, Due, backend, TypeOK
  <2>4. CASE Reread(p)
    BY <1>1, <2>1, <2>4 DEF Reread, Process, Alive, Serves, Due, backend, TypeOK
  <2>5. CASE Exit(p) \/ Die(p)
    BY <2>1, <2>5 DEF Exit, Die, Process, Alive, Serves, TypeOK
  <2>. QED
    BY <2>2, <2>3, <2>4, <2>5 DEF SingBox
<1>5. \A q \in Procs : (Alive(q)' => Alive(q)) /\ (Serves(q)' => Serves(q))
  BY <1>3, <1>4 DEF Alive, Serves
<1>6. \A q \in Procs : Alive(q)' => Due(q)' = Due(q)
  BY <1>1, <1>3, <1>4 DEF Due, Alive, backend
<1>. QED
  BY <1>1, <1>2, <1>5, <1>6

\* What a step does to the places of the actors.
LEMMA Moves ==
    ASSUME TypeOK, WokenIdle, [Next]_vars
    PROVE  \/ UNCHANGED pc
           \/ \E a \in Actors :
                 /\ \A b \in Actors \ {a} : pc'[b] = pc[b]
                 /\ \/ Holding(a) /\ Start(a)
                    \/ Heads(a)
                    \/ pc[a] = "lock" /\ pc'[a] = "stop" /\ ~RestartLocked /\ a \in Callers
                    \/ pc'[a] = "idle" /\ a \in Callers
                    \/ pc[a] = "idle" /\ pc'[a] = "lock"
                    \/ /\ a = "watchdog" /\ pc[a] = "idle" /\ woken
                       /\ pc'[a] \in {"idle", "sleep"}
                       /\ pc'[a] = "sleep" => autoRestart
<1>0. \A a \in Callers : a \in Actors
  BY DEF Actors
<1>1. ASSUME NEW a \in Actors, Start(a)
      PROVE  (\A b \in Actors \ {a} : pc'[b] = pc[b]) /\ Holding(a)
  BY <1>1 DEF Start, LoadInbound, Launch, Spawn, Return, RaiseIn, TypeOK, Holding, Starting,
              StartSteps
<1>2. ASSUME NEW a \in Actors, Heads(a)
      PROVE  \A b \in Actors \ {a} : pc'[b] = pc[b]
  BY <1>2 DEF Heads, Accepted, Rejected, TypeOK
<1>3. ASSUME NEW a \in Callers, Acquire(a) /\ Running
      PROVE  /\ \A b \in Actors \ {a} : pc'[b] = pc[b]
             /\ pc[a] = "lock" /\ pc'[a] = "stop" /\ ~RestartLocked
  BY <1>0, <1>3 DEF Acquire, TypeOK
<1>4. ASSUME NEW a \in Callers, Cancel(a)
      PROVE  (\A b \in Actors \ {a} : pc'[b] = pc[b]) /\ pc'[a] = "idle"
  BY <1>0, <1>4 DEF Cancel, Return, TypeOK
<1>5. ASSUME NEW a \in Callers, NEW f \in Args, RestartBackend(a, f)
      PROVE  (\A b \in Actors \ {a} : pc'[b] = pc[b]) /\ pc[a] = "idle" /\ pc'[a] = "lock"
  BY <1>0, <1>5 DEF RestartBackend, TypeOK
<1>6. CASE StopNoticed
  <2>1. /\ "watchdog" \in Actors
        /\ \A b \in Actors \ {"watchdog"} : pc'[b] = pc[b]
        /\ pc["watchdog"] = "idle" /\ woken
        /\ pc'["watchdog"] \in {"idle", "sleep"}
        /\ pc'["watchdog"] = "sleep" => autoRestart
    BY <1>6 DEF StopNoticed, TypeOK, WokenIdle, Actors
  <2>. QED
    BY <2>1
<1>7. ASSUME \/ \E u \in Users, tags \in Requests : UpdateUser(u, tags)
             \/ \E u \in Users : StoreUser(u) \/ HandlerFails(u)
             \/ UpdateUsers
             \/ \E p \in Procs : SingBox(p) \/ Die(p)
             \/ UNCHANGED vars
      PROVE  UNCHANGED pc
  BY <1>7, ProcessSteps DEF UpdateUser, StoreUser, HandlerFails, UpdateUsers, vars, actors
<1>. QED
  BY <1>0, <1>1, <1>2, <1>3, <1>4, <1>5, <1>6, <1>7, Cases

LEMMA WokenStep ==
    ASSUME TypeOK, WokenIdle, [Next]_vars
    PROVE  WokenIdle'
<1>0. "watchdog" \in Actors /\ "watchdog" \notin Callers
  BY CallersAssumption DEF Actors
<1>1. woken' => woken \/ pc["watchdog"] = "idle"
  BY Cases, ProcessSteps
  DEF UpdateUser, StoreUser, HandlerFails, UpdateUsers, Start, LoadInbound, Launch, Spawn, Heads,
      Acquire, Cancel, RestartBackend, StopNoticed, vars, runner
<1>2. woken' => pc["watchdog"] = "idle"
  BY <1>1 DEF WokenIdle
<1>3. StopNoticed => ~woken'
  BY DEF StopNoticed
<1>4. pc["watchdog"] = "idle" => ~Start("watchdog") /\ ~Heads("watchdog")
  BY DEF Start, LoadInbound, Launch, Spawn, Heads
<1>5. ASSUME NEW a \in Callers, Acquire(a) \/ Cancel(a) \/ \E f \in Args : RestartBackend(a, f)
      PROVE  pc'["watchdog"] = pc["watchdog"]
  BY <1>0, <1>5 DEF Acquire, AfterStop, StartHead, RaiseIn, Cancel, Return, RestartBackend, TypeOK
<1>6. ASSUME NEW a \in Actors, a # "watchdog", Start(a) \/ Heads(a)
      PROVE  pc'["watchdog"] = pc["watchdog"]
  BY <1>0, <1>6 DEF Start, LoadInbound, Launch, Spawn, Return, RaiseIn, Heads, Accepted, Rejected,
                    TypeOK
<1>7. ASSUME \/ \E u \in Users, tags \in Requests : UpdateUser(u, tags)
             \/ \E u \in Users : StoreUser(u) \/ HandlerFails(u)
             \/ UpdateUsers
             \/ \E p \in Procs : SingBox(p) \/ Die(p)
             \/ UNCHANGED vars
      PROVE  UNCHANGED pc
  BY <1>7, ProcessSteps DEF UpdateUser, StoreUser, HandlerFails, UpdateUsers, vars, actors
<1>. QED
  BY <1>2, <1>3, <1>4, <1>5, <1>6, <1>7, Cases DEF WokenIdle

LEMMA HolderStep ==
    ASSUME TypeOK, WokenIdle, OneHolder, [Next]_vars
    PROVE  OneHolder'
<1>0. \A a \in Callers : a \in Actors
  BY DEF Actors
<1>1. CASE UNCHANGED pc
  BY <1>1 DEF OneHolder, Holding, Starting
<1>2. ASSUME NEW a \in Actors, \A b \in Actors \ {a} : pc'[b] = pc[b],
             \/ a \notin Callers
             \/ Holding(a)
             \/ ~Holding(a)'
             \/ ~RestartLocked
      PROVE  OneHolder'
  BY <1>0, <1>2 DEF OneHolder, Holding, Starting, RestartLocked
<1>3. ASSUME NEW a \in Actors, Heads(a)
      PROVE  a \notin Callers \/ Holding(a) \/ ~Holding(a)' \/ ~RestartLocked
  BY <1>3, CallersAssumption DEF Heads, Holding
<1>. QED
  BY <1>1, <1>2, <1>3, Moves DEF Holding, Starting, StartSteps

\* A process is started only when none serves.
LEMMA PlannedStep ==
    ASSUME TypeOK, WokenIdle, OneHolder, Planned, [Next]_vars
    PROVE  Planned'
<1> SUFFICES ASSUME ~autoRestart'
             PROVE  /\ pc'["watchdog"] = "idle"
                    /\ \A p \in Procs : Serves(p)' => p = handle'
                    /\ \A a \in Callers : pc'[a] = "spawn" => \A p \in Procs : ~Serves(p)'
  BY DEF Planned
<1>0. \A a \in Actors : a = "watchdog" \/ a \in Callers
  BY DEF Actors
<1>1. autoRestart' = autoRestart
  BY Cases, ProcessSteps
  DEF UpdateUser, StoreUser, HandlerFails, UpdateUsers, Start, LoadInbound, Launch, Spawn, Heads,
      Acquire, Cancel, RestartBackend, StopNoticed, vars
<1>2. /\ pc["watchdog"] = "idle"
      /\ \A p \in Procs : Serves(p) => p = handle
      /\ \A a \in Callers : pc[a] = "spawn" => \A p \in Procs : ~Serves(p)
  BY <1>1 DEF Planned
<1>3. ~Start("watchdog") /\ ~Heads("watchdog")
  BY <1>2 DEF Start, LoadInbound, Launch, Spawn, Heads
<1>4. pc'["watchdog"] = "idle"
  <2>1. "watchdog" \in Actors /\ "watchdog" \notin Callers
    BY CallersAssumption DEF Actors
  <2>2. ASSUME NEW f \in Args, NEW a \in Callers, RestartBackend(a, f)
        PROVE  pc'["watchdog"] = pc["watchdog"]
    BY <2>1, <2>2 DEF RestartBackend, TypeOK
  <2>3. ASSUME NEW a \in Callers, Cancel(a) \/ Acquire(a) \/ Heads(a) \/ Start(a)
        PROVE  pc'["watchdog"] = pc["watchdog"]
    BY <2>1, <2>3 DEF Cancel, Return, Acquire, AfterStop, StartHead, RaiseIn, Heads, Accepted,
                      Rejected, Start, LoadInbound, Launch, Spawn, TypeOK
  <2>4. StopNoticed => pc'["watchdog"] = "idle"
    BY <1>1, <2>1 DEF StopNoticed, TypeOK
  <2>5. ASSUME \/ \E u \in Users, tags \in Requests : UpdateUser(u, tags)
               \/ \E u \in Users : StoreUser(u) \/ HandlerFails(u)
               \/ UpdateUsers
               \/ \E p \in Procs : SingBox(p) \/ Die(p)
               \/ UNCHANGED vars
        PROVE  UNCHANGED pc
    BY <2>5, ProcessSteps DEF UpdateUser, StoreUser, HandlerFails, UpdateUsers, vars, actors
  <2>. QED
    BY <1>0, <1>2, <1>3, <2>2, <2>3, <2>4, <2>5, Cases
<1>5. ASSUME NEW a \in Callers, Spawn(a)
      PROVE  /\ \A p \in Procs : Serves(p)' => p = handle'
             /\ \A b \in Callers : pc'[b] # "spawn"
  <2>1. PICK p \in Procs :
            /\ handle' = p
            /\ proc' = [proc EXCEPT ![p] =
                  [life |-> "booting", loaded |-> NoAccounts, hup |-> FALSE, logged |-> TRUE]]
    BY <1>5 DEF Spawn
  <2>2. pc[a] = "spawn" /\ pc' = [pc EXCEPT ![a] = "idle"]
    BY <1>5 DEF Spawn, Return
  <2>3. \A q \in Procs : ~Serves(q)
    BY <1>2, <2>2
  <2>4. \A q \in Procs : Serves(q)' => q = handle'
    BY <2>1, <2>3 DEF Serves, TypeOK
  <2>5. \A b \in Callers : pc[b] = "spawn" => b = a
    BY <2>2 DEF OneHolder, Holding, Starting, StartSteps
  <2>. QED
    BY <2>2, <2>4, <2>5 DEF TypeOK, Actors
<1>6. ASSUME NEW a \in Callers, Acquire(a), Running
      PROVE  /\ \A p \in Procs : ~Serves(p)'
  <2>1. proc' = [proc EXCEPT ![handle].life = "stopping"] /\ handle \in Procs
    BY <1>6 DEF Acquire, Running, TypeOK
  <2>. QED
    BY <1>2, <2>1 DEF Serves, TypeOK, Process
<1>7. ASSUME NEW a \in Callers, Launch(a)
      PROVE  /\ \A p \in Procs : Serves(p)' => p = handle'
             /\ \A b \in Callers : pc'[b] = "spawn" => \A p \in Procs : ~Serves(p)'
  <2>1. UNCHANGED <<handle, proc>>
    BY <1>7 DEF Launch, runner
  <2>2. CASE Running
    <3>1. \A b \in Callers : pc'[b] = "spawn" => pc[b] = "spawn"
      BY <1>7, <2>2 DEF Launch, RaiseIn, TypeOK, Actors
    <3>. QED
      BY <1>2, <2>1, <3>1 DEF Serves
  <2>3. CASE ~Running
    <3>1. \A p \in Procs : ~Serves(p)
      BY <1>2, <2>3, ProcsAssumption DEF Running, Alive, Serves
    <3>. QED
      BY <2>1, <3>1 DEF Serves
  <2>. QED
    BY <2>2, <2>3
<1>8. ASSUME UNCHANGED handle, \A p \in Procs : Serves(p)' => Serves(p),
             \A a \in Callers : pc'[a] = "spawn" => pc[a] = "spawn"
      PROVE  /\ \A p \in Procs : Serves(p)' => p = handle'
             /\ \A a \in Callers : pc'[a] = "spawn" => \A p \in Procs : ~Serves(p)'
  BY <1>2, <1>8
<1>9. ASSUME NEW a \in Callers, LoadInbound(a) \/ Heads(a) \/ (\E f \in Args : RestartBackend(a, f))
                                \/ Cancel(a)
      PROVE  /\ UNCHANGED handle
             /\ \A p \in Procs : Serves(p)' => Serves(p)
             /\ \A b \in Callers : pc'[b] = "spawn" => pc[b] = "spawn"
  <2>1. CASE LoadInbound(a)
    BY <2>1 DEF LoadInbound, runner, Serves, TypeOK, Actors
  <2>2. CASE Heads(a)
    BY <2>2 DEF Heads, Accepted, Rejected, Serves, TypeOK, Actors
  <2>3. CASE \E f \in Args : RestartBackend(a, f)
    BY <2>3 DEF RestartBackend, runner, Serves, TypeOK, Actors
  <2>4. CASE Cancel(a)
    BY <2>4 DEF Cancel, Return, Serves, TypeOK, Actors, Process
  <2>. QED
    BY <1>9, <2>1, <2>2, <2>3, <2>4
<1>10. ASSUME \/ \E u \in Users, tags \in Requests : UpdateUser(u, tags)
              \/ \E u \in Users : StoreUser(u) \/ HandlerFails(u)
              \/ UpdateUsers
              \/ StopNoticed
              \/ \E p \in Procs : SingBox(p) \/ Die(p)
              \/ UNCHANGED vars
       PROVE  /\ UNCHANGED handle
              /\ \A p \in Procs : Serves(p)' => Serves(p)
              /\ \A b \in Callers : pc'[b] = "spawn" => pc[b] = "spawn"
  <2>1. CASE \/ \E u \in Users, tags \in Requests : UpdateUser(u, tags)
             \/ \E u \in Users : StoreUser(u) \/ HandlerFails(u)
    BY <2>1 DEF UpdateUser, StoreUser, HandlerFails, runner, actors, Serves
  <2>2. CASE UpdateUsers
    BY <2>2 DEF UpdateUsers, actors, Serves, TypeOK, Process
  <2>3. CASE StopNoticed
    BY <2>3, CallersAssumption DEF StopNoticed, Serves, TypeOK, Actors
  <2>4. CASE \E p \in Procs : SingBox(p) \/ Die(p)
    BY <2>4, ProcessSteps DEF actors
  <2>5. CASE UNCHANGED vars
    BY <2>5 DEF vars, runner, actors, Serves
  <2>. QED
    BY <1>10, <2>1, <2>2, <2>3, <2>4, <2>5
<1>11. /\ \A p \in Procs : Serves(p)' => p = handle'
       /\ \A a \in Callers : pc'[a] = "spawn" => \A p \in Procs : ~Serves(p)'
  BY <1>0, <1>3, <1>5, <1>6, <1>7, <1>8, <1>9, <1>10, Cases DEF Start
<1>. QED
  BY <1>4, <1>11

\* A change of the tags of a user is a change of the configuration or none.
LEMMA NoChangeToAccounts ==
    ASSUME TypeOK, NEW u \in Users, NEW tags \in Requests, UpdateUser(u, tags)
    PROVE  due' \/ accounts' = accounts
<1> DEFINE new == tags \cap claimed
           old == db[u] \cap claimed
<1>1. CASE old = new
  <2>1. PopUser(accounts, u, {}) = accounts
    BY DEF PopUser, TypeOK, Accounts
  <2>2. AppendUser(accounts, u, {}) = accounts
    BY DEF AppendUser, TypeOK, Accounts
  <2>3. accounts' = AppendUser(PopUser(accounts, u, old \ new), u, new \ old)
    BY DEF UpdateUser
  <2>4. old \ new = {} /\ new \ old = {}
    BY <1>1
  <2>. QED
    BY <2>1, <2>2, <2>3, <2>4
<1>2. CASE old # new
  BY <1>2 DEF UpdateUser, Changed
<1>. QED
  BY <1>1, <1>2

LEMMA FileReadyStep ==
    ASSUME TypeOK, WokenIdle, FileReady, [Next]_vars
    PROVE  FileReady'
<1> SUFFICES ASSUME ~late', \A a \in Actors : ~Preparing(a)'
             PROVE  due' \/ full' = accounts'
  BY DEF FileReady
<1>1. ASSUME NEW u \in Users, NEW tags \in Requests, UpdateUser(u, tags)
      PROVE  due' \/ full' = accounts'
  <2>1. UNCHANGED <<full, pc, late>> /\ (due => due')
    BY <1>1 DEF UpdateUser, actors
  <2>. QED
    BY <1>1, <2>1, NoChangeToAccounts DEF FileReady, Preparing
<1>2. CASE UpdateUsers
  BY <1>2 DEF UpdateUsers, Saved
<1>3. ASSUME UNCHANGED <<full, due, accounts>>, ~late,
             \A a \in Actors : Preparing(a) => Preparing(a)'
      PROVE  due' \/ full' = accounts'
  BY <1>3 DEF FileReady
<1>4. ASSUME NEW b \in Actors, Start(b)
      PROVE  due' \/ full' = accounts'
  <2>1. CASE Launch(b)
    BY <2>1 DEF Launch
  <2>2. ~LoadInbound(b)
    BY DEF LoadInbound, Preparing, TypeOK
  <2>3. CASE Spawn(b)
    <3>1. UNCHANGED <<full, due, accounts, late>>
      BY <2>3 DEF Spawn, backend
    <3>2. \A a \in Actors : Preparing(a) => Preparing(a)'
      BY <2>3 DEF Spawn, Return, Preparing, TypeOK
    <3>. QED
      BY <1>3, <3>1, <3>2
  <2>. QED
    BY <1>4, <2>1, <2>2, <2>3 DEF Start
<1>5. ASSUME NEW b \in Actors, Heads(b)
      PROVE  due' \/ full' = accounts'
  <2>1. ASSUME NEW f \in Files, Accepted(b, f)
        PROVE  FALSE
    BY <2>1 DEF Accepted, Preparing, TypeOK
  <2>2. CASE Rejected(b)
    <3>1. \A a \in Actors : Preparing(a) => Preparing(a)'
      BY <1>5, <2>2 DEF Rejected, Heads, Preparing, TypeOK
    <3>. QED
      BY <1>3, <1>5, <2>2, <3>1 DEF Rejected, Heads
  <2>. QED
    BY <1>5, <2>1, <2>2 DEF Heads
<1>6. ASSUME NEW b \in Callers,
             (Acquire(b) /\ Running) \/ Cancel(b) \/ \E f \in Args : RestartBackend(b, f)
      PROVE  due' \/ full' = accounts'
  <2>1. ~late
    BY <1>6 DEF Acquire, Cancel, RestartBackend, history
  <2>2. UNCHANGED <<full, due, accounts>>
    BY <1>6 DEF Acquire, Cancel, RestartBackend, backend
  <2>3. b \in Actors
    BY DEF Actors
  <2>4. \A a \in Actors : Preparing(a) => Preparing(a)'
    <3>1. CASE Cancel(b)
      BY <2>3, <3>1 DEF Cancel, Return, Preparing, Starting, StartSteps, TypeOK
    <3>2. CASE (Acquire(b) /\ Running) \/ \E f \in Args : RestartBackend(b, f)
      BY <2>3, <3>2 DEF Acquire, RestartBackend, Preparing, TypeOK
    <3>. QED
      BY <1>6, <3>1, <3>2
  <2>. QED
    BY <1>3, <2>1, <2>2, <2>4
<1>7. CASE StopNoticed
  <2>1. \A a \in Actors : Preparing(a) => Preparing(a)'
    BY <1>7 DEF StopNoticed, WokenIdle, Preparing, TypeOK
  <2>. QED
    BY <1>3, <1>7, <2>1 DEF StopNoticed, backend, history
<1>8. CASE \E u \in Users : StoreUser(u) \/ HandlerFails(u)
  BY <1>3, <1>8 DEF StoreUser, HandlerFails, backend, actors, history, Preparing
<1>9. CASE \E p \in Procs : SingBox(p) \/ Die(p)
  BY <1>3, <1>9, ProcessSteps DEF backend, actors, Preparing
<1>10. CASE UNCHANGED vars
  BY <1>3, <1>10 DEF vars, backend, actors, history, Preparing
<1>. QED
  BY <1>1, <1>2, <1>4, <1>5, <1>6, <1>7, <1>8, <1>9, <1>10, Cases

LEMMA ChangesAreDueStep ==
    ASSUME TypeOK, WokenIdle, FileReady, ChangesAreDue, [Next]_vars
    PROVE  ChangesAreDue'
<1> SUFFICES ASSUME AtRest', ~late', Running'
             PROVE  due' \/ Due(handle)' = accounts'
  BY DEF ChangesAreDue
<1>0. handle' \in Procs
  BY TypesStep DEF Running, TypeOK
<1>1. ASSUME UNCHANGED <<full, due, accounts, handle>>, AtRest, ~late, Running,
             proc'[handle].life = proc[handle].life, proc'[handle].hup = proc[handle].hup,
             proc'[handle].loaded = proc[handle].loaded
      PROVE  due' \/ Due(handle)' = accounts'
  BY <1>1 DEF ChangesAreDue, Due
<1>2. ASSUME NEW u \in Users, NEW tags \in Requests, UpdateUser(u, tags)
      PROVE  due' \/ Due(handle)' = accounts'
  <2>1. UNCHANGED <<full, pc, late, handle, proc>> /\ (due => due')
    BY <1>2 DEF UpdateUser, actors, runner
  <2>2. AtRest /\ Running
    BY <2>1 DEF AtRest, Starting, Running, Alive
  <2>3. Due(handle)' = Due(handle)
    BY <2>1 DEF Due
  <2>. QED
    BY <1>2, <2>1, <2>2, <2>3, NoChangeToAccounts DEF ChangesAreDue
<1>3. CASE UpdateUsers
  <2>1. full' = accounts' /\ handle' = handle
    BY <1>3 DEF UpdateUsers, Saved
  <2>2. Running
    BY <1>3, <2>1 DEF UpdateUsers, Running, Alive
  <2>3. proc'[handle].hup = TRUE
    BY <1>0, <1>3, <2>1, <2>2 DEF UpdateUsers, TypeOK, Process
  <2>. QED
    BY <2>1, <2>3 DEF Due
<1>4. ASSUME NEW b \in Actors, Start(b)
      PROVE  due' \/ Due(handle)' = accounts'
  <2>1. ~LoadInbound(b)
    BY DEF LoadInbound, AtRest, Starting, StartSteps, TypeOK
  <2>2. ~Launch(b)
    BY DEF Launch, AtRest, Starting, StartSteps, TypeOK
  <2>3. CASE Spawn(b)
    <3>1. ~late /\ pc[b] = "spawn" /\ UNCHANGED <<full, due, accounts>>
      BY <2>3 DEF Spawn, backend
    <3>2. \A c \in Actors : ~Preparing(c)
      BY <2>3 DEF Spawn, Return, Preparing, AtRest, Starting, StartSteps, TypeOK
    <3>5. due \/ full = accounts
      BY <3>1, <3>2 DEF FileReady
    <3>3. proc'[handle'].life = "booting"
      BY <2>3 DEF Spawn, TypeOK
    <3>. QED
      BY <3>1, <3>3, <3>5 DEF Due
  <2>. QED
    BY <1>4, <2>1, <2>2, <2>3 DEF Start
<1>5. ASSUME NEW b \in Actors, Heads(b)
      PROVE  due' \/ Due(handle)' = accounts'
  <2>1. ASSUME NEW f \in Files, Accepted(b, f)
        PROVE  FALSE
    BY <2>1 DEF Accepted, AtRest, Starting, StartSteps, TypeOK
  <2>2. CASE Rejected(b)
    <3>1. AtRest
      <4>1. ~Starting(b)
        BY <1>5, <2>2 DEF Heads, Starting, StartSteps
      <4>2. \A c \in Actors \ {b} : pc'[c] = pc[c]
        BY <2>2 DEF Rejected, TypeOK
      <4>. QED
        BY <4>1, <4>2 DEF AtRest, Starting
    <3>2. UNCHANGED <<full, due, accounts, handle, proc>>
      BY <1>5, <2>2 DEF Rejected, Heads
    <3>3. Running
      BY <3>2 DEF Running, Alive
    <3>. QED
      BY <1>1, <2>2, <3>1, <3>2, <3>3 DEF Rejected
  <2>. QED
    BY <1>5, <2>1, <2>2 DEF Heads
<1>6. ASSUME NEW b \in Callers, Cancel(b)
      PROVE  due' \/ Due(handle)' = accounts'
  <2>1. UNCHANGED <<full, due, accounts, handle>> /\ ~late /\ ~Starting(b)
    BY <1>6 DEF Cancel, backend
  <2>2. \A c \in Actors \ {b} : pc'[c] = pc[c]
    BY <1>6 DEF Cancel, Return, TypeOK
  <2>3. AtRest
    BY <2>1, <2>2 DEF AtRest, Starting
  <2>4. \A p \in Procs : /\ proc'[p].life = proc[p].life /\ proc'[p].hup = proc[p].hup
                         /\ proc'[p].loaded = proc[p].loaded
    BY <1>6 DEF Cancel, TypeOK, Process
  <2>5. Running
    BY <1>0, <2>1, <2>4 DEF Running, Alive
  <2>. QED
    BY <1>0, <1>1, <2>1, <2>3, <2>4, <2>5
<1>7. ASSUME NEW b \in Callers, Acquire(b) /\ Running
      PROVE  FALSE
  BY <1>0, <1>7, ProcsAssumption DEF Acquire
<1>8. ASSUME NEW b \in Callers, NEW f \in Args, RestartBackend(b, f)
      PROVE  due' \/ Due(handle)' = accounts'
  <2>1. UNCHANGED <<full, due, accounts, handle, proc, late>>
    BY <1>8 DEF RestartBackend, backend, runner, history
  <2>2. \A c \in Actors : Starting(c) => Starting(c)'
    BY <1>8 DEF RestartBackend, Starting, StartSteps, TypeOK
  <2>3. AtRest /\ Running
    BY <2>1, <2>2 DEF AtRest, Running, Alive
  <2>. QED
    BY <1>1, <2>1, <2>3
<1>9. CASE StopNoticed
  <2>1. UNCHANGED <<full, due, accounts, handle, proc, late>>
    BY <1>9 DEF StopNoticed, backend, history
  <2>2. \A c \in Actors : Starting(c) => Starting(c)'
    BY <1>9 DEF StopNoticed, WokenIdle, Starting, StartSteps, TypeOK
  <2>3. AtRest /\ Running
    BY <2>1, <2>2 DEF AtRest, Running, Alive
  <2>. QED
    BY <1>1, <2>1, <2>3
<1>10. CASE \/ \E u \in Users : StoreUser(u) \/ HandlerFails(u)
            \/ UNCHANGED vars
  <2>1. UNCHANGED <<full, due, accounts, handle, proc, late, pc>>
    BY <1>10 DEF StoreUser, HandlerFails, vars, backend, runner, actors, history
  <2>2. AtRest /\ Running
    BY <2>1 DEF AtRest, Running, Alive, Starting
  <2>. QED
    BY <1>1, <2>1, <2>2
<1>11. ASSUME NEW p \in Procs, SingBox(p) \/ Die(p)
       PROVE  due' \/ Due(handle)' = accounts'
  <2>1. /\ UNCHANGED <<full, due, accounts, handle, late, pc>>
        /\ \A q \in Procs : Alive(q)' => Alive(q) /\ Due(q)' = Due(q)
    BY <1>11, ProcessSteps DEF backend, actors
  <2>2. AtRest /\ Running
    BY <1>0, <2>1 DEF AtRest, Running, Starting
  <2>3. Due(handle)' = Due(handle)
    BY <1>0, <2>1 DEF Running
  <2>. QED
    BY <2>1, <2>2, <2>3 DEF ChangesAreDue
<1>. QED
  BY <1>2, <1>3, <1>4, <1>5, <1>6, <1>7, <1>8, <1>9, <1>10, <1>11, Cases

LEMMA UnmixedStep ==
    ASSUME TypeOK, WokenIdle, Unmixed, [Next]_vars
    PROVE  Unmixed'
<1> SUFFICES ASSUME Loading', NEW u \in Users
             PROVE  mixed'[u] \/ pending'[u] = NoChange
  BY DEF Unmixed
<1>1. ASSUME NEW v \in Users, NEW tags \in Requests, UpdateUser(v, tags)
      PROVE  mixed'[u] \/ pending'[u] = NoChange
  <2>1. Loading
    BY <1>1 DEF UpdateUser, actors, Loading
  <2>. QED
    BY <1>1, <2>1 DEF UpdateUser, Unmixed, TypeOK
<1>2. ASSUME NEW v \in Users, StoreUser(v) \/ HandlerFails(v)
      PROVE  mixed'[u] \/ pending'[u] = NoChange
  <2>1. Loading
    BY <1>2 DEF StoreUser, HandlerFails, actors, Loading
  <2>. QED
    BY <1>2, <2>1 DEF StoreUser, HandlerFails, history, Unmixed, TypeOK
<1>3. ASSUME UNCHANGED <<pending, mixed>>, \A a \in Actors : pc'[a] = "load" => pc[a] = "load"
      PROVE  mixed'[u] \/ pending'[u] = NoChange
  BY <1>3 DEF Unmixed, Loading
<1>4. ASSUME NEW a \in Actors, Start(a)
      PROVE  mixed'[u] \/ pending'[u] = NoChange
  <2>1. UNCHANGED <<pending, mixed>>
    BY <1>4 DEF Start, LoadInbound, Launch, Spawn, storage, history
  <2>2. \A b \in Actors : pc'[b] = "load" => pc[b] = "load"
    BY <1>4 DEF Start, LoadInbound, Launch, RaiseIn, Spawn, Return, TypeOK
  <2>. QED
    BY <1>3, <2>1, <2>2
<1>5. ASSUME NEW a \in Actors, Heads(a)
      PROVE  mixed'[u] \/ pending'[u] = NoChange
  <2>1. UNCHANGED pending
    BY <1>5 DEF Heads, storage
  <2>2. CASE \E f \in Files : Accepted(a, f)
    BY <2>1, <2>2 DEF Accepted
  <2>3. CASE Rejected(a)
    BY <1>3, <2>1, <2>3 DEF Rejected, TypeOK
  <2>. QED
    BY <1>5, <2>2, <2>3 DEF Heads
<1>6. ASSUME NEW a \in Callers,
             (Acquire(a) /\ Running) \/ Cancel(a) \/ \E f \in Args : RestartBackend(a, f)
      PROVE  mixed'[u] \/ pending'[u] = NoChange
  <2>1. UNCHANGED <<pending, mixed>>
    BY <1>6 DEF Acquire, Cancel, RestartBackend, storage, history
  <2>2. \A b \in Actors : pc'[b] = "load" => pc[b] = "load"
    BY <1>6 DEF Acquire, Cancel, Return, RestartBackend, TypeOK
  <2>. QED
    BY <1>3, <2>1, <2>2
<1>7. CASE StopNoticed
  BY <1>3, <1>7 DEF StopNoticed, storage, history, TypeOK
<1>8. CASE UpdateUsers \/ UNCHANGED vars
  BY <1>3, <1>8 DEF UpdateUsers, vars, storage, actors, history
<1>9. CASE \E p \in Procs : SingBox(p) \/ Die(p)
  BY <1>3, <1>9, ProcessSteps DEF storage, actors
<1>. QED
  BY <1>1, <1>2, <1>4, <1>5, <1>6, <1>7, <1>8, <1>9, Cases

\* What a step of the handlers of a user does to what _config should have.
LEMMA AgreementUpdate ==
    ASSUME TypeOK, Agreement, NEW v \in Users, NEW tags \in Requests, UpdateUser(v, tags)
    PROVE  Agreement'
<1> SUFFICES ASSUME ~cut', claimed' = conf', NEW u \in Users, ~mixed'[u], NEW t \in conf'
             PROVE  /\ u \in accounts'[t] => t \in Meant(u)'
                    /\ t \in Meant(u)' => Unread(t)' \/ u \in accounts'[t]
  BY DEF Agreement, Agrees
<1> DEFINE new == tags \cap claimed
           old == db[v] \cap claimed
           popped == PopUser(accounts, v, old \ new)
<1>1. ~cut /\ claimed = conf /\ t \in conf /\ t \in Tags
  BY FilesAssumption DEF UpdateUser, TypeOK
<1>2. ~mixed[u] /\ (u = v => ~Loading)
  BY DEF UpdateUser, TypeOK
<1>3. Unread(t)' <=> Unread(t)
  BY DEF UpdateUser, actors, Unread
<1>4. /\ u \in accounts[t] => t \in Meant(u)
      /\ t \in Meant(u) => Unread(t) \/ u \in accounts[t]
  BY <1>1, <1>2 DEF Agreement, Agrees
<1>5. popped[t] = IF t \in old \ new THEN accounts[t] \ {v} ELSE accounts[t]
  BY <1>1 DEF PopUser
<1>6. accounts'[t] = IF t \in new \ old THEN popped[t] \cup {v} ELSE popped[t]
  <2>1. accounts' = AppendUser(popped, v, new \ old)
    BY DEF UpdateUser
  <2>. QED
    BY <1>1, <2>1 DEF AppendUser
<1>7. CASE u # v
  <2>1. Meant(u)' = Meant(u)
    BY <1>7 DEF UpdateUser, Meant, TypeOK
  <2>. QED
    BY <1>3, <1>4, <1>5, <1>6, <1>7, <2>1
<1>8. CASE u = v
  <2>1. ~Unread(t)
    BY <1>2, <1>8 DEF Unread, Loading
  <2>2. pending[v] = NoChange /\ pending' = [pending EXCEPT ![v] = new]
    BY DEF UpdateUser
  <2>3. pending'[v] = new
    BY <2>2 DEF TypeOK
  <2>4. new # NoChange
    <3>1. new \in SUBSET Tags
      BY DEF TypeOK
    <3>. QED
      BY <3>1, NoChangeAssumption
  <2>5. Meant(v)' = new /\ Meant(v) = db[v]
    BY <2>2, <2>3, <2>4 DEF Meant
  <2>6. (u \in accounts[t]) <=> (t \in db[v])
    BY <1>4, <1>8, <2>1, <2>5
  <2>7. (t \in db[v] <=> t \in old) /\ (t \in tags <=> t \in new)
    BY <1>1
  <2>. QED
    BY <1>3, <1>5, <1>6, <1>8, <2>1, <2>5, <2>6, <2>7
<1>. QED
  BY <1>7, <1>8

LEMMA AgreementLoad ==
    ASSUME TypeOK, Unmixed, Agreement, NEW b \in Actors, LoadInbound(b)
    PROVE  Agreement'
<1> SUFFICES ASSUME ~cut', claimed' = conf', NEW u \in Users, ~mixed'[u], NEW t \in conf'
             PROVE  /\ u \in accounts'[t] => t \in Meant(u)'
                    /\ t \in Meant(u)' => Unread(t)' \/ u \in accounts'[t]
  BY DEF Agreement, Agrees
<1>1. ~cut /\ claimed = conf /\ t \in conf /\ t \in Tags /\ ~mixed[u]
  BY FilesAssumption DEF LoadInbound, history, TypeOK
<1>2. /\ u \in accounts[t] => t \in Meant(u)
      /\ t \in Meant(u) => Unread(t) \/ u \in accounts[t]
  BY <1>1 DEF Agreement, Agrees
<1>3. pc[b] = "load"
  BY DEF LoadInbound
<1>4. Meant(u) = db[u] /\ Meant(u)' = db[u]
  BY <1>1, <1>3 DEF Unmixed, Loading, Meant, LoadInbound, storage
<1>5. PICK s \in todo[b] :
          /\ accounts' = [accounts EXCEPT ![s] = @ \cup (IF s \in conf THEN Stored({s})[s] ELSE {})]
          /\ todo' = [todo EXCEPT ![b] = @ \ {s}]
          /\ pc' = [pc EXCEPT ![b] = IF todo[b] = {s} THEN "policies" ELSE "load"]
  BY DEF LoadInbound
<1>6. todo'[b] = todo[b] \ {s} /\ pc'[b] = IF todo[b] = {s} THEN "policies" ELSE "load"
  BY <1>5 DEF TypeOK
<1>7. \A a \in Actors \ {b} : pc'[a] = pc[a] /\ todo'[a] = todo[a]
  BY <1>5 DEF TypeOK
<1>8. t # s /\ Unread(t) => Unread(t)'
  BY <1>6, <1>7 DEF Unread
<1>9. CASE t = s
  <2>1. Stored({t})[t] = {w \in Users : t \in db[w]}
    BY <1>1 DEF Stored
  <2>2. accounts'[t] = accounts[t] \cup {w \in Users : t \in db[w]}
    BY <1>1, <1>5, <1>9, <2>1 DEF TypeOK, Accounts
  <2>. QED
    BY <1>2, <1>4, <2>2
<1>10. CASE t # s
  <2>1. accounts'[t] = accounts[t]
    BY <1>1, <1>5, <1>10 DEF TypeOK, Accounts
  <2>. QED
    BY <1>2, <1>4, <1>8, <1>10, <2>1
<1>. QED
  BY <1>9, <1>10

LEMMA AgreementStep ==
    ASSUME TypeOK, WokenIdle, Unmixed, Agreement, [Next]_vars
    PROVE  Agreement'
<1>1. ASSUME UNCHANGED <<conf, accounts, mixed>>, ~cut' => ~cut,
             claimed' = claimed \/ claimed' = {},
             \A u \in Users : mixed[u] \/ Meant(u)' = Meant(u),
             \A t : Unread(t)' <=> Unread(t)
      PROVE  Agreement'
  <2> SUFFICES ASSUME ~cut', claimed' = conf', NEW u \in Users, ~mixed'[u], NEW t \in conf'
               PROVE  /\ u \in accounts'[t] => t \in Meant(u)'
                      /\ t \in Meant(u)' => Unread(t)' \/ u \in accounts'[t]
    BY DEF Agreement, Agrees
  <2>1. claimed = conf /\ ~cut /\ ~mixed[u]
    BY <1>1
  <2>2. /\ u \in accounts[t] => t \in Meant(u)
        /\ t \in Meant(u) => Unread(t) \/ u \in accounts[t]
    BY <1>1, <2>1 DEF Agreement, Agrees
  <2>. QED
    BY <1>1, <2>1, <2>2
<1>2. ASSUME NEW b \in Actors, \A a \in Actors \ {b} : pc'[a] = pc[a] /\ todo'[a] = todo[a],
             pc[b] # "load", pc'[b] # "load"
      PROVE  \A t : Unread(t)' <=> Unread(t)
  BY <1>2 DEF Unread
<1>3. UNCHANGED storage => \A u \in Users : Meant(u)' = Meant(u)
  BY DEF storage, Meant
<1>4. UNCHANGED <<pc, todo>> => \A t : Unread(t)' <=> Unread(t)
  BY DEF Unread
<1>5. ASSUME NEW v \in Users, StoreUser(v)
      PROVE  Agreement'
  <2>1. \A u \in Users : Meant(u)' = Meant(u)
    BY <1>5 DEF StoreUser, Meant, TypeOK
  <2>. QED
    BY <1>1, <1>4, <1>5, <2>1 DEF StoreUser, backend, actors, history
<1>6. ASSUME NEW v \in Users, HandlerFails(v)
      PROVE  Agreement'
  <2> SUFFICES ASSUME ~cut', claimed' = conf', NEW u \in Users, ~mixed'[u], NEW t \in conf'
               PROVE  /\ u \in accounts'[t] => t \in Meant(u)'
                      /\ t \in Meant(u)' => Unread(t)' \/ u \in accounts'[t]
    BY DEF Agreement, Agrees
  <2>1. ~mixed[u] /\ u # v /\ ~cut
    BY <1>6 DEF HandlerFails, TypeOK
  <2>2. UNCHANGED <<conf, claimed, accounts, pc, todo>>
    BY <1>6 DEF HandlerFails, backend, actors
  <2>3. Meant(u)' = Meant(u)
    BY <1>6, <2>1 DEF HandlerFails, Meant, TypeOK
  <2>4. /\ u \in accounts[t] => t \in Meant(u)
        /\ t \in Meant(u) => Unread(t) \/ u \in accounts[t]
    BY <2>1, <2>2 DEF Agreement, Agrees
  <2>. QED
    BY <1>4, <2>2, <2>3, <2>4
<1>7. ASSUME NEW b \in Actors, Launch(b) \/ Spawn(b)
      PROVE  Agreement'
  <2>1. UNCHANGED <<conf, accounts, mixed, cut, claimed, storage>>
    BY <1>7 DEF Launch, Spawn, backend, history
  <2>2. \A a \in Actors \ {b} : pc'[a] = pc[a] /\ todo'[a] = todo[a]
    BY <1>7 DEF Launch, Spawn, RaiseIn, Return, TypeOK
  <2>3. pc[b] # "load" /\ pc'[b] # "load"
    BY <1>7 DEF Launch, Spawn, RaiseIn, Return, TypeOK
  <2>. QED
    BY <1>1, <1>2, <1>3, <2>1, <2>2, <2>3
<1>8. ASSUME NEW b \in Actors, NEW f \in Files, Accepted(b, f)
      PROVE  Agreement'
  <2> SUFFICES ASSUME NEW u \in Users, NEW t \in f
               PROVE  Unread(t)' /\ u \notin accounts'[t]
    BY <1>8 DEF Agreement, Agrees, Accepted
  <2>1. t \in Tags
    BY FilesAssumption
  <2>2. pc'[b] = "load" /\ todo'[b] = f
    BY <1>8 DEF Accepted, TypeOK
  <2>3. accounts'[t] = {}
    BY <1>8, <2>1 DEF Accepted, NoAccounts
  <2>. QED
    BY <2>2, <2>3 DEF Unread
<1>9. ASSUME NEW b \in Actors, Heads(b), Rejected(b)
      PROVE  Agreement'
  <2>1. \A a \in Actors \ {b} : pc'[a] = pc[a] /\ todo'[a] = todo[a]
    BY <1>9 DEF Rejected, TypeOK
  <2>2. pc[b] # "load" /\ pc'[b] # "load"
    BY <1>9 DEF Heads, Rejected, TypeOK
  <2>. QED
    BY <1>1, <1>2, <1>3, <1>9, <2>1, <2>2 DEF Heads, Rejected
<1>10. ASSUME NEW b \in Callers, (Acquire(b) /\ Running) \/ \E f \in Args : RestartBackend(b, f)
       PROVE  Agreement'
  <2>1. UNCHANGED <<conf, accounts, mixed, cut, claimed, storage, todo>>
    BY <1>10 DEF Acquire, RestartBackend, backend, history
  <2>2. b \in Actors /\ \A a \in Actors \ {b} : pc'[a] = pc[a] /\ todo'[a] = todo[a]
    BY <1>10, <2>1 DEF Acquire, RestartBackend, Actors, TypeOK
  <2>3. pc[b] # "load" /\ pc'[b] # "load"
    BY <1>10, <2>2 DEF Acquire, RestartBackend, TypeOK
  <2>. QED
    BY <1>1, <1>2, <1>3, <2>1, <2>2, <2>3
<1>11. ASSUME NEW b \in Callers, Cancel(b)
       PROVE  Agreement'
  <2>1. CASE cut'
    BY <2>1 DEF Agreement
  <2>2. CASE ~cut'
    <3>1. UNCHANGED <<conf, accounts, mixed, cut, claimed, storage>> /\ pc[b] # "load"
      BY <1>11, <2>2 DEF Cancel, backend, TypeOK
    <3>2. b \in Actors /\ \A a \in Actors \ {b} : pc'[a] = pc[a] /\ todo'[a] = todo[a]
      BY <1>11 DEF Cancel, Return, Actors, TypeOK
    <3>3. pc[b] # "load" /\ pc'[b] # "load"
      BY <1>11, <3>1, <3>2 DEF Cancel, Return, TypeOK
    <3>. QED
      BY <1>1, <1>2, <1>3, <3>1, <3>2, <3>3
  <2>. QED
    BY <2>1, <2>2
<1>12. CASE StopNoticed
  <2>1. UNCHANGED <<conf, accounts, mixed, cut, claimed, storage, todo>>
    BY <1>12 DEF StopNoticed, backend, history
  <2>2. /\ "watchdog" \in Actors
        /\ \A a \in Actors \ {"watchdog"} : pc'[a] = pc[a] /\ todo'[a] = todo[a]
    BY <1>12, <2>1 DEF StopNoticed, Actors, TypeOK
  <2>3. pc["watchdog"] # "load" /\ pc'["watchdog"] # "load"
    BY <1>12, <2>2 DEF StopNoticed, WokenIdle, TypeOK
  <2>. QED
    BY <1>1, <1>2, <1>3, <2>1, <2>2, <2>3
<1>13. CASE UpdateUsers \/ UNCHANGED vars
  <2>1. UNCHANGED <<conf, accounts, mixed, cut, claimed, storage, pc, todo>>
    BY <1>13 DEF UpdateUsers, vars, backend, history, actors
  <2>. QED
    BY <1>1, <1>3, <1>4, <2>1
<1>14. CASE \E p \in Procs : SingBox(p) \/ Die(p)
  <2>1. UNCHANGED <<conf, accounts, mixed, cut, claimed, storage, pc, todo>>
    BY <1>14, ProcessSteps DEF backend, actors
  <2>. QED
    BY <1>1, <1>3, <1>4, <2>1
<1>. QED
  BY <1>5, <1>6, <1>7, <1>8, <1>9, <1>10, <1>11, <1>12, <1>13, <1>14, AgreementUpdate,
     AgreementLoad, Cases DEF Start, Heads

-----------------------------------------------------------------------------
(***************************************************************************)
(* The theorems.                                                           *)
(***************************************************************************)
LEMMA Inductive == Init => IInv
<1> SUFFICES ASSUME Init PROVE IInv
  OBVIOUS
<1>1. TypeOK
  BY TypesInit
<1>2. PICK f \in Files, p \in Procs :
          /\ db \in [Users -> Requests]
          /\ pending = [u \in Users |-> NoChange]
          /\ conf = f /\ accounts = Stored(f) /\ full = Stored(f)
          /\ claimed = f /\ handle = p
          /\ proc = [q \in Procs |->
                IF q = p
                THEN [life |-> "up", loaded |-> Stored(f), hup |-> FALSE, logged |-> TRUE]
                ELSE [life |-> "dead", loaded |-> NoAccounts, hup |-> FALSE, logged |-> FALSE]]
          /\ woken = FALSE
          /\ pc = [a \in Actors |-> "idle"]
  BY DEF Init
<1>3. \A a \in Actors : pc[a] = "idle" /\ ~Starting(a) /\ ~Holding(a)
  BY <1>2 DEF Starting, StartSteps, Holding
<1>4. "watchdog" \in Actors /\ \A a \in Callers : a \in Actors
  BY DEF Actors
<1>5. WokenIdle /\ OneHolder /\ FileReady
  BY <1>2, <1>3, <1>4 DEF WokenIdle, OneHolder, FileReady
<1>6. Planned
  BY <1>2, <1>3, <1>4 DEF Planned, Serves
<1>7. ChangesAreDue
  BY <1>2 DEF ChangesAreDue, Due
<1>8. Unmixed
  BY <1>3 DEF Unmixed, Loading
<1>9. Agreement
  <2> SUFFICES ASSUME NEW u \in Users, NEW t \in f
               PROVE  ~Unread(t) /\ (u \in accounts[t] <=> t \in Meant(u))
    BY <1>2 DEF Agreement, Agrees
  <2>1. t \in Tags
    BY FilesAssumption
  <2>. QED
    BY <1>2, <1>3, <2>1 DEF Unread, Meant, Stored
<1>. QED
  BY <1>1, <1>5, <1>6, <1>7, <1>8, <1>9 DEF IInv

LEMMA InvariantStep == IInv /\ [Next]_vars => IInv'
  BY TypesStep, WokenStep, HolderStep, PlannedStep, FileReadyStep,
     ChangesAreDueStep, UnmixedStep, AgreementStep DEF IInv

\* The variables have their types; RestartBackend calls exclude each other; the
\* file has what _config has unless a start is on the way to write it; and what
\* a start has still to read is all that _config lacks (singbox_backend.py:61-66,
\* 83-86,99-130).
THEOREM Inductive_Spec == Spec => []IInv
  BY Inductive, InvariantStep, PTL DEF Spec

\* When no start reads the users, _config has exactly those the storage has for
\* its inbounds, however starts overlap; apart from users whose handler failed
\* or met a start, and from the time after a start was cancelled while it read
\* (singbox_backend.py:83-86,132-140).
THEOREM EverybodyIsConfigured == Spec => []ConfigAgrees
<1>1. IInv => ConfigAgrees
  <2> SUFFICES ASSUME IInv, ~cut, ~Loading, claimed = conf, NEW u \in Users, pending[u] = NoChange,
                      ~mixed[u], NEW t \in conf
               PROVE  u \in accounts[t] <=> t \in db[u]
    BY DEF IInv, ConfigAgrees
  <2>1. ~Unread(t)
    BY DEF Loading, Unread
  <2>. QED
    BY <2>1 DEF IInv, Agreement, Agrees, Meant
<1>. QED
  BY <1>1, Inductive_Spec, PTL

\* No change of _config is forgotten: either the update event is set, or the
\* process has the users, or has been told to read them; unless a start that
\* raised or was cancelled has changed _config behind the process
\* (singbox_backend.py:61-66).
THEOREM NoChangeIsForgotten == Spec => []ChangesAreDue
<1>1. IInv => ChangesAreDue
  BY DEF IInv
<1>. QED
  BY <1>1, Inductive_Spec, PTL

\* RestartBackend calls alone never leave a process behind, however they
\* overlap, fail or are cancelled (_runner.py:35-36,53-55).
THEOREM OneProcessServes == Spec => []PlannedOneProcess
<1>1. IInv => PlannedOneProcess
  BY DEF IInv, Planned, Serves, PlannedOneProcess
<1>. QED
  BY <1>1, Inductive_Spec, PTL
=============================================================================

----------------------- MODULE HysteriaBackendProofs -----------------------
(***************************************************************************)
(* Of HysteriaBackend, for any users, keys, calls and faults: whom         *)
(* hysteria lets in, and that who is connected was let in.                 *)
(***************************************************************************)
EXTENDS HysteriaBackend, TLAPS

-----------------------------------------------------------------------------
(***************************************************************************)
(* The inductive invariant.                                                *)
(***************************************************************************)
\* A job adds a password only if the row it writes has one, and always if it removes
\* the old one before.
JobOK ==
    \A u \in Ids :
        /\ job[u] # NoJob /\ job[u].add => PasswordsBy(job[u].row) # {}
        /\ At(u, "remove") \/ At(u, "kick") => (PasswordsBy(job[u].row) # {} => job[u].add)

\* The passwords of u are among those its row has, or will have when the handler
\* that works on it is done.
NoStranger(u) ==
    /\ job[u] = NoJob => PasswordsOf(u) \subseteq PasswordsBy(rows[u])
    /\ At(u, "remove") => PasswordsOf(u) \subseteq {job[u].old}
    /\ At(u, "kick") => PasswordsOf(u) = {}
    /\ At(u, "add") \/ At(u, "write") => PasswordsOf(u) \subseteq PasswordsBy(job[u].row)

\* The password of u's row is there, or the handler still adds it.
NotMissing(u) ==
    /\ job[u] = NoJob => PasswordsBy(rows[u]) \subseteq PasswordsOf(u)
    /\ At(u, "add") => job[u].add \/ PasswordsBy(job[u].row) \subseteq PasswordsOf(u)
    /\ At(u, "write") => PasswordsBy(job[u].row) \subseteq PasswordsOf(u)

Strange == {"window", "stripped", "failed"}

Absent == {"window", "failed", "reboot"}

\* Only a process that is up has sessions, and a call that is between stop() and the
\* end of start() has none: it is the only one that starts a process.
ProcessOK ==
    /\ proc # "up" => sessions = {}
    /\ \A c \in Callers : Within(c) => proc = "none"

UserOK(u) ==
    /\ cause[u] \cap Strange = {} => NoStranger(u)
    /\ cause[u] \cap Absent = {} => NotMissing(u)

IInv ==
    /\ TypeOK
    /\ JobOK
    /\ \A u \in Ids : UserOK(u)
    /\ ProcessOK
    /\ SessionsAreUsers

-----------------------------------------------------------------------------
(***************************************************************************)
(* Types.                                                                  *)
(***************************************************************************)
LEMMA BlameType ==
    ASSUME TypeOK, NEW S, NEW why \in {"window", "stripped", "failed", "reboot"}
    PROVE  /\ Blame(S, why) \in [Ids -> SUBSET {"window", "stripped", "failed", "reboot"}]
           /\ \A u \in Ids : Blame(S, why)[u] = IF u \in S THEN cause[u] \cup {why} ELSE cause[u]
  BY DEF Blame, TypeOK

\* What a request gives its handler to do.
LEMMA JobType ==
    ASSUME TypeOK, NEW u \in Ids, NEW k \in Keys, NEW want \in Wants, UpdateUser(u, k, want)
    PROVE  \E remove \in BOOLEAN, old_key \in Keys, add \in BOOLEAN, row \in Row \cup {NoRow} :
              Begin(u, remove, old_key, add, row)
<1>1. /\ rows[u] # NoRow => rows[u].key \in Keys
      /\ Has(u) \in BOOLEAN /\ Wanted(want) \in BOOLEAN
      /\ [key |-> k, on |-> Wanted(want)] \in Row
  BY DEF TypeOK, Row, Has, Wanted
<1>2. CASE NewUser(u, k, want)
  BY <1>1, <1>2 DEF NewUser
<1>3. CASE DropUser(u, want)
  BY <1>1, <1>3 DEF DropUser
<1>4. CASE SameIdentity(u, k, want)
  BY <1>1, <1>4 DEF SameIdentity
<1>5. CASE NewIdentity(u, k, want)
  BY <1>1, <1>5 DEF NewIdentity
<1>. QED
  BY <1>2, <1>3, <1>4, <1>5 DEF UpdateUser

LEMMA JobStart ==
    ASSUME TypeOK, NEW u \in Ids, NEW k \in Keys, NEW want \in Wants, UpdateUser(u, k, want)
    PROVE  /\ job'[u].add => PasswordsBy(job'[u].row) # {}
           /\ At(u, "remove")' => (PasswordsBy(job'[u].row) # {} => job'[u].add)
           /\ ~At(u, "kick")'
<1>1. /\ job \in [Ids -> Job \cup {NoJob}]
      /\ want = "others" => ~Wanted(want)
      /\ [key |-> k, on |-> Wanted(want)] # NoRow
  <2>1. Wanted(want) \in BOOLEAN
    BY DEF Wanted, TypeOK
  <2>2. [key |-> k, on |-> Wanted(want)] \in Row
    BY <2>1 DEF Row
  <2>. QED
    BY <2>2, NoneAssumption DEF TypeOK, Wanted
<1>2. CASE NewUser(u, k, want)
  BY <1>1, <1>2 DEF NewUser, Begin, PasswordsBy, At
<1>3. CASE DropUser(u, want)
  BY <1>1, <1>3 DEF DropUser, Begin, PasswordsBy, At
<1>4. CASE SameIdentity(u, k, want)
  BY <1>1, <1>4 DEF SameIdentity, Begin, PasswordsBy, At
<1>5. CASE NewIdentity(u, k, want)
  BY <1>1, <1>5 DEF NewIdentity, Begin, PasswordsBy, At
<1>. QED
  BY <1>2, <1>3, <1>4, <1>5 DEF UpdateUser

LEMMA TypesInit == Init => TypeOK /\ JobOK
<1> SUFFICES ASSUME Init PROVE TypeOK /\ JobOK
  OBVIOUS
<1>1. \A c \in Callers : ~Within(c)
  BY DEF Init, Idle, Within
<1>2. TypeOK
  <2>1. call \in [Callers -> [pc : {"idle", "wait", "cleanup", "configure", "spawn"},
                              config : Configs]]
    BY DEF Init, Idle, Configs
  <2>2. /\ durable \in BOOLEAN
        /\ calls \in 0..MaxCalls /\ faults \in 0..MaxFaults
    BY SettingsAssumption, BoundsAssumption DEF Init
  <2>. QED
    BY <1>1, <2>1, <2>2 DEF Init, TypeOK, Configs
<1>3. JobOK
  BY DEF Init, JobOK, At
<1>. QED
  BY <1>2, <1>3

\* What the handlers keep.
LEMMA HandlerTypes ==
    ASSUME TypeOK, JobOK, NEW u \in Ids, Handler(u) \/ HandlerFails(u)
    PROVE  TypeOK' /\ JobOK'
<1>1. job[u] # NoJob /\ job[u] \in Job
  BY DEF Handler, RemoveCall, RemovePassword, Kick, AddCall, WriteUser, At, HandlerFails, TypeOK
<1>2. ASSUME NEW stage \in {"remove", "kick", "add", "write"},
             job' = [job EXCEPT ![u].stage = stage],
             stage # "kick" \/ job[u].stage = "remove", stage # "remove"
      PROVE  job' \in [Ids -> Job \cup {NoJob}] /\ JobOK'
  <2>1. [job[u] EXCEPT !.stage = stage] \in Job
    BY <1>1 DEF Job
  <2>2. /\ job'[u].add = job[u].add /\ job'[u].row = job[u].row /\ job'[u].stage = stage
        /\ \A v \in Ids \ {u} : job'[v] = job[v]
    BY <1>1, <1>2 DEF Job, TypeOK
  <2>. QED
    BY <1>1, <1>2, <2>1, <2>2 DEF TypeOK, JobOK, At
<1>3. ASSUME job' = [job EXCEPT ![u] = NoJob]
      PROVE  job' \in [Ids -> Job \cup {NoJob}] /\ JobOK'
  BY <1>3 DEF TypeOK, JobOK, At
<1>4. Blame({u}, "failed") \in [Ids -> SUBSET {"window", "stripped", "failed", "reboot"}]
  BY BlameType
<1>5. CASE RemovePassword(u)
  BY <1>2, <1>5 DEF RemovePassword, At, Enter, TypeOK, store, restarts, process, Within
<1>6. CASE Kick(u)
  BY <1>2, <1>3, <1>4, <1>6, ZenonT(60) DEF Kick, At, Enter, EndFailed, TypeOK, store, restarts, Within
<1>7. CASE AddCall(u)
  <2>1. job[u].add => <<u, job[u].row.key>> \in Ids \X Keys
    BY <1>1 DEF JobOK, PasswordsBy, Job, Row
  <2>. QED
    BY <1>2, <1>7, <2>1 DEF AddCall, At, Enter, TypeOK, store, restarts, process, Within
<1>8. CASE WriteUser(u)
  <2>1. job[u].row \in Row \cup {NoRow}
    BY <1>1 DEF Job
  <2>. QED
    BY <1>3, <1>8, <2>1 DEF WriteUser, TypeOK, restarts, process, Within
<1>9. CASE HandlerFails(u)
  <2>1. /\ job' = [job EXCEPT ![u] = NoJob] /\ cause' = Blame({u}, "failed")
        /\ faults' \in 0..MaxFaults /\ unkicked' \subseteq Ids
    BY <1>9, BoundsAssumption DEF HandlerFails, Fault, EndFailed, TypeOK
  <2>. QED
    BY <1>3, <1>4, <1>9, <2>1 DEF HandlerFails, TypeOK, store, restarts, Within
<1>. QED
  BY <1>5, <1>6, <1>7, <1>8, <1>9 DEF Handler, RemoveCall

\* What the calls keep.
LEMMA CallTypes ==
    ASSUME TypeOK, NEW c \in Callers, NEW config \in Configs,
           RestartBackend(c, config) \/ Restart(c) \/ CancelCall(c)
    PROVE  TypeOK'
<1>1. CASE RestartBackend(c, config)
  BY <1>1, BoundsAssumption
  DEF RestartBackend, TypeOK, store, handlers, process, Idle, Within
<1>2. CASE Stop(c)
  <2>1. \A d \in Callers : Within(d)' => d = c
    BY <1>2 DEF Stop, Enters, Locked, Within, TypeOK
  <2>2. rows' \in [Ids -> Row \cup {NoRow}]
    <3>1. \A u \in Ids : rows[u] # NoRow => [rows[u] EXCEPT !.on = FALSE] \in Row
      BY DEF TypeOK, Row
    <3>. QED
      BY <1>2, <3>1 DEF Stop, RemoveInbound, TypeOK
  <2>3. cause' \in [Ids -> SUBSET {"window", "stripped", "failed", "reboot"}]
    BY <1>2, BlameType DEF Stop, RemoveInbound, TypeOK
  <2>. QED
    BY <1>2, <2>1, <2>2, <2>3, ZenonT(60) DEF Stop, RemoveInbound, Enters, TypeOK
<1>3. CASE StopRaises(c)
  BY <1>3 DEF StopRaises, Raise, TypeOK, store, handlers, process, Idle, Within, Configs
<1>4. CASE StartSite(c)
  BY <1>4 DEF StartSite, TypeOK, store, handlers, process, Within
<1>5. CASE Configure(c)
  <2>1. call' = [call EXCEPT ![c].pc = "spawn"] \/ call' = [call EXCEPT ![c] = Idle]
    BY <1>5 DEF Configure, Raise
  <2>2. /\ call' \in [Callers -> [pc : {"idle", "wait", "cleanup", "configure", "spawn"},
                                  config : Configs]]
        /\ \A d \in Callers : Within(d)' => Within(d)
    BY <1>5, <2>1 DEF Configure, TypeOK, Idle, Within, Configs
  <2>. QED
    BY <1>5, <2>2 DEF Configure, TypeOK, handlers, process
<1>6. CASE Spawn(c)
  BY <1>6 DEF Spawn, TypeOK, store, handlers, Idle, Within, Configs
<1>7. CASE CancelCall(c)
  BY <1>7, BoundsAssumption
  DEF CancelCall, Fault, TypeOK, store, handlers, process, Idle, Within, Configs
<1>. QED
  BY <1>1, <1>2, <1>3, <1>4, <1>5, <1>6, <1>7 DEF Restart

\* What the process, its clients and the node's own end keep.
LEMMA ProcessTypes ==
    ASSUME TypeOK,
           \/ Process \/ Die \/ NodeRestart
           \/ \E u \in Ids, k \in Keys : Connect(u, k)
           \/ \E s \in sessions : Disconnect(s)
    PROVE  TypeOK'
<1>1. CASE Process
  BY <1>1 DEF Process, ComeUp, Occupied, OldEnds, TypeOK, store, handlers, restarts, Within
<1>2. CASE Die
  BY <1>2, BoundsAssumption DEF Die, Fault, TypeOK, store, handlers, restarts, Within
<1>3. CASE NodeRestart
  <2>1. \A c \in Callers : ~Within(c)'
    BY <1>3 DEF NodeRestart, Idle, Within
  <2>2. rows' \in [Ids -> Row \cup {NoRow}]
    BY <1>3 DEF NodeRestart, TypeOK
  <2>3. cause' \in [Ids -> SUBSET {"window", "stripped", "failed", "reboot"}]
    BY <1>3 DEF NodeRestart, TypeOK
  <2>4. /\ faults' \in 0..MaxFaults
        /\ serving' \in BOOLEAN /\ registered' \in BOOLEAN /\ hurt' \in BOOLEAN
    BY <1>3, BoundsAssumption DEF NodeRestart, Fault, TypeOK
  <2>5. call' \in [Callers -> [pc : {"idle", "wait", "cleanup", "configure", "spawn"},
                               config : Configs]]
    BY <1>3 DEF NodeRestart, Idle, Configs
  <2>. QED
    BY <1>3, <2>1, <2>2, <2>3, <2>4, <2>5 DEF NodeRestart, TypeOK
<1>4. CASE \E u \in Ids, k \in Keys : Connect(u, k)
  BY <1>4 DEF Connect, TypeOK, store, handlers, restarts, Within
<1>5. CASE \E s \in sessions : Disconnect(s)
  BY <1>5 DEF Disconnect, TypeOK, store, handlers, restarts, Within
<1>. QED
  BY <1>1, <1>2, <1>3, <1>4, <1>5

LEMMA TypesStep == TypeOK /\ JobOK /\ [Next]_vars => TypeOK' /\ JobOK'
<1> SUFFICES ASSUME TypeOK, JobOK, [Next]_vars PROVE TypeOK' /\ JobOK'
  OBVIOUS
<1>1. ASSUME NEW u \in Ids, NEW k \in Keys, NEW want \in Wants, UpdateUser(u, k, want)
      PROVE  TypeOK' /\ JobOK'
  <2>1. PICK remove \in BOOLEAN, old_key \in Keys, add \in BOOLEAN, row \in Row \cup {NoRow} :
            Begin(u, remove, old_key, add, row)
    BY <1>1, JobType
  <2>2. job' \in [Ids -> Job \cup {NoJob}]
    BY <2>1 DEF Begin, Job, TypeOK
  <2>3. cause' \in [Ids -> SUBSET {"window", "stripped", "failed", "reboot"}]
    BY <2>1, BlameType DEF Begin, TypeOK
  <2>4. TypeOK'
    BY <1>1, <2>2, <2>3 DEF UpdateUser, TypeOK, store, restarts, process, Within
  <2>5. \A v \in Ids \ {u} : job'[v] = job[v]
    BY <2>1 DEF Begin, TypeOK
  <2>6. JobOK'
    BY <1>1, <2>5, JobStart DEF JobOK, At
  <2>. QED
    BY <2>4, <2>6
<1>2. ASSUME NEW u \in Ids, Handler(u) \/ HandlerFails(u)
      PROVE  TypeOK' /\ JobOK'
  BY <1>2, HandlerTypes
<1>3. ASSUME NEW c \in Callers, NEW config \in Configs,
             RestartBackend(c, config) \/ Restart(c) \/ CancelCall(c)
      PROVE  TypeOK' /\ JobOK'
  <2>1. UNCHANGED job
    BY <1>3 DEF RestartBackend, Restart, Stop, StopRaises, StartSite, Configure, Spawn,
                CancelCall, handlers
  <2>. QED
    BY <1>3, <2>1, CallTypes DEF JobOK, At
<1>4. ASSUME \/ Process \/ Die \/ NodeRestart
             \/ \E u \in Ids, k \in Keys : Connect(u, k)
             \/ \E s \in sessions : Disconnect(s)
      PROVE  TypeOK' /\ JobOK'
  <2>1. UNCHANGED job \/ job' = [u \in Ids |-> NoJob]
    BY <1>4 DEF Process, ComeUp, Occupied, OldEnds, Die, NodeRestart, Connect, Disconnect,
                handlers
  <2>. QED
    BY <1>4, <2>1, ProcessTypes DEF JobOK, At
<1>5. CASE UNCHANGED vars
  BY <1>5 DEF vars, store, handlers, restarts, process, TypeOK, JobOK, At, Within
<1>. QED
  BY <1>1, <1>2, <1>3, <1>4, <1>5 DEF Next, Configs

\* The variables keep their types, and one RestartBackend call at a time is between
\* stop() and the end of start(), whatever is cancelled or raises.
THEOREM TypeCorrect == Spec => [](TypeOK /\ JobOK)
  BY TypesInit, TypesStep, PTL DEF Spec

-----------------------------------------------------------------------------
(***************************************************************************)
(* Passwords.                                                              *)
(***************************************************************************)
\* A user nothing was done to is as it was.
LEMMA Untouched ==
    ASSUME NEW u \in Ids, UserOK(u),
           job'[u] = job[u], rows'[u] = rows[u], PasswordsOf(u)' = PasswordsOf(u),
           cause[u] \subseteq cause'[u]
    PROVE  UserOK(u)'
<1>1. NoStranger(u)' = NoStranger(u)
  BY DEF NoStranger, At, PasswordsBy
<1>2. NotMissing(u)' = NotMissing(u)
  BY DEF NotMissing, At, PasswordsBy
<1>. QED
  BY <1>1, <1>2 DEF UserOK

\* What a handler is given to do, with what its user has.
LEMMA RequestStep ==
    ASSUME TypeOK, NEW u \in Ids, UserOK(u), NEW k \in Keys, NEW want \in Wants,
           UpdateUser(u, k, want)
    PROVE  UserOK(u)'
<1>1. /\ job[u] = NoJob /\ UNCHANGED <<users, rows, registered, durable>>
      /\ PasswordsOf(u)' = PasswordsOf(u)
      /\ rows[u] # NoRow => rows[u] \in Row
      /\ \A on \in BOOLEAN : [key |-> k, on |-> on] # NoRow
  <2>1. \A on \in BOOLEAN : [key |-> k, on |-> on] \in Row
    BY DEF Row
  <2>2. \A on \in BOOLEAN : [key |-> k, on |-> on] # NoRow
    BY <2>1, NoneAssumption
  <2>. QED
    BY <2>2 DEF UpdateUser, PasswordsOf, store, TypeOK
<1>2. /\ job'[u] # NoJob
      /\ cause'[u] = IF registered THEN cause[u] ELSE cause[u] \cup {"window"}
      /\ At(u, "remove")' => Has(u) /\ job'[u].old = rows[u].key
      /\ ~At(u, "kick")' /\ ~At(u, "write")'
  <2>1. PICK remove \in BOOLEAN, old_key \in Keys, add \in BOOLEAN, row \in Row \cup {NoRow} :
            Begin(u, remove, old_key, add, row)
    BY JobType
  <2>2. /\ job'[u] # NoJob
        /\ cause'[u] = IF registered THEN cause[u] ELSE cause[u] \cup {"window"}
        /\ ~At(u, "kick")' /\ ~At(u, "write")'
    <3>1. job'[u] = [stage |-> IF remove THEN "remove" ELSE "add", old |-> old_key,
                     add |-> add, row |-> row]
      BY <2>1 DEF Begin, TypeOK
    <3>2. job'[u] # NoJob
      BY <3>1, NoneAssumption DEF Job
    <3>3. cause'[u] = IF registered THEN cause[u] ELSE cause[u] \cup {"window"}
      BY <2>1 DEF Begin, Blame
    <3>. QED
      BY <3>1, <3>2, <3>3 DEF At
  <2>3. At(u, "remove")' => Has(u) /\ job'[u].old = rows[u].key
    BY DEF UpdateUser, NewUser, DropUser, SameIdentity, NewIdentity, Begin, At, TypeOK
  <2>. QED
    BY <2>2, <2>3
<1>3. ASSUME registered, At(u, "add")'
      PROVE  \/ PasswordsBy(rows[u]) = {}
             \/ PasswordsBy(job'[u].row) = PasswordsBy(rows[u])
  <2>1. CASE NewUser(u, k, want)
    BY <2>1 DEF NewUser, PasswordsBy
  <2>2. CASE DropUser(u, want)
    BY <1>3, <2>2 DEF DropUser, Begin, At, Has, PasswordsBy, TypeOK
  <2>3. CASE SameIdentity(u, k, want)
    <3>1. Has(u) => want = "hysteria2"
      BY <1>3, <2>3 DEF SameIdentity, Begin, At, TypeOK, Wants
    <3>2. CASE Has(u)
      <4>1. job'[u].row = [key |-> k, on |-> TRUE]
        BY <1>3, <2>3, <3>1, <3>2 DEF SameIdentity, Begin, TypeOK, Wanted
      <4>2. [key |-> k, on |-> TRUE] # NoRow
        BY <1>1
      <4>3. job'[u].row # NoRow /\ job'[u].row.key = k /\ job'[u].row.on
        BY <4>1, <4>2
      <4>4. rows[u] # NoRow /\ rows[u].key = k /\ rows[u].on
        BY <2>3, <3>2 DEF SameIdentity, Has
      <4>. QED
        BY <4>3, <4>4 DEF PasswordsBy
    <3>3. CASE ~Has(u)
      BY <1>3, <3>3 DEF Has, PasswordsBy
    <3>. QED
      BY <3>2, <3>3
  <2>4. CASE NewIdentity(u, k, want)
    BY <1>3, <2>4 DEF NewIdentity, Begin, At, Has, PasswordsBy, TypeOK
  <2>. QED
    BY <2>1, <2>2, <2>3, <2>4 DEF UpdateUser
<1>4. ASSUME registered, At(u, "add")', ~job'[u].add
      PROVE  PasswordsBy(job'[u].row) \subseteq PasswordsBy(rows[u])
  <2>1. CASE NewUser(u, k, want)
    BY <1>1, <1>4, <2>1 DEF NewUser, Begin, PasswordsBy, TypeOK
  <2>2. CASE DropUser(u, want)
    BY <2>2 DEF DropUser, Begin, PasswordsBy, TypeOK
  <2>3. CASE SameIdentity(u, k, want)
    <3>1. job'[u].row = [key |-> k, on |-> Wanted(want)] /\ (Wanted(want) => Has(u))
      BY <1>4, <2>3 DEF SameIdentity, Begin, TypeOK
    <3>2. CASE Wanted(want)
      <4>1. job'[u].row.key = k
        BY <3>1
      <4>. QED
        BY <2>3, <3>1, <3>2, <4>1 DEF SameIdentity, Has, PasswordsBy
    <3>3. CASE ~Wanted(want)
      BY <3>1, <3>3 DEF PasswordsBy
    <3>. QED
      BY <3>2, <3>3
  <2>4. CASE NewIdentity(u, k, want)
    BY <1>1, <1>4, <2>4 DEF NewIdentity, Begin, PasswordsBy, TypeOK
  <2>. QED
    BY <2>1, <2>2, <2>3, <2>4 DEF UpdateUser
<1>5. cause'[u] \cap Strange = {} => NoStranger(u)'
  <2> SUFFICES ASSUME cause'[u] \cap Strange = {} PROVE NoStranger(u)'
    OBVIOUS
  <2>1. registered /\ PasswordsOf(u)' \subseteq PasswordsBy(rows[u])
    BY <1>1, <1>2 DEF UserOK, NoStranger, Strange
  <2>2. At(u, "remove")' => PasswordsOf(u)' \subseteq {job'[u].old}
    BY <1>2, <2>1 DEF PasswordsBy, Has
  <2>3. At(u, "add")' => PasswordsOf(u)' \subseteq PasswordsBy(job'[u].row)
    BY <1>3, <2>1
  <2>. QED
    BY <1>2, <2>2, <2>3 DEF NoStranger, PasswordsBy
<1>6. cause'[u] \cap Absent = {} => NotMissing(u)'
  <2> SUFFICES ASSUME cause'[u] \cap Absent = {} PROVE NotMissing(u)'
    OBVIOUS
  <2>1. registered /\ PasswordsBy(rows[u]) \subseteq PasswordsOf(u)'
    BY <1>1, <1>2 DEF UserOK, NotMissing, Absent
  <2>. QED
    BY <1>2, <1>4, <2>1 DEF NotMissing, PasswordsBy
<1>. QED
  BY <1>5, <1>6 DEF UserOK

\* A handler's steps, for its own user.
LEMMA HandlerStep ==
    ASSUME TypeOK, JobOK, NEW u \in Ids, UserOK(u), Handler(u) \/ HandlerFails(u)
    PROVE  UserOK(u)'
<1>1. job[u] # NoJob /\ job[u] \in Job
  BY DEF Handler, RemoveCall, RemovePassword, Kick, AddCall, WriteUser, At, HandlerFails, TypeOK
<1>2. ASSUME NEW stage \in {"remove", "kick", "add", "write"}, Enter(u, stage)
      PROVE  /\ job'[u] # NoJob /\ job'[u].stage = stage /\ job'[u].row = job[u].row
             /\ job'[u].add = job[u].add
  <2>1. job'[u] = [job[u] EXCEPT !.stage = stage]
    BY <1>2 DEF Enter, TypeOK
  <2>2. job'[u] \in Job
    BY <1>1, <2>1 DEF Job
  <2>. QED
    BY <1>1, <2>1, <2>2, NoneAssumption DEF Job
<1>3. ASSUME EndFailed(u)
      PROVE  UserOK(u)'
  <2>1. "failed" \in cause'[u]
    BY <1>3 DEF EndFailed, Blame
  <2>. QED
    BY <2>1 DEF UserOK, Strange, Absent
<1>4. CASE RemovePassword(u)
  <2>1. At(u, "remove") /\ cause' = cause
    BY <1>4 DEF RemovePassword
  <2>2. PasswordsOf(u)' = PasswordsOf(u) \ {job[u].old}
    BY <1>4 DEF RemovePassword, PasswordsOf
  <2>3. cause'[u] \cap Strange = {} => PasswordsOf(u)' = {}
    BY <2>1, <2>2 DEF UserOK, NoStranger
  <2>4. (PasswordsBy(job[u].row) # {} => job[u].add) /\ At(u, "remove")
    BY <2>1 DEF JobOK
  <2>5. \/ At(u, "kick")' /\ ~At(u, "add")'
        \/ At(u, "add")' /\ ~At(u, "kick")'
    <3>1. CASE Enter(u, "kick")
      <4>1. job'[u] # NoJob /\ job'[u].stage = "kick"
        BY <1>2, <3>1
      <4>. QED
        BY <4>1 DEF At
    <3>2. CASE Enter(u, "add")
      BY <1>2, <3>2 DEF At
    <3>. QED
      BY <1>4, <3>1, <3>2 DEF RemovePassword
  <2>6. job'[u] # NoJob /\ job'[u].row = job[u].row /\ job'[u].add = job[u].add
        /\ ~At(u, "remove")' /\ ~At(u, "write")'
    <3>1. CASE Enter(u, "kick")
      BY <1>2, <3>1 DEF At
    <3>2. CASE Enter(u, "add")
      BY <1>2, <3>2 DEF At
    <3>. QED
      BY <1>4, <3>1, <3>2 DEF RemovePassword
  <2>. QED
    BY <2>3, <2>4, <2>5, <2>6 DEF UserOK, NoStranger, NotMissing, PasswordsBy
<1>5. CASE Kick(u)
  <2>1. CASE proc = "up"
    <3>1. /\ job'[u] # NoJob /\ At(u, "add")' /\ ~At(u, "remove")' /\ ~At(u, "write")'
          /\ ~At(u, "kick")'
          /\ job'[u].row = job[u].row /\ job'[u].add = job[u].add
      BY <1>2, <1>5, <2>1 DEF Kick, At
    <3>2. cause' = cause /\ PasswordsOf(u)' = PasswordsOf(u) /\ At(u, "kick")
      BY <1>5, <2>1 DEF Kick, PasswordsOf
    <3>3. PasswordsBy(job[u].row) # {} => job[u].add
      BY <3>2 DEF JobOK
    <3>. QED
      BY <3>1, <3>2, <3>3 DEF UserOK, NoStranger, NotMissing, PasswordsBy
  <2>2. CASE proc # "up"
    BY <1>3, <1>5, <2>2 DEF Kick
  <2>. QED
    BY <2>1, <2>2
<1>6. CASE AddCall(u)
  <2>1. At(u, "add") /\ cause' = cause
    BY <1>6 DEF AddCall
  <2>2. /\ job'[u] # NoJob /\ At(u, "write")' /\ ~At(u, "remove")' /\ ~At(u, "add")'
        /\ ~At(u, "kick")' /\ job'[u].row = job[u].row
    BY <1>2, <1>6 DEF AddCall, At
  <2>3. /\ job[u].add => PasswordsBy(job[u].row) = {job[u].row.key}
        /\ PasswordsBy(job[u].row) \subseteq Keys
    BY <1>1 DEF JobOK, PasswordsBy, Job, Row
  <2>4. PasswordsOf(u)' = PasswordsOf(u) \cup
                             (IF job[u].add THEN PasswordsBy(job[u].row) ELSE {})
    BY <1>6, <2>3 DEF AddCall, PasswordsOf
  <2>. QED
    BY <2>1, <2>2, <2>4 DEF UserOK, NoStranger, NotMissing, PasswordsBy
<1>7. CASE WriteUser(u)
  <2>1. /\ At(u, "write") /\ job'[u] = NoJob /\ rows'[u] = job[u].row
        /\ PasswordsOf(u)' = PasswordsOf(u)
        /\ cause'[u] = IF PasswordsOf(u) = PasswordsBy(job[u].row) THEN {} ELSE cause[u]
    BY <1>7 DEF WriteUser, PasswordsOf, TypeOK
  <2>. QED
    BY <2>1 DEF UserOK, NoStranger, NotMissing, PasswordsBy, At
<1>8. CASE HandlerFails(u)
  BY <1>3, <1>8 DEF HandlerFails
<1>. QED
  BY <1>4, <1>5, <1>6, <1>7, <1>8 DEF Handler, RemoveCall

\* A handler's steps leave the other users alone.
LEMMA OtherUser ==
    ASSUME TypeOK, NEW u \in Ids, NEW v \in Ids \ {u},
           \/ \E k \in Keys, want \in Wants : UpdateUser(u, k, want)
           \/ Handler(u) \/ HandlerFails(u)
    PROVE  /\ job'[v] = job[v] /\ rows'[v] = rows[v] /\ cause'[v] = cause[v]
           /\ PasswordsOf(v)' = PasswordsOf(v)
<1>1. CASE \E k \in Keys, want \in Wants : UpdateUser(u, k, want)
  <2>1. PICK k \in Keys, want \in Wants : UpdateUser(u, k, want)
    BY <1>1
  <2>2. PICK remove \in BOOLEAN, old_key \in Keys, add \in BOOLEAN, row \in Row \cup {NoRow} :
            Begin(u, remove, old_key, add, row)
    BY <2>1, JobType
  <2>. QED
    BY <2>1, <2>2 DEF UpdateUser, Begin, Blame, PasswordsOf, store, TypeOK
<1>2. CASE RemovePassword(u)
  BY <1>2 DEF RemovePassword, Enter, PasswordsOf, store, TypeOK
<1>3. CASE Kick(u)
  BY <1>3 DEF Kick, Enter, EndFailed, Blame, PasswordsOf, store, TypeOK
<1>4. CASE AddCall(u)
  BY <1>4 DEF AddCall, Enter, PasswordsOf, store, TypeOK
<1>5. CASE WriteUser(u)
  BY <1>5 DEF WriteUser, PasswordsOf, TypeOK
<1>6. CASE HandlerFails(u)
  BY <1>6 DEF HandlerFails, EndFailed, Blame, PasswordsOf, store, TypeOK
<1>. QED
  BY <1>1, <1>2, <1>3, <1>4, <1>5, <1>6 DEF Handler, RemoveCall

\* Every step, for every user: besides handlers and requests, a stop takes the inbound
\* from MemoryStorage's rows, and the node restarts.
LEMMA UsersStep ==
    ASSUME TypeOK, JobOK, \A u \in Ids : UserOK(u), [Next]_vars
    PROVE  \A u \in Ids : UserOK(u)'
<1>1. ASSUME UNCHANGED <<users, job, rows, cause>>
      PROVE  \A u \in Ids : UserOK(u)'
  BY <1>1, Untouched DEF PasswordsOf
<1>2. ASSUME NEW u \in Ids, NEW k \in Keys, NEW want \in Wants, UpdateUser(u, k, want)
      PROVE  \A v \in Ids : UserOK(v)'
  <2>1. UserOK(u)'
    BY <1>2, RequestStep
  <2>2. \A v \in Ids \ {u} : UserOK(v)'
    BY <1>2, OtherUser, Untouched
  <2>. QED
    BY <2>1, <2>2
<1>3. ASSUME NEW u \in Ids, Handler(u) \/ HandlerFails(u)
      PROVE  \A v \in Ids : UserOK(v)'
  <2>1. UserOK(u)'
    BY <1>3, HandlerStep
  <2>2. \A v \in Ids \ {u} : UserOK(v)'
    BY <1>3, OtherUser, Untouched
  <2>. QED
    BY <2>1, <2>2
<1>4. ASSUME NEW c \in Callers, Stop(c)
      PROVE  \A u \in Ids : UserOK(u)'
  <2>1. UNCHANGED <<users, job, durable>>
    BY <1>4 DEF Stop
  <2>2. CASE durable
    BY <1>1, <1>4, <2>1, <2>2 DEF Stop, RemoveInbound
  <2>3. CASE ~durable
    <3> SUFFICES ASSUME NEW u \in Ids PROVE UserOK(u)'
      OBVIOUS
    <3>1. /\ rows'[u] = IF rows[u] = NoRow THEN NoRow ELSE [rows[u] EXCEPT !.on = FALSE]
          /\ cause'[u] = IF rows[u] # NoRow /\ rows[u].on THEN cause[u] \cup {"stripped"}
                         ELSE cause[u]
      BY <1>4, <2>3 DEF Stop, RemoveInbound, Blame
    <3>2. PasswordsOf(u)' = PasswordsOf(u)
      BY <2>1 DEF PasswordsOf
    <3>3. PasswordsBy(rows[u])' = {}
      <4>1. CASE rows[u] = NoRow
        BY <3>1, <4>1 DEF PasswordsBy
      <4>2. CASE rows[u] # NoRow
        <5>1. rows[u] \in Row
          BY <4>2 DEF TypeOK
        <5>2. rows'[u].on = FALSE
          BY <3>1, <4>2, <5>1 DEF Row
        <5>. QED
          BY <5>2 DEF PasswordsBy
      <4>. QED
        BY <4>1, <4>2
    <3>4. NotMissing(u) => NotMissing(u)'
      BY <2>1, <3>2, <3>3 DEF NotMissing, At, PasswordsBy
    <3>5. CASE rows[u] # NoRow /\ rows[u].on
      BY <3>1, <3>4, <3>5 DEF UserOK, Strange, Absent
    <3>6. CASE ~(rows[u] # NoRow /\ rows[u].on)
      <4>1. PasswordsBy(rows[u]) = {}
        BY <3>6 DEF PasswordsBy
      <4>2. NoStranger(u) => NoStranger(u)'
        BY <2>1, <3>2, <3>3, <4>1 DEF NoStranger, At, PasswordsBy
      <4>. QED
        BY <3>1, <3>4, <3>6, <4>2 DEF UserOK
    <3>. QED
      BY <3>5, <3>6
  <2>. QED
    BY <2>2, <2>3 DEF TypeOK
<1>5. ASSUME NodeRestart
      PROVE  \A u \in Ids : UserOK(u)'
  <2> SUFFICES ASSUME NEW u \in Ids PROVE UserOK(u)'
    OBVIOUS
  <2>1. job'[u] = NoJob /\ PasswordsOf(u)' = {}
    BY <1>5 DEF NodeRestart, PasswordsOf
  <2>2. NoStranger(u)'
    BY <2>1 DEF NoStranger, At
  <2>3. PasswordsBy(rows[u])' = {} \/ "reboot" \in cause'[u]
    BY <1>5 DEF NodeRestart, PasswordsBy
  <2>. QED
    BY <2>1, <2>2, <2>3 DEF UserOK, NotMissing, At, Absent
<1>6. ASSUME NEW c \in Callers, NEW config \in Configs,
             \/ RestartBackend(c, config) \/ StopRaises(c) \/ StartSite(c) \/ Configure(c)
             \/ Spawn(c) \/ CancelCall(c)
      PROVE  \A u \in Ids : UserOK(u)'
  <2>1. UNCHANGED <<users, job, rows, cause>>
    BY <1>6 DEF RestartBackend, StopRaises, StartSite, Configure, Spawn, CancelCall, store,
                handlers
  <2>. QED
    BY <1>1, <2>1
<1>7. ASSUME \/ Process \/ Die \/ UNCHANGED vars
             \/ \E u \in Ids, k \in Keys : Connect(u, k)
             \/ \E s \in sessions : Disconnect(s)
      PROVE  \A u \in Ids : UserOK(u)'
  <2>1. UNCHANGED <<users, job, rows, cause>>
    BY <1>7 DEF Process, ComeUp, Occupied, OldEnds, Die, vars, Connect, Disconnect, store,
                handlers
  <2>. QED
    BY <1>1, <2>1
<1>. QED
  BY <1>2, <1>3, <1>4, <1>5, <1>6, <1>7 DEF Next, Restart, Configs

-----------------------------------------------------------------------------
(***************************************************************************)
(* The process and its clients.                                            *)
(***************************************************************************)
LEMMA ProcessStep ==
    ASSUME TypeOK, ProcessOK, [Next]_vars
    PROVE  ProcessOK'
<1>1. ASSUME NEW c \in Callers, Stop(c)
      PROVE  ProcessOK'
  BY <1>1 DEF Stop, ProcessOK
<1>2. ASSUME NEW c \in Callers, Spawn(c)
      PROVE  ProcessOK'
  <2>1. Within(c) /\ sessions' = {}
    BY <1>2 DEF Spawn, Within, ProcessOK
  <2>2. \A d \in Callers : ~Within(d)'
    BY <1>2, <2>1 DEF Spawn, Idle, Within, TypeOK
  <2>. QED
    BY <2>1, <2>2 DEF ProcessOK
<1>3. ASSUME NEW c \in Callers, StartSite(c) \/ Configure(c)
      PROVE  ProcessOK'
  <2>1. UNCHANGED <<proc, sessions>> /\ Within(c)
    BY <1>3 DEF StartSite, Configure, Within, process
  <2>. QED
    BY <2>1 DEF ProcessOK
<1>4. ASSUME NEW c \in Callers, NEW config \in Configs,
             RestartBackend(c, config) \/ StopRaises(c) \/ CancelCall(c)
      PROVE  ProcessOK'
  <2>1. UNCHANGED <<proc, sessions>>
    BY <1>4 DEF RestartBackend, StopRaises, CancelCall, process
  <2>2. \A d \in Callers : Within(d)' => Within(d)
    BY <1>4 DEF RestartBackend, StopRaises, CancelCall, Raise, Idle, Within, TypeOK
  <2>. QED
    BY <2>1, <2>2 DEF ProcessOK
<1>5. ASSUME Process \/ Die
      PROVE  ProcessOK'
  <2>1. UNCHANGED call
    BY <1>5 DEF Process, ComeUp, Occupied, OldEnds, Die, restarts
  <2>. QED
    BY <1>5, <2>1 DEF Process, ComeUp, Occupied, OldEnds, Die, ProcessOK, Within
<1>6. ASSUME \/ \E u \in Ids, k \in Keys : Connect(u, k)
             \/ \E s \in sessions : Disconnect(s)
      PROVE  ProcessOK'
  BY <1>6 DEF Connect, Disconnect, restarts, ProcessOK, Within
<1>7. CASE NodeRestart
  BY <1>7 DEF NodeRestart, ProcessOK, Idle, Within
<1>8. ASSUME NEW u \in Ids,
             \/ \E k \in Keys, want \in Wants : UpdateUser(u, k, want)
             \/ Handler(u) \/ HandlerFails(u)
      PROVE  ProcessOK'
  <2>1. UNCHANGED <<proc, call>> /\ (sessions = {} => sessions' = {})
    BY <1>8 DEF UpdateUser, Handler, RemoveCall, RemovePassword, Kick, AddCall, WriteUser,
                HandlerFails, restarts, process
  <2>. QED
    BY <2>1 DEF ProcessOK, Within
<1>9. CASE UNCHANGED vars
  BY <1>9 DEF vars, restarts, process, ProcessOK, Within
<1>. QED
  BY <1>1, <1>2, <1>3, <1>4, <1>5, <1>6, <1>7, <1>8, <1>9 DEF Next, Restart, Configs

LEMMA SessionsStep ==
    ASSUME TypeOK, JobOK, ProcessOK, SessionsAreUsers, [Next]_vars
    PROVE  SessionsAreUsers'
<1>. USE DEF SessionsAreUsers
<1>1. \A s \in sessions : s = <<s[1], s[2]>> /\ s[1] \in Ids
  BY DEF TypeOK
<1>2. ASSUME UNCHANGED <<users, job, sessions, unkicked>>
      PROVE  SessionsAreUsers'
  BY <1>2 DEF At
<1>3. ASSUME NEW u \in Ids, NEW k \in Keys, NEW want \in Wants, UpdateUser(u, k, want)
      PROVE  SessionsAreUsers'
  <2>1. UNCHANGED <<users, sessions, unkicked>> /\ job[u] = NoJob
    BY <1>3 DEF UpdateUser, process
  <2>2. \A v \in Ids \ {u} : job'[v] = job[v]
    BY <1>3, OtherUser
  <2>. QED
    BY <1>1, <2>1, <2>2 DEF At
<1>4. ASSUME NEW u \in Ids, Handler(u) \/ HandlerFails(u)
      PROVE  SessionsAreUsers'
  <2>1. \A v \in Ids \ {u} : At(v, "kick")' = At(v, "kick")
    BY <1>4, OtherUser DEF At
  <2>2. CASE RemovePassword(u)
    <3>1. At(u, "remove") /\ ~At(u, "kick")
      BY <2>2 DEF RemovePassword, At
    <3>2. <<u, job[u].old>> \in users => At(u, "kick")'
      <4>1. job[u] \in Job
        BY <3>1 DEF At, TypeOK
      <4>2. [job[u] EXCEPT !.stage = "kick"] \in Job
        BY <4>1 DEF Job
      <4>3. [job[u] EXCEPT !.stage = "kick"].stage = "kick"
        BY <4>1 DEF Job
      <4>. QED
        BY <2>2, <4>2, <4>3, NoneAssumption DEF RemovePassword, Enter, At, TypeOK
    <3>3. UNCHANGED <<sessions, unkicked>> /\ users' = users \ {<<u, job[u].old>>}
      BY <2>2 DEF RemovePassword, process
    <3>. QED
      BY <1>1, <2>1, <3>1, <3>2, <3>3
  <2>3. CASE Kick(u)
    <3>1. CASE proc = "up"
      BY <1>1, <2>1, <2>3, <3>1 DEF Kick
    <3>2. CASE proc # "up"
      BY <2>3, <3>2 DEF Kick, ProcessOK
    <3>. QED
      BY <3>1, <3>2
  <2>4. CASE AddCall(u) \/ WriteUser(u)
    <3>1. ~At(u, "kick") /\ UNCHANGED <<sessions, unkicked>> /\ users \subseteq users'
      BY <2>4 DEF AddCall, WriteUser, At, process
    <3>. QED
      BY <1>1, <2>1, <3>1
  <2>5. CASE HandlerFails(u)
    <3>1. /\ UNCHANGED <<users, sessions>> /\ unkicked \subseteq unkicked'
          /\ At(u, "kick") => u \in unkicked'
      BY <2>5 DEF HandlerFails, At
    <3>. QED
      BY <1>1, <2>1, <3>1
  <2>. QED
    BY <1>4, <2>2, <2>3, <2>4, <2>5 DEF Handler, RemoveCall
<1>5. ASSUME NEW u \in Ids, NEW k \in Keys, Connect(u, k)
      PROVE  SessionsAreUsers'
  BY <1>5 DEF Connect, handlers, At
<1>6. ASSUME NEW s \in sessions, Disconnect(s)
      PROVE  SessionsAreUsers'
  BY <1>6 DEF Disconnect, handlers, At
<1>7. ASSUME \/ \E c \in Callers : Stop(c)
             \/ Die \/ NodeRestart
      PROVE  SessionsAreUsers'
  BY <1>7 DEF Stop, Die, NodeRestart
<1>8. ASSUME NEW c \in Callers, NEW config \in Configs,
             \/ RestartBackend(c, config) \/ StopRaises(c) \/ StartSite(c) \/ Configure(c)
             \/ Spawn(c) \/ CancelCall(c)
      PROVE  SessionsAreUsers'
  <2>1. UNCHANGED <<users, job, sessions, unkicked>>
    BY <1>8 DEF RestartBackend, StopRaises, StartSite, Configure, Spawn, CancelCall, handlers,
                process
  <2>. QED
    BY <1>2, <2>1
<1>9. CASE Process \/ UNCHANGED vars
  <2>1. UNCHANGED <<users, job, sessions, unkicked>>
    BY <1>9 DEF Process, ComeUp, Occupied, OldEnds, vars, handlers, process
  <2>. QED
    BY <1>2, <2>1
<1>. QED
  BY <1>3, <1>4, <1>5, <1>6, <1>7, <1>8, <1>9 DEF Next, Restart, Configs

-----------------------------------------------------------------------------
LEMMA InvInit == Init => IInv
<1> SUFFICES ASSUME Init PROVE IInv
  OBVIOUS
<1>1. \A u \in Ids : UserOK(u)
  BY DEF Init, UserOK, NoStranger, NotMissing, PasswordsOf, PasswordsBy, At
<1>2. ProcessOK /\ SessionsAreUsers
  BY DEF Init, Idle, Within, ProcessOK, SessionsAreUsers
<1>. QED
  BY <1>1, <1>2, TypesInit DEF IInv

LEMMA InvStep == IInv /\ [Next]_vars => IInv'
  BY TypesStep, UsersStep, ProcessStep, SessionsStep DEF IInv

LEMMA Invariance == Spec => []IInv
  BY InvInit, InvStep, PTL DEF Spec

\* A password hysteria is told is good is the key of the user's row, which lists the
\* inbound, unless a handler of the user failed or ran while stop() had taken the
\* inbound away, or MemoryStorage lost it (hysteria2_backend.py:71-139).
THEOREM NobodyElseIsLetIn == Spec => []NoStrangers
<1>1. IInv => NoStrangers
  BY DEF IInv, UserOK, NoStranger, NoStrangers, Strange
<1>. QED
  BY <1>1, Invariance, PTL

\* A user whose row lists the inbound is let in, unless a handler of the user failed or
\* ran while the inbound was not registered, or the node restarted on SqliteStorage.
THEOREM EverybodyIsLetIn == Spec => []NobodyMissing
<1>1. IInv => NobodyMissing
  BY DEF IInv, UserOK, NotMissing, NobodyMissing, Absent
<1>. QED
  BY <1>1, Invariance, PTL

\* A client that is connected has a password that is good, or is about to be sent away,
\* unless the request to do so was cut short.
THEOREM RemovedUsersLeave == Spec => []SessionsAreUsers
  BY Invariance, PTL DEF IInv
=============================================================================

--------------------------- MODULE UserSyncProofs ---------------------------
(***************************************************************************)
(* Proofs about UserSync, for any users, handlers, tags and configurations *)
(* and any number of faults.                                               *)
(***************************************************************************)
EXTENDS UserSync, TLAPS

USE NameOfAssumption, OutsAssumption, ConfigsAssumption, RequestsAssumption,
    BadConfigAssumption, BatchesAssumption, MaxFaultsAssumption, NoRowAssumption,
    NoJobAssumption

(***************************************************************************)
(* Types.                                                                  *)
(***************************************************************************)
\* The parts of TypeOK a handler's step can disturb.
LEMMA BlameType ==
    ASSUME TypeOK, NEW S, NEW c \in Causes
    PROVE  Blame(S, c) \in [Ids -> Causes]
BY DEF TypeOK, Blame

LEMMA WorkType ==
    ASSUME TypeOK, NEW r \in RequestSet, NEW old \in Idents,
           NEW rem \in SUBSET Tags, NEW add \in SUBSET Tags
    PROVE  Work(r, old, rem, add) \in Job
BY DEF TypeOK, Work, Job, RequestSet

LEMMA RemovalType ==
    ASSUME NEW id \in Ids, NEW ident \in Idents, NEW tags \in SUBSET Tags
    PROVE  Removal(id, ident, tags) \in Job
BY DEF Removal, Job

LEMMA RowType ==
    ASSUME TypeOK, NEW u \in Ids, db[u] # NoRow
    PROVE  /\ db[u].ident \in Idents
           /\ db[u].tags \in SUBSET Tags
           /\ Hydrated(u) \in SUBSET Tags
BY DEF TypeOK, Row, Hydrated

LEMMA BeginType ==
    ASSUME TypeOK, NEW t \in Tasks, NEW j \in Job, Begin(t, j)
    PROVE  /\ job' \in [Tasks -> Job \cup {NoJob}] /\ cause' \in [Ids -> Causes]
           /\ span' \in [Tasks -> Span]
<1>1. job' \in [Tasks -> Job \cup {NoJob}] /\ cause' \in [Ids -> Causes]
  BY BlameType DEF TypeOK, Begin, Causes
<1>2. span' \in [Tasks -> Span]
  <2>1. j.uid \in Ids
    BY DEF Job
  <2>2. QED
    BY <2>1 DEF TypeOK, Begin, Shared, Span
<1>3. QED
  BY <1>1, <1>2

LEMMA UpdateUserType ==
    ASSUME TypeOK, NEW t \in Tasks, NEW r \in RequestSet, UpdateUser(t, r)
    PROVE  /\ job' \in [Tasks -> Job \cup {NoJob}] /\ cause' \in [Ids -> Causes]
           /\ span' \in [Tasks -> Span]
<1>0. r.id \in Ids /\ r.ident \in Idents /\ r.tags \in SUBSET Tags
  BY DEF RequestSet
<1>1. r.tags \cap inbounds \in SUBSET Tags
  BY <1>0
<1>2. CASE NewUser(t, r)
  BY <1>0, <1>1, <1>2, WorkType, BeginType DEF NewUser
<1>3. CASE DropUser(t, r)
  BY <1>0, <1>3, RowType, RemovalType, BeginType DEF DropUser
<1>4. CASE AbsentUser(r)
  BY <1>4 DEF AbsentUser, TypeOK
<1>5. CASE SameIdentity(t, r)
  <2>1. /\ Hydrated(r.id) \ r.tags \in SUBSET Tags
        /\ (r.tags \cap inbounds) \ Hydrated(r.id) \in SUBSET Tags
    BY <1>0, <1>5, RowType DEF SameIdentity
  <2>2. QED
    BY <1>0, <1>5, <2>1, WorkType, BeginType DEF SameIdentity
<1>6. CASE NewIdentity(t, r)
  BY <1>0, <1>1, <1>6, RowType, WorkType, BeginType DEF NewIdentity
<1>7. QED
  BY <1>2, <1>3, <1>4, <1>5, <1>6 DEF UpdateUser

LEMMA StreamType ==
    ASSUME TypeOK, NEW t \in Tasks
    PROVE  /\ IdleStream \in [pc : {"idle", "repop", "sweep"},
                              batch : SUBSET RequestSet, todo : SUBSET RequestSet,
                              stale : SUBSET Stored]
           /\ stream[t].todo \subseteq RequestSet
           /\ stream[t].stale \subseteq Stored
           /\ NoSpan \in Span
BY DEF TypeOK, IdleStream, NoSpan, Span

LEMMA JobType ==
    ASSUME TypeOK, NEW t \in Tasks, job[t] # NoJob
    PROVE  job[t] \in Job
BY DEF TypeOK

LEMMA AbortType ==
    ASSUME TypeOK, NEW t \in Tasks, Abort(t)
    PROVE  /\ job' \in [Tasks -> Job \cup {NoJob}]
           /\ stream' \in [Tasks -> [pc : {"idle", "repop", "sweep"},
                                     batch : SUBSET RequestSet,
                                     todo : SUBSET RequestSet,
                                     stale : SUBSET Stored]]
           /\ span' \in [Tasks -> Span]
BY StreamType DEF TypeOK, Abort

LEMMA CalledType ==
    ASSUME TypeOK, NEW t \in Tasks, job[t] # NoJob, NEW field, NEW tag,
           Called(t, field, tag)
    PROVE  /\ job' \in [Tasks -> Job \cup {NoJob}] /\ stream' = stream
           /\ span' \in [Tasks -> Span]
<1>1. job[t] \in Job
  BY JobType
<1>2. CASE field = "rem"
  BY <1>1, <1>2 DEF Called, TypeOK, Job
<1>3. CASE field # "rem"
  BY <1>1, <1>3 DEF Called, TypeOK, Job
<1>4. QED
  BY <1>2, <1>3

LEMMA ProcessGoneType ==
    ASSUME TypeOK, NEW A, ProcessGone(A)
    PROVE  /\ accounts' = {}
           /\ job' \in [Tasks -> Job \cup {NoJob}]
           /\ stream' \in [Tasks -> [pc : {"idle", "repop", "sweep"},
                                     batch : SUBSET RequestSet,
                                     todo : SUBSET RequestSet,
                                     stale : SUBSET Stored]]
           /\ span' \in [Tasks -> Span]
<1>1. span' \in [Tasks -> Span]
  <2>1. \A t \in Tasks : [span[t] EXCEPT !.kept = @ \cap inbounds'] \in Span
    BY DEF TypeOK, Span
  <2>2. QED
    BY <2>1, StreamType DEF ProcessGone
<1>2. QED
  BY <1>1, StreamType DEF TypeOK, ProcessGone

\* A call to xray.
LEMMA CallType ==
    ASSUME TypeOK, NEW t \in Tasks, RemoveCall(t) \/ AddCall(t)
    PROVE  TypeOK'
<1> DEFINE Streams == [pc : {"idle", "repop", "sweep"},
                       batch : SUBSET RequestSet, todo : SUBSET RequestSet,
                       stale : SUBSET Stored]
<1>1. job[t] \in Job
  BY JobType DEF RemoveCall, AddCall
<1>2. /\ accounts' \subseteq Account
      /\ job' \in [Tasks -> Job \cup {NoJob}]
      /\ stream' \in [Tasks -> Streams]
      /\ span' \in [Tasks -> Span]
  <2>1. ASSUME NEW tag \in Tags, NEW field, UnclaimedTag(t, tag) \/ Unreachable(t, field, tag)
        PROVE  <1>2!:
    <3>1. accounts' \subseteq Account
      BY <2>1 DEF UnclaimedTag, Unreachable, TypeOK
    <3>2. CASE UnclaimedTag(t, tag)
      BY <3>1, <3>2, AbortType DEF UnclaimedTag
    <3>3. CASE Unreachable(t, field, tag)
      <4>1. stream' \in [Tasks -> Streams]
        BY <3>3 DEF Unreachable, Called, TypeOK
      <4>2. QED
        BY <3>1, <3>3, <4>1, <1>1, CalledType, NoJobAssumption DEF Unreachable
    <3>4. QED
      BY <2>1, <3>2, <3>3
  <2>2. ASSUME NEW tag \in Tags, RemoveAccount(t, tag)
        PROVE  <1>2!:
    <3>1. accounts' \subseteq Account
      BY <2>2 DEF RemoveAccount, TypeOK
    <3>2. Abort(t) \/ Called(t, "rem", tag)
      BY <2>2 DEF RemoveAccount
    <3>3. CASE Called(t, "rem", tag)
      BY <3>1, <3>3, <1>1, CalledType, NoJobAssumption DEF TypeOK
    <3>4. QED
      BY <3>1, <3>2, <3>3, AbortType
  <2>3. ASSUME NEW tag \in Tags, AddAccount(t, tag)
        PROVE  <1>2!:
    <3>1. [tag |-> tag, id |-> job[t].uid, ident |-> job[t].new] \in Account
      BY <1>1 DEF Job, Account
    <3>2. accounts' \subseteq Account
      BY <2>3, <3>1 DEF AddAccount, TypeOK
    <3>3. Abort(t) \/ Called(t, "add", tag)
      BY <2>3 DEF AddAccount
    <3>4. CASE Called(t, "add", tag)
      BY <3>2, <3>4, <1>1, CalledType, NoJobAssumption DEF TypeOK
    <3>5. QED
      BY <3>2, <3>3, <3>4, AbortType
  <2>4. job[t].rem \subseteq Tags /\ job[t].add \subseteq Tags
    BY <1>1 DEF Job
  <2>5. QED
    BY <2>1, <2>2, <2>3, <2>4 DEF RemoveCall, AddCall
<1>3. QED
  BY <1>2 DEF RemoveCall, AddCall, node, TypeOK

LEMMA StoreType ==
    ASSUME TypeOK, NEW t \in Tasks,
           StoreInbounds(t) \/ StoreOutbounds(t) \/ DeleteUser(t)
    PROVE  TypeOK'
<1>1. job[t] \in Job
  BY JobType DEF StoreInbounds, StoreOutbounds, DeleteUser, CallsDone
<1>2. OutsOf(job[t].uid) \in Outs /\ TagsOf(job[t].uid) \in SUBSET Tags
  BY <1>1 DEF OutsOf, TagsOf, TypeOK, Row, Job
<1>3. CASE StoreInbounds(t)
  <2>1. db' \in [Ids -> Row \cup {NoRow}]
    BY <1>1, <1>2, <1>3 DEF StoreInbounds, TypeOK, Row, Job
  <2>2. job' \in [Tasks -> Job \cup {NoJob}]
    BY <1>1, <1>3 DEF StoreInbounds, TypeOK, Job
  <2>3. QED
    BY <1>3, <2>1, <2>2 DEF StoreInbounds, node, TypeOK
<1>4. CASE StoreOutbounds(t)
  <2>1. db' \in [Ids -> Row \cup {NoRow}]
    BY <1>1, <1>2, <1>4 DEF StoreOutbounds, TypeOK, Row, Job
  <2>2. QED
    BY <1>4, <2>1 DEF StoreOutbounds, Finish, node, TypeOK
<1>5. CASE DeleteUser(t)
  BY <1>5 DEF DeleteUser, Finish, node, TypeOK
<1>6. QED
  BY <1>3, <1>4, <1>5

\* The steps of an RPC that make no call and no storage write.
LEMMA RPCType ==
    ASSUME TypeOK, NEW t \in Tasks,
           \/ \E r \in Requests : SyncUsers(t, r)
           \/ \E b \in Batches : RepopulateUsers(t, b)
           \/ RepopulateNext(t) \/ ListStale(t) \/ SweepNext(t) \/ SweepDone(t)
           \/ Cancel(t)
    PROVE  TypeOK'
<1>1. CASE \E r \in Requests : SyncUsers(t, r)
  <2>1. PICK r \in RequestSet : SyncUsers(t, r)
    BY <1>1
  <2>2. QED
    BY <2>1, UpdateUserType DEF SyncUsers, node, TypeOK
<1>2. CASE \E b \in Batches : RepopulateUsers(t, b)
  <2>1. PICK b \in SUBSET RequestSet : RepopulateUsers(t, b)
    BY <1>2
  <2>2. span' \in [Tasks -> Span]
    BY <2>1 DEF RepopulateUsers, Span, TypeOK
  <2>3. QED
    BY <2>1, <2>2 DEF RepopulateUsers, node, TypeOK
<1>3. CASE RepopulateNext(t)
  <2>1. PICK r \in RequestSet : /\ UpdateUser(t, r)
                                /\ stream' = [stream EXCEPT ![t].todo = @ \ {r}]
    BY <1>3, StreamType DEF RepopulateNext
  <2>2. stream' \in [Tasks -> [pc : {"idle", "repop", "sweep"},
                               batch : SUBSET RequestSet, todo : SUBSET RequestSet,
                               stale : SUBSET Stored]]
    BY <2>1, SMTT(30) DEF TypeOK
  <2>3. /\ job' \in [Tasks -> Job \cup {NoJob}] /\ span' \in [Tasks -> Span]
        /\ cause' \in [Ids -> Causes]
    BY <2>1, UpdateUserType
  <2>4. QED
    BY <1>3, <2>2, <2>3 DEF RepopulateNext, node, TypeOK
<1>4. CASE ListStale(t)
  <2> DEFINE gone == {u \in Ids \ BatchIds(t) : db[u] # NoRow}
             found == {[id |-> u, ident |-> db[u].ident, tags |-> Hydrated(u)] : u \in gone}
  <2>1. found \in SUBSET Stored
    BY RowType DEF Stored
  <2>2. cause' \in [Ids -> Causes]
    BY <1>4, BlameType DEF ListStale, Causes
  <2>3. stream' = [stream EXCEPT ![t] = [pc |-> "sweep", batch |-> stream[t].batch,
                                         todo |-> {}, stale |-> found]]
    BY <1>4 DEF ListStale
  <2> HIDE DEF found
  <2>4. stream' \in [Tasks -> [pc : {"idle", "repop", "sweep"},
                              batch : SUBSET RequestSet, todo : SUBSET RequestSet,
                              stale : SUBSET Stored]]
    BY <2>1, <2>3 DEF TypeOK
  <2>5. QED
    BY <1>4, <2>2, <2>4 DEF ListStale, node, TypeOK
<1>5. CASE SweepNext(t)
  <2>1. PICK e \in Stored : /\ Begin(t, Removal(e.id, e.ident, e.tags))
                            /\ stream' = [stream EXCEPT ![t].stale = @ \ {e}]
    BY <1>5, StreamType DEF SweepNext
  <2>2. Removal(e.id, e.ident, e.tags) \in Job
    BY RemovalType DEF Stored
  <2>3. QED
    BY <1>5, <2>1, <2>2, BeginType DEF SweepNext, node, TypeOK
<1>6. CASE SweepDone(t)
  BY <1>6, StreamType DEF SweepDone, node, TypeOK
<1>7. CASE Cancel(t)
  <2>1. cause' \in [Ids -> Causes]
    BY <1>7, BlameType DEF Cancel, Causes, TypeOK
  <2>2. faults' \in 0..MaxFaults
    BY <1>7 DEF Cancel, TypeOK
  <2>3. Abort(t) /\ UNCHANGED <<db, accounts, node, proc>>
    BY <1>7 DEF Cancel
  <2>4. QED
    BY <2>1, <2>2, <2>3, AbortType DEF node, TypeOK
<1>8. QED
  BY <1>1, <1>2, <1>3, <1>4, <1>5, <1>6, <1>7

LEMMA AfreshType ==
    ASSUME NEW S PROVE AfreshBut(S) \in [Ids -> Causes]
BY DEF AfreshBut, Causes

\* The process, start() and the faults.
LEMMA BootType ==
    ASSUME TypeOK,
           \/ Boot \/ AutoRestart \/ BareRestart
           \/ BadRestart \/ \E cfg \in Configs : Restart(cfg)
           \/ Hang \/ Die \/ StartFails \/ CancelStop \/ CancelRestart \/ NodeRestart
    PROVE  TypeOK'
<1> DEFINE Boots == [pc : {"off", "read", "wait", "load"},
                     by : {"main", "watchdog", "rpc", "bare"},
                     todo : SUBSET Tags, batch : SUBSET Account]
<1>0. /\ Off \in Boots /\ Off.pc = "off"
      /\ \A by \in {"main", "watchdog", "rpc"} : Reading(by) \in Boots
      /\ [Off EXCEPT !.pc = "wait", !.by = "bare"] \in Boots
      /\ [Off EXCEPT !.pc = "wait", !.by = "bare"].pc = "wait"
  BY DEF Off, Reading
<1>1. CASE Spawn
  BY <1>1 DEF Spawn, TypeOK
<1>2. CASE Listen
  <2>1. cause' \in [Ids -> Causes]
    BY <1>2, BlameType DEF Listen, Causes, TypeOK
  <2>2. QED
    BY <1>2, <2>1 DEF Listen, node, TypeOK
<1>3. CASE Started
  <2>1. boot' \in Boots /\ armed' \in BOOLEAN /\ boot'.pc # "read"
    <3>1. CASE boot.by = "bare"
      BY <1>0, <1>3, <3>1 DEF Started, TypeOK
    <3>2. CASE boot.by # "bare"
      <4>1. boot' = [boot EXCEPT !.pc = "load", !.todo = claimed] /\ armed' = TRUE
        BY <1>3, <3>2 DEF Started
      <4>2. QED
        BY <4>1 DEF TypeOK
    <3>3. QED
      BY <3>1, <3>2
  <2>2. QED
    BY <1>3, <2>1 DEF Started, TypeOK
<1>4. ASSUME NEW tag \in Tags, ListInboundUsers(tag)
      PROVE  TypeOK'
  <2> DEFINE found == {[tag |-> tag, id |-> u, ident |-> db[u].ident] :
                          u \in {v \in Ids : db[v] # NoRow /\ tag \in db[v].tags}}
  <2>1. found \in SUBSET Account
    BY RowType DEF Account
  <2>2. boot' = [boot EXCEPT !.todo = @ \ {tag}, !.batch = found]
    BY <1>4 DEF ListInboundUsers
  <2> HIDE DEF found
  <2>3. boot' \in Boots /\ boot'.pc = boot.pc
    BY <2>1, <2>2 DEF TypeOK
  <2>4. QED
    BY <1>4, <2>3 DEF ListInboundUsers, TypeOK
<1>5. CASE LoadUser
  <2>1. PICK a \in boot.batch :
          \/ boot' = [boot EXCEPT !.batch = @ \ {a}] /\ UNCHANGED <<accounts, cause>>
          \/ boot' = [boot EXCEPT !.batch = @ \ {a}] /\ accounts' = accounts \cup {a}
                /\ UNCHANGED cause
          \/ boot' = Off /\ cause' = Blame(Ids, "abort") /\ UNCHANGED accounts
    BY <1>5 DEF LoadUser
  <2>2. cause' \in [Ids -> Causes]
    BY <2>1, BlameType DEF Causes, TypeOK
  <2>3. boot' \in Boots /\ accounts' \subseteq Account
    BY <1>0, <2>1 DEF TypeOK
  <2>4. boot'.pc # "read"
    BY <1>0, <1>5, <2>1 DEF LoadUser, TypeOK
  <2>5. QED
    BY <1>5, <2>2, <2>3, <2>4 DEF LoadUser, TypeOK
<1>6. CASE BootDone
  BY <1>0, <1>6 DEF BootDone, TypeOK
<1>7. CASE AutoRestart
  BY <1>0, <1>7, AfreshType DEF AutoRestart, TypeOK
<1>8. CASE BareRestart
  <2>1. cause' \in [Ids -> Causes]
    BY <1>8, BlameType DEF BareRestart, Causes
  <2>2. QED
    BY <1>0, <1>8, <2>1, ProcessGoneType DEF BareRestart, TypeOK
<1>9. ASSUME NEW cfg \in Configs, Restart(cfg)
      PROVE  TypeOK'
  <2>1. cause' \in [Ids -> Causes]
    BY <1>9, AfreshType DEF Restart
  <2>2. QED
    BY <1>0, <1>9, <2>1, ProcessGoneType DEF Restart, Reading, TypeOK
<1>10. CASE Die
  <2>1. boot' \in Boots /\ (boot'.pc = "read" => boot.pc = "read")
    BY <1>0, <1>10 DEF Die, TypeOK
  <2>2. QED
    BY <1>10, <2>1, ProcessGoneType DEF Die, TypeOK
<1>11. CASE StartFails
  BY <1>0, <1>11 DEF StartFails, TypeOK
<1>12. CASE CancelStop
  <2>1. faults' \in 0..MaxFaults
    BY <1>12 DEF CancelStop, TypeOK
  <2>2. QED
    BY <1>12, <2>1, ProcessGoneType DEF CancelStop, TypeOK
<1>13. CASE CancelRestart
  <2>1. cause' \in [Ids -> Causes]
    BY <1>13, BlameType DEF CancelRestart, Causes
  <2>2. QED
    BY <1>0, <1>13, <2>1 DEF CancelRestart, TypeOK
<1>14. CASE NodeRestart
  <2>1. faults' \in 0..MaxFaults
    BY <1>14 DEF NodeRestart, TypeOK
  <2>2. stream' \in [Tasks -> [pc : {"idle", "repop", "sweep"},
                               batch : SUBSET RequestSet, todo : SUBSET RequestSet,
                               stale : SUBSET Stored]]
    BY <1>14 DEF NodeRestart, IdleStream
  <2>3. cause' \in [Ids -> Causes] /\ job' \in [Tasks -> Job \cup {NoJob}]
    BY <1>14 DEF NodeRestart, Causes
  <2>4. QED
    BY <1>0, <1>14, <2>1, <2>2, <2>3, StreamType DEF NodeRestart, TypeOK
<1>15. CASE BadRestart
  <2>1. cause' \in [Ids -> Causes]
    BY <1>15, BlameType DEF BadRestart, Causes
  <2>2. QED
    BY <1>15, <2>1, ProcessGoneType DEF BadRestart, TypeOK
<1>16. CASE Hang
  BY <1>16 DEF Hang, node, TypeOK
<1>17. QED
  BY <1>1, <1>2, <1>3, <1>4, <1>5, <1>6, <1>7, <1>8, <1>9, <1>10, <1>11, <1>12,
     <1>13, <1>14, <1>15, <1>16 DEF Boot

LEMMA TypeStep == TypeOK /\ [Next]_vars => TypeOK'
<1> SUFFICES ASSUME TypeOK, [Next]_vars PROVE TypeOK'
  OBVIOUS
<1>1. CASE UNCHANGED vars
  BY <1>1 DEF vars, TypeOK
<1>2. CASE Next
  BY <1>2, CallType, StoreType, RPCType, BootType DEF Next, Panel, Handler, Faults
<1>3. QED
  BY <1>1, <1>2

\* Every variable keeps its type, whatever the handlers, the restarts and the
\* faults do.
THEOREM TypeCorrect == Spec => []TypeOK
<1>1. Init => TypeOK
  <2> SUFFICES ASSUME Init PROVE TypeOK
    OBVIOUS
  <2>1. boot \in [pc : {"off", "read", "wait", "load"},
                 by : {"main", "watchdog", "rpc", "bare"},
                 todo : SUBSET Tags, batch : SUBSET Account]
    BY DEF Init, Reading, Off
  <2>2. stream \in [Tasks -> [pc : {"idle", "repop", "sweep"},
                              batch : SUBSET RequestSet, todo : SUBSET RequestSet,
                              stale : SUBSET Stored]]
    BY DEF Init, IdleStream
  <2>3. /\ db \in [Ids -> Row \cup {NoRow}]
        /\ job \in [Tasks -> Job \cup {NoJob}]
        /\ cause \in [Ids -> Causes]
    BY DEF Init, Causes
  <2>4. inbounds \subseteq Tags /\ faults \in 0..MaxFaults
    BY DEF Init
  <2>5. span \in [Tasks -> Span]
    BY DEF Init, NoSpan, Span
  <2>6. QED
    BY <2>1, <2>2, <2>3, <2>4, <2>5 DEF Init, TypeOK
<1>2. QED
  BY <1>1, TypeStep, PTL DEF Spec

(***************************************************************************)
(* The inductive invariant.                                                *)
(***************************************************************************)
LEMMA BootOKStep == TypeOK /\ BootOK /\ [Next]_vars => BootOK'
<1> SUFFICES ASSUME TypeOK, BootOK, [Next]_vars PROVE BootOK'
  OBVIOUS
<1>1. CASE UNCHANGED vars
  BY <1>1 DEF vars, Live, BootOK
<1>2. ASSUME NEW t \in Tasks, NEW r \in Requests, SyncUsers(t, r)
      PROVE  BootOK'
  BY <1>2 DEF SyncUsers, node, Live, BootOK
<1>3. ASSUME NEW t \in Tasks, NEW b \in Batches, RepopulateUsers(t, b)
      PROVE  BootOK'
  BY <1>3 DEF RepopulateUsers, node, Live, BootOK, TypeOK
<1>4. ASSUME NEW t \in Tasks, RepopulateNext(t)
      PROVE  BootOK'
  BY <1>4 DEF RepopulateNext, node, Live, BootOK, TypeOK
<1>5. ASSUME NEW t \in Tasks, ListStale(t)
      PROVE  BootOK'
  BY <1>5 DEF ListStale, node, Live, BootOK, TypeOK
<1>6. ASSUME NEW t \in Tasks, SweepNext(t)
      PROVE  BootOK'
  BY <1>6 DEF SweepNext, node, Live, BootOK, TypeOK
<1>7. ASSUME NEW t \in Tasks, SweepDone(t) \/ Cancel(t)
      PROVE  BootOK'
  BY <1>7 DEF SweepDone, Cancel, Abort, IdleStream, node, Live, BootOK, TypeOK
<1>8. ASSUME NEW t \in Tasks, RemoveCall(t) \/ AddCall(t)
      PROVE  BootOK'
  <2>1. /\ ~Live => accounts' = accounts
        /\ UNCHANGED <<node, proc>>
        /\ stream' = stream \/ stream' = [stream EXCEPT ![t] = IdleStream]
    BY <1>8 DEF RemoveCall, AddCall, UnclaimedTag, Unreachable, RemoveAccount,
                AddAccount, Called, Abort, Live
  <2>2. \A s \in Tasks : stream'[s].pc # "sweep" => stream'[s].stale = {}
    BY <2>1 DEF IdleStream, BootOK, TypeOK
  <2>3. QED
    BY <2>1, <2>2 DEF node, Live, BootOK
<1>9. ASSUME NEW t \in Tasks, StoreInbounds(t) \/ StoreOutbounds(t) \/ DeleteUser(t)
      PROVE  BootOK'
  BY <1>9 DEF StoreInbounds, StoreOutbounds, DeleteUser, Finish, node, Live, BootOK
<1>10. CASE Spawn
  BY <1>10 DEF Spawn, Live, BootOK, TypeOK
<1>11. CASE Listen
  BY <1>11 DEF Listen, node, Live, BootOK, TypeOK
<1>12. CASE Started
  <2>1. CASE boot.by = "bare"
    BY <1>12, <2>1 DEF Started, Off, Live, BootOK
  <2>2. CASE boot.by # "bare"
    <3>1. boot' = [boot EXCEPT !.pc = "load", !.todo = claimed]
      BY <1>12, <2>2 DEF Started
    <3>2. boot'.pc = "load" /\ boot'.todo = claimed
      BY <3>1 DEF TypeOK
    <3>3. QED
      BY <1>12, <2>2, <3>2 DEF Started, Live, BootOK
  <2>3. QED
    BY <2>1, <2>2
<1>13. ASSUME NEW tag \in Tags, ListInboundUsers(tag)
       PROVE  BootOK'
  BY <1>13 DEF ListInboundUsers, Live, BootOK, TypeOK
<1>14. CASE LoadUser
  <2>1. /\ ~Live => accounts' = accounts
        /\ boot' = Off \/ \E a \in boot.batch : boot' = [boot EXCEPT !.batch = @ \ {a}]
    BY <1>14 DEF LoadUser
  <2>2. CASE boot' = Off
    BY <1>14, <2>1, <2>2 DEF LoadUser, Off, Live, BootOK
  <2>3. CASE \E a \in boot.batch : boot' = [boot EXCEPT !.batch = @ \ {a}]
    BY <1>14, <2>1, <2>3 DEF LoadUser, Live, BootOK, TypeOK
  <2>4. QED
    BY <2>1, <2>2, <2>3
<1>15. CASE BootDone
  BY <1>15 DEF BootDone, Off, Live, BootOK
<1>16. CASE AutoRestart
  BY <1>16 DEF AutoRestart, Reading, Off, Live, BootOK
<1>17. CASE BareRestart
  BY <1>17 DEF BareRestart, ProcessGone, IdleStream, Off, Live, BootOK
<1>18. ASSUME NEW cfg \in Configs, Restart(cfg)
       PROVE  BootOK'
  <2>1. PICK A \in SUBSET Tasks : ProcessGone(A)
    BY <1>18 DEF Restart
  <2>2. \A t \in Tasks : stream'[t] = stream[t] \/ stream'[t] = IdleStream
    BY <2>1 DEF ProcessGone
  <2>3. accounts' = {}
    BY <2>1 DEF ProcessGone
  <2>4. /\ boot'.pc = "read" /\ boot'.by = "rpc" /\ boot'.batch = {}
        /\ proc' = "dead" /\ armed' = FALSE /\ claimed' = {}
        /\ disk' \subseteq inbounds'
    BY <1>18 DEF Restart, Reading, Off
  <2>5. QED
    BY <2>2, <2>3, <2>4 DEF IdleStream, Live, BootOK
<1>19. CASE Die
  <2>1. PICK A \in SUBSET Tasks : ProcessGone(A)
    BY <1>19 DEF Die
  <2>2. boot' = boot \/ boot' = Off
    BY <1>19 DEF Die
  <2>3. boot'.pc # "off" => boot' = boot
    BY <2>2 DEF Off
  <2>4. \A t \in Tasks : stream'[t] = stream[t] \/ stream'[t] = IdleStream
    BY <2>1 DEF ProcessGone
  <2>5. QED
    BY <1>19, <2>1, <2>2, <2>3, <2>4 DEF Die, ProcessGone, IdleStream, Off, Live, BootOK
<1>20. CASE StartFails \/ CancelRestart
  BY <1>20 DEF StartFails, CancelRestart, Off, Live, BootOK
<1>21. CASE CancelStop
  BY <1>21 DEF CancelStop, ProcessGone, IdleStream, Live, BootOK
<1>22. CASE NodeRestart
  BY <1>22 DEF NodeRestart, IdleStream, Reading, Off, Live, BootOK
<1>23. CASE BadRestart
  <2>1. PICK A \in SUBSET Tasks : ProcessGone(A)
    BY <1>23 DEF BadRestart
  <2>2. \A t \in Tasks : stream'[t] = stream[t] \/ stream'[t] = IdleStream
    BY <2>1 DEF ProcessGone
  <2>3. accounts' = {}
    BY <2>1 DEF ProcessGone
  <2>4. boot'.pc = "off" /\ armed' = FALSE /\ claimed' = {}
    BY <1>23 DEF BadRestart
  <2>5. QED
    BY <2>2, <2>3, <2>4 DEF IdleStream, BootOK
<1>24. CASE Hang
  BY <1>24 DEF Hang, node, Live, BootOK
<1>25. QED
  BY <1>1, <1>2, <1>3, <1>4, <1>5, <1>6, <1>7, <1>8, <1>9, <1>10, <1>11, <1>12, <1>13,
     <1>14, <1>15, <1>16, <1>17, <1>18, <1>19, <1>20, <1>21, <1>22, <1>23, <1>24
  DEF Next, Panel, Handler, Boot, Faults

\* Due as a set of accounts, and how such sets combine.
LEMMA HeldFacts ==
    ASSUME NEW u, NEW ident, NEW S, NEW T
    PROVE  /\ Held(u, ident, {}) = {}
           /\ Held(u, ident, S) \cup Held(u, ident, T) = Held(u, ident, S \cup T)
           /\ \A x : x \in Held(u, ident, S) <=>
                        \E tag \in S : x = [tag |-> tag, id |-> u, ident |-> ident]
BY DEF Held

LEMMA DueFacts ==
    ASSUME TypeOK, BootOK, NEW u \in Ids, db[u] # NoRow
    PROVE  /\ Due(u) = Held(u, db[u].ident, Hydrated(u) \cap claimed)
           /\ db[u].ident \in Idents
           /\ Hydrated(u) \subseteq inbounds
<1>1. Hydrated(u) \cap claimed = db[u].tags \cap claimed
  BY DEF Hydrated, BootOK
<1>2. QED
  BY <1>1, RowType DEF Due, Hydrated

\* A step that leaves alone the accounts, the row and the workers of a user,
\* or only drops snapshots of it, preserves its invariant.
LEMMA Undisturbed ==
    ASSUME TypeOK, NEW u \in Ids, UserInv(u),
           boot' = boot, proc' = proc \/ (Live /\ Live'),
           inbounds' = inbounds, claimed' = claimed,
           AccountsOf(u)' = AccountsOf(u), db'[u] = db[u],
           \A t \in Tasks :
              \/ job'[t] = job[t]
              \/ /\ job'[t] = NoJob \/ job'[t].uid # u
                 /\ job[t] = NoJob \/ job[t].uid # u,
           \A t \in Tasks : \A e \in stream'[t].stale : e.id = u => e \in stream[t].stale
    PROVE  UserInv(u)'
<1>1. Due(u)' = Due(u) /\ Hydrated(u)' = Hydrated(u) /\ (Live' <=> Live)
  BY DEF Due, Hydrated, Live
<1>2. \A t \in Tasks : Works(t, u)' => Works(t, u)
  BY DEF Works
<1>3. SoleWorker(u)'
  BY <1>2 DEF UserInv, SoleWorker
<1>4. BootUser(u)'
  BY <1>1 DEF UserInv, BootUser
<1>5. QuietUser(u)'
  BY <1>1 DEF UserInv, QuietUser
<1>6. StaleUser(u)'
  BY <1>1 DEF UserInv, StaleUser
<1>7. WorkedUser(u)'
  BY <1>1, ZenonT(60) DEF UserInv, WorkedUser
<1>8. QED
  BY <1>3, <1>4, <1>5, <1>6, <1>7 DEF UserInv

\* A step of the one handler that works on a user, or begins to.
LEMMA OneWorker ==
    ASSUME TypeOK, NEW u \in Ids, UserInv(u), NEW t \in Tasks,
           boot.pc = "off",
           boot' = boot, proc' = proc, inbounds' = inbounds, claimed' = claimed,
           \A s \in Tasks \ {t} : ~Works(s, u),
           \A s \in Tasks \ {t} : job'[s] = job[s] /\ stream'[s] = stream[s],
           \A e \in stream'[t].stale : e.id # u,
           QuietUser(u)', WorkedUser(u)'
    PROVE  UserInv(u)'
<1>1. \A s \in Tasks \ {t} : ~Works(s, u)'
  BY DEF Works
<1>2. SoleWorker(u)'
  <2>1. \A s \in Tasks : Works(s, u)' => s = t
    BY <1>1
  <2>2. \A s \in Tasks : (job'[s] # NoJob /\ job'[s].uid = u) => s = t
    BY <2>1 DEF Works
  <2>3. QED
    BY <2>1, <2>2 DEF SoleWorker
<1>3. BootUser(u)'
  BY DEF UserInv, BootUser
<1>4. StaleUser(u)'
  <2>1. \A s \in Tasks : \A e \in stream'[s].stale : e.id # u
    BY <1>1 DEF Works
  <2>2. QED
    BY <2>1 DEF StaleUser
<1>5. QED
  BY <1>2, <1>3, <1>4 DEF UserInv

\* An update begins where the storage is, and ends where it should be.
FromStorage(u, j) ==
    /\ j.stage = "call"
    /\ j.tags \subseteq inbounds
    /\ j.add \subseteq j.tags
    /\ j.rem \cap (j.tags \ j.add) = {}
    /\ j.old # j.new /\ j.rem # {} => j.add = j.tags
    /\ j.del => j.tags = {}
    /\ j.rem \subseteq claimed =>
          Due(u) = Held(u, j.old, j.rem) \cup Held(u, j.new, (j.tags \ j.add) \cap claimed)

\* _update_user takes up user u when no one works on it.
LEMMA BeginStep ==
    ASSUME TypeOK, BootOK, NEW u \in Ids, cause[u] = "none" => UserInv(u),
           cause'[u] = "none",
           NEW t \in Tasks, NEW j \in Job, Begin(t, j), job[t] = NoJob,
           UNCHANGED <<db, accounts, node, proc>>,
           \A s \in Tasks \ {t} : stream'[s] = stream[s],
           \A e \in stream'[t].stale : e \in stream[t].stale,
           j.uid = u => \A e \in stream'[t].stale : e.id # u,
           j.uid = u => FromStorage(u, j)
    PROVE  UserInv(u)'
<1>1. cause[u] = "none"
  BY DEF Begin, Blame, TypeOK
<1>2. UserInv(u)
  BY <1>1
<1>3. /\ boot' = boot /\ proc' = proc /\ inbounds' = inbounds /\ claimed' = claimed
      /\ AccountsOf(u)' = AccountsOf(u) /\ db' = db
      /\ \A s \in Tasks \ {t} : job'[s] = job[s]
      /\ job'[t] = j
  BY DEF node, AccountsOf, Begin, TypeOK
<1>4. CASE j.uid # u
  BY <1>2, <1>3, <1>4, Undisturbed
<1>5. CASE j.uid = u
  <2>1. boot.pc = "off" /\ ~BusyBut(t, u) /\ j.rem \cup j.add \subseteq claimed
    BY <1>1, <1>5 DEF Begin, Blame
  <2>2. \A s \in Tasks \ {t} : ~Works(s, u)
    BY <2>1 DEF BusyBut, Works
  <2>3. \A s \in Tasks : job[s] = NoJob \/ job[s].uid # u
    BY <2>2 DEF Works
  <2>4. (Live' <=> Live) /\ (Live => AccountsOf(u) = Due(u))
    BY <1>2, <1>3, <2>1, <2>3 DEF UserInv, QuietUser, Live
  <2>5. QuietUser(u)'
    BY <1>3, <1>5, NoJobAssumption DEF QuietUser
  <2>6. WorkedUser(u)'
    <3> SUFFICES ASSUME NEW s \in Tasks, (job[s] # NoJob /\ job[s].uid = u)'
                 PROVE  (WorkedUser(u)!(s)!2)'
      BY DEF WorkedUser
    <3>1. s = t
      BY <1>3, <2>3
    <3>2. QED
      BY <1>3, <1>5, <2>1, <2>4, <3>1 DEF FromStorage
  <2>7. QED
    BY <1>2, <1>3, <1>5, <2>1, <2>2, <2>5, <2>6, OneWorker
<1>6. QED
  BY <1>4, <1>5

\* What an update starts from is what the storage says: the accounts to
\* remove and the ones to keep are the user's accounts.
LEMMA UpdateUserStep ==
    ASSUME TypeOK, BootOK, NEW u \in Ids, cause[u] = "none" => UserInv(u),
           cause'[u] = "none",
           NEW t \in Tasks, NEW r \in RequestSet, UpdateUser(t, r), job[t] = NoJob,
           UNCHANGED <<db, accounts, node, proc>>,
           \A s \in Tasks \ {t} : stream'[s] = stream[s],
           stream'[t].stale = {}
    PROVE  UserInv(u)'
<1> DEFINE want == r.tags \cap inbounds
<1>0. r.id \in Ids /\ r.ident \in Idents /\ r.tags \in SUBSET Tags /\ want \in SUBSET Tags
  BY DEF RequestSet
<1>1. CASE AbsentUser(r)
  <2>1. UserInv(u) /\ job' = job
    BY <1>1 DEF AbsentUser
  <2>2. AccountsOf(u)' = AccountsOf(u)
    BY DEF AccountsOf
  <2>3. \A s \in Tasks : \A e \in stream'[s].stale : e.id = u => e \in stream[s].stale
    OBVIOUS
  <2>4. QED
    BY <2>1, <2>2, <2>3, Undisturbed DEF node
<1>2. CASE NewUser(t, r)
  <2> DEFINE j == Work(r, r.ident, {}, want)
  <2>1. j \in Job
    BY <1>0, WorkType
  <2>2. /\ j.uid = r.id /\ j.stage = "call" /\ j.rem = {} /\ j.add = want
        /\ j.tags = want /\ ~j.del
    BY DEF Work
  <2>3. r.id = u => Due(u) = {}
    BY <1>2 DEF NewUser, Due
  <2>4. Held(u, j.old, {}) = {} /\ Held(u, j.new, (want \ want) \cap claimed) = {}
    BY DEF Held
  <2>5. Begin(t, j)
    BY <1>2 DEF NewUser
  <2> HIDE DEF j
  <2>6. j.uid = u => FromStorage(u, j)
    BY <2>2, <2>3, <2>4 DEF FromStorage
  <2>7. QED
    BY <2>1, <2>5, <2>6, BeginStep
<1>3. CASE DropUser(t, r)
  <2> DEFINE j == Removal(r.id, db[r.id].ident, Hydrated(r.id))
  <2>1. j \in Job
    BY <1>0, <1>3, RowType, RemovalType DEF DropUser
  <2>2. /\ j.uid = r.id /\ j.stage = "call" /\ j.rem = Hydrated(r.id) /\ j.add = {}
        /\ j.tags = {} /\ j.del /\ j.old = db[r.id].ident
        /\ j.new = db[r.id].ident
    BY DEF Removal
  <2>3. r.id = u => Due(u) = Held(u, db[u].ident, Hydrated(u) \cap claimed)
    BY <1>3, DueFacts DEF DropUser
  <2>4. Held(u, j.new, ({} \ {}) \cap claimed) = {}
    BY DEF Held
  <2>5. Begin(t, j)
    BY <1>3 DEF DropUser
  <2> HIDE DEF j
  <2>6. j.uid = u => FromStorage(u, j)
    <3> SUFFICES ASSUME j.uid = u PROVE FromStorage(u, j)
      OBVIOUS
    <3>1. r.id = u
      BY <2>2
    <3>2. ASSUME j.rem \subseteq claimed
          PROVE  Due(u) = Held(u, j.old, j.rem)
                              \cup Held(u, j.new, (j.tags \ j.add) \cap claimed)
      <4>1. Hydrated(u) \cap claimed = j.rem
        BY <2>2, <3>1, <3>2
      <4>2. Due(u) = Held(u, j.old, j.rem)
        BY <2>2, <2>3, <3>1, <4>1
      <4>3. QED
        BY <2>2, <2>4, <4>2
    <3>3. QED
      BY <2>2, <3>2 DEF FromStorage
  <2>7. QED
    BY <2>1, <2>5, <2>6, BeginStep
<1>4. CASE SameIdentity(t, r)
  <2> DEFINE have == Hydrated(r.id)
             j == Work(r, r.ident, have \ r.tags, want \ have)
  <2>1. have \in SUBSET Tags /\ j \in Job
    <3>1. have \in SUBSET Tags
      BY <1>0, <1>4, RowType DEF SameIdentity
    <3>2. QED
      BY <1>0, <3>1, WorkType
  <2>2. /\ j.uid = r.id /\ j.stage = "call" /\ j.rem = have \ r.tags
        /\ j.add = want \ have /\ j.tags = want /\ ~j.del
        /\ j.old = r.ident /\ j.new = r.ident
    BY DEF Work
  <2>3. r.id = u => Due(u) = Held(u, r.ident, have \cap claimed) /\ have \subseteq inbounds
    BY <1>4, DueFacts DEF SameIdentity
  <2>4. have \subseteq inbounds /\ have \ r.tags \subseteq claimed =>
           (have \ r.tags) \cup ((want \ (want \ have)) \cap claimed) = have \cap claimed
    OBVIOUS
  <2>5. Held(u, r.ident, have \ r.tags) \cup Held(u, r.ident, (want \ (want \ have)) \cap claimed)
            = Held(u, r.ident, (have \ r.tags) \cup ((want \ (want \ have)) \cap claimed))
    BY HeldFacts
  <2>6. Begin(t, j)
    BY <1>4 DEF SameIdentity
  <2>7. /\ j.tags \subseteq inbounds /\ j.add \subseteq j.tags
        /\ j.rem \cap (j.tags \ j.add) = {}
    BY <2>2
  <2> HIDE DEF j, have, want
  <2>8. j.uid = u => FromStorage(u, j)
    BY <2>2, <2>3, <2>4, <2>5, <2>7 DEF FromStorage
  <2>9. QED
    BY <2>1, <2>6, <2>8, BeginStep
<1>5. CASE NewIdentity(t, r)
  <2> DEFINE j == Work(r, db[r.id].ident, Hydrated(r.id), want)
  <2>1. j \in Job
    BY <1>0, <1>5, RowType, WorkType DEF NewIdentity
  <2>2. /\ j.uid = r.id /\ j.stage = "call" /\ j.rem = Hydrated(r.id) /\ j.add = want
        /\ j.tags = want /\ ~j.del /\ j.old = db[r.id].ident
    BY DEF Work
  <2>3. r.id = u => Due(u) = Held(u, db[u].ident, Hydrated(u) \cap claimed)
    BY <1>5, DueFacts DEF NewIdentity
  <2>4. Begin(t, j)
    BY <1>5 DEF NewIdentity
  <2>5. want \subseteq inbounds
    OBVIOUS
  <2> HIDE DEF j, want
  <2>6. /\ Held(u, j.new, (j.tags \ j.add) \cap claimed) = {}
        /\ j.rem \cap (j.tags \ j.add) = {}
    BY <2>2 DEF Held
  <2>7. j.uid = u => FromStorage(u, j)
    <3> SUFFICES ASSUME j.uid = u PROVE FromStorage(u, j)
      OBVIOUS
    <3>1. r.id = u
      BY <2>2
    <3>2. ASSUME j.rem \subseteq claimed
          PROVE  Due(u) = Held(u, j.old, j.rem)
                              \cup Held(u, j.new, (j.tags \ j.add) \cap claimed)
      <4>1. Hydrated(u) \cap claimed = j.rem
        BY <2>2, <3>1, <3>2
      <4>2. Due(u) = Held(u, j.old, j.rem)
        BY <2>2, <2>3, <3>1, <4>1
      <4>3. Held(u, j.new, (j.tags \ j.add) \cap claimed) = {}
        BY <2>6
      <4>4. \A A, B : B = {} => A \cup B = A
        OBVIOUS
      <4>5. Held(u, j.old, j.rem) \cup Held(u, j.new, (j.tags \ j.add) \cap claimed)
               = Held(u, j.old, j.rem)
        BY <4>3, <4>4, Zenon
      <4>6. QED
        BY <4>2, <4>5
    <3>3. j.tags \subseteq inbounds /\ j.add = j.tags
      BY <2>2, <2>5
    <3>4. QED
      BY <2>2, <2>6, <3>2, <3>3 DEF FromStorage
  <2>8. QED
    BY <2>1, <2>4, <2>7, BeginStep
<1>6. QED
  BY <1>1, <1>2, <1>3, <1>4, <1>5 DEF UpdateUser

\* What a clean user's worker t knows.
LEMMA WorkerFacts ==
    ASSUME TypeOK, NEW u \in Ids, UserInv(u),
           NEW t \in Tasks, job[t] # NoJob, job[t].uid = u
    PROVE  /\ boot.pc = "off"
           /\ \A s \in Tasks \ {t} : ~Works(s, u)
           /\ \A e \in stream[t].stale : e.id # u
           /\ WorkedUser(u)!(t)!2
           /\ job[t] \in Job
<1>1. Works(t, u)
  BY DEF Works
<1>2. \A s \in Tasks \ {t} : ~Works(s, u)
  BY <1>1 DEF UserInv, SoleWorker
<1>3. boot.pc = "off" /\ \A e \in stream[t].stale : e.id # u
  BY <1>1 DEF UserInv, SoleWorker
<1>4. WorkedUser(u)!(t)!2
  BY DEF UserInv, WorkedUser
<1>5. QED
  BY <1>2, <1>3, <1>4, JobType

LEMMA HoldersFacts ==
    ASSUME TypeOK, NEW u \in Ids, NEW tag, NEW id, NEW ident
    PROVE  /\ id # u => AccountsOf(u) \cap Holders(tag, id, ident) = {}
           /\ Holders(tag, u, ident) =
                 {x \in AccountsOf(u) : x.tag = tag /\ NameOf[x.ident] = NameOf[ident]}
BY DEF AccountsOf, Holders

\* A call to xray for another user.
LEMMA OtherCallStep ==
    ASSUME TypeOK, BootOK, NEW u \in Ids, UserInv(u),
           NEW t \in Tasks, RemoveCall(t) \/ AddCall(t), job[t].uid # u
    PROVE  UserInv(u)'
<1>1. job[t] # NoJob /\ job[t] \in Job /\ UNCHANGED <<db, node, proc>>
  BY JobType DEF RemoveCall, AddCall
<1>2. AccountsOf(u)' = AccountsOf(u)
  <2>1. \/ accounts' = accounts
        \/ \E tag : accounts' = accounts \ Holders(tag, job[t].uid, job[t].old)
        \/ \E tag : accounts' = accounts \cup
                       {[tag |-> tag, id |-> job[t].uid, ident |-> job[t].new]}
    BY DEF RemoveCall, AddCall, UnclaimedTag, Unreachable, RemoveAccount, AddAccount
  <2>2. CASE accounts' = accounts
    BY <2>2 DEF AccountsOf
  <2>3. ASSUME NEW tag, accounts' = accounts \ Holders(tag, job[t].uid, job[t].old)
        PROVE  AccountsOf(u)' = AccountsOf(u)
    BY <2>3 DEF AccountsOf, Holders
  <2>4. ASSUME NEW tag, accounts' = accounts \cup
                           {[tag |-> tag, id |-> job[t].uid, ident |-> job[t].new]}
        PROVE  AccountsOf(u)' = AccountsOf(u)
    BY <2>4 DEF AccountsOf
  <2>5. QED
    BY <2>1, <2>2, <2>3, <2>4
<1>3. Abort(t) \/ \E tag : Called(t, "rem", tag) \/ Called(t, "add", tag)
  BY DEF RemoveCall, AddCall, UnclaimedTag, Unreachable, RemoveAccount, AddAccount
<1>4. /\ \A s \in Tasks \ {t} : job'[s] = job[s] /\ stream'[s] = stream[s]
      /\ job'[t] = NoJob \/ job'[t].uid # u
      /\ stream'[t] = stream[t] \/ stream'[t] = IdleStream
  <2>1. CASE Abort(t)
    BY <2>1 DEF Abort, TypeOK
  <2>2. ASSUME NEW tag, Called(t, "rem", tag)
        PROVE  <1>4!:
    BY <1>1, <2>2 DEF Called, TypeOK, Job
  <2>3. ASSUME NEW tag, Called(t, "add", tag)
        PROVE  <1>4!:
    BY <1>1, <2>3 DEF Called, TypeOK, Job
  <2>4. QED
    BY <1>3, <2>1, <2>2, <2>3
<1>5. \A s \in Tasks : \A e \in stream'[s].stale : e.id = u => e \in stream[s].stale
  BY <1>4 DEF IdleStream
<1>6. QED
  BY <1>1, <1>2, <1>4, <1>5, Undisturbed DEF node

\* A removal for the user: xray knows the account, and the rest of the
\* update stands as before.
LEMMA OwnRemoveStep ==
    ASSUME TypeOK, BootOK, NEW u \in Ids, UserInv(u),
           NEW t \in Tasks, RemoveCall(t), job[t].uid = u
    PROVE  UserInv(u)' /\ job'[t] # NoJob
<1>1. job[t] # NoJob /\ UNCHANGED <<db, node, proc>> /\ (Live' <=> Live)
  BY DEF RemoveCall, Live
<1>2. /\ boot.pc = "off"
      /\ \A s \in Tasks \ {t} : ~Works(s, u)
      /\ \A e \in stream[t].stale : e.id # u
      /\ WorkedUser(u)!(t)!2
      /\ job[t] \in Job
  BY <1>1, WorkerFacts, ZenonT(60)
<1> DEFINE j == job[t]
<1>3. PICK tag \in j.rem : \/ UnclaimedTag(t, tag)
                           \/ Unreachable(t, "rem", tag)
                           \/ RemoveAccount(t, tag)
  BY DEF RemoveCall
<1>4. tag \in claimed
  BY <1>2
<1>5. Live => [tag |-> tag, id |-> u, ident |-> j.old] \in AccountsOf(u)
  BY <1>2 DEF Held
<1>6. Live => Holders(tag, u, j.old) # {}
  BY <1>5 DEF Holders, AccountsOf
<1>7. Called(t, "rem", tag)
  BY <1>3, <1>4, <1>6 DEF UnclaimedTag, Unreachable, RemoveAccount, Live
<1>8. /\ job' = [job EXCEPT ![t].rem = @ \ {tag}] /\ stream' = stream
  BY <1>7 DEF Called
<1>9. /\ job'[t].rem = j.rem \ {tag} /\ job'[t].uid = u /\ job'[t].old = j.old
      /\ job'[t].new = j.new /\ job'[t].add = j.add /\ job'[t].tags = j.tags
      /\ job'[t].del = j.del /\ job'[t].stage = j.stage
      /\ job'[t] \in Job
      /\ \A s \in Tasks \ {t} : job'[s] = job[s]
  BY <1>2, <1>8 DEF TypeOK, Job
<1>10. job'[t] # NoJob
  BY <1>9
<1>11. ASSUME Live
       PROVE  AccountsOf(u)' = Held(u, j.old, j.rem \ {tag})
                                  \cup Held(u, j.new, (j.tags \ j.add) \cap claimed)
  <2>1. accounts' = accounts \ Holders(tag, u, j.old)
    BY <1>3, <1>4, <1>6, <1>11 DEF UnclaimedTag, Unreachable, RemoveAccount
  <2>2. AccountsOf(u) = Held(u, j.old, j.rem)
                           \cup Held(u, j.new, (j.tags \ j.add) \cap claimed)
    BY <1>2, <1>11
  <2>3. AccountsOf(u)' = {x \in AccountsOf(u) :
                             ~(x.tag = tag /\ NameOf[x.ident] = NameOf[j.old])}
    BY <2>1 DEF AccountsOf, Holders
  <2>4. tag \notin j.tags \ j.add
    BY <1>2
  <2>5. QED
    BY <2>2, <2>3, <2>4 DEF Held
<1>12. WorkedUser(u)'
  <2> SUFFICES ASSUME NEW s \in Tasks, (job[s] # NoJob /\ job[s].uid = u)'
               PROVE  (WorkedUser(u)!(s)!2)'
    BY DEF WorkedUser
  <2>1. s = t
    BY <1>2, <1>9 DEF Works
  <2>2. j.stage # "outs" /\ j.rem # {}
    BY <1>2, <1>3
  <2>3. QED
    BY <1>1, <1>2, <1>9, <1>11, <2>1, <2>2 DEF node
<1>13. QuietUser(u)'
  BY <1>9, <1>10 DEF QuietUser
<1>14. QED
  BY <1>1, <1>2, <1>8, <1>9, <1>10, <1>12, <1>13, OneWorker DEF node

LEMMA OwnAddStep ==
    ASSUME TypeOK, BootOK, NEW u \in Ids, UserInv(u),
           NEW t \in Tasks, AddCall(t), job[t].uid = u
    PROVE  UserInv(u)' /\ job'[t] # NoJob
<1>1. /\ job[t] # NoJob /\ job[t].rem = {} /\ UNCHANGED <<db, node, proc>>
      /\ Live' <=> Live
  BY DEF AddCall, Live
<1>2. /\ boot.pc = "off"
      /\ \A s \in Tasks \ {t} : ~Works(s, u)
      /\ \A e \in stream[t].stale : e.id # u
      /\ WorkedUser(u)!(t)!2
      /\ job[t] \in Job
  BY <1>1, WorkerFacts
<1> DEFINE j == job[t]
<1>3. PICK tag \in j.add : \/ UnclaimedTag(t, tag)
                           \/ Unreachable(t, "add", tag)
                           \/ AddAccount(t, tag)
  BY DEF AddCall
<1>4. tag \in claimed /\ tag \in j.tags
  BY <1>2
<1>5. Live => AccountsOf(u) = Held(u, j.new, (j.tags \ j.add) \cap claimed)
  <2>1. Held(u, j.old, {}) = {}
    BY DEF Held
  <2>2. \A X, Y : X = {} => X \cup Y = Y
    OBVIOUS
  <2>3. QED
    BY <1>1, <1>2, <2>1, <2>2
<1>6. Live => Holders(tag, u, j.new) = {}
  BY <1>5, HoldersFacts DEF Held
<1>7. Called(t, "add", tag)
  BY <1>3, <1>4, <1>6 DEF UnclaimedTag, Unreachable, AddAccount, Live
<1>8. job' = [job EXCEPT ![t].add = @ \ {tag}] /\ stream' = stream
  BY <1>7 DEF Called
<1>9. /\ job'[t].rem = {} /\ job'[t].uid = u /\ job'[t].old = j.old
      /\ job'[t].new = j.new /\ job'[t].add = j.add \ {tag} /\ job'[t].tags = j.tags
      /\ job'[t].del = j.del /\ job'[t].stage = j.stage
      /\ job'[t] \in Job
      /\ \A s \in Tasks \ {t} : job'[s] = job[s]
  BY <1>1, <1>2, <1>8 DEF TypeOK, Job
<1>10. job'[t] # NoJob
  BY <1>9
<1>11. ASSUME Live
       PROVE  AccountsOf(u)' = Held(u, j.old, {})
                                  \cup Held(u, j.new, (j.tags \ (j.add \ {tag})) \cap claimed)
  <2>1. accounts' = accounts \cup {[tag |-> tag, id |-> u, ident |-> j.new]}
    BY <1>3, <1>4, <1>6, <1>11 DEF UnclaimedTag, Unreachable, AddAccount
  <2>2. AccountsOf(u)' = AccountsOf(u) \cup {[tag |-> tag, id |-> u, ident |-> j.new]}
    BY <2>1 DEF AccountsOf
  <2>3. (j.tags \ (j.add \ {tag})) \cap claimed = ((j.tags \ j.add) \cap claimed) \cup {tag}
    BY <1>4
  <2>4. Held(u, j.new, ((j.tags \ j.add) \cap claimed) \cup {tag})
          = Held(u, j.new, (j.tags \ j.add) \cap claimed)
               \cup {[tag |-> tag, id |-> u, ident |-> j.new]}
    BY DEF Held
  <2>5. Held(u, j.old, {}) = {}
    BY DEF Held
  <2>6. \A X, Y : X = {} => X \cup Y = Y
    OBVIOUS
  <2>7. QED
    BY <1>5, <1>11, <2>2, <2>3, <2>4, <2>5, <2>6
<1>12. WorkedUser(u)'
  <2> SUFFICES ASSUME NEW s \in Tasks, (job[s] # NoJob /\ job[s].uid = u)'
               PROVE  (WorkedUser(u)!(s)!2)'
    BY DEF WorkedUser
  <2>1. s = t
    BY <1>2, <1>9 DEF Works
  <2>2. j.stage # "outs" /\ j.add # {}
    BY <1>2, <1>3
  <2>3. QED
    BY <1>1, <1>2, <1>9, <1>11, <2>1, <2>2 DEF node
<1>13. QuietUser(u)'
  BY <1>9, <1>10 DEF QuietUser
<1>14. QED
  BY <1>1, <1>2, <1>8, <1>9, <1>10, <1>12, <1>13, OneWorker DEF node

LEMMA StoreStep ==
    ASSUME TypeOK, BootOK, NEW u \in Ids, UserInv(u), NEW t \in Tasks,
           StoreInbounds(t) \/ StoreOutbounds(t) \/ DeleteUser(t)
    PROVE  UserInv(u)'
<1>1. /\ job[t] # NoJob /\ UNCHANGED <<stream, accounts, node, proc>>
      /\ AccountsOf(u)' = AccountsOf(u) /\ (Live' <=> Live)
  BY DEF StoreInbounds, StoreOutbounds, DeleteUser, CallsDone, Finish, AccountsOf, Live
<1>2. job[t] \in Job
  BY <1>1, JobType
<1> DEFINE j == job[t]
<1>3. CASE j.uid # u
  <2>1. db'[u] = db[u]
    BY <1>3 DEF StoreInbounds, StoreOutbounds, DeleteUser, TypeOK
  <2>2. /\ \A s \in Tasks \ {t} : job'[s] = job[s]
        /\ job'[t] = NoJob \/ job'[t].uid # u
    BY <1>2, <1>3 DEF StoreInbounds, StoreOutbounds, DeleteUser, Finish, TypeOK, Job
  <2>3. QED
    BY <1>1, <1>3, <2>1, <2>2, Undisturbed DEF node
<1>4. CASE j.uid = u
  <2>1. /\ boot.pc = "off"
        /\ \A s \in Tasks \ {t} : ~Works(s, u)
        /\ \A e \in stream[t].stale : e.id # u
        /\ WorkedUser(u)!(t)!2
    BY <1>1, <1>4, WorkerFacts, ZenonT(60)
  <2>2. \A X, Y : X = {} => X \cup Y = Y
    OBVIOUS
  <2>3. \A i : Held(u, i, {}) = {}
    BY DEF Held
  <2>4. \A s \in Tasks \ {t} : job'[s] = job[s] /\ (job[s] = NoJob \/ job[s].uid # u)
    BY <2>1 DEF StoreInbounds, StoreOutbounds, DeleteUser, Finish, TypeOK, Works
  <2>5. CASE StoreInbounds(t)
    <3>1. /\ job'[t].rem = {} /\ job'[t].uid = u /\ job'[t].old = j.old
          /\ job'[t].new = j.new /\ job'[t].add = {} /\ job'[t].tags = j.tags
          /\ ~job'[t].del /\ job'[t].stage = "outs" /\ job'[t] \in Job
      BY <1>2, <1>4, <2>5 DEF StoreInbounds, CallsDone, TypeOK, Job
    <3>2. job'[t] # NoJob
      BY <3>1
    <3>3. db'[u] = [ident |-> j.new, tags |-> j.tags, outs |-> OutsOf(u)]
      BY <1>4, <2>5 DEF StoreInbounds, TypeOK
    <3>4. db'[u] # NoRow
      <4>1. OutsOf(u) \in Outs
        BY DEF OutsOf, TypeOK, Row
      <4>2. db'[u] \in Row
        BY <1>2, <3>3, <4>1 DEF Row, Job
      <4>3. QED
        BY <4>2
    <3>5. QuietUser(u)'
      BY <3>1, <3>2 DEF QuietUser
    <3>6. WorkedUser(u)'
      <4> SUFFICES ASSUME NEW s \in Tasks, (job[s] # NoJob /\ job[s].uid = u)'
                   PROVE  (WorkedUser(u)!(s)!2)'
        BY DEF WorkedUser
      <4>1. s = t
        BY <2>4
      <4>2. Live => AccountsOf(u)' = Held(u, j.old, {})
                                               \cup Held(u, j.new, (j.tags \ {}) \cap claimed)
        <5>1. j.rem = {} /\ j.add = {}
          BY <2>5 DEF StoreInbounds, CallsDone
        <5>2. QED
          BY <1>1, <2>1, <5>1
      <4>3. db'[u].ident = j.new /\ db'[u].tags = j.tags
        BY <3>3
      <4>4. {} \cap (j.tags \ {}) = {} /\ {} \cup {} \subseteq claimed /\ {} \subseteq j.tags
        OBVIOUS
      <4>5. QED
        BY <1>1, <2>1, <3>1, <3>4, <4>1, <4>2, <4>3, <4>4 DEF node
    <3>7. QED
      BY <1>1, <2>1, <2>4, <3>5, <3>6, OneWorker DEF node
  <2>6. CASE StoreOutbounds(t)
    <3>1. job'[t] = NoJob
      BY <2>6 DEF StoreOutbounds, Finish, TypeOK
    <3>2. j.rem = {} /\ j.add = {} /\ db[u] # NoRow /\ db[u].tags = j.tags
      BY <2>1, <2>6 DEF StoreOutbounds
    <3>3. db'[u] = [ident |-> j.new, tags |-> j.tags, outs |-> j.outs]
      BY <1>4, <2>6, <3>2 DEF StoreOutbounds, TagsOf, TypeOK
    <3>4. db'[u] # NoRow
      BY <1>2, <3>3 DEF Row, Job
    <3>5. j.tags \ {} = j.tags
      OBVIOUS
    <3>6. Due(u)' = Held(u, j.new, j.tags \cap claimed)
      <4>1. db'[u].ident = j.new /\ db'[u].tags = j.tags
        BY <3>3
      <4>2. QED
        BY <1>1, <3>4, <4>1 DEF Due, node
    <3>7. Live => AccountsOf(u) = Held(u, j.new, j.tags \cap claimed)
      <4>1. Held(u, j.old, j.rem) = {} /\ (j.tags \ j.add) \cap claimed = j.tags \cap claimed
        BY <2>3, <3>2
      <4>2. QED
        BY <2>1, <2>2, <4>1
    <3>8. QuietUser(u)'
      BY <1>1, <3>6, <3>7 DEF QuietUser
    <3>9. WorkedUser(u)'
      BY <2>4, <3>1 DEF WorkedUser
    <3>10. QED
      BY <1>1, <2>1, <2>4, <3>8, <3>9, OneWorker DEF node
  <2>7. CASE DeleteUser(t)
    <3>1. job'[t] = NoJob
      BY <2>7 DEF DeleteUser, Finish, TypeOK
    <3>2. j.rem = {} /\ j.add = {} /\ j.tags = {}
      BY <2>1, <2>7 DEF DeleteUser, CallsDone
    <3>3. Due(u)' = {}
      BY <1>4, <2>7 DEF DeleteUser, Due, TypeOK
    <3>4. ({} \ {}) \cap claimed = {}
      OBVIOUS
    <3>5. Live => AccountsOf(u) = {}
      BY <2>1, <2>2, <2>3, <3>2, <3>4
    <3>6. QuietUser(u)'
      BY <1>1, <3>3, <3>5 DEF QuietUser
    <3>7. WorkedUser(u)'
      BY <2>4, <3>1 DEF WorkedUser
    <3>8. QED
      BY <1>1, <2>1, <2>4, <3>6, <3>7, OneWorker DEF node
  <2>8. QED
    BY <2>5, <2>6, <2>7
<1>5. QED
  BY <1>3, <1>4

\* The sweep's snapshot of a user is taken, and acted on, when no one works
\* on it.
LEMMA ListStaleStep ==
    ASSUME TypeOK, BootOK, NEW u \in Ids, cause[u] = "none" => UserInv(u),
           cause'[u] = "none", NEW t \in Tasks, ListStale(t)
    PROVE  UserInv(u)'
<1>1. cause[u] = "none" /\ UserInv(u)
  BY DEF ListStale, Blame, TypeOK
<1>2. /\ UNCHANGED <<db, job, accounts, node, proc>> /\ job[t] = NoJob
      /\ stream[t].stale = {}
      /\ \A s \in Tasks \ {t} : stream'[s] = stream[s]
  BY DEF ListStale, BootOK, TypeOK
<1>3. /\ AccountsOf(u)' = AccountsOf(u) /\ Due(u)' = Due(u) /\ Hydrated(u)' = Hydrated(u)
      /\ Live' <=> Live
  BY <1>2 DEF AccountsOf, Due, Hydrated, node, Live
<1>4. stream'[t].stale = {[id |-> v, ident |-> db[v].ident, tags |-> Hydrated(v)] :
                            v \in {w \in Ids \ BatchIds(t) : db[w] # NoRow}}
  BY DEF ListStale, TypeOK
<1>5. \A e \in stream'[t].stale : e.id = u =>
         /\ u \in Ids \ BatchIds(t) /\ db[u] # NoRow
         /\ e.ident = db[u].ident /\ e.tags = Hydrated(u)
  BY <1>4
<1>6. CASE \A e \in stream'[t].stale : e.id # u
  BY <1>1, <1>2, <1>3, <1>6, Undisturbed DEF node
<1>7. CASE \E e \in stream'[t].stale : e.id = u
  <2>1. boot.pc = "off" /\ ~BusyBut(t, u)
    BY <1>1, <1>5, <1>7 DEF ListStale, Blame
  <2>2. \A s \in Tasks \ {t} : ~Works(s, u)
    BY <2>1 DEF BusyBut, Works
  <2>3. \A s \in Tasks : ~Works(s, u)
    BY <1>2, <2>2 DEF Works
  <2>4. SoleWorker(u)'
    <3>1. \A s \in Tasks : Works(s, u)' => s = t
      BY <1>2, <2>2 DEF Works
    <3>2. \A s \in Tasks : job'[s] = NoJob \/ job'[s].uid # u
      BY <1>2, <2>3 DEF Works
    <3>3. QED
      BY <1>2, <2>1, <3>1, <3>2 DEF SoleWorker, node
  <2>5. BootUser(u)' /\ QuietUser(u)'
    BY <1>1, <1>2, <1>3 DEF UserInv, BootUser, QuietUser, node
  <2>6. StaleUser(u)'
    BY <1>2, <1>3, <1>5, <2>3 DEF StaleUser, Works
  <2>7. WorkedUser(u)'
    BY <1>2, <2>3 DEF WorkedUser, Works
  <2>8. QED
    BY <2>4, <2>5, <2>6, <2>7 DEF UserInv
<1>8. QED
  BY <1>6, <1>7

LEMMA SweepNextStep ==
    ASSUME TypeOK, BootOK, NEW u \in Ids, cause[u] = "none" => UserInv(u),
           cause'[u] = "none", NEW t \in Tasks, SweepNext(t)
    PROVE  UserInv(u)'
<1>1. PICK e \in stream[t].stale : /\ Begin(t, Removal(e.id, e.ident, e.tags))
                                   /\ stream' = [stream EXCEPT ![t].stale = @ \ {e}]
  BY DEF SweepNext
<1>2. e \in Stored /\ job[t] = NoJob /\ UNCHANGED <<db, accounts, node, proc>>
  BY StreamType DEF SweepNext
<1> DEFINE j == Removal(e.id, e.ident, e.tags)
<1>3. j \in Job
  BY <1>2, RemovalType DEF Stored
<1>4. /\ j.uid = e.id /\ j.stage = "call" /\ j.rem = e.tags /\ j.add = {}
      /\ j.tags = {} /\ j.del /\ j.old = e.ident /\ j.new = e.ident
  BY DEF Removal
<1>5. /\ \A s \in Tasks \ {t} : stream'[s] = stream[s]
      /\ stream'[t].stale = stream[t].stale \ {e}
  BY <1>1 DEF TypeOK
<1>6. cause[u] = "none" /\ UserInv(u)
  BY <1>1 DEF Begin, Blame, TypeOK
<1>7. e.id = u => /\ db[u] # NoRow /\ e.ident = db[u].ident /\ e.tags = Hydrated(u)
                  /\ \A x \in stream[t].stale : x.id = u => x = e
  <2> SUFFICES ASSUME e.id = u PROVE <1>7!2
    OBVIOUS
  <2>1. \A x \in stream[t].stale : x.id = u =>
           db[u] # NoRow /\ x.ident = db[u].ident /\ x.tags = Hydrated(u)
    BY <1>6 DEF UserInv, StaleUser
  <2>2. \A x \in stream[t].stale : x.id = u => x = e
    BY <1>2, <2>1, StreamType DEF Stored
  <2>3. QED
    BY <2>1, <2>2
<1>8. j.uid = u => \A x \in stream'[t].stale : x.id # u
  BY <1>4, <1>5, <1>7
<1> HIDE DEF j
<1>9. j.uid = u => FromStorage(u, j)
  <2> SUFFICES ASSUME j.uid = u PROVE FromStorage(u, j)
    OBVIOUS
  <2>1. j.rem \subseteq claimed => Due(u) = Held(u, j.old, j.rem)
    <3>1. e.id = u
      BY <1>4
    <3>2. Due(u) = Held(u, db[u].ident, Hydrated(u) \cap claimed)
      BY <1>7, <3>1, DueFacts
    <3>3. Due(u) = Held(u, j.old, j.rem \cap claimed)
      BY <1>4, <1>7, <3>1, <3>2
    <3>4. j.rem \subseteq claimed => j.rem \cap claimed = j.rem
      OBVIOUS
    <3>5. QED
      BY <3>3, <3>4
  <2>2. /\ Held(u, j.new, (j.tags \ j.add) \cap claimed) = {}
        /\ j.rem \cap (j.tags \ j.add) = {}
    BY <1>4 DEF Held
  <2>3. \A X, Y : Y = {} => X = X \cup Y
    OBVIOUS
  <2>4. j.rem \subseteq claimed =>
           Due(u) = Held(u, j.old, j.rem) \cup Held(u, j.new, (j.tags \ j.add) \cap claimed)
    BY <2>1, <2>2, <2>3
  <2>5. QED
    BY <1>4, <2>2, <2>4 DEF FromStorage
<1>10. Begin(t, j)
  BY <1>1 DEF j
<1>11. QED
  BY <1>2, <1>3, <1>5, <1>8, <1>9, <1>10, BeginStep

\* A cancelled handler leaves its user in agreement only when the calls and
\* the inbounds were done.
LEMMA CancelStep ==
    ASSUME TypeOK, BootOK, NEW u \in Ids, cause[u] = "none" => UserInv(u),
           cause'[u] = "none", NEW t \in Tasks, Cancel(t)
    PROVE  UserInv(u)'
<1>1. cause[u] = "none" /\ UserInv(u)
  BY DEF Cancel, Blame, TypeOK
<1>2. /\ UNCHANGED <<db, accounts, node, proc>>
      /\ job'[t] = NoJob /\ stream'[t].stale = {}
      /\ \A s \in Tasks \ {t} : job'[s] = job[s] /\ stream'[s] = stream[s]
  BY DEF Cancel, Abort, IdleStream, TypeOK
<1>3. AccountsOf(u)' = AccountsOf(u) /\ Due(u)' = Due(u) /\ (Live' <=> Live)
  BY <1>2 DEF AccountsOf, Due, node, Live
<1>4. CASE job[t] = NoJob \/ job[t].uid # u
  BY <1>1, <1>2, <1>3, <1>4, Undisturbed DEF node
<1>5. CASE job[t] # NoJob /\ job[t].uid = u
  <2> DEFINE j == job[t]
  <2>1. /\ boot.pc = "off"
        /\ \A s \in Tasks \ {t} : ~Works(s, u)
        /\ WorkedUser(u)!(t)!2
        /\ j \in Job
    BY <1>1, <1>5, WorkerFacts, ZenonT(60)
  <2>2. j.stage = "outs"
    BY <1>1, <1>5, <2>1 DEF Cancel, Blame, Job
  <2>3. Due(u) = Held(u, j.new, j.tags \cap claimed)
    BY <2>1, <2>2 DEF Due
  <2>4. Live => AccountsOf(u) = Held(u, j.new, j.tags \cap claimed)
    <3>1. Held(u, j.old, j.rem) = {} /\ (j.tags \ j.add) \cap claimed = j.tags \cap claimed
      BY <2>1, <2>2 DEF Held
    <3>2. \A X, Y : X = {} => X \cup Y = Y
      OBVIOUS
    <3>3. Live => AccountsOf(u) = Held(u, j.old, j.rem)
                                       \cup Held(u, j.new, (j.tags \ j.add) \cap claimed)
      BY <2>1
    <3>4. QED
      BY <3>1, <3>2, <3>3
  <2>5. QuietUser(u)'
    BY <1>2, <1>3, <2>3, <2>4 DEF QuietUser
  <2>6. WorkedUser(u)'
    BY <1>2, <2>1 DEF WorkedUser, Works
  <2>7. QED
    BY <1>1, <1>2, <2>1, <2>5, <2>6, OneWorker DEF node
<1>6. QED
  BY <1>4, <1>5

LEMMA RPCStep ==
    ASSUME TypeOK, BootOK, NEW u \in Ids, cause[u] = "none" => UserInv(u),
           cause'[u] = "none", NEW t \in Tasks,
           \/ \E r \in Requests : SyncUsers(t, r)
           \/ \E b \in Batches : RepopulateUsers(t, b)
           \/ RepopulateNext(t) \/ SweepDone(t)
    PROVE  UserInv(u)'
<1>1. CASE \E r \in Requests : SyncUsers(t, r)
  <2>1. PICK r \in RequestSet : SyncUsers(t, r)
    BY <1>1
  <2>2. stream' = stream /\ stream[t].stale = {}
    BY <2>1 DEF SyncUsers, BootOK
  <2>3. job[t] = NoJob /\ UpdateUser(t, r) /\ UNCHANGED <<db, accounts, node, proc>>
    BY <2>1 DEF SyncUsers
  <2>4. QED
    BY <2>2, <2>3, UpdateUserStep
<1>2. CASE RepopulateNext(t)
  <2>1. PICK r \in RequestSet : /\ UpdateUser(t, r)
                                /\ stream' = [stream EXCEPT ![t].todo = @ \ {r}]
    BY <1>2, StreamType DEF RepopulateNext
  <2>2. /\ \A s \in Tasks \ {t} : stream'[s] = stream[s]
        /\ stream'[t].stale = {}
    BY <1>2, <2>1 DEF RepopulateNext, BootOK, TypeOK
  <2>3. job[t] = NoJob /\ UNCHANGED <<db, accounts, node, proc>>
    BY <1>2 DEF RepopulateNext
  <2>4. QED
    BY <2>1, <2>2, <2>3, UpdateUserStep
<1>3. CASE SweepDone(t) \/ \E b \in Batches : RepopulateUsers(t, b)
  <2>1. /\ UNCHANGED <<db, job, cause, accounts, node, proc>>
        /\ \A s \in Tasks : stream'[s].stale = {} \/ stream'[s] = stream[s]
    BY <1>3 DEF SweepDone, RepopulateUsers, IdleStream, TypeOK
  <2>2. AccountsOf(u)' = AccountsOf(u) /\ UserInv(u)
    BY <2>1 DEF AccountsOf
  <2>3. \A s \in Tasks : \A e \in stream'[s].stale : e.id = u => e \in stream[s].stale
    BY <2>1
  <2>4. QED
    BY <2>1, <2>2, <2>3, Undisturbed DEF node
<1>4. QED
  BY <1>1, <1>2, <1>3

(***************************************************************************)
(* The steps of the process and of start().                                *)
(***************************************************************************)
\* While xray is being started no handler works on a clean user: only what
\* start() has loaded is to be shown.
LEMMA NoWorker ==
    ASSUME NEW u \in Ids, \A t \in Tasks : ~Works(t, u), UNCHANGED <<job, stream>>
    PROVE  SoleWorker(u)' /\ StaleUser(u)' /\ WorkedUser(u)'
<1>1. \A t \in Tasks : ~Works(t, u)'
  BY DEF Works
<1>2. QED
  BY <1>1 DEF SoleWorker, StaleUser, WorkedUser, Works

LEMMA StartStep ==
    ASSUME TypeOK, BootOK, NEW u \in Ids, cause[u] = "none" => UserInv(u),
           cause'[u] = "none", Spawn \/ Listen \/ Started \/ StartFails
    PROVE  UserInv(u)'
<1>1. cause[u] = "none" /\ UserInv(u) /\ UNCHANGED <<job, stream, db, accounts>>
  BY DEF Spawn, Listen, Started, StartFails, Blame, TypeOK
<1>2. boot.pc # "off"
  BY <1>1 DEF Spawn, Listen, Started, StartFails, Blame
<1>3. \A t \in Tasks : ~Works(t, u)
  BY <1>1, <1>2 DEF UserInv, SoleWorker
<1>4. SoleWorker(u)' /\ StaleUser(u)' /\ WorkedUser(u)'
  BY <1>1, <1>3, NoWorker
<1>5. AccountsOf(u)' = AccountsOf(u) /\ AccountsOf(u) = {}
  <2>1. boot.pc \in {"read", "wait"}
    BY <1>1 DEF Spawn, Listen, Started, StartFails, Blame
  <2>2. boot.pc = "read" => accounts = {}
    BY DEF BootOK, Live
  <2>3. QED
    BY <1>1, <2>1, <2>2 DEF UserInv, BootUser, AccountsOf
<1>6. CASE Spawn
  BY <1>4, <1>5, <1>6 DEF Spawn, UserInv, BootUser, QuietUser, BootOK, TypeOK
<1>7. CASE Listen
  <2>1. boot.pc = "wait" /\ boot' = boot
    BY <1>1, <1>7 DEF Listen, Blame, node
  <2>2. QED
    BY <1>1, <1>4, <1>5, <2>1 DEF UserInv, BootUser, QuietUser
<1>8. CASE Started
  <2>1. /\ boot.by # "bare" /\ boot.pc = "wait" /\ boot.batch = {}
        /\ claimed' = claimed
    BY <1>1, <1>8 DEF Started, UserInv, BootUser, BootOK
  <2>2. boot'.pc = "load" /\ boot'.todo = claimed /\ boot'.batch = {}
    BY <1>8, <2>1 DEF Started, TypeOK
  <2>3. \A x \in Due(u)' : x.tag \in claimed
    BY <1>1, <2>1 DEF Due, Held
  <2>4. {x \in Due(u)' : x.tag \notin boot'.todo /\ x \notin boot'.batch} = {}
    BY <2>2, <2>3
  <2>5. BootUser(u)'
    BY <1>5, <2>2, <2>4 DEF BootUser
  <2>6. QED
    BY <1>4, <2>2, <2>5 DEF UserInv, QuietUser
<1>9. CASE StartFails
  <2>1. boot'.pc = "off" /\ ~Live'
    BY <1>9 DEF StartFails, Off, Live
  <2>2. QED
    BY <1>4, <2>1 DEF UserInv, BootUser, QuietUser
<1>10. QED
  BY <1>6, <1>7, <1>8, <1>9

LEMMA LoadStep ==
    ASSUME TypeOK, BootOK, NEW u \in Ids, cause[u] = "none" => UserInv(u),
           cause'[u] = "none",
           LoadUser \/ BootDone \/ \E tag \in Tags : ListInboundUsers(tag)
    PROVE  UserInv(u)'
<1>1. /\ cause[u] = "none" /\ UserInv(u)
      /\ UNCHANGED <<job, stream, db, inbounds, claimed, proc>>
      /\ boot.pc = "load" /\ (Live' <=> Live)
  <2>1. cause' = cause \/ cause' = Blame(Ids, "abort")
    BY DEF LoadUser, BootDone, ListInboundUsers
  <2>2. cause[u] = "none"
    BY <2>1 DEF Blame
  <2>3. QED
    BY <2>2 DEF LoadUser, BootDone, ListInboundUsers, Live
<1>2. \A t \in Tasks : ~Works(t, u)
  BY <1>1 DEF UserInv, SoleWorker
<1>3. SoleWorker(u)' /\ StaleUser(u)' /\ WorkedUser(u)'
  BY <1>1, <1>2, NoWorker
<1>4. Due(u)' = Due(u)
  BY <1>1 DEF Due
<1>5. /\ \A x \in boot.batch : x.id = u => x \in Due(u) /\ x.tag \notin boot.todo
      /\ Live =>
            AccountsOf(u) = {x \in Due(u) : x.tag \notin boot.todo /\ x \notin boot.batch}
  BY <1>1 DEF UserInv, BootUser
<1>6. CASE LoadUser
  <2>1. PICK a \in boot.batch :
          IF ~Live
          THEN boot' = [boot EXCEPT !.batch = @ \ {a}] /\ UNCHANGED <<accounts, cause>>
          ELSE IF Holders(a.tag, a.id, a.ident) = {}
          THEN /\ boot' = [boot EXCEPT !.batch = @ \ {a}]
               /\ accounts' = accounts \cup {a}
               /\ UNCHANGED cause
          ELSE boot' = Off /\ cause' = Blame(Ids, "abort") /\ UNCHANGED accounts
    BY <1>6 DEF LoadUser
  <2>2. /\ boot' = [boot EXCEPT !.batch = @ \ {a}]
        /\ ~Live => accounts' = accounts
        /\ Live => accounts' = accounts \cup {a}
    BY <1>1, <2>1 DEF Blame
  <2>3. /\ boot'.pc = "load" /\ boot'.todo = boot.todo
        /\ boot'.batch = boot.batch \ {a}
    BY <1>1, <2>2 DEF TypeOK
  <2>4. Live => AccountsOf(u)' = IF a.id = u THEN AccountsOf(u) \cup {a}
                                                    ELSE AccountsOf(u)
    BY <2>2 DEF AccountsOf
  <2>5. \A x \in Due(u) : x.id = u
    BY DEF Due, Held
  <2>6. Live => AccountsOf(u)' =
           {x \in Due(u) : x.tag \notin boot'.todo /\ x \notin boot'.batch}
    BY <1>5, <2>3, <2>4, <2>5
  <2>7. BootUser(u)'
    BY <1>1, <1>4, <1>5, <2>3, <2>6 DEF BootUser
  <2>8. QED
    BY <1>3, <2>3, <2>7 DEF UserInv, QuietUser
<1>7. ASSUME NEW tag \in Tags, ListInboundUsers(tag)
      PROVE  UserInv(u)'
  <2> DEFINE found == {[tag |-> tag, id |-> v, ident |-> db[v].ident] :
                          v \in {w \in Ids : db[w] # NoRow /\ tag \in db[w].tags}}
  <2>1. boot' = [boot EXCEPT !.todo = @ \ {tag}, !.batch = found]
    BY <1>7 DEF ListInboundUsers
  <2>2. boot.batch = {} /\ tag \in boot.todo /\ tag \in claimed /\ accounts' = accounts
    BY <1>1, <1>7 DEF ListInboundUsers, BootOK
  <2>3. \A x \in found : x.id = u =>
           /\ x = [tag |-> tag, id |-> u, ident |-> db[u].ident]
           /\ db[u] # NoRow /\ tag \in db[u].tags
    OBVIOUS
  <2>4. \A x \in found : x.id = u => x \in Due(u) /\ x.tag = tag
    BY <2>2, <2>3 DEF Due, Held
  <2>5. \A x \in Due(u) : x.tag = tag => x \in found
    BY DEF Due, Held
  <2>6. \A x \in Due(u) : x.id = u
    BY DEF Due, Held
  <2> HIDE DEF found
  <2>7. boot'.pc = "load" /\ boot'.todo = boot.todo \ {tag} /\ boot'.batch = found
    BY <1>1, <2>1 DEF TypeOK
  <2>8. Live => AccountsOf(u)' =
           {x \in Due(u) : x.tag \notin boot'.todo /\ x \notin boot'.batch}
    <3>1. {x \in Due(u) : x.tag \notin boot.todo /\ x \notin boot.batch}
             = {x \in Due(u) : x.tag \notin boot'.todo /\ x \notin boot'.batch}
      BY <2>2, <2>4, <2>5, <2>6, <2>7
    <3>2. QED
      BY <1>5, <2>2, <3>1 DEF AccountsOf
  <2>9. BootUser(u)'
    BY <1>1, <1>4, <2>4, <2>7, <2>8 DEF BootUser
  <2>10. QED
    BY <1>3, <2>7, <2>9 DEF UserInv, QuietUser
<1>8. CASE BootDone
  <2>1. boot.batch = {} /\ boot.todo = {} /\ boot'.pc = "off" /\ accounts' = accounts
    BY <1>8 DEF BootDone, Off
  <2>2. Live => AccountsOf(u)' = Due(u)
    BY <1>5, <2>1 DEF AccountsOf
  <2>3. QED
    BY <1>1, <1>3, <1>4, <2>1, <2>2 DEF UserInv, BootUser, QuietUser
<1>9. QED
  BY <1>6, <1>7, <1>8

\* A start from scratch, or one that fails before there is a process.
LEMMA AfreshStep ==
    ASSUME TypeOK, BootOK, NEW u \in Ids, cause'[u] = "none",
           AutoRestart \/ NodeRestart \/ (\E cfg \in Configs : Restart(cfg))
             \/ BadRestart
    PROVE  UserInv(u)'
<1>1. boot'.pc \in {"read", "off"} /\ ~Live'
  BY DEF AutoRestart, NodeRestart, Restart, BadRestart, Reading, Off, Live
<1>2. \A t \in Tasks : ~Works(t, u)'
  <2>1. CASE AutoRestart
    <3>1. ~Busy(u)
      BY <2>1 DEF AutoRestart, AfreshBut, BusyUsers
    <3>2. QED
      BY <2>1, <3>1 DEF AutoRestart, Busy, Works
  <2>2. CASE NodeRestart
    BY <2>2 DEF NodeRestart, Works, IdleStream
  <2>3. ASSUME NEW cfg \in Configs, Restart(cfg)
        PROVE  <1>2!:
    <3>1. cause' = AfreshBut({v \in Ids : Busy(v)'})
      BY <2>3 DEF Restart
    <3>2. ~Busy(u)'
      BY <3>1 DEF AfreshBut
    <3>3. QED
      BY <3>2 DEF Busy, Works
  <2>4. CASE BadRestart
    <3>1. cause' = Blame({v \in Ids : Busy(v)'}, "overlap")
      BY <2>4 DEF BadRestart
    <3>2. ~Busy(u)'
      BY <3>1 DEF Blame
    <3>3. QED
      BY <3>2 DEF Busy, Works
  <2>5. QED
    BY <2>1, <2>2, <2>3, <2>4
<1>3. SoleWorker(u)' /\ StaleUser(u)' /\ WorkedUser(u)'
  BY <1>2 DEF SoleWorker, StaleUser, WorkedUser, Works
<1>4. BootUser(u)' /\ QuietUser(u)'
  BY <1>1 DEF BootUser, QuietUser
<1>5. QED
  BY <1>3, <1>4 DEF UserInv

\* Handlers end with the process or stay as they are; without a process there
\* are no accounts to speak of.
LEMMA GoneStep ==
    ASSUME TypeOK, BootOK, NEW u \in Ids, cause[u] = "none" => UserInv(u),
           cause'[u] = "none", Die \/ CancelStop
    PROVE  UserInv(u)'
<1>1. /\ cause[u] = "none" /\ UserInv(u) /\ UNCHANGED <<db, inbounds, claimed>>
      /\ proc' = "dead" /\ (boot' = boot \/ (boot.pc = "load" /\ boot' = Off))
  BY DEF Die, CancelStop
<1>2. PICK A \in SUBSET Tasks : ProcessGone(A)
  BY DEF Die, CancelStop
<1>3. accounts' = {} /\ \A t \in Tasks : /\ job'[t] = job[t] \/ job'[t] = NoJob
                                         /\ stream'[t] = stream[t] \/ stream'[t].stale = {}
  BY <1>2 DEF ProcessGone, IdleStream
<1>4. \A t \in Tasks : Works(t, u)' => Works(t, u)
  BY <1>3 DEF Works
<1>5. AccountsOf(u)' = {}
  BY <1>3 DEF AccountsOf
<1>6. Due(u)' = Due(u) /\ Hydrated(u)' = Hydrated(u)
  BY <1>1 DEF Due, Hydrated
<1>7. SoleWorker(u)'
  <2>1. boot'.pc # "off" => boot.pc # "off"
    BY <1>1 DEF Off
  <2>2. QED
    BY <1>1, <1>3, <1>4, <2>1 DEF UserInv, SoleWorker
<1>8. BootUser(u)'
  <2>1. CASE boot' = boot
    BY <1>1, <1>5, <1>6, <2>1 DEF UserInv, BootUser, Live
  <2>2. CASE boot.pc = "load" /\ boot' = Off
    BY <2>2 DEF BootUser, Off
  <2>3. QED
    BY <1>1, <2>1, <2>2
<1>9. QuietUser(u)'
  BY <1>1 DEF QuietUser, Live
<1>10. StaleUser(u)'
  BY <1>1, <1>3, <1>6 DEF UserInv, StaleUser
<1>11. WorkedUser(u)'
  <2> SUFFICES ASSUME NEW t \in Tasks, (job[t] # NoJob /\ job[t].uid = u)'
               PROVE  (WorkedUser(u)!(t)!2)'
    BY DEF WorkedUser
  <2>1. job'[t] = job[t] /\ job[t] # NoJob /\ job[t].uid = u
    BY <1>3
  <2>2. ~Live' /\ db' = db /\ inbounds' = inbounds /\ claimed' = claimed
    BY <1>1 DEF Live
  <2>3. WorkedUser(u)!(t)!2
    BY <1>1, <2>1 DEF UserInv, WorkedUser
  <2>4. QED
    BY <2>1, <2>2, <2>3
<1>12. QED
  BY <1>7, <1>8, <1>9, <1>10, <1>11 DEF UserInv

LEMMA HangStep ==
    ASSUME TypeOK, NEW u \in Ids, cause[u] = "none" => UserInv(u), cause'[u] = "none", Hang
    PROVE  UserInv(u)'
<1>1. /\ UserInv(u) /\ UNCHANGED <<db, accounts, node, stream, job>>
      /\ Live /\ Live'
  BY DEF Hang, Live
<1>2. AccountsOf(u)' = AccountsOf(u)
  BY <1>1 DEF AccountsOf
<1>3. QED
  BY <1>1, <1>2, Undisturbed DEF node

LEMMA UserStep ==
    ASSUME TypeOK, BootOK, [Next]_vars, NEW u \in Ids,
           cause[u] = "none" => UserInv(u), cause'[u] = "none"
    PROVE  UserInv(u)'
<1>1. CASE UNCHANGED vars
  <2>1. UserInv(u) /\ AccountsOf(u)' = AccountsOf(u)
    BY <1>1 DEF vars, AccountsOf
  <2>2. QED
    BY <1>1, <2>1, Undisturbed DEF vars
<1>2. ASSUME NEW t \in Tasks, RemoveCall(t) \/ AddCall(t)
      PROVE  UserInv(u)'
  <2>1. UserInv(u)
    BY <1>2 DEF RemoveCall, AddCall
  <2>2. QED
    BY <1>2, <2>1, OtherCallStep, OwnRemoveStep, OwnAddStep
<1>3. ASSUME NEW t \in Tasks, StoreInbounds(t) \/ StoreOutbounds(t) \/ DeleteUser(t)
      PROVE  UserInv(u)'
  <2>1. UserInv(u)
    BY <1>3 DEF StoreInbounds, StoreOutbounds, DeleteUser
  <2>2. QED
    BY <1>3, <2>1, StoreStep
<1>4. CASE BareRestart \/ CancelRestart
  BY <1>4 DEF BareRestart, CancelRestart, Blame
<1>5. CASE Panel
  BY <1>4, <1>5, RPCStep, AfreshStep DEF Panel
<1>6. ASSUME NEW t \in Tasks, Handler(t)
      PROVE  UserInv(u)'
  BY <1>2, <1>3, <1>6, RPCStep, ListStaleStep, SweepNextStep DEF Handler
<1>7. CASE Boot
  BY <1>7, StartStep, LoadStep DEF Boot
<1>8. CASE AutoRestart
  BY <1>8, AfreshStep
<1>9. CASE Faults
  BY <1>4, <1>9, CancelStep, GoneStep, HangStep, StartStep, AfreshStep DEF Faults
<1>10. QED
  BY <1>1, <1>5, <1>6, <1>7, <1>8, <1>9 DEF Next

(***************************************************************************)
(* What is proved of the specification.                                    *)
(***************************************************************************)
LEMMA InitIInv == Init => IInv
<1> SUFFICES ASSUME Init PROVE IInv
  OBVIOUS
<1>1. BootOK
  BY DEF Init, BootOK, Reading, Off, IdleStream
<1>2. ASSUME NEW u \in Ids
      PROVE  UserInv(u)
  BY DEF Init, UserInv, SoleWorker, BootUser, QuietUser, StaleUser, WorkedUser,
         Works, Reading, Off, IdleStream, Live
<1>3. QED
  BY <1>1, <1>2 DEF IInv

LEMMA IInvStep == TypeOK /\ IInv /\ [Next]_vars => IInv'
BY BootOKStep, UserStep DEF IInv

\* At every step of its handler, or of a start of xray, the accounts of a user
\* are what the handler's progress says, unless the history has a cause
\* against it.
THEOREM InductiveInvariant == Spec => []IInv
BY InitIInv, IInvStep, TypeCorrect, PTL DEF Spec

\* When its handlers are done and xray is up, a user has exactly the accounts
\* the storage gives it (service.py:116-162, xray_backend.py:104-107).
THEOREM UsersAgree == Spec => []Agreement
<1>1. IInv => Agreement
  <2> SUFFICES ASSUME IInv, NEW u \in Ids, Settled(u), cause[u] = "none"
               PROVE  AccountsOf(u) = Due(u)
    BY DEF Agreement, AgreementFor
  <2>1. QuietUser(u)
    BY DEF IInv, UserInv
  <2>2. QED
    BY <2>1 DEF QuietUser, Settled, Busy, Live
<1>2. QED
  BY <1>1, InductiveInvariant, PTL

\* xray never holds two credentials of a user at once (service.py:155-157).
THEOREM CredentialsReplaced == Spec => []OneCredential
<1>1. TypeOK /\ IInv => OneCredential
  <2> SUFFICES ASSUME TypeOK, IInv, NEW u \in Ids, cause[u] = "none",
                      NEW x \in AccountsOf(u), NEW y \in AccountsOf(u)
               PROVE  x.ident = y.ident
    BY DEF OneCredential
  <2>1. UserInv(u) /\ BootOK
    BY DEF IInv
  <2>2. Live
    BY <2>1 DEF BootOK, AccountsOf
  <2>3. CASE x \in Due(u) /\ y \in Due(u)
    BY <2>3 DEF Due, Held
  <2>4. CASE \E t \in Tasks : job[t] # NoJob /\ job[t].uid = u
    <3>1. PICK t \in Tasks : job[t] # NoJob /\ job[t].uid = u
      BY <2>4
    <3>2. WorkedUser(u)!(t)!2
      BY <2>1, <3>1, WorkerFacts, ZenonT(60)
    <3>3. \/ job[t].rem = {}
          \/ job[t].old = job[t].new
          \/ job[t].tags \ job[t].add = {}
      BY <3>2
    <3>4. AccountsOf(u) = Held(u, job[t].old, job[t].rem)
                             \cup Held(u, job[t].new,
                                       (job[t].tags \ job[t].add) \cap claimed)
      BY <2>2, <3>2
    <3>5. QED
      BY <3>3, <3>4 DEF Held
  <2>5. CASE boot.pc = "off" /\ \A t \in Tasks : job[t] = NoJob \/ job[t].uid # u
    BY <2>1, <2>2, <2>3, <2>5 DEF UserInv, QuietUser
  <2>6. CASE boot.pc # "off"
    <3>1. boot.pc \in {"wait", "load"}
      BY <2>1, <2>2, <2>6 DEF TypeOK, BootOK, Live
    <3>2. QED
      BY <2>1, <2>2, <2>3, <3>1 DEF UserInv, BootUser
  <2>7. QED
    BY <2>4, <2>5, <2>6
<1>2. QED
  BY <1>1, InductiveInvariant, TypeCorrect, PTL

\* Neither _resolve_tag nor xray refuses a call of an update that runs alone
\* on its user and began with tags that are claimed (service.py:60-78).
THEOREM UpdatesRunToTheEnd == Spec => UpdatesNeverRefused
<1>1. TypeOK /\ IInv /\ [Next]_vars => [NeverRefused]_vars
  <2> SUFFICES ASSUME TypeOK, IInv, Next,
                      NEW t \in Tasks, HasCalls(t), job'[t] = NoJob,
                      proc' = proc, faults' = faults,
                      cause'[job[t].uid] = "none"
               PROVE  FALSE
    BY DEF NeverRefused
  <2>0. PICK u \in Ids : u = job[t].uid
    BY JobType DEF HasCalls, Job
  <2>1. job[t] # NoJob /\ job[t] \in Job /\ job[t].uid = u /\ job'[t] # job[t]
           /\ cause'[u] = "none"
    BY <2>0, JobType DEF HasCalls
  <2>2. BootOK /\ (cause[u] = "none" => UserInv(u))
    BY <2>1 DEF IInv
  <2>3. ASSUME NEW s \in Tasks, RemoveCall(s) \/ AddCall(s)
        PROVE  FALSE
    <3>1. s = t
      BY <2>1, <2>3 DEF RemoveCall, AddCall, UnclaimedTag, Unreachable, RemoveAccount,
                        AddAccount, Called, Abort, TypeOK
    <3>2. UserInv(u)
      BY <2>1, <2>2, <2>3 DEF RemoveCall, AddCall
    <3>3. QED
      BY <2>1, <2>2, <2>3, <3>1, <3>2, OwnRemoveStep, OwnAddStep
  <2>4. ASSUME NEW s \in Tasks, StoreInbounds(s) \/ StoreOutbounds(s) \/ DeleteUser(s)
        PROVE  FALSE
    <3>1. s = t
      BY <2>1, <2>4 DEF StoreInbounds, StoreOutbounds, DeleteUser, Finish, TypeOK
    <3>2. StoreOutbounds(t)
      BY <2>4, <3>1 DEF StoreInbounds, DeleteUser, CallsDone, HasCalls
    <3>3. cause' = cause
      BY <3>2 DEF StoreOutbounds
    <3>4. UserInv(u) /\ job[t].stage = "outs"
      BY <2>1, <2>2, <3>2, <3>3 DEF StoreOutbounds
    <3>5. WorkedUser(u)!(t)!2
      BY <2>0, <2>1, <3>4, WorkerFacts, ZenonT(60)
    <3>6. QED
      BY <3>4, <3>5 DEF HasCalls
  <2>5. ASSUME NEW s \in Tasks, NEW r, UpdateUser(s, r), job[s] = NoJob
        PROVE  FALSE
    BY <2>1, <2>5 DEF UpdateUser, NewUser, DropUser, AbsentUser, SameIdentity,
                      NewIdentity, Begin, TypeOK
  <2>6. ASSUME NEW s \in Tasks, ListStale(s) \/ SweepNext(s) \/ SweepDone(s)
        PROVE  FALSE
    BY <2>1, <2>6 DEF ListStale, SweepNext, SweepDone, Begin, TypeOK
  <2>7. ASSUME NEW s \in Tasks, Handler(s)
        PROVE  FALSE
    BY <2>3, <2>4, <2>5, <2>6, <2>7 DEF Handler, RepopulateNext
  <2>8. CASE Boot \/ AutoRestart \/ StartFails
    BY <2>1, <2>8 DEF Boot, Spawn, Listen, Started, ListInboundUsers, LoadUser, BootDone,
                      AutoRestart, StartFails
  <2>9. ASSUME NEW A \in SUBSET Tasks, ProcessGone(A), proc' = "dead" \/ proc' = "starting"
        PROVE  FALSE
    BY <2>1, <2>9 DEF ProcessGone, Live
  <2>10. CASE Panel
    <3>1. ASSUME NEW s \in Tasks, NEW r \in Requests, SyncUsers(s, r)
          PROVE  FALSE
      BY <2>5, <3>1 DEF SyncUsers
    <3>2. ASSUME NEW s \in Tasks, NEW b \in Batches, RepopulateUsers(s, b)
          PROVE  FALSE
      BY <2>1, <3>2 DEF RepopulateUsers
    <3>3. CASE BadRestart \/ BareRestart \/ \E cfg \in Configs : Restart(cfg)
      BY <2>9, <3>3 DEF Restart, BadRestart, BareRestart
    <3>4. QED
      BY <2>10, <3>1, <3>2, <3>3 DEF Panel
  <2>11. CASE Faults
    <3>1. faults + 1 # faults
      BY DEF TypeOK
    <3>2. CASE StartFails
      BY <2>8, <3>2
    <3>3. CASE \/ Hang \/ Die \/ CancelStop \/ CancelRestart \/ NodeRestart
               \/ \E s \in Tasks : Cancel(s)
      BY <3>1, <3>3 DEF Hang, Die, Cancel, CancelStop, CancelRestart, NodeRestart
    <3>4. QED
      BY <2>11, <3>2, <3>3 DEF Faults
  <2>12. QED
    BY <2>7, <2>8, <2>10, <2>11 DEF Next
<1>2. QED
  BY <1>1, InductiveInvariant, TypeCorrect, PTL DEF Spec, UpdatesNeverRefused

-----------------------------------------------------------------------------
(***************************************************************************)
(* RepopulateUsers: how far the storage is on the way to the message, of   *)
(* the users the call shares with no other handler.                        *)
(***************************************************************************)
\* The rows hold what request r asks.
Written(t, r) ==
    IF r.tags = {} THEN db[r.id] = NoRow ELSE StoredAs(r, span[t].kept)

\* The job of handler t will write them.
Doing(t, r) ==
    /\ job[t] # NoJob
    /\ job[t].uid = r.id
    /\ IF r.tags = {}
       THEN job[t].del /\ job[t].stage = "call"
       ELSE /\ ~job[t].del
            /\ job[t].new = r.ident /\ job[t].outs = r.outs
            /\ r.tags \cap span[t].kept \subseteq job[t].tags
            /\ job[t].tags \subseteq r.tags
            /\ job[t].stage = "outs" /\ r.id \notin span[t].others =>
                  db[r.id] # NoRow /\ db[r.id].tags = job[t].tags

\* While the users of the message are updated: those begun are done, but one at most.
Updating(t) ==
    /\ stream[t].batch \in Batches /\ stream[t].todo \subseteq stream[t].batch
    /\ \A r \in stream[t].batch \ stream[t].todo :
          r.id \in span[t].others \/ Doing(t, r) \/ Written(t, r)
    /\ job[t] # NoJob => \E r \in stream[t].batch \ stream[t].todo : Doing(t, r)

\* While the others are removed: those still there are on the list of the sweep.
Sweeping(t) ==
    /\ stream[t].batch \in Batches
    /\ \A r \in stream[t].batch : r.id \in span[t].others \/ Written(t, r)
    /\ \A e \in stream[t].stale : e.id \notin BatchIds(t)
    /\ job[t] # NoJob => /\ job[t].del /\ job[t].stage = "call"
                         /\ job[t].uid \notin BatchIds(t)
    /\ \A u \in Ids \ BatchIds(t) : \/ u \in span[t].others
                                    \/ db[u] = NoRow
                                    \/ job[t] # NoJob /\ job[t].uid = u
                                    \/ \E e \in stream[t].stale : e.id = u

\* The history of the call is what it says it is.
Counted(t) ==
    /\ span[t].kept \subseteq inbounds
    /\ \A s \in Tasks \ {t} : job[s] # NoJob => job[s].uid \in span[t].others

RepopulateInv(t) ==
    stream[t].pc # "idle" =>
       /\ Counted(t)
       /\ stream[t].pc = "repop" => Updating(t)
       /\ stream[t].pc = "sweep" => Sweeping(t)

LEMMA RepopulateIdle ==
    ASSUME NEW t \in Tasks, stream'[t].pc = "idle"
    PROVE  RepopulateInv(t)'
BY DEF RepopulateInv

\* The requests of a message are for users.
LEMMA BatchFacts ==
    ASSUME NEW t \in Tasks, stream[t].batch \in Batches
    PROVE  \A r \in stream[t].batch : r \in RequestSet /\ r.id \in Ids
BY DEF RequestSet

\* A step that leaves the handler and its users alone.
LEMMA RepopulateStays ==
    ASSUME NEW t \in Tasks, RepopulateInv(t),
           stream'[t] = stream[t], job'[t] = job[t],
           stream[t].pc # "idle" =>
              /\ \A u \in Ids \ span[t].others : db'[u] = db[u]
              /\ span'[t].kept \subseteq span[t].kept
              /\ span[t].others \subseteq span'[t].others
              /\ Counted(t)'
    PROVE  RepopulateInv(t)'
<1> SUFFICES ASSUME stream[t].pc # "idle"
             PROVE  RepopulateInv(t)'
  BY RepopulateIdle
<1>1. /\ \A u \in Ids \ span[t].others : db'[u] = db[u]
      /\ span'[t].kept \subseteq span[t].kept
      /\ span[t].others \subseteq span'[t].others
      /\ Counted(t)'
  OBVIOUS
<1>2. ASSUME NEW r, r.id \in Ids
      PROVE  /\ Doing(t, r) => Doing(t, r)'
             /\ r.id \in span[t].others \/ Written(t, r) =>
                   r.id \in span'[t].others \/ Written(t, r)'
  BY <1>1, <1>2 DEF Doing, Written, StoredAs
<1>3. Updating(t) => Updating(t)'
  <2> SUFFICES ASSUME Updating(t) PROVE Updating(t)'
    OBVIOUS
  <2>1. \A r \in stream[t].batch : r.id \in Ids
    BY BatchFacts DEF Updating
  <2>2. QED
    BY <1>2, <2>1 DEF Updating
<1>4. Sweeping(t) => Sweeping(t)'
  <2> SUFFICES ASSUME Sweeping(t) PROVE Sweeping(t)'
    OBVIOUS
  <2>1. BatchIds(t)' = BatchIds(t) /\ \A r \in stream[t].batch : r.id \in Ids
    BY BatchFacts DEF Sweeping, BatchIds
  <2>2. \A r \in stream[t].batch : (r.id \in span[t].others \/ Written(t, r))'
    BY <1>2, <2>1 DEF Sweeping
  <2>3. \A u \in Ids \ BatchIds(t) : \/ u \in span'[t].others
                                     \/ db'[u] = NoRow
                                     \/ job[t] # NoJob /\ job[t].uid = u
                                     \/ \E e \in stream[t].stale : e.id = u
    BY <1>1 DEF Sweeping
  <2>4. QED
    BY <2>1, <2>2, <2>3 DEF Sweeping
<1>5. QED
  BY <1>1, <1>3, <1>4 DEF RepopulateInv

\* The job has fewer calls to make.
LEMMA RepopulateCall ==
    ASSUME TypeOK, NEW t \in Tasks, RepopulateInv(t), RemoveCall(t) \/ AddCall(t)
    PROVE  RepopulateInv(t)'
<1>1. /\ job[t] \in Job /\ job[t] # NoJob /\ inbounds' = inbounds
      /\ db' = db
  BY JobType DEF RemoveCall, AddCall, node
<1>2. Abort(t) \/ (\E tag : Called(t, "rem", tag) \/ Called(t, "add", tag))
  BY DEF RemoveCall, AddCall, UnclaimedTag, Unreachable, RemoveAccount, AddAccount
<1>3. CASE Abort(t)
  <2>1. stream'[t].pc = "idle"
    BY <1>3 DEF Abort, TypeOK, IdleStream
  <2> QED BY <2>1, RepopulateIdle
<1>4. ASSUME NEW tag, Called(t, "rem", tag) \/ Called(t, "add", tag)
      PROVE  RepopulateInv(t)'
  <2>1. /\ stream' = stream /\ span' = span /\ job' \in [Tasks -> Job \cup {NoJob}]
        /\ \A s \in Tasks \ {t} : job'[s] = job[s]
    BY <1>1, <1>4, CalledType DEF Called, TypeOK
  <2>2. /\ job'[t].uid = job[t].uid /\ job'[t].del = job[t].del
        /\ job'[t].stage = job[t].stage /\ job'[t].new = job[t].new
        /\ job'[t].tags = job[t].tags /\ job'[t].outs = job[t].outs
        /\ job'[t] \in Job
    <3>1. CASE Called(t, "rem", tag)
      BY <1>1, <3>1 DEF Called, TypeOK, Job
    <3>2. CASE Called(t, "add", tag)
      BY <1>1, <3>2 DEF Called, TypeOK, Job
    <3> QED BY <1>4, <3>1, <3>2
  <2>3. job'[t] # NoJob
    BY <2>2
  <2>4. \A r : (Doing(t, r)' <=> Doing(t, r)) /\ (Written(t, r)' <=> Written(t, r))
    BY <1>1, <2>1, <2>2, <2>3 DEF Doing, Written, StoredAs
  <2>5. Updating(t) => Updating(t)'
    BY <1>1, <2>1, <2>3, <2>4 DEF Updating
  <2>6. Sweeping(t) => Sweeping(t)'
    BY <1>1, <2>1, <2>2, <2>3, <2>4 DEF Sweeping, BatchIds
  <2>7. Counted(t) => Counted(t)'
    BY <1>1, <2>1 DEF Counted
  <2> QED BY <2>1, <2>5, <2>6, <2>7 DEF RepopulateInv
<1> QED BY <1>2, <1>3, <1>4

\* _update_user begins a job, or finds nothing to do.
LEMMA UpdateUserBegins ==
    ASSUME NEW t \in Tasks, NEW r, UpdateUser(t, r)
    PROVE  \/ \E j : Begin(t, j) /\ j.uid = r.id
           \/ AbsentUser(r)
<1>1. \A old, rem, add : Work(r, old, rem, add).uid = r.id
  BY DEF Work
<1>2. \A ident, tags : Removal(r.id, ident, tags).uid = r.id
  BY DEF Removal
<1>3. QED
  BY <1>1, <1>2 DEF UpdateUser, NewUser, DropUser, SameIdentity, NewIdentity

\* What the beginning of a job leaves of the other handlers and of the history.
LEMMA BeginFacts ==
    ASSUME TypeOK, NEW s \in Tasks, NEW j, Begin(s, j)
    PROVE  /\ \A t \in Tasks \ {s} : job'[t] = job[t]
           /\ job'[s] = j /\ span'[s] = span[s]
           /\ \A t \in Tasks : /\ span'[t].kept = span[t].kept
                               /\ span[t].others \subseteq span'[t].others
           /\ \A t \in Tasks \ {s} : stream[t].pc # "idle" => j.uid \in span'[t].others
BY DEF TypeOK, Begin, Shared, Span

\* _update_user takes up a request, or finds nothing to do.
LEMMA RequestTakenUp ==
    ASSUME TypeOK, NEW t \in Tasks, NEW r \in RequestSet, span[t].kept \subseteq inbounds,
           job[t] = NoJob, db' = db, UpdateUser(t, r)
    PROVE  /\ span'[t] = span[t]
           /\ \A s \in Tasks \ {t} : job'[s] = job[s]
           /\ \/ job'[t] = NoJob /\ Written(t, r)
              \/ Doing(t, r)'
<1>0. r.id \in Ids /\ r.ident \in Idents /\ r.tags \in SUBSET Tags
  BY DEF RequestSet
<1>1. span'[t] = span[t] /\ \A s \in Tasks \ {t} : job'[s] = job[s]
  BY UpdateUserBegins, BeginFacts DEF AbsentUser
<1>2. CASE AbsentUser(r)
  BY <1>1, <1>2 DEF AbsentUser, Written
<1>3. CASE DropUser(t, r)
  <2>1. /\ job'[t] = Removal(r.id, db[r.id].ident, Hydrated(r.id)) /\ r.tags = {}
        /\ db[r.id] # NoRow
    BY <1>3 DEF DropUser, Begin, TypeOK
  <2>2. job'[t] \in Job
    BY <1>0, <2>1, RowType, RemovalType
  <2>3. job'[t].uid = r.id /\ job'[t].del /\ job'[t].stage = "call"
    BY <2>1 DEF Removal
  <2> QED BY <1>1, <2>1, <2>2, <2>3 DEF Doing
<1>4. CASE NewUser(t, r) \/ SameIdentity(t, r) \/ NewIdentity(t, r)
  <2>1. PICK old, rem, add : job'[t] = Work(r, old, rem, add)
    <3>1. \A j : Begin(t, j) => job'[t] = j
      BY DEF Begin, TypeOK
    <3>2. QED
      BY <1>4, <3>1 DEF NewUser, SameIdentity, NewIdentity
  <2>2. r.tags # {}
    BY <1>4 DEF NewUser, SameIdentity, NewIdentity
  <2>3. /\ job'[t].uid = r.id /\ ~job'[t].del /\ job'[t].stage = "call"
        /\ job'[t].new = r.ident /\ job'[t].outs = r.outs
        /\ job'[t].tags = r.tags \cap inbounds
    BY <2>1 DEF Work
  <2>4. job'[t] # NoJob
    <3>1. job'[t] \in Job
      <4>1. CASE NewUser(t, r)
        <5>1. /\ job'[t] = Work(r, r.ident, {}, r.tags \cap inbounds)
              /\ r.tags \cap inbounds \in SUBSET Tags
          BY <1>0, <4>1 DEF NewUser, Begin, TypeOK
        <5> QED BY <1>0, <5>1, WorkType
      <4>2. CASE SameIdentity(t, r)
        <5>1. job'[t] = Work(r, r.ident, Hydrated(r.id) \ r.tags,
                             (r.tags \cap inbounds) \ Hydrated(r.id))
          BY <4>2 DEF SameIdentity, Begin, TypeOK
        <5>2. /\ Hydrated(r.id) \ r.tags \in SUBSET Tags
              /\ (r.tags \cap inbounds) \ Hydrated(r.id) \in SUBSET Tags
          BY <1>0, <4>2, RowType DEF SameIdentity
        <5> QED BY <1>0, <5>1, <5>2, WorkType
      <4>3. CASE NewIdentity(t, r)
        <5>1. /\ job'[t] = Work(r, db[r.id].ident, Hydrated(r.id), r.tags \cap inbounds)
              /\ r.tags \cap inbounds \in SUBSET Tags /\ db[r.id] # NoRow
          BY <1>0, <4>3 DEF NewIdentity, Begin, TypeOK
        <5> QED BY <1>0, <5>1, RowType, WorkType
      <4> QED BY <1>4, <4>1, <4>2, <4>3
    <3> QED BY <3>1
  <2> QED BY <1>1, <2>2, <2>3, <2>4 DEF Doing
<1> QED BY <1>1, <1>2, <1>3, <1>4 DEF UpdateUser

LEMMA RepopulateTakesNext ==
    ASSUME TypeOK, NEW t \in Tasks, RepopulateInv(t), RepopulateNext(t)
    PROVE  RepopulateInv(t)'
<1>1. PICK r \in stream[t].todo :
          /\ UpdateUser(t, r)
          /\ stream' = [stream EXCEPT ![t].todo = @ \ {r}]
  BY DEF RepopulateNext
<1>2. /\ stream[t].pc = "repop" /\ job[t] = NoJob /\ db' = db /\ inbounds' = inbounds
      /\ Updating(t) /\ Counted(t)
  BY DEF RepopulateNext, node, RepopulateInv
<1>3. /\ stream'[t].pc = "repop" /\ stream'[t].batch = stream[t].batch
      /\ stream'[t].todo = stream[t].todo \ {r}
  BY <1>1, <1>2 DEF TypeOK
<1>4. r \in RequestSet /\ r \in stream[t].batch /\ stream[t].todo \subseteq stream[t].batch
  BY <1>1, <1>2, StreamType DEF Updating
<1>5. /\ span'[t] = span[t] /\ \A s \in Tasks \ {t} : job'[s] = job[s]
      /\ \/ job'[t] = NoJob /\ Written(t, r)
         \/ Doing(t, r)'
  BY <1>1, <1>2, <1>4, RequestTakenUp DEF Counted
<1>6. \A s : Written(t, s)' <=> Written(t, s)
  BY <1>2, <1>5 DEF Written, StoredAs
<1>7. \A s \in stream[t].batch \ stream[t].todo : s.id \in span[t].others \/ Written(t, s)
  BY <1>2 DEF Updating, Doing
<1>8. Updating(t)'
  BY <1>2, <1>3, <1>4, <1>5, <1>6, <1>7 DEF Updating
<1>9. Counted(t)'
  BY <1>2, <1>5 DEF Counted
<1> QED BY <1>3, <1>8, <1>9 DEF RepopulateInv

LEMMA RepopulateListsStale ==
    ASSUME TypeOK, NEW t \in Tasks, RepopulateInv(t), ListStale(t)
    PROVE  RepopulateInv(t)'
<1> DEFINE gone == {u \in Ids \ BatchIds(t) : db[u] # NoRow}
           list == {[id |-> u, ident |-> db[u].ident, tags |-> Hydrated(u)] : u \in gone}
<1>1. /\ stream[t].pc = "repop" /\ job[t] = NoJob /\ stream[t].todo = {}
      /\ db' = db /\ job' = job /\ inbounds' = inbounds /\ span' = span
      /\ Updating(t) /\ Counted(t)
  BY DEF ListStale, node, RepopulateInv
<1>2. /\ stream'[t].pc = "sweep" /\ stream'[t].batch = stream[t].batch
      /\ stream'[t].stale = list
  BY DEF ListStale, TypeOK
<1>3. \A r \in stream[t].batch : r.id \in span[t].others \/ Written(t, r)'
  BY <1>1 DEF Updating, Doing, Written, StoredAs
<1>4. BatchIds(t)' = BatchIds(t)
  BY <1>2 DEF BatchIds
<1>5. \A e \in list : e.id \notin BatchIds(t)
  OBVIOUS
<1>6. \A u \in Ids \ BatchIds(t) : db[u] = NoRow \/ \E e \in list : e.id = u
  <2> SUFFICES ASSUME NEW u \in gone PROVE \E e \in list : e.id = u
    OBVIOUS
  <2> WITNESS [id |-> u, ident |-> db[u].ident, tags |-> Hydrated(u)] \in list
  <2> QED OBVIOUS
<1> HIDE DEF list
<1>7. Sweeping(t)'
  BY <1>1, <1>2, <1>3, <1>4, <1>5, <1>6 DEF Sweeping, Updating
<1>8. Counted(t)'
  BY <1>1 DEF Counted
<1> QED BY <1>2, <1>7, <1>8 DEF RepopulateInv

LEMMA RepopulateSweeps ==
    ASSUME TypeOK, NEW t \in Tasks, RepopulateInv(t), SweepNext(t)
    PROVE  RepopulateInv(t)'
<1>1. PICK e \in stream[t].stale :
          /\ Begin(t, Removal(e.id, e.ident, e.tags))
          /\ stream' = [stream EXCEPT ![t].stale = @ \ {e}]
  BY DEF SweepNext
<1>2. /\ stream[t].pc = "sweep" /\ job[t] = NoJob /\ db' = db /\ inbounds' = inbounds
      /\ Sweeping(t) /\ Counted(t)
  BY DEF SweepNext, node, RepopulateInv
<1>3. /\ stream'[t].pc = "sweep" /\ stream'[t].batch = stream[t].batch
      /\ stream'[t].stale = stream[t].stale \ {e}
  BY <1>1, <1>2 DEF TypeOK
<1>4. e.id \in Ids /\ e.ident \in Idents /\ e.tags \in SUBSET Tags
  BY <1>1, StreamType DEF Stored
<1>5. /\ job'[t] = Removal(e.id, e.ident, e.tags) /\ span'[t] = span[t]
      /\ \A s \in Tasks \ {t} : job'[s] = job[s]
  BY <1>1, BeginFacts
<1>6. /\ job'[t] # NoJob /\ job'[t].uid = e.id /\ job'[t].del /\ job'[t].stage = "call"
  <2>1. job'[t] \in Job
    BY <1>4, <1>5, RemovalType
  <2>2. job'[t].uid = e.id /\ job'[t].del /\ job'[t].stage = "call"
    BY <1>5 DEF Removal
  <2>3. job'[t] # NoJob
    BY <2>1
  <2> QED BY <2>2, <2>3
<1>7. BatchIds(t)' = BatchIds(t) /\ \A r : Written(t, r)' <=> Written(t, r)
  BY <1>2, <1>3, <1>5 DEF BatchIds, Written, StoredAs
<1>8. e.id \notin BatchIds(t)
  BY <1>1, <1>2 DEF Sweeping
<1>9. \A u \in Ids \ BatchIds(t) : \/ u \in span[t].others
                                   \/ db[u] = NoRow
                                   \/ e.id = u
                                   \/ \E d \in stream[t].stale \ {e} : d.id = u
  BY <1>2 DEF Sweeping
<1>10. Sweeping(t)'
  BY <1>2, <1>3, <1>5, <1>6, <1>7, <1>8, <1>9 DEF Sweeping
<1>11. Counted(t)'
  BY <1>2, <1>5 DEF Counted
<1> QED BY <1>3, <1>10, <1>11 DEF RepopulateInv

LEMMA RepopulateStores ==
    ASSUME TypeOK, NEW t \in Tasks, RepopulateInv(t),
           StoreInbounds(t) \/ StoreOutbounds(t) \/ DeleteUser(t)
    PROVE  RepopulateInv(t)'
<1> DEFINE u == job[t].uid
<1>1. /\ job[t] # NoJob /\ job[t] \in Job /\ u \in Ids /\ inbounds' = inbounds
      /\ stream' = stream /\ span' = span
      /\ \A s \in Tasks \ {t} : job'[s] = job[s]
  BY JobType DEF StoreInbounds, StoreOutbounds, DeleteUser, CallsDone, Finish, node, Job,
                 TypeOK
<1>2. BatchIds(t)' = BatchIds(t) /\ db \in [Ids -> Row \cup {NoRow}]
  BY <1>1 DEF BatchIds, TypeOK
<1>3. \A v \in Ids : v # u => db'[v] = db[v]
  BY <1>2 DEF StoreInbounds, StoreOutbounds, DeleteUser
<1>4. ASSUME stream[t].pc = "repop" PROVE Updating(t)'
  <2>1. Updating(t) /\ stream[t].batch \in Batches
    BY <1>4 DEF RepopulateInv, Updating
  <2>2. PICK r \in stream[t].batch \ stream[t].todo : Doing(t, r)
    BY <1>1, <2>1 DEF Updating
  <2>3. r \in RequestSet /\ r.id = u
    BY <2>1, <2>2 DEF Doing
  <2>4. ASSUME NEW s \in stream[t].batch \ stream[t].todo, s # r
        PROVE  s.id \in span[t].others \/ Written(t, s)'
    <3>1. s.id # u /\ s.id \in Ids
      BY <2>1, <2>2, <2>3, <2>4 DEF RequestSet
    <3>2. s.id \in span[t].others \/ Written(t, s)
      BY <2>1, <3>1 DEF Updating, Doing
    <3> QED BY <1>1, <1>3, <3>1, <3>2 DEF Written, StoredAs
  <2>5. \/ (r.id \in span[t].others \/ Written(t, r)') /\ job'[t] = NoJob
        \/ Doing(t, r)'
    <3>1. CASE StoreInbounds(t)
      <4>1. /\ ~job[t].del
            /\ db'[u] = [ident |-> job[t].new, tags |-> job[t].tags, outs |-> OutsOf(u)]
            /\ job' = [job EXCEPT ![t].stage = "outs"]
        BY <1>1, <1>2, <3>1 DEF StoreInbounds
      <4>2. /\ job'[t].uid = u /\ job'[t].del = job[t].del /\ job'[t].stage = "outs"
            /\ job'[t].new = job[t].new /\ job'[t].tags = job[t].tags
            /\ job'[t].outs = job[t].outs /\ job'[t] \in Job
        BY <1>1, <4>1 DEF TypeOK, Job
      <4>3. job'[t] # NoJob
        BY <4>2
      <4>4. db'[u] \in Row
        <5>1. OutsOf(u) \in Outs
          BY <1>1, <1>2 DEF OutsOf, Row
        <5> QED BY <1>1, <4>1, <5>1 DEF Row, Job
      <4>5. db'[u] # NoRow /\ db'[u].tags = job'[t].tags
        BY <4>1, <4>2, <4>4
      <4> QED BY <1>1, <2>2, <2>3, <4>1, <4>2, <4>3, <4>5 DEF Doing
    <3>2. CASE StoreOutbounds(t)
      <4>1. /\ job[t].stage = "outs"
            /\ db'[u] = [ident |-> job[t].new, tags |-> TagsOf(u), outs |-> job[t].outs]
            /\ job'[t] = NoJob
        BY <1>1, <1>2, <3>2 DEF StoreOutbounds, Finish, TypeOK
      <4>2. /\ r.tags # {} /\ job[t].new = r.ident /\ job[t].outs = r.outs
            /\ r.tags \cap span[t].kept \subseteq job[t].tags /\ job[t].tags \subseteq r.tags
        BY <2>2, <2>3, <4>1 DEF Doing
      <4>3. CASE r.id \notin span[t].others
        <5>1. db[u] # NoRow /\ db[u].tags = job[t].tags
          BY <2>2, <2>3, <4>1, <4>2, <4>3 DEF Doing
        <5>2. TagsOf(u) = job[t].tags
          BY <5>1 DEF TagsOf
        <5>3. db'[u] \in Row
          BY <1>1, <4>1, <5>2 DEF Row, Job
        <5>4. db'[u] # NoRow
          BY <5>3
        <5>5. db'[r.id].ident = r.ident /\ db'[r.id].outs = r.outs /\ db'[r.id].tags = job[t].tags
          BY <2>3, <4>1, <4>2, <5>2
        <5> QED BY <1>1, <2>3, <4>1, <4>2, <5>4, <5>5 DEF Written, StoredAs
      <4> QED BY <4>1, <4>3
    <3>3. CASE DeleteUser(t)
      <4>1. job[t].del /\ db'[u] = NoRow /\ job'[t] = NoJob
        BY <1>1, <1>2, <3>3 DEF DeleteUser, Finish, TypeOK
      <4>2. r.tags = {}
        BY <2>2, <4>1 DEF Doing
      <4> QED BY <2>3, <4>1, <4>2 DEF Written
    <3> QED BY <3>1, <3>2, <3>3
  <2> QED BY <1>1, <2>1, <2>2, <2>4, <2>5 DEF Updating
<1>5. ASSUME stream[t].pc = "sweep" PROVE Sweeping(t)'
  <2>1. Sweeping(t) /\ job[t].del /\ job[t].stage = "call" /\ u \notin BatchIds(t)
    BY <1>1, <1>5 DEF RepopulateInv, Sweeping
  <2>2. DeleteUser(t)
    BY <2>1 DEF StoreInbounds, StoreOutbounds
  <2>3. db'[u] = NoRow /\ job'[t] = NoJob
    BY <1>1, <1>2, <2>2 DEF DeleteUser, Finish, TypeOK
  <2>4. ASSUME NEW r \in stream[t].batch
        PROVE  r.id \in span[t].others \/ Written(t, r)'
    <3>1. /\ r.id \in span[t].others \/ Written(t, r)
          /\ r.id \in BatchIds(t) /\ r \in RequestSet
      BY <2>1 DEF Sweeping, BatchIds
    <3>2. r.id # u /\ r.id \in Ids
      BY <2>1, <3>1 DEF RequestSet
    <3> QED BY <1>1, <1>3, <3>1, <3>2 DEF Written, StoredAs
  <2>5. ASSUME NEW v \in Ids \ BatchIds(t)
        PROVE  v \in span[t].others \/ db'[v] = NoRow \/ \E e \in stream[t].stale : e.id = v
    BY <1>3, <2>1, <2>3 DEF Sweeping
  <2> QED BY <1>1, <1>2, <2>1, <2>3, <2>4, <2>5 DEF Sweeping
<1>6. Counted(t) => Counted(t)'
  BY <1>1 DEF Counted
<1> QED BY <1>1, <1>4, <1>5, <1>6 DEF RepopulateInv

\* A death or a stop of xray ends the RPC, or leaves it with the tags that
\* are still registered.
LEMMA RepopulateGone ==
    ASSUME TypeOK, NEW t \in Tasks, RepopulateInv(t), NEW A \in SUBSET Tasks, ProcessGone(A),
           db' = db
    PROVE  RepopulateInv(t)'
<1>1. CASE t \in A
  <2>1. stream'[t].pc = "idle"
    BY <1>1 DEF ProcessGone, IdleStream
  <2> QED BY <2>1, RepopulateIdle
<1>2. CASE t \notin A
  <2>1. stream'[t] = stream[t] /\ job'[t] = job[t]
    BY <1>2 DEF ProcessGone
  <2>2. /\ span'[t].kept = span[t].kept \cap inbounds'
        /\ span'[t].others = span[t].others
    <3>1. span[t] \in Span
      BY DEF TypeOK
    <3> QED BY <1>2, <3>1 DEF ProcessGone, Span
  <2>3. \A s \in Tasks : job'[s] = job[s] \/ job'[s] = NoJob
    BY DEF ProcessGone
  <2>4. Counted(t) => Counted(t)'
    BY <2>2, <2>3 DEF Counted
  <2> QED BY <2>1, <2>2, <2>4, RepopulateStays DEF RepopulateInv
<1> QED BY <1>1, <1>2

\* A step of another handler.
LEMMA RepopulateBeside ==
    ASSUME TypeOK, NEW t \in Tasks, RepopulateInv(t), NEW s \in Tasks \ {t},
           \/ \E r \in Requests : SyncUsers(s, r)
           \/ \E b \in Batches : RepopulateUsers(s, b)
           \/ Handler(s) \/ Cancel(s)
    PROVE  RepopulateInv(t)' /\ stream'[t] = stream[t]
<1>1. /\ stream'[t] = stream[t] /\ inbounds' = inbounds
      /\ \A x \in Tasks \ {s} : job'[x] = job[x]
      /\ span'[t].kept = span[t].kept /\ span[t].others \subseteq span'[t].others
      /\ \/ job'[s] = NoJob
         \/ job[s] # NoJob /\ job'[s].uid = job[s].uid
         \/ stream[t].pc # "idle" => job'[s].uid \in span'[t].others
      /\ \/ db' = db
         \/ job[s] # NoJob /\ \A u \in Ids : u # job[s].uid => db'[u] = db[u]
  <2>1. ASSUME NEW j, Begin(s, j), db' = db, inbounds' = inbounds, stream'[t] = stream[t]
        PROVE  <1>1!:
    BY <2>1, BeginFacts
  <2>2. ASSUME NEW r, UpdateUser(s, r), db' = db, inbounds' = inbounds,
               stream'[t] = stream[t]
        PROVE  <1>1!:
    <3>1. CASE AbsentUser(r)
      BY <2>2, <3>1 DEF AbsentUser
    <3> QED BY <2>1, <2>2, <3>1, UpdateUserBegins
  <2>3. CASE \E r \in Requests : SyncUsers(s, r)
    BY <2>2, <2>3 DEF SyncUsers, node
  <2>4. CASE \E b \in Batches : RepopulateUsers(s, b)
    BY <2>4 DEF RepopulateUsers, node, TypeOK
  <2>5. CASE RepopulateNext(s)
    BY <2>2, <2>5 DEF RepopulateNext, node, TypeOK
  <2>6. CASE SweepNext(s)
    BY <2>1, <2>6 DEF SweepNext, node, TypeOK
  <2>7. CASE ListStale(s) \/ SweepDone(s)
    BY <2>7 DEF ListStale, SweepDone, node, TypeOK
  <2>8. CASE Cancel(s)
    BY <2>8 DEF Cancel, Abort, node, TypeOK
  <2>9. CASE RemoveCall(s) \/ AddCall(s)
    <3>1. job[s] \in Job /\ job[s] # NoJob /\ db' = db /\ inbounds' = inbounds
      BY <2>9, JobType DEF RemoveCall, AddCall, node
    <3>2. Abort(s) \/ (\E tag : Called(s, "rem", tag) \/ Called(s, "add", tag))
      BY <2>9 DEF RemoveCall, AddCall, UnclaimedTag, Unreachable, RemoveAccount, AddAccount
    <3>3. CASE Abort(s)
      BY <3>1, <3>3 DEF Abort, TypeOK
    <3>4. ASSUME NEW tag, Called(s, "rem", tag) PROVE <1>1!:
      BY <3>1, <3>4 DEF Called, TypeOK, Job
    <3>5. ASSUME NEW tag, Called(s, "add", tag) PROVE <1>1!:
      BY <3>1, <3>5 DEF Called, TypeOK, Job
    <3> QED BY <3>2, <3>3, <3>4, <3>5
  <2>10. CASE StoreInbounds(s) \/ StoreOutbounds(s) \/ DeleteUser(s)
    <3>1. job[s] # NoJob /\ job[s] \in Job
      BY <2>10, JobType DEF StoreInbounds, StoreOutbounds, DeleteUser, CallsDone
    <3>2. /\ stream' = stream /\ span' = span /\ inbounds' = inbounds
          /\ \A x \in Tasks \ {s} : job'[x] = job[x]
      BY <2>10 DEF StoreInbounds, StoreOutbounds, DeleteUser, Finish, node, TypeOK
    <3>3. job'[s] = NoJob \/ job'[s].uid = job[s].uid
      BY <2>10, <3>1 DEF StoreInbounds, StoreOutbounds, DeleteUser, Finish, TypeOK, Job
    <3>4. \A u \in Ids : u # job[s].uid => db'[u] = db[u]
      BY <2>10 DEF StoreInbounds, StoreOutbounds, DeleteUser, TypeOK
    <3> QED BY <3>1, <3>2, <3>3, <3>4
  <2> QED BY <2>3, <2>4, <2>5, <2>6, <2>7, <2>8, <2>9, <2>10 DEF Handler
<1>2. Counted(t) /\ stream[t].pc # "idle" => Counted(t)'
  BY <1>1 DEF Counted
<1>3. Counted(t) => \A u \in Ids \ span[t].others : db'[u] = db[u]
  BY <1>1 DEF Counted
<1>4. job'[t] = job[t]
  BY <1>1
<1> QED BY <1>1, <1>2, <1>3, <1>4, RepopulateStays DEF RepopulateInv

LEMMA RepopulateStep ==
    ASSUME TypeOK, NEW t \in Tasks, RepopulateInv(t), [Next]_vars
    PROVE  RepopulateInv(t)'
<1>1. CASE \/ UNCHANGED vars \/ Boot \/ AutoRestart
           \/ Hang \/ StartFails \/ CancelRestart
  <2>1. UNCHANGED <<db, stream, job, span>> /\ inbounds \subseteq inbounds'
    BY <1>1 DEF vars, Boot, Spawn, Listen, Started, ListInboundUsers, LoadUser, BootDone,
                AutoRestart, Hang, StartFails, CancelRestart, node
  <2>2. Counted(t) => Counted(t)'
    BY <2>1 DEF Counted
  <2> QED BY <2>1, <2>2, RepopulateStays DEF RepopulateInv
<1>2. ASSUME NEW s \in Tasks, Handler(s) PROVE RepopulateInv(t)'
  <2>1. CASE s # t
    BY <1>2, <2>1, RepopulateBeside
  <2>2. CASE SweepDone(t)
    <3>1. stream'[t].pc = "idle"
      BY <2>2 DEF SweepDone, TypeOK, IdleStream
    <3> QED BY <3>1, RepopulateIdle
  <2> QED BY <1>2, <2>1, <2>2, RepopulateTakesNext, RepopulateListsStale, RepopulateSweeps,
             RepopulateCall, RepopulateStores DEF Handler
<1>3. CASE Panel
  <2>1. ASSUME NEW s \in Tasks, NEW r \in Requests, SyncUsers(s, r)
        PROVE  RepopulateInv(t)'
    <3>1. s = t => stream'[t].pc = "idle"
      BY <2>1 DEF SyncUsers
    <3> QED BY <2>1, <3>1, RepopulateIdle, RepopulateBeside
  <2>2. ASSUME NEW s \in Tasks, NEW b \in Batches, RepopulateUsers(s, b)
        PROVE  RepopulateInv(t)'
    <3>1. CASE s # t
      BY <2>2, <3>1, RepopulateBeside
    <3>2. CASE s = t
      <4>1. /\ stream'[t].pc = "repop" /\ stream'[t].batch = b /\ stream'[t].todo = b
            /\ job' = job /\ job[t] = NoJob /\ inbounds' = inbounds
            /\ span'[t].kept = inbounds
            /\ span'[t].others = {u \in Ids : \E x \in Tasks \ {t} :
                                                 job[x] # NoJob /\ job[x].uid = u}
        BY <2>2, <3>2 DEF RepopulateUsers, TypeOK, node
      <4>2. Updating(t)'
        BY <4>1 DEF Updating
      <4>3. \A x \in Tasks : job[x] # NoJob => job[x].uid \in Ids
        BY JobType DEF Job
      <4>4. Counted(t)'
        BY <4>1, <4>3 DEF Counted
      <4> QED BY <4>1, <4>2, <4>4 DEF RepopulateInv
    <3> QED BY <3>1, <3>2
  <2>3. CASE BadRestart \/ BareRestart \/ \E cfg \in Configs : Restart(cfg)
    <3>1. db' = db /\ \E A \in SUBSET Tasks : ProcessGone(A)
      BY <2>3 DEF Restart, BadRestart, BareRestart
    <3> QED BY <3>1, RepopulateGone
  <2> QED BY <1>3, <2>1, <2>2, <2>3 DEF Panel
<1>4. CASE Die \/ CancelStop
  <2>1. db' = db /\ \E A \in SUBSET Tasks : ProcessGone(A)
    BY <1>4 DEF Die, CancelStop
  <2> QED BY <2>1, RepopulateGone
<1>5. CASE NodeRestart
  <2>1. stream'[t].pc = "idle"
    BY <1>5 DEF NodeRestart, IdleStream
  <2> QED BY <2>1, RepopulateIdle
<1>6. ASSUME NEW s \in Tasks, Cancel(s) PROVE RepopulateInv(t)'
  <2>1. s = t => stream'[t].pc = "idle"
    BY <1>6 DEF Cancel, Abort, TypeOK, IdleStream
  <2> QED BY <1>6, <2>1, RepopulateIdle, RepopulateBeside
<1> QED BY <1>1, <1>2, <1>3, <1>4, <1>5, <1>6 DEF Next, Faults

\* The sweep is over: what is stored is the message.
LEMMA SweptIsReconciled ==
    ASSUME TypeOK, NEW t \in Tasks, RepopulateInv(t), SweepDone(t)
    PROVE  Reconciled(t)
<1>1. /\ Sweeping(t) /\ job[t] = NoJob /\ stream[t].stale = {}
  BY DEF SweepDone, RepopulateInv
<1> SUFFICES ASSUME NEW u \in Ids \ span[t].others
             PROVE  \/ /\ \A r \in stream[t].batch : r.id = u => r.tags = {}
                       /\ db[u] = NoRow
                    \/ \E r \in stream[t].batch :
                          r.id = u /\ r.tags # {} /\ StoredAs(r, span[t].kept)
  BY DEF Reconciled
<1>2. CASE u \notin BatchIds(t)
  BY <1>1, <1>2 DEF Sweeping, BatchIds
<1>3. CASE u \in BatchIds(t)
  <2>1. PICK r \in stream[t].batch : r.id = u
    BY <1>3 DEF BatchIds
  <2>2. Written(t, r) /\ \A s \in stream[t].batch : s.id = u => s = r
    BY <1>1, <2>1 DEF Sweeping
  <2> QED BY <2>1, <2>2 DEF Written
<1> QED BY <1>2, <1>3

\* When RepopulateUsers answers, the storage holds the users of the message as it gives
\* them, and no other (service.py:195-211), but for the users another handler worked on
\* meanwhile: for any number of handlers, users and messages, whatever happens to xray and
\* its configuration on the way.
THEOREM RepopulateIsExact == Spec => RepopulateReconciles
<1> DEFINE Inv == \A t \in Tasks : RepopulateInv(t)
<1>1. Init => Inv
  BY DEF Init, RepopulateInv, IdleStream
<1>2. TypeOK /\ Inv /\ [Next]_vars => Inv'
  BY RepopulateStep
<1>3. ASSUME TypeOK, Inv, Next, NEW t \in Tasks, stream[t].pc = "sweep",
             stream'[t].pc = "idle", job[t] = NoJob, faults' = faults
      PROVE  Reconciled(t)
  <2>1. ~HasCalls(t) /\ faults + 1 # faults
    BY <1>3 DEF HasCalls, TypeOK
  <2>2. ASSUME NEW A \in SUBSET Tasks, ProcessGone(A) PROVE FALSE
    BY <1>3, <2>1, <2>2 DEF ProcessGone
  <2>3. ASSUME NEW s \in Tasks,
               \/ \E r \in Requests : SyncUsers(s, r)
               \/ \E b \in Batches : RepopulateUsers(s, b)
               \/ Handler(s)
        PROVE  s = t
    BY <1>3, <2>3, RepopulateBeside
  <2>4. ~Panel
    BY <1>3, <2>2, <2>3 DEF Panel, SyncUsers, RepopulateUsers, Restart, BadRestart, BareRestart
  <2>5. ~Boot /\ ~AutoRestart
    BY <1>3 DEF Boot, Spawn, Listen, Started, ListInboundUsers, LoadUser, BootDone,
                AutoRestart, node
  <2>6. ~Faults
    BY <1>3, <2>1 DEF Faults, Cancel, Hang, Die, StartFails, CancelStop, CancelRestart,
                      NodeRestart
  <2>7. Handler(t)
    BY <1>3, <2>3, <2>4, <2>5, <2>6 DEF Next
  <2>8. SweepDone(t)
    BY <1>3, <2>7 DEF Handler, RepopulateNext, ListStale, SweepNext, RemoveCall, AddCall,
                      StoreInbounds, StoreOutbounds, DeleteUser, CallsDone, TypeOK
  <2> QED BY <1>3, <2>8, SweptIsReconciled
<1>4. TypeOK /\ Inv /\ [Next]_vars =>
         [\A t \in Tasks :
             (stream[t].pc = "sweep" /\ stream'[t].pc = "idle" /\ job[t] = NoJob
                /\ faults' = faults)
             => Reconciled(t)]_vars
  BY <1>3
<1> HIDE DEF Inv
<1> QED BY <1>1, <1>2, <1>4, TypeCorrect, PTL DEF Spec, RepopulateReconciles
=============================================================================

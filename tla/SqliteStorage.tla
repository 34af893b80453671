---------------------------- MODULE SqliteStorage ----------------------------
(***************************************************************************)
(* The tables of SqliteStorage.  All tasks share one connection, on which  *)
(* a thread runs one statement after the other; a step is one statement    *)
(* together with the code up to the next await.  The first statement that  *)
(* writes opens a transaction, and a commit ends it, whoever wrote in it.  *)
(*                                                                         *)
(* The registry of inbounds is a dictionary in memory: see UserSync.       *)
(* flush_users, which the program does not call, is left out.              *)
(***************************************************************************)
EXTENDS Naturals, FiniteSets

CONSTANTS
    Ids,          \* user ids
    Idents,       \* a username with a key
    Tags,         \* inbound tags
    Outs,         \* lists of outbounds of a user
    NoOuts,       \* the empty list
    Policies,     \* node outbound policies, each with its id
    PolicyTable,  \* the list of policies, as an object of Store
    Hours,        \* hour buckets
    Today,        \* those of the current day
    Month,        \* those of the current month
    Writers,      \* tasks that write
    Readers,      \* tasks that read
    NoRow,        \* there is no row of the user
    NoCall,       \* the task is not in a call that writes
    Calls,        \* the calls that write
    MaxCalls,     \* bound on those
    MaxFaults     \* bound on errors, cancellations and crashes

Call ==
    [kind : {"update_user_inbounds"}, uid : Ids, ident : Idents, tags : SUBSET Tags]
        \cup [kind : {"update_user_outbounds"}, uid : Ids, ident : Idents, outs : Outs]
        \cup [kind : {"remove_user"}, uid : Ids]
        \cup [kind : {"replace_node_outbound_policies"}, policies : SUBSET Policies]
        \cup [kind : {"record_node_traffic"}, hour : Hours]

ASSUME OutsAssumption == NoOuts \in Outs
ASSUME NoRowAssumption == NoRow \notin Idents
ASSUME PolicyTableAssumption == PolicyTable \notin Ids
ASSUME BucketsAssumption == Today \subseteq Month /\ Month \subseteq Hours
ASSUME FiniteAssumption == IsFiniteSet(Hours) /\ IsFiniteSet(Writers)
ASSUME CallsAssumption == Calls \subseteq Call
ASSUME BoundsAssumption == MaxCalls \in Nat /\ MaxFaults \in Nat

Objects == Ids \cup {PolicyTable}

User == [ident : Idents \cup {NoRow}, tags : SUBSET Tags, outs : Outs]

Values == User \cup [policies : SUBSET Policies]

Tables == [users : [Ids -> Idents \cup {NoRow}],   \* users
           inbounds : [Ids -> SUBSET Tags],        \* user_inbounds
           outbounds : [Ids -> Outs],              \* user_outbounds
           policies : SUBSET Policies,             \* node_outbound_policies
           traffic : [Hours -> Nat]]               \* node_traffic, in samples

ASSUME NoCallAssumption == NoCall \notin [obj : Objects, target : Values, alone : BOOLEAN]

VARIABLES
    connected,  \* _db is set
    view,       \* the tables as the connection sees them
    disk,       \* the tables as last committed
    op,         \* per writer: its call and the statement it awaits
    read,       \* per reader: how far it has come
    call,       \* history: the calls on objects, as in Store
    settled,    \* history: the settled objects, as in Store
    before,     \* history: per writer, the value of its object when it began
    asked,      \* history: per hour, samples handed to record_node_traffic
    kept,       \* history: per hour, samples it has returned from
    calls,      \* history: calls so far
    faults      \* history: errors, cancellations and crashes so far

tables == <<connected, view, disk>>
object == <<call, settled, before>>
counters == <<asked, kept, calls, faults>>
vars == <<tables, op, read, object, counters>>

Statements == {"connect", "user", "drop", "rows", "delete", "clear", "policies", "bucket",
               "commit"}

NoOp == [call |-> NoCall, at |-> "done", cancelled |-> FALSE]

NoRead == [kind |-> "none", step |-> "done", found |-> [u \in Ids |-> NoRow],
           tags |-> [u \in Ids |-> {}], outs |-> [u \in Ids |-> NoOuts], todo |-> {},
           sums |-> <<0, 0, 0>>, fixed |-> {}]

\* The value of an object in tables v.
ValueIn(v, o) ==
    IF o = PolicyTable
    THEN [policies |-> v.policies]
    ELSE [ident |-> v.users[o], tags |-> v.inbounds[o], outs |-> v.outbounds[o]]

Empty == [users |-> [u \in Ids |-> NoRow], inbounds |-> [u \in Ids |-> {}],
          outbounds |-> [u \in Ids |-> NoOuts], policies |-> {},
          traffic |-> [h \in Hours |-> 0]]

Init ==
    /\ connected = FALSE
    /\ view = Empty
    /\ disk = Empty
    /\ op = [t \in Writers |-> NoOp]
    /\ read = [r \in Readers |-> NoRead]
    /\ call = [t \in Writers |-> NoCall]
    /\ settled = Objects
    /\ before = [t \in Writers |-> NoCall]
    /\ asked = [h \in Hours |-> 0]
    /\ kept = [h \in Hours |-> 0]
    /\ calls = 0
    /\ faults = 0

(***************************************************************************)
(* The operations that write.                                              *)
(***************************************************************************)
\* The statements of each operation, one after the other.
First(c) ==
    CASE c.kind \in {"update_user_inbounds", "update_user_outbounds"} -> "user"
      [] c.kind = "remove_user" -> "delete"
      [] c.kind = "replace_node_outbound_policies" -> "clear"
      [] c.kind = "record_node_traffic" -> "bucket"

NoRows(c) ==
    CASE c.kind = "update_user_inbounds" -> c.tags = {}
      [] c.kind = "update_user_outbounds" -> c.outs = NoOuts
      [] c.kind = "replace_node_outbound_policies" -> c.policies = {}
      [] OTHER -> TRUE

\* Mutant: update_user_outbounds does not commit.
AfterUncommitted(c, s) ==
    CASE s = "connect" -> First(c)
      [] s = "user" -> "drop"
      [] s = "drop" -> IF NoRows(c) THEN "commit" ELSE "rows"
      [] s = "clear" -> IF NoRows(c) THEN "commit" ELSE "policies"
      [] s = "rows" -> IF c.kind = "update_user_outbounds" THEN "done" ELSE "commit"
      [] s \in {"delete", "policies", "bucket"} -> "commit"
      [] s = "commit" -> "done"

After(c, s) ==
    CASE s = "connect" -> First(c)
      [] s = "user" -> "drop"
      [] s = "drop" -> IF NoRows(c) THEN "commit" ELSE "rows"
      [] s = "clear" -> IF NoRows(c) THEN "commit" ELSE "policies"
      [] s \in {"rows", "delete", "policies", "bucket"} -> "commit"
      [] s = "commit" -> "done"

ObjectOf(c) == IF c.kind = "replace_node_outbound_policies" THEN PolicyTable ELSE c.uid

\* What a call alone on its object leaves there.
Target(c) ==
    CASE c.kind = "update_user_inbounds" ->
            [ValueIn(view, c.uid) EXCEPT !.ident = c.ident, !.tags = c.tags]
      [] c.kind = "update_user_outbounds" ->
            [ValueIn(view, c.uid) EXCEPT !.ident = c.ident, !.outs = c.outs]
      [] c.kind = "remove_user" -> [ident |-> NoRow, tags |-> {}, outs |-> NoOuts]
      [] c.kind = "replace_node_outbound_policies" -> [policies |-> c.policies]

InUse(o) == \E t \in Writers : call[t] # NoCall /\ call[t].obj = o

\* History of a call that begins on an object.
BeginOn(t, o, w) ==
    /\ call' = [s \in Writers |->
          IF s = t
          THEN [obj |-> o, target |-> w, alone |-> ~InUse(o)]
          ELSE IF call[s] # NoCall /\ call[s].obj = o
          THEN [call[s] EXCEPT !.alone = FALSE]
          ELSE call[s]]
    /\ settled' = settled \ {o}
    /\ before' = [before EXCEPT ![t] = IF o \in settled THEN ValueIn(view, o) ELSE w]
    /\ read' = [r \in Readers |-> [read[r] EXCEPT !.fixed = @ \ {o}]]

Begin(t, c) ==
    /\ calls < MaxCalls
    /\ op[t].at = "done"
    /\ op' = [op EXCEPT ![t] =
          [call |-> c, at |-> IF connected THEN First(c) ELSE "connect", cancelled |-> FALSE]]
    /\ IF c.kind = "record_node_traffic"
       THEN /\ asked' = [asked EXCEPT ![c.hour] = @ + 1]
            /\ UNCHANGED <<object, read>>
       ELSE BeginOn(t, ObjectOf(c), Target(c)) /\ UNCHANGED asked
    /\ calls' = calls + 1
    /\ UNCHANGED <<tables, kept, faults>>

At(t, s) == op[t].at = s

Ended(t) ==
    /\ op' = [op EXCEPT ![t] = NoOp]
    /\ call' = [call EXCEPT ![t] = NoCall]
    /\ before' = [before EXCEPT ![t] = NoCall]

\* The call raises: what it has written stays in the transaction.
Raise(t) == Ended(t) /\ UNCHANGED <<settled, kept>>

\* The statement was the last one.
Return(t) ==
    LET c == op[t].call
    IN  /\ Ended(t)
        /\ IF call[t] # NoCall /\ call[t].alone
           THEN settled' = settled \cup {call[t].obj}
           ELSE UNCHANGED settled
        /\ IF c.kind = "record_node_traffic"
           THEN kept' = [kept EXCEPT ![c.hour] = @ + 1]
           ELSE UNCHANGED kept

\* The statement is done.
Step(t) ==
    LET next == After(op[t].call, op[t].at)
    IN  CASE op[t].cancelled -> Raise(t)
          [] ~op[t].cancelled /\ next = "done" -> Return(t)
          [] ~op[t].cancelled /\ next # "done" ->
                op' = [op EXCEPT ![t].at = next] /\ UNCHANGED <<object, kept>>

\* _conn(): the others that find no connection wait for the lock and then
\* use this one.
Connect(t) ==
    /\ At(t, "connect")
    /\ connected' = TRUE
    /\ Step(t)
    /\ UNCHANGED <<view, disk, read, asked, calls, faults>>

Writes(t, v) ==
    /\ view' = v
    /\ UNCHANGED <<connected, disk, read, asked, calls, faults>>

\* INSERT INTO users ... ON CONFLICT(id) DO UPDATE.
UpsertUser(t) ==
    /\ At(t, "user")
    /\ Writes(t, [view EXCEPT !.users[op[t].call.uid] = op[t].call.ident])
    /\ Step(t)

\* DELETE FROM user_inbounds, user_outbounds.
DropRows(t) ==
    /\ At(t, "drop")
    /\ LET c == op[t].call
       IN  Writes(t, IF c.kind = "update_user_inbounds"
                     THEN [view EXCEPT !.inbounds[c.uid] = {}]
                     ELSE [view EXCEPT !.outbounds[c.uid] = NoOuts])
    /\ Step(t)

\* executemany: a row that exists or a missing user raises, after the rows
\* before it.
InsertInbounds(t) ==
    LET c == op[t].call
        rows == view.inbounds[c.uid]
    IN  IF view.users[c.uid] # NoRow /\ rows \cap c.tags = {}
        THEN /\ Writes(t, [view EXCEPT !.inbounds[c.uid] = @ \cup c.tags])
             /\ Step(t)
        ELSE /\ \E some \in SUBSET (c.tags \ rows) :
                   /\ view.users[c.uid] = NoRow => some = {}
                   /\ Writes(t, [view EXCEPT !.inbounds[c.uid] = @ \cup some])
             /\ Raise(t)

\* Two lists have their first row in common.
InsertOutbounds(t) ==
    LET c == op[t].call
    IN  IF view.users[c.uid] # NoRow /\ view.outbounds[c.uid] = NoOuts
        THEN /\ Writes(t, [view EXCEPT !.outbounds[c.uid] = c.outs])
             /\ Step(t)
        ELSE Writes(t, view) /\ Raise(t)

InsertRows(t) ==
    /\ At(t, "rows")
    /\ IF op[t].call.kind = "update_user_inbounds"
       THEN InsertInbounds(t)
       ELSE InsertOutbounds(t)

\* Mutant: foreign keys are not enabled on the connection.
WithoutUserRow(v, u) == [v EXCEPT !.users[u] = NoRow]

\* DELETE FROM users: the foreign keys take the other rows along.
WithoutUser(v, u) ==
    [v EXCEPT !.users[u] = NoRow, !.inbounds[u] = {}, !.outbounds[u] = NoOuts]

DeleteUser(t) ==
    /\ At(t, "delete")
    /\ Writes(t, WithoutUser(view, op[t].call.uid))
    /\ Step(t)

ClearPolicies(t) ==
    /\ At(t, "clear")
    /\ Writes(t, [view EXCEPT !.policies = {}])
    /\ Step(t)

InsertPolicies(t) ==
    /\ At(t, "policies")
    /\ LET ps == op[t].call.policies
       IN  IF view.policies \cap ps = {}
           THEN /\ Writes(t, [view EXCEPT !.policies = @ \cup ps])
                /\ Step(t)
           ELSE /\ \E some \in SUBSET (ps \ view.policies) :
                      Writes(t, [view EXCEPT !.policies = @ \cup some])
                /\ Raise(t)

\* Mutant: a sample replaces the bucket.
ReplaceBucket(t) ==
    /\ At(t, "bucket")
    /\ Writes(t, [view EXCEPT !.traffic[op[t].call.hour] = 1])
    /\ Step(t)

\* INSERT INTO node_traffic ... ON CONFLICT DO UPDATE adds a sample.
AddToBucket(t) ==
    /\ At(t, "bucket")
    /\ Writes(t, [view EXCEPT !.traffic[op[t].call.hour] = @ + 1])
    /\ Step(t)

Commit(t) ==
    /\ At(t, "commit")
    /\ disk' = view
    /\ Step(t)
    /\ UNCHANGED <<connected, view, read, asked, calls, faults>>

(***************************************************************************)
(* The operations that read.  list_users() is the longest of those about   *)
(* users: the rows, then the tags, then the outbounds of one after the     *)
(* other.  A reader that finds no connection opens it.                     *)
(***************************************************************************)
ListUsers(r) ==
    /\ read[r] = NoRead
    /\ LET rows == {u \in Ids : view.users[u] # NoRow}
       IN  read' = [read EXCEPT ![r] =
              [NoRead EXCEPT !.kind = "users", !.step = "tags", !.found = view.users,
                             !.todo = rows, !.fixed = settled \cap Ids]]
    /\ connected' = TRUE
    /\ UNCHANGED <<view, disk, op, object, counters>>

\* Mutant: the tags are collected for all users in one list.
ReadTagsOfAll(r) ==
    /\ read[r].step = "tags"
    /\ read' = [read EXCEPT ![r].tags =
                    [u \in Ids |-> UNION {view.inbounds[w] : w \in Ids}],
                            ![r].step = "outs"]
    /\ UNCHANGED <<tables, op, object, counters>>

ReadTags(r) ==
    /\ read[r].step = "tags"
    /\ read' = [read EXCEPT ![r].tags = view.inbounds, ![r].step = "outs"]
    /\ UNCHANGED <<tables, op, object, counters>>

ReadOutbounds(r, u) ==
    /\ read[r].step = "outs"
    /\ u \in read[r].todo
    /\ read' = [read EXCEPT ![r].outs[u] = view.outbounds[u], ![r].todo = @ \ {u}]
    /\ UNCHANGED <<tables, op, object, counters>>

SumOf(v, hours) ==
    LET sum[S \in SUBSET hours] ==
          IF S = {} THEN 0
          ELSE LET h == CHOOSE x \in S : TRUE IN v.traffic[h] + sum[S \ {h}]
    IN  sum[hours]

\* get_node_traffic_totals: three sums, one after the other.
GetTotals(r) ==
    /\ read[r] = NoRead
    /\ read' = [read EXCEPT ![r] =
          [NoRead EXCEPT !.kind = "totals", !.step = "month", !.sums[1] = SumOf(view, Today)]]
    /\ connected' = TRUE
    /\ UNCHANGED <<view, disk, op, object, counters>>

SumMonth(r) ==
    /\ read[r].step = "month"
    /\ read' = [read EXCEPT ![r].sums[2] = SumOf(view, Month), ![r].step = "total"]
    /\ UNCHANGED <<tables, op, object, counters>>

\* Mutant: the total is read on a connection of its own.
SumTotalCommitted(r) ==
    /\ read[r].step = "total"
    /\ read' = [read EXCEPT ![r].sums[3] = SumOf(disk, Hours), ![r].step = "done"]
    /\ UNCHANGED <<tables, op, object, counters>>

SumTotal(r) ==
    /\ read[r].step = "total"
    /\ read' = [read EXCEPT ![r].sums[3] = SumOf(view, Hours), ![r].step = "done"]
    /\ UNCHANGED <<tables, op, object, counters>>

Listed(r) == read[r].kind = "users" /\ read[r].step = "outs" /\ read[r].todo = {}

Totalled(r) == read[r].kind = "totals" /\ read[r].step = "done"

\* The caller has the result.
ReadReturns(r) ==
    /\ Listed(r) \/ Totalled(r)
    /\ read' = [read EXCEPT ![r] = NoRead]
    /\ UNCHANGED <<tables, op, object, counters>>

(***************************************************************************)
(* Faults.                                                                 *)
(***************************************************************************)
\* A statement or a commit fails (the database is locked).
Fail(t) ==
    /\ faults < MaxFaults
    /\ op[t].at # "done"
    /\ Raise(t)
    /\ faults' = faults + 1
    /\ UNCHANGED <<tables, read, asked, calls>>

\* The task is cancelled while it awaits a statement.  The thread runs the
\* statement nevertheless; a connection being opened is dropped.
Cancel(t) ==
    /\ faults < MaxFaults
    /\ op[t].at # "done"
    /\ ~op[t].cancelled
    /\ IF At(t, "connect")
       THEN Raise(t)
       ELSE /\ op' = [op EXCEPT ![t].cancelled = TRUE]
            /\ UNCHANGED <<object, kept>>
    /\ faults' = faults + 1
    /\ UNCHANGED <<tables, read, asked, calls>>

\* The node ends and is started again.
Crash ==
    /\ faults < MaxFaults
    /\ connected' = FALSE
    /\ view' = disk
    /\ op' = [t \in Writers |-> NoOp]
    /\ read' = [r \in Readers |-> NoRead]
    /\ call' = [t \in Writers |-> NoCall]
    /\ before' = [t \in Writers |-> NoCall]
    /\ settled' = Objects
    /\ faults' = faults + 1
    /\ UNCHANGED <<disk, asked, kept, calls>>

(***************************************************************************)
(* The specification.                                                      *)
(***************************************************************************)
Statement(t) ==
    \/ Connect(t) \/ UpsertUser(t) \/ DropRows(t) \/ InsertRows(t) \/ DeleteUser(t)
    \/ ClearPolicies(t) \/ InsertPolicies(t) \/ AddToBucket(t) \/ Commit(t)

Reading(r) ==
    \/ ListUsers(r) \/ ReadTags(r) \/ (\E u \in Ids : ReadOutbounds(r, u))
    \/ GetTotals(r) \/ SumMonth(r) \/ SumTotal(r) \/ ReadReturns(r)

Next ==
    \/ \E t \in Writers, c \in Calls : Begin(t, c)
    \/ \E t \in Writers : Statement(t)
    \/ \E r \in Readers : Reading(r)
    \/ \E t \in Writers : Fail(t) \/ Cancel(t)
    \/ Crash

Spec == Init /\ [][Next]_vars

(***************************************************************************)
(* Properties.                                                             *)
(***************************************************************************)
\* Every variable keeps its type.
TypeOK ==
    /\ connected \in BOOLEAN
    /\ view \in Tables
    /\ disk \in Tables
    /\ op \in [Writers -> [call : Calls \cup {NoCall}, at : Statements \cup {"done"},
                          cancelled : BOOLEAN]]
    /\ call \in [Writers -> [obj : Objects, target : Values, alone : BOOLEAN] \cup {NoCall}]
    /\ settled \subseteq Objects
    /\ before \in [Writers -> Values \cup {NoCall}]
    /\ asked \in [Hours -> Nat]
    /\ kept \in [Hours -> Nat]
    /\ calls \in 0..MaxCalls
    /\ faults \in 0..MaxFaults

\* The storage is what its callers take it for (sqlite.py:3-4): an operation
\* that returned is there, for good and through a crash, untouched by what
\* other tasks do to other objects on the same connection.
Kept == INSTANCE Store
            WITH Tasks <- Writers, value <- [o \in Objects |-> ValueIn(view, o)]

ImplementsStore == Kept!StoreSpec

\* No inbound or outbound of a user that is not there, in the transaction or
\* on the disk (sqlite.py:76,90,118: remove_user deletes from users alone).
NoOrphans ==
    \A v \in {view, disk} : \A u \in Ids :
        v.users[u] = NoRow => v.inbounds[u] = {} /\ v.outbounds[u] = NoOuts

\* list_users() returns the value of every user that no call worked on while
\* it read (sqlite.py:150-168).
ReadsSettled ==
    \A r \in Readers : Listed(r) =>
        \A u \in read[r].fixed :
            /\ read[r].found[u] = view.users[u]
            /\ view.users[u] # NoRow =>
                  /\ read[r].tags[u] = view.inbounds[u]
                  /\ read[r].outs[u] = view.outbounds[u]

\* A sample is counted once: those record_node_traffic returned from are on
\* the disk, and no more than were handed to it (sqlite.py:396-410).
TrafficKept ==
    \A h \in Hours : kept[h] <= disk.traffic[h] /\ disk.traffic[h] <= asked[h]

\* The sums of a day, a month and all time are in order, although samples
\* may be recorded between them (sqlite.py:433-437).
TotalsOrdered ==
    \A r \in Readers : Totalled(r) =>
        read[r].sums[1] <= read[r].sums[2] /\ read[r].sums[2] <= read[r].sums[3]

\* "Users and their inbound associations are persisted so the node survives
\* restarts" (sqlite.py:3-4): what a crash leaves of a user being updated is
\* the user before or after the update.
CrashKeepsUsersWhole ==
    \A t \in Writers :
        (call[t] # NoCall /\ call[t].obj \in Ids /\ call[t].alone)
            => ValueIn(disk, call[t].obj) \in {before[t], call[t].target}

=============================================================================

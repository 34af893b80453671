---------------------------- MODULE NodeTraffic ----------------------------
(***************************************************************************)
(* The traffic of the server's network interfaces.  A task samples the     *)
(* kernel's byte counters and has the storage add what was counted since   *)
(* the sample before to the bucket of the hour; the panel reads the last   *)
(* sample and the sums of the buckets with FetchNodeTrafficStats.          *)
(*                                                                         *)
(* The code treats received and sent bytes alike, so there is one counter  *)
(* per interface, and adds up the interfaces, which are kept apart here:   *)
(* what holds of each holds of the sum.  Rates are left out.               *)
(***************************************************************************)
EXTENDS Integers, FiniteSetsExt

CONSTANTS
    Interfaces,
    Loopback,      \* lo and its aliases
    Configured,    \* the interfaces TrafficMonitor is given; main() gives none
    HoursPerDay,
    DaysPerMonth,
    Settings,      \* values of Durable: SqliteStorage or MemoryStorage
    NoSample,      \* latest_sample is None, or the task has none in its hands
    NoCall,        \* no FetchNodeTrafficStats handler
    NoAnswer,      \* the panel has had no answer
    MaxBytes,      \* bound on the bytes that pass
    MaxHour,       \* bound on the clock
    MaxEvents      \* bound on changes of interfaces, failures and restarts

ASSUME LoopbackAssumption == Loopback \subseteq Interfaces /\ Configured \subseteq Interfaces
ASSUME CalendarAssumption == HoursPerDay \in Nat \ {0} /\ DaysPerMonth \in Nat \ {0}
ASSUME SettingsAssumption == Settings \subseteq BOOLEAN
ASSUME BoundsAssumption == MaxBytes \in Nat /\ MaxHour \in Nat /\ MaxEvents \in Nat

Hours == 0..MaxHour

\* Bytes per interface.
Bytes == [Interfaces -> Nat]

Zero == [i \in Interfaces |-> 0]

\* A storage without a record.
Empty == [traffic |-> [h \in Hours |-> Zero], booked |-> [h \in Hours |-> Zero]]

\* A read of the counters is a function on the interfaces it found.
NoReadings == [i \in {} |-> 0]

\* A sample, as the panel is told of it and as it is recorded.
Samples == [available : BOOLEAN, hour : Hours]

Records == [hour : Hours, delta : Bytes]

Answers == [hour : Hours, today : Bytes, month : Bytes, total : Bytes]

ASSUME NoneAssumption ==
    /\ NoSample \notin Samples \cup Records
    /\ NoAnswer \notin Answers
    /\ NoCall \notin Hours

VARIABLES
    durable,    \* the storage is SqliteStorage
    up,         \* interfaces that exist
    counter,    \* the kernel's counters
    hour,       \* the clock
    previous,   \* _previous; empty for None, which gives no difference either
    latest,     \* latest_sample
    begun,      \* the task has sampled; the server listens later than that
    writing,    \* the record run_traffic_monitor awaits
    traffic,    \* node_traffic: bytes per hour, as the connection reads them
    committing, \* the record has been executed; its commit is awaited
    disk,       \* what a restart finds of traffic and booked
    call,       \* the hour of the sample FetchNodeTrafficStats has, while it awaits the sums
    told,       \* history: the last answer
    passed,     \* history: bytes that passed by the end of each hour
    booked,     \* history: bytes recorded for the hours up to each
    base,       \* history: bytes that passed before the first sample of an interface
    seen,       \* history: interfaces some sample had
    lossy,      \* history: interfaces some bytes of which could not be counted
    events      \* history: changes of interfaces, failures and restarts so far

kernel == <<up, counter, hour, passed>>
monitor == <<previous, latest, begun, writing>>
store == <<traffic, booked, committing, disk>>
panel == <<call, told>>
history == <<base, seen, lossy>>
vars == <<durable, kernel, monitor, store, panel, history, events>>

Init ==
    /\ durable \in Settings
    /\ up \in SUBSET Interfaces
    /\ counter \in [Interfaces -> 0..1]
    /\ hour = 0
    /\ previous = NoReadings
    /\ latest = NoSample
    /\ begun = FALSE
    /\ writing = NoSample
    /\ traffic = [h \in Hours |-> Zero]
    /\ committing = FALSE
    /\ disk = Empty
    /\ call = NoCall
    /\ told = NoAnswer
    /\ passed = [h \in Hours |-> Zero]
    /\ booked = [h \in Hours |-> Zero]
    /\ base = Zero
    /\ seen = {}
    /\ lossy = {}
    /\ events = 0

Event == events < MaxEvents /\ events' = events + 1

(***************************************************************************)
(* The kernel and the clock.                                               *)
(***************************************************************************)
\* A byte passes through an interface.
Pass(i) ==
    /\ i \in up
    /\ passed[MaxHour][i] < MaxBytes
    /\ counter' = [counter EXCEPT ![i] = @ + 1]
    /\ passed' = [h \in Hours |->
                     IF h < hour THEN passed[h] ELSE [passed[h] EXCEPT ![i] = @ + 1]]
    /\ UNCHANGED <<durable, up, hour, monitor, store, panel, history, events>>

\* The counter of an interface starts again.
Reset(i) ==
    /\ Event
    /\ i \in up
    /\ counter' = [counter EXCEPT ![i] = 0]
    /\ lossy' = lossy \cup {i}
    /\ UNCHANGED <<durable, up, hour, passed, monitor, store, panel, base, seen>>

Vanish(i) ==
    /\ Event
    /\ i \in up
    /\ up' = up \ {i}
    /\ lossy' = lossy \cup {i}
    /\ UNCHANGED <<durable, counter, hour, passed, monitor, store, panel, base, seen>>

\* An interface is created, with a counter of its own.
Appear(i) ==
    /\ Event
    /\ i \notin up
    /\ up' = up \cup {i}
    /\ counter' = [counter EXCEPT ![i] = 0]
    /\ UNCHANGED <<durable, hour, passed, monitor, store, panel, history>>

\* The clock does not go back.
Tick ==
    /\ hour < MaxHour
    /\ hour' = hour + 1
    /\ UNCHANGED <<durable, up, counter, passed, monitor, store, panel, history, events>>

(***************************************************************************)
(* TrafficMonitor.                                                         *)
(***************************************************************************)
\* _select_counters()
Selected ==
    up \cap (IF Configured = {} THEN Interfaces \ Loopback ELSE Configured)

\* Mutant: an interface that was not there before counts in full.
DeltaOfAll(old, new) ==
    [i \in Interfaces |->
        CASE i \in DOMAIN new /\ i \in DOMAIN old /\ new[i] > old[i] -> new[i] - old[i]
          [] i \in DOMAIN new /\ i \notin DOMAIN old -> new[i]
          [] OTHER -> 0]

\* Mutant: a counter that went back is not noticed.
DeltaUnclamped(old, new) ==
    [i \in Interfaces |-> IF i \in DOMAIN new \cap DOMAIN old THEN new[i] - old[i] ELSE 0]

\* What was counted between two samples, at least 0, for the interfaces in both.
Delta(old, new) ==
    [i \in Interfaces |->
        IF i \in DOMAIN new \cap DOMAIN old /\ new[i] > old[i] THEN new[i] - old[i] ELSE 0]

Readable == [i \in Selected |-> counter[i]]

\* sample(): the counters are read.
TakeSample ==
    /\ previous' = Readable
    /\ latest' = [available |-> TRUE, hour |-> hour]
    /\ seen' = seen \cup Selected
    /\ base' = [i \in Interfaces |->
                   IF i \in Selected \ seen THEN passed[MaxHour][i] ELSE base[i]]
    /\ UNCHANGED <<lossy, events>>

\* sample(): the read raises OSError.
MissSample ==
    /\ Event
    /\ previous' = NoReadings
    /\ latest' = [available |-> FALSE, hour |-> hour]
    /\ lossy' = lossy \cup seen
    /\ UNCHANGED <<base, seen>>

\* A difference is recorded unless it is 0.
Due(delta) == IF delta = Zero THEN NoSample ELSE [hour |-> hour, delta |-> delta]

\* A round of run_traffic_monitor() up to the record, or to its sleep.
Sample ==
    /\ writing = NoSample /\ ~committing
    /\ begun' = TRUE
    /\ \/ /\ TakeSample
          /\ writing' = Due(Delta(previous, Readable))
       \/ /\ MissSample
          /\ writing' = NoSample
    /\ UNCHANGED <<durable, kernel, store, panel>>

\* A round that fails before it keeps anything: a line that is no number.
Garbled ==
    /\ Event
    /\ writing = NoSample /\ ~committing
    /\ begun' = TRUE
    /\ UNCHANGED <<durable, kernel, previous, latest, writing, store, panel, history>>

(***************************************************************************)
(* The record of a sample, and the sums.                                   *)
(***************************************************************************)
\* Mutant: the bucket gets the last difference.
Replaced(s) == [traffic EXCEPT ![s.hour] = s.delta]

\* record_node_traffic(): the difference is added to its bucket.
Recorded(s) ==
    [traffic EXCEPT ![s.hour] = [i \in Interfaces |-> traffic[s.hour][i] + s.delta[i]]]

Book(s) ==
    /\ traffic' = Recorded(s)
    /\ booked' = [h \in Hours |->
                     IF h < s.hour THEN booked[h]
                     ELSE [i \in Interfaces |-> booked[h][i] + s.delta[i]]]

\* The storage has the sample: MemoryStorage is done, sqlite's statement has
\* been executed and its commit is awaited.
Record ==
    /\ writing # NoSample
    /\ writing' = NoSample
    /\ Book(writing)
    /\ committing' = durable
    /\ UNCHANGED <<durable, kernel, previous, latest, begun, disk, panel, history, events>>

Written == [traffic |-> traffic, booked |-> booked]

Commit ==
    /\ committing
    /\ committing' = FALSE
    /\ disk' = Written
    /\ UNCHANGED <<durable, kernel, monitor, traffic, booked, panel, history, events>>

\* A handler that stores a user commits on the same connection, and what was
\* executed on it goes along.
OtherCommit ==
    /\ durable
    /\ disk # Written
    /\ disk' = Written
    /\ UNCHANGED <<durable, kernel, monitor, traffic, booked, committing, panel,
                   history, events>>

\* sqlite raises and run_traffic_monitor() goes on: the statement is undone, or
\* it was executed and waits for the next commit on the connection.
RecordFails ==
    /\ Event
    /\ durable
    /\ \/ /\ writing # NoSample
          /\ writing' = NoSample
          /\ lossy' = lossy \cup {i \in Interfaces : writing.delta[i] > 0}
          /\ UNCHANGED store
       \/ /\ committing
          /\ committing' = FALSE
          /\ UNCHANGED <<writing, lossy, traffic, booked, disk>>
    /\ UNCHANGED <<durable, kernel, previous, latest, begun, panel, base, seen>>

DayStart(h) == (h \div HoursPerDay) * HoursPerDay

MonthStart(h) == (h \div (HoursPerDay * DaysPerMonth)) * (HoursPerDay * DaysPerMonth)

SumSince(start) ==
    [i \in Interfaces |-> MapThenSumSet(LAMBDA h : traffic[h][i], start..MaxHour)]

\* get_node_traffic_totals() at hour h.
TotalsAt(h) ==
    [hour |-> h, today |-> SumSince(DayStart(h)), month |-> SumSince(MonthStart(h)),
     total |-> SumSince(0)]

\* Mutant: the handler takes a sample of its own.
FetchSamples == call = NoCall /\ begun /\ (TakeSample \/ MissSample) /\ call' = hour

\* FetchNodeTrafficStats: the last sample, or one of its own if there is none.
PickSample ==
    /\ call = NoCall
    /\ begun
    /\ IF latest # NoSample
       THEN UNCHANGED <<previous, latest, history, events>>
       ELSE TakeSample \/ MissSample
    /\ call' = latest'.hour

FetchNodeTrafficStats ==
    /\ PickSample
    /\ UNCHANGED <<durable, kernel, begun, writing, store, told>>

\* The sums have been read.  SqliteStorage reads them one after the other
\* (its module has that); no more can be told here than at the last of them.
Answer ==
    /\ call # NoCall
    /\ told' = TotalsAt(call)
    /\ call' = NoCall
    /\ UNCHANGED <<durable, kernel, monitor, store, history, events>>

(***************************************************************************)
(* The node ends and starts again.                                         *)
(***************************************************************************)
\* MemoryStorage starts empty; sqlite rolls back what was not committed, and
\* the panel may have been told of it.
NodeRestart ==
    /\ Event
    /\ previous' = NoReadings
    /\ latest' = NoSample
    /\ begun' = FALSE
    /\ writing' = NoSample
    /\ committing' = FALSE
    /\ call' = NoCall
    /\ lossy' = lossy \cup seen
    /\ traffic' = disk.traffic
    /\ booked' = disk.booked
    /\ told' = IF traffic = disk.traffic THEN told ELSE NoAnswer
    /\ UNCHANGED <<durable, kernel, disk, base, seen>>

Monitor == Sample \/ Garbled \/ Record \/ Commit \/ RecordFails

Next ==
    \/ \E i \in Interfaces : Pass(i) \/ Reset(i) \/ Vanish(i) \/ Appear(i)
    \/ Tick
    \/ Monitor
    \/ OtherCommit
    \/ FetchNodeTrafficStats
    \/ Answer
    \/ NodeRestart

Spec == Init /\ [][Next]_vars

-----------------------------------------------------------------------------
(***************************************************************************)
(* Properties.                                                             *)
(***************************************************************************)
\* The values of all variables but told.
CountTypes ==
    /\ durable \in BOOLEAN
    /\ up \subseteq Interfaces
    /\ counter \in Bytes
    /\ hour \in Hours
    /\ DOMAIN previous \subseteq Interfaces /\ previous \in [DOMAIN previous -> Nat]
    /\ latest \in Samples \cup {NoSample}
    /\ begun \in BOOLEAN
    /\ writing \in Records \cup {NoSample}
    /\ traffic \in [Hours -> Bytes]
    /\ committing \in BOOLEAN
    /\ disk \in [traffic : [Hours -> Bytes], booked : [Hours -> Bytes]]
    /\ call \in Hours \cup {NoCall}
    /\ passed \in [Hours -> Bytes]
    /\ booked \in [Hours -> Bytes]
    /\ base \in Bytes
    /\ seen \subseteq Interfaces
    /\ lossy \subseteq Interfaces
    /\ events \in Nat

\* The values the variables take: in particular, no difference is negative.
TypeOK ==
    /\ CountTypes
    /\ told # NoAnswer =>
          /\ told.hour \in Hours
          /\ told.today \in Bytes /\ told.month \in Bytes /\ told.total \in Bytes

\* Nothing is counted twice, and nothing that had been counted before the first
\* sample: what is recorded for the hours up to each is no more than what had
\* passed by its end, whatever the interfaces, the reads and the storage do.
NeverAhead == \A h \in Hours, i \in Interfaces : booked[h][i] <= passed[h][i]

InHands(i) == IF writing = NoSample THEN 0 ELSE writing.delta[i]

\* What a restart finds is no more than what is there.
DiskBehind ==
    \A h \in Hours, i \in Interfaces : disk.booked[h][i] <= booked[h][i]

\* What is on its way to the bucket of hour h or of one before.
Pending(h, i) == IF writing # NoSample /\ writing.hour <= h THEN writing.delta[i] ELSE 0

\* What the next sample would find, for the current hour.
Uncounted(h, i) ==
    IF h >= hour /\ i \in DOMAIN previous /\ counter[i] > previous[i]
    THEN counter[i] - previous[i] ELSE 0

\* NeverAhead, with what is still to be recorded and to be counted.
Account ==
    \A h \in Hours, i \in Interfaces :
        booked[h][i] + Pending(h, i) + Uncounted(h, i) <= passed[h][i]

\* What NothingLost rests on: an interface that lost nothing has been in every
\* sample since its first, nothing is recorded of one no sample had, and where
\* there is no last sample, there are no counters to compare with.
Sighted ==
    /\ latest = NoSample => DOMAIN previous = {} /\ writing = NoSample
    /\ DOMAIN previous \subseteq seen
    /\ \A i \in seen \ lossy :
          i \in Selected /\ i \in DOMAIN previous /\ counter[i] >= previous[i]
    /\ \A i \in Interfaces \ seen : booked[MaxHour][i] = 0 /\ InHands(i) = 0

\* Of an interface whose counter went on, that every sample had and whose
\* records succeeded, no byte is lost: those that passed since its first sample
\* are recorded, in the hands of the task, or still to be counted.
NothingLost ==
    \A i \in DOMAIN previous \ lossy :
        passed[MaxHour][i] = base[i] + booked[MaxHour][i] + InHands(i) + (counter[i] - previous[i])

AtLeast(new, old) == \A i \in Interfaces : new[i] >= old[i]

\* From one answer to the next the panel sees the total grow, and the sums of the
\* day and of the month as long as the day and the month last: across the rounds
\* of the task, its failures and the restarts of the node, but for a restart that
\* finds less than there was.  That is MemoryStorage, which starts empty, and a
\* record sqlite executed and did not commit (sqlite.py:400-410): answers are read
\* on the same connection and have it, and the restart rolls it back.
AnswersGrow ==
    [][(told # NoAnswer /\ told' # NoAnswer) =>
          /\ AtLeast(told'.total, told.total)
          /\ DayStart(told'.hour) = DayStart(told.hour)
                => AtLeast(told'.today, told.today)
          /\ MonthStart(told'.hour) = MonthStart(told.hour)
                => AtLeast(told'.month, told.month)]_vars
=============================================================================

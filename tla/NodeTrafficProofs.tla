------------------------- MODULE NodeTrafficProofs -------------------------
(***************************************************************************)
(* Of the traffic of the interfaces, for any number of them, of bytes, of  *)
(* hours and of faults: nothing is recorded that did not pass, and nothing *)
(* is lost of an interface nothing happened to.                            *)
(***************************************************************************)
EXTENDS NodeTraffic, Sums

\* A difference is a number of bytes per interface.
LEMMA DeltaType ==
    ASSUME NEW old, NEW new,
           old \in [DOMAIN old -> Nat], new \in [DOMAIN new -> Nat]
    PROVE  Delta(old, new) \in Bytes
<1> SUFFICES ASSUME NEW i \in Interfaces
             PROVE  (IF i \in DOMAIN new \cap DOMAIN old /\ new[i] > old[i]
                     THEN new[i] - old[i] ELSE 0) \in Nat
  BY DEF Delta, Bytes
<1>1. CASE i \in DOMAIN new \cap DOMAIN old /\ new[i] > old[i]
  <2>1. new[i] \in Nat /\ old[i] \in Nat
    BY <1>1
  <2>. QED
    BY <1>1, <2>1
<1>2. CASE ~(i \in DOMAIN new \cap DOMAIN old /\ new[i] > old[i])
  BY <1>2
<1>. QED
  BY <1>1, <1>2

\* What a read returns.
LEMMA ReadableType ==
    ASSUME CountTypes
    PROVE  /\ DOMAIN Readable = Selected
           /\ Selected \subseteq Interfaces
           /\ Readable \in [DOMAIN Readable -> Nat]
           /\ \A i \in Selected : Readable[i] = counter[i]
  BY LoopbackAssumption DEF CountTypes, Readable, Selected, Bytes

LEMMA ZeroType == Zero \in Bytes /\ DOMAIN NoReadings = {} /\ NoReadings \in [{} -> Nat]
  BY DEF Zero, Bytes, NoReadings

\* What a restart may find.
Disks == [traffic : [Hours -> Bytes], booked : [Hours -> Bytes]]

LEMMA EmptyType == Empty \in Disks
  BY ZeroType DEF Empty, Disks

LEMMA WrittenType == CountTypes => Written \in Disks
  BY DEF CountTypes, Written, Disks

LEMMA DiskTypes ==
    ASSUME CountTypes
    PROVE  disk \in Disks /\ disk.traffic \in [Hours -> Bytes] /\ disk.booked \in [Hours -> Bytes]
  BY DEF CountTypes, Disks

\* What a sample changes, whoever takes it.
LEMMA SampleTypes ==
    ASSUME CountTypes, TakeSample \/ MissSample
    PROVE  /\ DOMAIN previous' \subseteq Interfaces /\ previous' \in [DOMAIN previous' -> Nat]
           /\ latest' \in Samples
           /\ latest'.hour = hour
           /\ base' \in Bytes
           /\ seen' \subseteq Interfaces
           /\ lossy' \subseteq Interfaces
           /\ events' \in Nat
<1>. USE DEF CountTypes
<1>1. CASE TakeSample
  <2>1. \A i \in Interfaces : passed[MaxHour][i] \in Nat
    BY BoundsAssumption DEF Hours, Bytes
  <2>2. base' \in Bytes
    BY <1>1, <2>1 DEF TakeSample, Bytes
  <2>. QED
    BY <1>1, <2>2, ReadableType DEF TakeSample, Samples
<1>2. CASE MissSample
  BY <1>2, ZeroType DEF MissSample, Samples, Event
<1>. QED
  BY <1>1, <1>2

\* A record that is begun is one of the hour's.
LEMMA DueType ==
    ASSUME CountTypes
    PROVE  /\ Due(Delta(previous, Readable)) \in Records \cup {NoSample}
           /\ Due(Delta(previous, Readable)) # NoSample =>
                 /\ Due(Delta(previous, Readable)).hour = hour
                 /\ Due(Delta(previous, Readable)).delta = Delta(previous, Readable)
           /\ Due(Delta(previous, Readable)) = NoSample => Delta(previous, Readable) = Zero
<1>1. Delta(previous, Readable) \in Bytes
  BY DeltaType, ReadableType DEF CountTypes
<1>. QED
  BY <1>1, NoneAssumption DEF Due, Records, CountTypes

\* Sums of functions of bytes are functions of bytes.
LEMMA BookTypes ==
    ASSUME CountTypes, NEW s \in Records, Book(s)
    PROVE  traffic' \in [Hours -> Bytes] /\ booked' \in [Hours -> Bytes]
<1>1. s.hour \in Hours /\ s.delta \in Bytes
  BY DEF Records
<1>2. \A h \in Hours : [i \in Interfaces |-> traffic[h][i] + s.delta[i]] \in Bytes
  BY <1>1 DEF CountTypes, Bytes
<1>3. \A h \in Hours : [i \in Interfaces |-> booked[h][i] + s.delta[i]] \in Bytes
  BY <1>1 DEF CountTypes, Bytes
<1>. QED
  BY <1>1, <1>2, <1>3 DEF Book, Recorded, CountTypes

-----------------------------------------------------------------------------
LEMMA TypesInit == Init => CountTypes
<1> SUFFICES ASSUME Init PROVE CountTypes
  OBVIOUS
<1>1. 0 \in Hours /\ Zero \in Bytes /\ counter \in Bytes
  BY BoundsAssumption DEF Hours, Zero, Bytes, Init
<1>. QED
  BY <1>1, ZeroType, EmptyType, SettingsAssumption DEF Init, CountTypes, Disks

LEMMA TypesStep == CountTypes /\ [Next]_vars => CountTypes'
<1> SUFFICES ASSUME CountTypes, [Next]_vars PROVE CountTypes'
  OBVIOUS
<1>. USE DEF CountTypes
<1>1. ASSUME NEW i \in Interfaces, Pass(i) PROVE CountTypes'
  <2>1. counter' \in Bytes
    BY <1>1 DEF Pass, Bytes
  <2>2. \A h \in Hours : [passed[h] EXCEPT ![i] = @ + 1] \in Bytes
    BY DEF Bytes
  <2>3. passed' \in [Hours -> Bytes]
    BY <1>1, <2>2 DEF Pass
  <2>. QED
    BY <1>1, <2>1, <2>3 DEF Pass, monitor, store, panel, history
<1>2. ASSUME NEW i \in Interfaces, Reset(i) PROVE CountTypes'
  BY <1>2 DEF Reset, Event, Bytes, monitor, store, panel
<1>3. ASSUME NEW i \in Interfaces, Vanish(i) PROVE CountTypes'
  BY <1>3 DEF Vanish, Event, monitor, store, panel
<1>4. ASSUME NEW i \in Interfaces, Appear(i) PROVE CountTypes'
  BY <1>4 DEF Appear, Event, Bytes, monitor, store, panel, history
<1>5. CASE Tick
  BY <1>5, BoundsAssumption DEF Tick, Hours, monitor, store, panel, history
<1>6. CASE Sample
  BY <1>6, SampleTypes, DueType DEF Sample, kernel, store, panel
<1>7. CASE Garbled
  BY <1>7 DEF Garbled, Event, kernel, store, panel, history
<1>8. CASE Record
  <2>1. writing \in Records
    BY <1>8 DEF Record
  <2>2. traffic' \in [Hours -> Bytes] /\ booked' \in [Hours -> Bytes]
    BY <1>8, <2>1, BookTypes DEF Record
  <2>3. /\ UNCHANGED <<kernel, previous, latest, begun, disk, panel, history, events, durable>>
        /\ writing' = NoSample /\ committing' = durable
    BY <1>8 DEF Record
  <2>. QED
    BY <2>2, <2>3 DEF kernel, panel, history
<1>9. CASE RecordFails
  <2>1. /\ UNCHANGED <<durable, kernel, previous, latest, begun, panel, base, seen>>
        /\ UNCHANGED <<traffic, booked, disk>>
        /\ events' = events + 1
    BY <1>9 DEF RecordFails, Event, store
  <2>2. /\ writing' \in Records \cup {NoSample}
        /\ lossy' \subseteq Interfaces
        /\ committing' \in BOOLEAN
    BY <1>9 DEF RecordFails, store
  <2>. QED
    BY <2>1, <2>2 DEF kernel, panel
<1>14. CASE Commit \/ OtherCommit
  <2>1. /\ disk' \in Disks /\ committing' \in BOOLEAN
        /\ UNCHANGED <<durable, kernel, monitor, traffic, booked, panel, history, events>>
    BY <1>14, WrittenType DEF Commit, OtherCommit
  <2>. QED
    BY <2>1 DEF Disks, kernel, monitor, panel, history
<1>10. CASE FetchNodeTrafficStats
  <2>1. CASE latest # NoSample
    BY <1>10, <2>1 DEF FetchNodeTrafficStats, PickSample, kernel, store, history, Samples
  <2>2. CASE latest = NoSample
    BY <1>10, <2>2, SampleTypes DEF FetchNodeTrafficStats, PickSample, kernel, store
  <2>. QED
    BY <2>1, <2>2
<1>11. CASE Answer
  BY <1>11 DEF Answer, kernel, monitor, store, history
<1>12. CASE NodeRestart
  <2>1. /\ traffic' \in [Hours -> Bytes] /\ booked' \in [Hours -> Bytes]
        /\ disk' = disk /\ committing' = FALSE
    BY <1>12, DiskTypes, Zenon DEF NodeRestart
  <2>2. DOMAIN previous' \subseteq Interfaces /\ previous' \in [DOMAIN previous' -> Nat]
    BY <1>12, ZeroType DEF NodeRestart
  <2>3. /\ lossy' = lossy \cup seen /\ events' = events + 1
        /\ latest' = NoSample /\ begun' = FALSE /\ writing' = NoSample /\ call' = NoCall
    BY <1>12, Zenon DEF NodeRestart, Event
  <2>4. UNCHANGED <<durable, up, counter, hour, passed, base, seen>>
    BY <1>12 DEF NodeRestart, kernel
  <2>5. lossy' \subseteq Interfaces /\ events' \in Nat
    BY <2>3
  <2>6. durable' \in BOOLEAN /\ begun' \in BOOLEAN
    BY <2>3, <2>4, Zenon
  <2>7. /\ up' \subseteq Interfaces /\ counter' \in Bytes /\ hour' \in Hours
        /\ latest' \in Samples \cup {NoSample} /\ writing' \in Records \cup {NoSample}
        /\ call' \in Hours \cup {NoCall} /\ passed' \in [Hours -> Bytes]
        /\ base' \in Bytes /\ seen' \subseteq Interfaces
    BY <2>3, <2>4, Zenon
  <2>. QED
    BY <2>1, <2>2, <2>5, <2>6, <2>7, Zenon
<1>13. CASE UNCHANGED vars
  BY <1>13 DEF vars, kernel, monitor, store, panel, history
<1>. QED
  BY <1>1, <1>2, <1>3, <1>4, <1>5, <1>6, <1>7, <1>8, <1>9, <1>10, <1>11, <1>12, <1>13, <1>14
     DEF Next, Monitor

-----------------------------------------------------------------------------
(***************************************************************************)
(* Nothing is recorded that did not pass.                                  *)
(***************************************************************************)
\* The numbers Account adds up.
LEMMA Numbers ==
    ASSUME CountTypes, NEW h \in Hours, NEW i \in Interfaces
    PROVE  /\ booked[h][i] \in Nat
           /\ passed[h][i] \in Nat
           /\ counter[i] \in Nat
           /\ hour \in Nat /\ h \in Nat
           /\ i \in DOMAIN previous => previous[i] \in Nat
           /\ writing # NoSample =>
                 writing \in Records /\ writing.hour \in Nat /\ writing.delta[i] \in Nat
           /\ Pending(h, i) \in Nat
           /\ Uncounted(h, i) \in Nat
<1>1. /\ booked[h][i] \in Nat
      /\ passed[h][i] \in Nat
      /\ counter[i] \in Nat
      /\ hour \in Nat /\ h \in Nat
      /\ i \in DOMAIN previous => previous[i] \in Nat
  <2>1. booked[h] \in Bytes /\ passed[h] \in Bytes /\ counter \in Bytes
    BY DEF CountTypes
  <2>2. hour \in Hours /\ previous \in [DOMAIN previous -> Nat]
    BY DEF CountTypes
  <2>. QED
    BY <2>1, <2>2 DEF Bytes, Hours
<1>2. writing # NoSample =>
         writing \in Records /\ writing.hour \in Nat /\ writing.delta[i] \in Nat
  <2>1. writing # NoSample => writing \in Records
    BY DEF CountTypes
  <2>. QED
    BY <2>1 DEF Records, Bytes, Hours
<1>3. Pending(h, i) \in Nat
  BY <1>2 DEF Pending
<1>4. Uncounted(h, i) \in Nat
  <2>1. CASE h >= hour /\ i \in DOMAIN previous /\ counter[i] > previous[i]
    BY <1>1, <2>1 DEF Uncounted
  <2>2. CASE ~(h >= hour /\ i \in DOMAIN previous /\ counter[i] > previous[i])
    BY <2>2 DEF Uncounted
  <2>. QED
    BY <2>1, <2>2
<1>. QED
  BY <1>1, <1>2, <1>3, <1>4

\* What a sample finds is what was uncounted, and nothing is uncounted after it.
LEMMA SampleCounts ==
    ASSUME CountTypes, NEW i \in Interfaces
    PROVE  /\ Delta(previous, Readable)[i] <= Uncounted(hour, i)
           /\ TakeSample \/ MissSample =>
                 \A h \in Hours :
                    (IF h >= hour /\ i \in DOMAIN previous' /\ counter[i] > previous'[i]
                     THEN counter[i] - previous'[i] ELSE 0) = 0
<1>0. hour \in Hours /\ hour \in Nat
  BY DEF CountTypes, Hours
<1>1. Delta(previous, Readable)[i] <= Uncounted(hour, i)
  <2>1. CASE i \in DOMAIN Readable \cap DOMAIN previous /\ Readable[i] > previous[i]
    BY <1>0, <2>1, ReadableType, Numbers DEF Delta, Uncounted
  <2>2. CASE ~(i \in DOMAIN Readable \cap DOMAIN previous /\ Readable[i] > previous[i])
    <3>1. Delta(previous, Readable)[i] = 0
      BY <2>2 DEF Delta
    <3>. QED
      BY <1>0, <3>1, Numbers
  <2>. QED
    BY <2>1, <2>2
<1>2. CASE TakeSample
  BY <1>1, <1>2, ReadableType, Numbers, <1>0 DEF TakeSample
<1>3. CASE MissSample
  BY <1>1, <1>3, ZeroType DEF MissSample
<1>. QED
  BY <1>1, <1>2, <1>3

\* Where nothing of what it adds up changes, an interface stays accounted for.
LEMMA AccountKept ==
    ASSUME CountTypes, Account, NEW h \in Hours, NEW i \in Interfaces,
           booked'[h][i] = booked[h][i], Pending(h, i)' <= Pending(h, i),
           Uncounted(h, i)' <= Uncounted(h, i), passed'[h][i] = passed[h][i],
           Pending(h, i)' \in Nat, Uncounted(h, i)' \in Nat
    PROVE  booked'[h][i] + Pending(h, i)' + Uncounted(h, i)' <= passed'[h][i]
  BY Numbers DEF Account

\* What a restart finds is no more than what is there.
LEMMA BehindInit == Init => DiskBehind
<1> SUFFICES ASSUME Init, NEW h \in Hours, NEW i \in Interfaces
             PROVE  disk.booked[h][i] <= booked[h][i]
  BY DEF DiskBehind
<1>. QED
  BY DEF Init, Empty, Zero

LEMMA BehindStep == CountTypes /\ DiskBehind /\ [Next]_vars => DiskBehind'
<1> SUFFICES ASSUME CountTypes, CountTypes', DiskBehind, [Next]_vars,
                    NEW h \in Hours, NEW i \in Interfaces
             PROVE  disk'.booked[h][i] <= booked'[h][i]
  BY TypesStep DEF DiskBehind
<1>0. /\ booked[h][i] \in Nat /\ booked'[h][i] \in Nat
      /\ disk.booked[h][i] \in Nat /\ disk.booked[h][i] <= booked[h][i]
  BY DiskTypes DEF CountTypes, Bytes, DiskBehind
<1>1. CASE Record
  <2>1. disk' = disk /\ writing \in Records /\ Book(writing)
    BY <1>1 DEF Record, CountTypes
  <2>2. writing.delta[i] \in Nat
    BY <2>1 DEF Records, Bytes
  <2>3. booked'[h][i] = booked[h][i] \/ booked'[h][i] = booked[h][i] + writing.delta[i]
    BY <2>1 DEF Book
  <2>. QED
    BY <1>0, <2>1, <2>2, <2>3
<1>2. CASE Commit \/ OtherCommit
  <2>1. disk'.booked = booked /\ booked' = booked
    BY <1>2 DEF Commit, OtherCommit, Written
  <2>. QED
    BY <1>0, <2>1
<1>3. CASE NodeRestart
  BY <1>0, <1>3 DEF NodeRestart
<1>4. ASSUME NEW j \in Interfaces, Pass(j) \/ Reset(j) \/ Vanish(j) \/ Appear(j)
      PROVE  disk' = disk /\ booked' = booked
  BY <1>4 DEF Pass, Reset, Vanish, Appear, store
<1>5. Tick \/ Sample \/ Garbled \/ RecordFails \/ FetchNodeTrafficStats \/ Answer \/ UNCHANGED vars
         => disk' = disk /\ booked' = booked
  BY DEF Tick, Sample, Garbled, RecordFails, FetchNodeTrafficStats, Answer, vars, store
<1>. QED
  BY <1>0, <1>1, <1>2, <1>3, <1>4, <1>5 DEF Next, Monitor

LEMMA AccountInit == Init => Account
<1> SUFFICES ASSUME Init, NEW h \in Hours, NEW i \in Interfaces
             PROVE  booked[h][i] + Pending(h, i) + Uncounted(h, i) <= passed[h][i]
  BY DEF Account
<1>. QED
  BY ZeroType DEF Init, Zero, Pending, Uncounted

LEMMA AccountStep == CountTypes /\ DiskBehind /\ Account /\ [Next]_vars => Account'
<1> SUFFICES ASSUME CountTypes, CountTypes', DiskBehind, Account, [Next]_vars,
                    NEW h \in Hours, NEW i \in Interfaces
             PROVE  booked'[h][i] + Pending(h, i)' + Uncounted(h, i)' <= passed'[h][i]
  BY TypesStep DEF Account
<1>a. Pending(h, i)' \in Nat /\ Uncounted(h, i)' \in Nat
  <2>1. /\ counter'[i] \in Nat
        /\ i \in DOMAIN previous' => previous'[i] \in Nat
        /\ writing' # NoSample => writing'.delta[i] \in Nat
    BY DEF CountTypes, Records, Bytes
  <2>2. Pending(h, i)' \in Nat
    <3>1. CASE writing' # NoSample /\ writing'.hour <= h
      BY <2>1, <3>1 DEF Pending
    <3>2. CASE ~(writing' # NoSample /\ writing'.hour <= h)
      BY <3>2 DEF Pending
    <3>. QED
      BY <3>1, <3>2
  <2>3. CASE h >= hour' /\ i \in DOMAIN previous' /\ counter'[i] > previous'[i]
    BY <2>1, <2>2, <2>3 DEF Uncounted
  <2>4. CASE ~(h >= hour' /\ i \in DOMAIN previous' /\ counter'[i] > previous'[i])
    BY <2>2, <2>4 DEF Uncounted
  <2>. QED
    BY <2>3, <2>4
<1>1. ASSUME NEW j \in Interfaces, Pass(j)
      PROVE  booked'[h][i] + Pending(h, i)' + Uncounted(h, i)' <= passed'[h][i]
  <2>1. booked' = booked /\ Pending(h, i)' = Pending(h, i)
    BY <1>1 DEF Pass, monitor, store, Pending
  <2>2. CASE i = j /\ h >= hour
    <3>1. counter'[i] = counter[i] + 1 /\ passed'[h][i] = passed[h][i] + 1
      BY <1>1, <2>2, Numbers DEF Pass, CountTypes, Bytes
    <3>2. Uncounted(h, i)' <= Uncounted(h, i) + 1
      BY <1>1, <3>1, Numbers DEF Pass, monitor, Uncounted
    <3>. QED
      BY <1>a, <2>1, <3>1, <3>2, Numbers DEF Account
  <2>3. CASE i # j \/ h < hour
    <3>1. passed'[h][i] = passed[h][i]
      BY <1>1, <2>3, Numbers DEF Pass, CountTypes, Bytes
    <3>2. Uncounted(h, i)' = Uncounted(h, i)
      BY <1>1, <2>3, Numbers DEF Pass, monitor, Uncounted, CountTypes, Bytes
    <3>. QED
      BY <1>a, <2>1, <3>1, <3>2, AccountKept, Numbers
  <2>. QED
    BY <2>2, <2>3, Numbers
<1>2. ASSUME NEW j \in Interfaces, Reset(j) \/ Vanish(j) \/ Appear(j)
      PROVE  booked'[h][i] + Pending(h, i)' + Uncounted(h, i)' <= passed'[h][i]
  <2>1. /\ booked' = booked /\ passed' = passed /\ Pending(h, i)' = Pending(h, i)
        /\ previous' = previous /\ hour' = hour
    BY <1>2 DEF Reset, Vanish, Appear, monitor, store, Pending, history
  <2>2. counter'[i] = counter[i] \/ counter'[i] = 0
    BY <1>2 DEF Reset, Vanish, Appear, CountTypes, Bytes
  <2>3. Uncounted(h, i)' <= Uncounted(h, i)
    BY <2>1, <2>2, Numbers DEF Uncounted
  <2>. QED
    BY <1>a, <2>1, <2>3, AccountKept, Numbers
<1>3. CASE Tick
  <2>1. /\ booked' = booked /\ passed' = passed /\ Pending(h, i)' = Pending(h, i)
        /\ previous' = previous /\ counter' = counter /\ hour' = hour + 1
    BY <1>3 DEF Tick, monitor, store, Pending
  <2>2. Uncounted(h, i)' <= Uncounted(h, i)
    BY <2>1, Numbers DEF Uncounted
  <2>. QED
    BY <1>a, <2>1, <2>2, AccountKept, Numbers
<1>4. CASE Sample
  <2>1. /\ booked' = booked /\ passed' = passed /\ counter' = counter /\ hour' = hour
        /\ Pending(h, i) = 0
    BY <1>4 DEF Sample, kernel, store, Pending
  <2>2. Uncounted(h, i)' = 0
    BY <1>4, <2>1, SampleCounts DEF Sample, Uncounted
  <2>3. CASE writing' = NoSample
    BY <1>a, <2>1, <2>2, <2>3, AccountKept, Numbers DEF Pending
  <2>4. CASE writing' # NoSample
    <3>1. writing' = Due(Delta(previous, Readable))
      BY <1>4, <2>4 DEF Sample
    <3>2. writing'.hour = hour /\ writing'.delta = Delta(previous, Readable)
      BY <2>4, <3>1, DueType
    <3>3. CASE h >= hour
      <4>1. Uncounted(hour, i) = Uncounted(h, i)
        BY <3>3, Numbers DEF Uncounted
      <4>. QED
        <5>1. Pending(h, i)' = Delta(previous, Readable)[i]
          BY <2>4, <3>2, <3>3 DEF Pending
        <5>2. Delta(previous, Readable)[i] <= Uncounted(h, i)
          BY <4>1, SampleCounts
        <5>. QED
          BY <1>a, <2>1, <2>2, <5>1, <5>2, Numbers DEF Account
    <3>4. CASE h < hour
      BY <1>a, <2>1, <2>2, <2>4, <3>2, <3>4, AccountKept, Numbers DEF Pending
    <3>. QED
      BY <3>3, <3>4, Numbers
  <2>. QED
    BY <2>3, <2>4
<1>5. CASE Garbled \/ Answer \/ Commit \/ OtherCommit \/ UNCHANGED vars
  <2>1. /\ booked' = booked /\ passed' = passed
        /\ Pending(h, i)' = Pending(h, i) /\ Uncounted(h, i)' = Uncounted(h, i)
    BY <1>5 DEF Garbled, Answer, Commit, OtherCommit, vars, kernel, monitor, store, Pending, Uncounted
  <2>. QED
    BY <1>a, <2>1, AccountKept, Numbers
<1>6. CASE Record
  <2>1. /\ writing # NoSample /\ passed' = passed
        /\ Pending(h, i)' = 0 /\ Uncounted(h, i)' = Uncounted(h, i)
    BY <1>6 DEF Record, Pending, Uncounted, kernel
  <2>2. Book(writing)
    BY <1>6 DEF Record
  <2>3. booked'[h][i] = booked[h][i] + Pending(h, i)
    BY <2>1, <2>2, Numbers DEF Book, Pending
  <2>. QED
    BY <1>a, <2>1, <2>3, Numbers DEF Account
<1>9. CASE RecordFails
  <2>1. /\ booked' = booked /\ passed' = passed /\ Uncounted(h, i)' = Uncounted(h, i)
        /\ writing' = writing \/ writing' = NoSample
    BY <1>9 DEF RecordFails, Uncounted, kernel, store
  <2>2. Pending(h, i)' <= Pending(h, i)
    BY <2>1, <1>a, Numbers DEF Pending
  <2>. QED
    BY <1>a, <2>1, <2>2, AccountKept, Numbers
<1>7. CASE FetchNodeTrafficStats
  <2>1. /\ booked' = booked /\ passed' = passed /\ counter' = counter /\ hour' = hour
        /\ Pending(h, i)' = Pending(h, i)
    BY <1>7 DEF FetchNodeTrafficStats, kernel, store, Pending
  <2>2. Uncounted(h, i)' <= Uncounted(h, i)
    <3>1. CASE latest # NoSample
      BY <1>7, <2>1, <3>1, Numbers DEF FetchNodeTrafficStats, PickSample, Uncounted
    <3>2. CASE latest = NoSample
      <4>1. Uncounted(h, i)' = 0
        BY <1>7, <2>1, <3>2, SampleCounts DEF FetchNodeTrafficStats, PickSample, Uncounted
      <4>. QED
        BY <4>1, Numbers
    <3>. QED
      BY <3>1, <3>2
  <2>. QED
    BY <1>a, <2>1, <2>2, AccountKept, Numbers
<1>8. CASE NodeRestart
  <2>1. /\ passed' = passed /\ Pending(h, i)' = 0 /\ Uncounted(h, i)' = 0
    BY <1>8, ZeroType DEF NodeRestart, kernel, Pending, Uncounted
  <2>2. booked'[h][i] = disk.booked[h][i] /\ disk.booked[h][i] \in Nat
    BY <1>8, DiskTypes DEF NodeRestart, Bytes
  <2>. QED
    BY <2>1, <2>2, Numbers DEF Account, DiskBehind
<1>. QED
  BY <1>1, <1>2, <1>3, <1>4, <1>5, <1>6, <1>7, <1>8, <1>9 DEF Next, Monitor

\* What is recorded for the hours up to each is no more than what had passed by
\* its end, with what is on its way to be recorded and what is still to be counted.
THEOREM NothingRecordedTwice == Spec => []NeverAhead
<1>1. CountTypes /\ Account => NeverAhead
  <2> SUFFICES ASSUME CountTypes, Account, NEW h \in Hours, NEW i \in Interfaces
               PROVE  booked[h][i] <= passed[h][i]
    BY DEF NeverAhead
  <2>. QED
    BY Numbers DEF Account
<1>. QED
  BY <1>1, TypesInit, TypesStep, BehindInit, BehindStep, AccountInit, AccountStep, PTL DEF Spec

-----------------------------------------------------------------------------
(***************************************************************************)
(* Nothing is lost of an interface nothing happened to.                    *)
(***************************************************************************)
\* The numbers NothingLost adds up.
LEMMA LastHour ==
    ASSUME CountTypes, NEW i \in Interfaces
    PROVE  /\ MaxHour \in Hours /\ MaxHour \in Nat /\ hour <= MaxHour
           /\ passed[MaxHour][i] \in Nat
           /\ booked[MaxHour][i] \in Nat
           /\ base[i] \in Nat
           /\ counter[i] \in Nat
           /\ i \in DOMAIN previous => previous[i] \in Nat
           /\ InHands(i) \in Nat
           /\ writing # NoSample => writing \in Records /\ writing.hour \in Nat
                                       /\ writing.hour <= MaxHour /\ writing.delta[i] \in Nat
<1>1. MaxHour \in Hours /\ MaxHour \in Nat /\ hour <= MaxHour
  BY BoundsAssumption DEF CountTypes, Hours
<1>2. writing # NoSample => writing \in Records /\ writing.hour \in Nat
                              /\ writing.hour <= MaxHour /\ writing.delta[i] \in Nat
  BY DEF CountTypes, Records, Bytes, Hours
<1>3. InHands(i) \in Nat
  BY <1>2 DEF InHands
<1>. QED
  BY <1>1, <1>2, <1>3 DEF CountTypes, Bytes

\* After a sample the task has the difference in its hands.
LEMMA HandsHoldDelta ==
    ASSUME CountTypes, NEW i \in Interfaces, writing' = Due(Delta(previous, Readable))
    PROVE  InHands(i)' = Delta(previous, Readable)[i]
<1>1. CASE Due(Delta(previous, Readable)) = NoSample
  BY <1>1, DueType DEF InHands, Zero
<1>2. CASE Due(Delta(previous, Readable)) # NoSample
  BY <1>2, DueType DEF InHands
<1>. QED
  BY <1>1, <1>2

\* A sample is not the absence of one.
LEMMA SampleIsOne ==
    ASSUME CountTypes, NEW b \in BOOLEAN
    PROVE  [available |-> b, hour |-> hour] # NoSample
<1>1. [available |-> b, hour |-> hour] \in Samples
  BY Zenon DEF Samples, CountTypes
<1>. QED
  BY <1>1, NoneAssumption

LEMMA LosslessInit == Init => Sighted /\ NothingLost
  BY BoundsAssumption, ZeroType DEF Init, Sighted, NothingLost, InHands, Zero, Hours

LEMMA SightedStep == CountTypes /\ DiskBehind /\ Sighted /\ [Next]_vars => Sighted'
<1> SUFFICES ASSUME CountTypes, DiskBehind, Sighted, [Next]_vars PROVE Sighted'
  OBVIOUS
<1>0. MaxHour \in Hours /\ MaxHour \in Nat /\ hour <= MaxHour
  BY BoundsAssumption DEF CountTypes, Hours
<1>1. ASSUME NEW j \in Interfaces, Pass(j) PROVE Sighted'
  <2>1. UNCHANGED <<up, booked, monitor, history>> /\ \A i \in Interfaces : InHands(i)' = InHands(i)
    BY <1>1 DEF Pass, InHands, monitor, store
  <2>2. \A i \in Interfaces : counter'[i] >= counter[i]
    BY <1>1, LastHour DEF Pass, CountTypes, Bytes
  <2>3. \A i \in DOMAIN previous : previous[i] \in Nat /\ counter[i] \in Nat /\ counter'[i] \in Nat
    BY <1>1 DEF Pass, CountTypes, Bytes
  <2>4. ASSUME NEW i \in seen \ lossy PROVE i \in Selected /\ i \in DOMAIN previous /\ counter'[i] >= previous[i]
    <3>1. i \in Interfaces /\ i \in Selected /\ i \in DOMAIN previous /\ counter[i] >= previous[i]
      BY <2>4 DEF Sighted, CountTypes
    <3>. QED
      BY <2>2, <2>3, <3>1
  <2>5. \A i \in Interfaces \ seen : booked'[MaxHour][i] = 0 /\ InHands(i)' = 0
    BY <2>1 DEF Sighted
  <2>. QED
    BY <2>1, <2>4, <2>5 DEF Sighted, Selected, monitor, history
<1>2. ASSUME NEW j \in Interfaces, Reset(j) PROVE Sighted'
  BY <1>2, LastHour DEF Reset, Sighted, Selected, InHands, monitor, store, CountTypes, Bytes
<1>3. ASSUME NEW j \in Interfaces, Vanish(j) PROVE Sighted'
  BY <1>3, LastHour DEF Vanish, Sighted, Selected, InHands, monitor, store, CountTypes
<1>4. ASSUME NEW j \in Interfaces, Appear(j) PROVE Sighted'
  <2>1. j \notin seen \ lossy
    BY <1>4 DEF Appear, Sighted, Selected
  <2>. QED
    BY <1>4, <2>1, LastHour
       DEF Appear, Sighted, Selected, InHands, monitor, store, history, CountTypes, Bytes
<1>5. CASE Tick \/ Garbled \/ Answer \/ Commit \/ OtherCommit \/ UNCHANGED vars
  BY <1>5 DEF Tick, Garbled, Answer, Commit, OtherCommit, vars, Sighted, Selected, InHands, kernel, monitor, store, history
<1>6. CASE Sample
  <2>1. CASE TakeSample /\ writing' = Due(Delta(previous, Readable))
    <3>1. writing' = Due(Delta(previous, Readable))
      BY <2>1
    <3>2. /\ previous' = Readable /\ seen' = seen \cup Selected /\ lossy' = lossy
          /\ counter' = counter /\ up' = up /\ booked' = booked /\ latest' # NoSample
      BY <1>6, <2>1, SampleIsOne DEF Sample, TakeSample, kernel, store
    <3>3. \A i \in Interfaces \ seen' : InHands(i)' = 0
      BY <3>1, <3>2, HandsHoldDelta, ReadableType DEF Delta
    <3>. QED
      BY <3>2, <3>3, ReadableType, LastHour DEF Sighted, Selected
  <2>2. CASE MissSample /\ writing' = NoSample
    BY <1>6, <2>2, ZeroType, NoneAssumption, DueType
       DEF Sample, MissSample, Sighted, Selected, InHands, kernel, store, Samples, CountTypes
  <2>. QED
    BY <1>6, <2>1, <2>2 DEF Sample
<1>7. CASE Record \/ RecordFails
  <2>0. ~(MaxHour < writing.hour) \/ writing = NoSample
    BY <1>0 DEF CountTypes, Records, Hours
  <2>1. /\ writing # NoSample \/ booked' = booked
        /\ writing' = NoSample \/ writing' = writing
        /\ UNCHANGED <<kernel, latest, previous, seen>>
        /\ lossy \subseteq lossy'
        /\ \/ booked' = booked
           \/ booked'[MaxHour] = [i \in Interfaces |-> booked[MaxHour][i] + writing.delta[i]]
    <3>1. CASE Record
      BY <1>0, <2>0, <3>1 DEF Record, Book, history
    <3>2. CASE RecordFails
      BY <1>0, <2>0, <3>2 DEF RecordFails, store
    <3>. QED
      BY <1>7, <3>1, <3>2
  <2>2. \A i \in Interfaces \ seen :
            booked[MaxHour][i] = 0 /\ (writing # NoSample => writing.delta[i] = 0)
    BY DEF Sighted, InHands
  <2>3. ASSUME NEW i \in Interfaces \ seen PROVE booked'[MaxHour][i] = 0
    BY <2>1, <2>2, <2>3
  <2>4. \A i \in Interfaces \ seen : InHands(i)' = 0
    BY <2>1, <2>2 DEF InHands
  <2>. QED
    BY <2>1, <2>3, <2>4 DEF Sighted, Selected, kernel
<1>8. CASE FetchNodeTrafficStats
  <2>0. UNCHANGED <<kernel, writing, store>> /\ \A i \in Interfaces : InHands(i)' = InHands(i)
    BY <1>8 DEF FetchNodeTrafficStats, InHands
  <2>1. CASE latest # NoSample
    BY <1>8, <2>0, <2>1
       DEF FetchNodeTrafficStats, PickSample, Sighted, Selected, kernel, store, history
  <2>2. CASE latest = NoSample /\ TakeSample
    <3>1. /\ previous' = Readable /\ seen' = seen \cup Selected /\ lossy' = lossy
          /\ counter' = counter /\ up' = up /\ booked' = booked /\ latest' # NoSample
      BY <2>0, <2>2, SampleIsOne DEF TakeSample, kernel, store
    <3>. QED
      BY <2>0, <3>1, ReadableType, LastHour DEF Sighted, Selected
  <2>3. CASE latest = NoSample /\ MissSample
    BY <2>0, <2>3, ZeroType, NoneAssumption
       DEF MissSample, Sighted, Selected, kernel, store, Samples, CountTypes, NoReadings
  <2>. QED
    BY <1>8, <2>1, <2>2, <2>3 DEF FetchNodeTrafficStats, PickSample
<1>9. CASE NodeRestart
  <2>1. /\ DOMAIN previous' = {} /\ writing' = NoSample /\ seen' = seen
        /\ lossy' = lossy \cup seen
    BY <1>9, ZeroType DEF NodeRestart
  <2>2. ASSUME NEW i \in Interfaces \ seen PROVE booked'[MaxHour][i] = 0
    <3>1. booked'[MaxHour][i] = disk.booked[MaxHour][i]
      BY <1>9 DEF NodeRestart
    <3>2. disk.booked[MaxHour][i] \in Nat /\ booked[MaxHour][i] = 0
      BY <1>0, <2>2, DiskTypes DEF Bytes, Sighted
    <3>. QED
      BY <1>0, <3>1, <3>2 DEF DiskBehind
  <2>. QED
    BY <2>1, <2>2 DEF Sighted, InHands
<1>. QED
  BY <1>1, <1>2, <1>3, <1>4, <1>5, <1>6, <1>7, <1>8, <1>9 DEF Next, Monitor
\* NothingLost, of one interface.
Kept(i) ==
    passed[MaxHour][i] = base[i] + booked[MaxHour][i] + InHands(i) + (counter[i] - previous[i])

LEMMA NothingLostStep == CountTypes /\ Sighted /\ NothingLost /\ [Next]_vars => NothingLost'
<1> SUFFICES ASSUME CountTypes, Sighted, NothingLost, [Next]_vars,
                    NEW i \in DOMAIN previous' \ lossy'
             PROVE  Kept(i)'
  BY DEF NothingLost, Kept
<1>0. MaxHour \in Hours /\ MaxHour \in Nat /\ hour <= MaxHour /\ ~(MaxHour < hour)
  BY BoundsAssumption DEF CountTypes, Hours
<1>a. CountTypes'
  BY TypesStep
<1>b. i \in Interfaces /\ (i \in DOMAIN previous => i \in seen)
  BY <1>a DEF CountTypes, Sighted
<1>c. i \in DOMAIN previous /\ i \notin lossy => Kept(i)
  BY DEF NothingLost, Kept
<1>1. ASSUME NEW j \in Interfaces, Pass(j) PROVE Kept(i)'
  <2>1. UNCHANGED <<booked, monitor, history>> /\ InHands(i)' = InHands(i)
    BY <1>1 DEF Pass, InHands, monitor, store
  <2>2. Kept(i)
    BY <1>c, <2>1 DEF monitor, history
  <2>3. CASE i = j
    <3>1. passed'[MaxHour][i] = passed[MaxHour][i] + 1 /\ counter'[i] = counter[i] + 1
      BY <1>0, <1>1, <1>b, <2>3 DEF Pass, CountTypes, Bytes
    <3>. QED
      BY <1>b, <2>1, <2>2, <3>1, LastHour DEF Kept, monitor, history
  <2>4. CASE i # j
    <3>1. passed'[MaxHour][i] = passed[MaxHour][i] /\ counter'[i] = counter[i]
      BY <1>0, <1>1, <1>b, <2>4 DEF Pass, CountTypes, Bytes
    <3>. QED
      BY <2>1, <2>2, <3>1 DEF Kept, monitor, history
  <2>. QED
    BY <2>3, <2>4
<1>2. ASSUME NEW j \in Interfaces, Reset(j) \/ Vanish(j) \/ Appear(j) PROVE Kept(i)'
  <2>1. /\ UNCHANGED <<passed, booked, base, previous>> /\ InHands(i)' = InHands(i)
        /\ lossy \subseteq lossy'
    BY <1>2 DEF Reset, Vanish, Appear, InHands, monitor, store, history
  <2>2. Kept(i)
    BY <1>c, <2>1
  <2>3. counter'[i] = counter[i]
    <3>1. CASE i # j
      BY <1>2, <1>b, <3>1 DEF Reset, Vanish, Appear, CountTypes, Bytes
    <3>2. CASE i = j
      <4>1. i \in Selected
        BY <1>b, <2>1 DEF Sighted
      <4>2. i \in up
        BY <4>1 DEF Selected
      <4>3. Vanish(j)
        BY <1>2, <3>2, <4>2 DEF Reset, Appear
      <4>. QED
        BY <4>3 DEF Vanish
    <3>. QED
      BY <3>1, <3>2
  <2>. QED
    BY <2>1, <2>2, <2>3 DEF Kept
<1>3. CASE Tick \/ Garbled \/ Answer \/ Commit \/ OtherCommit \/ UNCHANGED vars
  <2>1. UNCHANGED <<passed, booked, base, previous, counter, lossy>> /\ InHands(i)' = InHands(i)
    BY <1>3 DEF Tick, Garbled, Answer, Commit, OtherCommit, vars, kernel, monitor, store, history, InHands
  <2>. QED
    BY <1>c, <2>1 DEF Kept
<1>4. ASSUME TakeSample, writing' = Due(Delta(previous, Readable)), writing = NoSample,
             UNCHANGED <<kernel, store>>
      PROVE  Kept(i)'
  <2>0. /\ InHands(i) = 0 /\ InHands(i)' = Delta(previous, Readable)[i]
        /\ UNCHANGED <<passed, booked, counter, lossy>>
    BY <1>4, <1>b, HandsHoldDelta DEF InHands, kernel, store, TakeSample
  <2>1. previous' = Readable /\ i \in Selected /\ Readable[i] = counter[i]
    BY <1>4, ReadableType DEF TakeSample
  <2>2. CASE i \in seen
    <3>1. i \in DOMAIN previous /\ counter[i] >= previous[i] /\ Kept(i) /\ base'[i] = base[i]
      BY <1>4, <1>b, <1>c, <2>0, <2>2 DEF Sighted, TakeSample
    <3>2. previous[i] \in Nat /\ counter[i] \in Nat
      BY <1>b, <3>1, LastHour
    <3>3. Delta(previous, Readable)[i] = counter[i] - previous[i]
      <4>1. i \in DOMAIN Readable
        BY <2>1, ReadableType
      <4>. QED
        BY <1>b, <2>1, <3>1, <3>2, <4>1 DEF Delta
    <3>. QED
      BY <1>b, <2>0, <2>1, <3>1, <3>2, <3>3, LastHour DEF Kept
  <2>3. CASE i \notin seen
    <3>1. Delta(previous, Readable)[i] = 0 /\ booked[MaxHour][i] = 0
      BY <1>b, <2>3 DEF Delta, Sighted
    <3>2. base'[i] = passed[MaxHour][i]
      BY <1>4, <1>b, <2>1, <2>3 DEF TakeSample
    <3>. QED
      BY <1>b, <2>0, <2>1, <3>1, <3>2, LastHour DEF Kept
  <2>. QED
    BY <2>2, <2>3
<1>5. CASE Sample
  <2>1. CASE TakeSample /\ writing' = Due(Delta(previous, Readable))
    BY <1>4, <1>5, <2>1 DEF Sample
  <2>2. CASE MissSample
    BY <2>2, ZeroType DEF MissSample
  <2>. QED
    BY <1>5, <2>1, <2>2 DEF Sample
<1>6. CASE Record
  <2>0. /\ UNCHANGED <<passed, base, previous, counter, lossy>> /\ InHands(i)' = 0
        /\ InHands(i) = writing.delta[i] /\ writing # NoSample
    BY <1>6 DEF Record, kernel, history, InHands
  <2>1. Kept(i)
    BY <1>c, <2>0
  <2>3. ~(MaxHour < writing.hour)
    BY <1>b, <2>0, LastHour
  <2>4. booked'[MaxHour][i] = booked[MaxHour][i] + writing.delta[i]
    BY <1>0, <1>b, <1>6, <2>3 DEF Record, Book
  <2>. QED
    BY <1>b, <2>0, <2>1, <2>4, LastHour DEF Kept
<1>9. CASE RecordFails
  <2>0. /\ UNCHANGED <<passed, base, previous, counter, booked>> /\ lossy \subseteq lossy'
    BY <1>9 DEF RecordFails, kernel, store
  <2>1. Kept(i)
    BY <1>c, <2>0
  <2>2. InHands(i)' = InHands(i)
    <3>1. CASE writing' = writing
      BY <3>1 DEF InHands
    <3>2. CASE writing # NoSample /\ writing' = NoSample
      <4>1. ~(writing.delta[i] > 0)
        <5>1. committing => writing' = writing \/ lossy' = lossy \cup {k \in Interfaces : writing.delta[k] > 0}
          BY <1>9 DEF RecordFails
        <5>. QED
          BY <1>b, <1>9, <3>2 DEF RecordFails
      <4>. QED
        BY <1>b, <3>2, <4>1, LastHour DEF InHands
    <3>. QED
      BY <1>9, <3>1, <3>2 DEF RecordFails
  <2>. QED
    BY <2>0, <2>1, <2>2 DEF Kept
<1>7. CASE FetchNodeTrafficStats
  <2>0. UNCHANGED <<passed, booked, counter>> /\ InHands(i)' = InHands(i)
    BY <1>7 DEF FetchNodeTrafficStats, kernel, store, InHands
  <2>1. CASE latest # NoSample
    BY <1>7, <1>c, <2>0, <2>1 DEF FetchNodeTrafficStats, PickSample, Kept, history
  <2>2. CASE latest = NoSample /\ TakeSample
    <3>1. i \notin DOMAIN previous /\ InHands(i) = 0 /\ lossy' = lossy
      BY <2>2 DEF Sighted, InHands, TakeSample
    <3>2. i \notin seen /\ booked[MaxHour][i] = 0
      BY <1>b, <3>1 DEF Sighted
    <3>3. previous' = Readable /\ i \in Selected /\ Readable[i] = counter[i]
      BY <2>2, ReadableType DEF TakeSample
    <3>4. base'[i] = passed[MaxHour][i]
      BY <1>b, <2>2, <3>2, <3>3 DEF TakeSample
    <3>. QED
      BY <1>b, <2>0, <3>1, <3>2, <3>3, <3>4, LastHour DEF Kept
  <2>3. CASE MissSample
    BY <2>3, ZeroType DEF MissSample
  <2>. QED
    BY <1>7, <2>1, <2>2, <2>3 DEF FetchNodeTrafficStats, PickSample
<1>8. CASE NodeRestart
  BY <1>8, ZeroType DEF NodeRestart
<1>. QED
  BY <1>1, <1>2, <1>3, <1>5, <1>6, <1>7, <1>8, <1>9 DEF Next, Monitor

\* Of an interface whose counter went on, that every sample had and whose
\* records succeeded, no byte is lost.
THEOREM NothingIsLost == Spec => []NothingLost
<1>1. Init => CountTypes /\ DiskBehind /\ Sighted /\ NothingLost
  BY TypesInit, BehindInit, LosslessInit
<1>. QED
  BY <1>1, TypesStep, BehindStep, SightedStep, NothingLostStep, PTL DEF Spec

-----------------------------------------------------------------------------
(***************************************************************************)
(* What the panel is told.                                                 *)
(***************************************************************************)
\* The buckets of an interface.
Bucket(i) == [h \in Hours |-> traffic[h][i]]

\* SumSince adds them up.
LEMMA SumIsTotal ==
    ASSUME CountTypes, NEW start \in Nat, NEW i \in Interfaces
    PROVE  SumSince(start)[i] = Total(Bucket(i), start..MaxHour)
<1> DEFINE S == start..MaxHour
           rec(g) == g = [s \in SUBSET S |-> IF s = {} THEN 0
                             ELSE traffic[CHOOSE x \in s : TRUE][i] + g[s \ {CHOOSE x \in s : TRUE}]]
           it == CHOOSE g : rec(g)
<1>1. SumSince(start)[i] = it[S]
  BY DEF SumSince, MapThenSumSet, MapThenFoldSet
<1>2. IsFiniteSet(S) /\ S \subseteq Hours
  BY FS_Interval, BoundsAssumption DEF Hours
<1>3. ASSUME NEW g PROVE SumsUp(g, Bucket(i), S) <=> rec(g)
  <2>1. ASSUME NEW s \in SUBSET S, s # {} PROVE Bucket(i)[Pick(s)] = traffic[CHOOSE x \in s : TRUE][i]
    <3>1. Pick(s) \in Hours
      BY <1>2, <2>1, PickIn
    <3> QED
      BY <3>1 DEF Bucket, Pick
  <2>2. \A s \in SUBSET S : (IF s = {} THEN 0 ELSE Bucket(i)[Pick(s)] + g[s \ {Pick(s)}])
            = (IF s = {} THEN 0
               ELSE traffic[CHOOSE x \in s : TRUE][i] + g[s \ {CHOOSE x \in s : TRUE}])
    BY <2>1 DEF Pick
  <2> HIDE DEF S
  <2> QED
    BY <2>2 DEF SumsUp
<1>4. PICK g : SumsUp(g, Bucket(i), S)
  BY <1>2, SumsExist
<1>5. rec(it)
  <2> HIDE DEF rec
  <2>1. rec(g)
    BY <1>3, <1>4
  <2> QED
    BY <2>1
<1> HIDE DEF it, S, rec
<1>6. SumsUp(it, Bucket(i), S)
  BY <1>3, <1>5
<1>7. it[S] = Total(Bucket(i), S)
  BY <1>2, <1>6, TotalIs
<1> QED
  BY <1>1, <1>7 DEF S

\* What is known of the sums; a state predicate, for the state after a step needs it too.
Summed == CountTypes =>
    /\ \A i \in Interfaces : Bucket(i) \in [Hours -> Nat]
    /\ \A start \in Nat, i \in Interfaces :
           /\ SumSince(start)[i] = Total(Bucket(i), start..MaxHour)
           /\ SumSince(start)[i] \in Nat
    /\ \A start \in Nat : SumSince(start) \in Bytes

LEMMA SumsNow == Summed
<1> SUFFICES ASSUME CountTypes
             PROVE  /\ \A i \in Interfaces : Bucket(i) \in [Hours -> Nat]
                    /\ \A start \in Nat, i \in Interfaces :
                           /\ SumSince(start)[i] = Total(Bucket(i), start..MaxHour)
                           /\ SumSince(start)[i] \in Nat
                    /\ \A start \in Nat : SumSince(start) \in Bytes
  BY DEF Summed
<1>1. \A i \in Interfaces : Bucket(i) \in [Hours -> Nat]
  BY DEF Bucket, CountTypes, Bytes
<1>2. ASSUME NEW start \in Nat, NEW i \in Interfaces
      PROVE  SumSince(start)[i] = Total(Bucket(i), start..MaxHour) /\ SumSince(start)[i] \in Nat
  <2>1. IsFiniteSet(start..MaxHour) /\ start..MaxHour \subseteq Hours
    BY FS_Interval, BoundsAssumption DEF Hours
  <2>2. SumSince(start)[i] = Total(Bucket(i), start..MaxHour)
    BY SumIsTotal
  <2> QED
    BY <1>1, <2>1, <2>2, TotalType
<1>3. ASSUME NEW start \in Nat PROVE SumSince(start) \in Bytes
  <2> DEFINE sums == SumSince(start)
  <2>1. sums = [i \in Interfaces |-> sums[i]]
    BY DEF SumSince
  <2>2. \A i \in Interfaces : sums[i] \in Nat
    BY <1>2
  <2> HIDE DEF sums
  <2>3. sums \in Bytes
    BY <2>1, <2>2 DEF Bytes
  <2> QED
    BY <2>3 DEF sums
<1> QED
  BY <1>1, <1>2, <1>3

LEMMA SumsThen == Summed'
  BY SumsNow, PTL
\* A day and a month start at an hour.
LEMMA Starts ==
    ASSUME NEW h \in Nat
    PROVE  DayStart(h) \in Nat /\ MonthStart(h) \in Nat
<1>1. ASSUME NEW k \in Nat \ {0} PROVE (h \div k) * k \in Nat
  <2>1. h \div k \in Nat
    OBVIOUS
  <2> QED
    BY <2>1
<1>2. HoursPerDay * DaysPerMonth \in Nat \ {0}
  BY CalendarAssumption
<1> QED
  BY <1>1, <1>2, CalendarAssumption DEF DayStart, MonthStart

\* The sums grow with the buckets.
LEMMA SumsGrow ==
    ASSUME CountTypes, CountTypes', NEW start \in Nat, NEW i \in Interfaces,
           \A h \in Hours : traffic[h][i] <= traffic'[h][i]
    PROVE  SumSince(start)[i] <= SumSince(start)'[i]
<1>1. Bucket(i) \in [Hours -> Nat] /\ Bucket(i)' \in [Hours -> Nat]
  BY SumsNow, SumsThen DEF Summed
<1>2. /\ SumSince(start)[i] = Total(Bucket(i), start..MaxHour)
      /\ SumSince(start)'[i] = Total(Bucket(i)', start..MaxHour)
  BY SumsNow, SumsThen DEF Summed
<1>3. IsFiniteSet(start..MaxHour) /\ start..MaxHour \in SUBSET Hours
  BY FS_Interval, BoundsAssumption DEF Hours
<1>4. \A h \in start..MaxHour : Bucket(i)[h] <= Bucket(i)'[h]
  BY <1>3 DEF Bucket
<1>5. Total(Bucket(i), start..MaxHour) <= Total(Bucket(i)', start..MaxHour)
  BY <1>1, <1>3, <1>4, TotalGrows
<1> QED
  BY <1>2, <1>5

\* What the panel was told last is still recorded: the sums have not fallen below.
AnswerTypes ==
    told # NoAnswer =>
        /\ told.hour \in Hours
        /\ told.today \in Bytes /\ told.month \in Bytes /\ told.total \in Bytes

StillRecorded ==
    told # NoAnswer =>
        \A i \in Interfaces :
            /\ told.today[i] <= SumSince(DayStart(told.hour))[i]
            /\ told.month[i] <= SumSince(MonthStart(told.hour))[i]
            /\ told.total[i] <= SumSince(0)[i]

\* A step answers, takes the answer from the panel with the storage, or only adds
\* to the buckets.
LEMMA StepsOfTraffic ==
    ASSUME CountTypes, [Next]_vars
    PROVE  \/ Answer
           \/ told' = NoAnswer
           \/ told' = told /\ \A h \in Hours, i \in Interfaces : traffic[h][i] <= traffic'[h][i]
<1>0. \A h \in Hours, i \in Interfaces : traffic[h][i] \in Nat
  BY DEF CountTypes, Bytes
<1> DEFINE Adds == \A h \in Hours, i \in Interfaces : traffic[h][i] <= traffic'[h][i]
<1>1. traffic' = traffic => Adds
  BY <1>0
<1>2. ASSUME NEW i \in Interfaces, Pass(i) \/ Reset(i) \/ Vanish(i) \/ Appear(i)
      PROVE  told' = told /\ traffic' = traffic
  BY <1>2 DEF Pass, Reset, Vanish, Appear, store, panel
<1>3. Tick \/ Sample \/ Garbled \/ FetchNodeTrafficStats \/ UNCHANGED vars
         => told' = told /\ traffic' = traffic
  BY DEF Tick, Sample, Garbled, FetchNodeTrafficStats, vars, store, panel
<1>6. RecordFails \/ Commit \/ OtherCommit => told' = told /\ traffic' = traffic
  BY DEF RecordFails, Commit, OtherCommit, store, panel
<1>4. CASE Record
  <2>1. told' = told /\ Book(writing)
    BY <1>4 DEF Record, panel
  <2>2. writing \in Records /\ writing.hour \in Hours /\ writing.delta \in Bytes
    <3>1. writing \in Records
      BY <1>4 DEF Record, CountTypes
    <3> QED
      BY <3>1 DEF Records
  <2>3. ASSUME Book(writing), NEW h \in Hours, NEW i \in Interfaces
        PROVE  traffic[h][i] <= traffic'[h][i]
    <3>1. writing.delta[i] \in Nat /\ traffic[h][i] \in Nat
      BY <1>0, <2>2 DEF Bytes
    <3>2. CASE h = writing.hour
      <4>1. traffic'[h][i] = traffic[h][i] + writing.delta[i]
        BY <2>2, <2>3, <3>2 DEF Book, Recorded, CountTypes
      <4> QED
        BY <3>1, <4>1
    <3>3. CASE h # writing.hour
      <4>1. traffic'[h] = traffic[h]
        BY <2>2, <2>3, <3>3 DEF Book, Recorded, CountTypes
      <4> QED
        BY <3>1, <4>1
    <3> QED
      BY <3>2, <3>3
  <2> QED
    BY <1>1, <2>1, <2>3
<1>5. CASE NodeRestart
  <2>1. told' = NoAnswer \/ (told' = told /\ traffic' = traffic)
    BY <1>5 DEF NodeRestart
  <2> QED
    BY <1>1, <2>1
<1> QED
  BY <1>1, <1>2, <1>3, <1>4, <1>5, <1>6 DEF Next, Monitor

\* No sum is less than itself.
LEMMA AtLeastItself == \A f \in Bytes : AtLeast(f, f)
  BY DEF AtLeast, Bytes

\* An answer has the sums of the moment.
LEMMA Answered ==
    ASSUME CountTypes, Answer
    PROVE  /\ call \in Hours /\ call \in Nat
           /\ told'.hour = call
           /\ told'.today = SumSince(DayStart(call))
           /\ told'.month = SumSince(MonthStart(call))
           /\ told'.total = SumSince(0)
           /\ UNCHANGED traffic
<1>1. call \in Hours /\ call \in Nat
  BY DEF Answer, CountTypes, Hours
<1>2. told' = TotalsAt(call) /\ traffic' = traffic
  BY DEF Answer, store
<1> QED
  BY <1>1, <1>2 DEF TotalsAt

\* The sums after a step, of the day and the month of the answer after it.
LEMMA SumsOfAnswer ==
    ASSUME NEW s
    PROVE  /\ s = DayStart(told'.hour) => SumSince(DayStart(told.hour))' = SumSince(s)'
           /\ s = MonthStart(told'.hour) => SumSince(MonthStart(told.hour))' = SumSince(s)'
<1>1. ASSUME s = DayStart(told'.hour) PROVE SumSince(DayStart(told.hour))' = SumSince(s)'
  BY <1>1 DEF SumSince, MapThenSumSet, MapThenFoldSet
<1>2. ASSUME s = MonthStart(told'.hour) PROVE SumSince(MonthStart(told.hour))' = SumSince(s)'
  BY <1>2 DEF SumSince, MapThenSumSet, MapThenFoldSet
<1> QED
  BY <1>1, <1>2

LEMMA ToldInit == Init => AnswerTypes /\ StillRecorded
  BY DEF Init, AnswerTypes, StillRecorded

LEMMA ToldStep ==
    CountTypes /\ AnswerTypes /\ StillRecorded /\ [Next]_vars => AnswerTypes' /\ StillRecorded'
<1> SUFFICES ASSUME CountTypes, CountTypes', AnswerTypes, StillRecorded, [Next]_vars,
                    told' # NoAnswer
             PROVE  AnswerTypes' /\ StillRecorded'
  BY TypesStep DEF AnswerTypes, StillRecorded
<1>1. CASE Answer
  <2>1. \A s \in Nat : SumSince(s)' = SumSince(s)
    BY <1>1, Answered DEF SumSince, MapThenSumSet, MapThenFoldSet
  <2>2. DayStart(call) \in Nat /\ MonthStart(call) \in Nat
    BY <1>1, Answered, Starts
  <2>3. /\ told'.today = SumSince(DayStart(told.hour))'
        /\ told'.month = SumSince(MonthStart(told.hour))'
        /\ told'.total = SumSince(0)'
    BY <1>1, <2>1, <2>2, Answered, SumsOfAnswer
  <2>4. told'.hour \in Hours /\ told'.today \in Bytes /\ told'.month \in Bytes /\ told'.total \in Bytes
    BY <1>1, <2>2, Answered, SumsNow DEF Summed
  <2>5. AnswerTypes'
    BY <2>4 DEF AnswerTypes
  <2>6. ASSUME NEW i \in Interfaces
        PROVE  /\ told'.today[i] <= SumSince(DayStart(told.hour))'[i]
               /\ told'.month[i] <= SumSince(MonthStart(told.hour))'[i]
               /\ told'.total[i] <= SumSince(0)'[i]
    <3>1. told'.today[i] \in Nat /\ told'.month[i] \in Nat /\ told'.total[i] \in Nat
      BY <2>4 DEF Bytes
    <3> QED
      BY <2>3, <3>1
  <2>7. StillRecorded'
    BY <2>6 DEF StillRecorded
  <2> QED
    BY <2>5, <2>7
<1>2. CASE told' = told /\ \A h \in Hours, i \in Interfaces : traffic[h][i] <= traffic'[h][i]
  <2>1. AnswerTypes'
    BY <1>2 DEF AnswerTypes
  <2>2. told.hour \in Nat
    BY <1>2 DEF AnswerTypes, Hours
  <2>3. ASSUME NEW i \in Interfaces
        PROVE  /\ told'.today[i] <= SumSince(DayStart(told.hour))'[i]
               /\ told'.month[i] <= SumSince(MonthStart(told.hour))'[i]
               /\ told'.total[i] <= SumSince(0)'[i]
    <3>1. told.today[i] \in Nat /\ told.month[i] \in Nat /\ told.total[i] \in Nat
      BY <1>2 DEF AnswerTypes, Bytes
    <3>2. /\ told.today[i] <= SumSince(DayStart(told.hour))[i]
          /\ told.month[i] <= SumSince(MonthStart(told.hour))[i]
          /\ told.total[i] <= SumSince(0)[i]
      BY <1>2 DEF StillRecorded
    <3>3. ASSUME NEW s \in Nat
          PROVE  /\ SumSince(s)[i] <= SumSince(s)'[i]
                 /\ SumSince(s)[i] \in Nat /\ SumSince(s)'[i] \in Nat
      BY <1>2, SumsGrow, SumsNow, SumsThen DEF Summed
    <3>4. DayStart(told.hour) \in Nat /\ MonthStart(told.hour) \in Nat
      BY <2>2, Starts
    <3>5. told'.today[i] <= SumSince(DayStart(told.hour))'[i]
      BY <1>2, <3>1, <3>2, <3>3, <3>4, SumsOfAnswer
    <3>6. told'.month[i] <= SumSince(MonthStart(told.hour))'[i]
      BY <1>2, <3>1, <3>2, <3>3, <3>4, SumsOfAnswer
    <3>7. told'.total[i] <= SumSince(0)'[i]
      BY <1>2, <3>1, <3>2, <3>3
    <3> QED
      BY <1>2, <3>5, <3>6, <3>7
  <2>4. StillRecorded'
    BY <2>3 DEF StillRecorded
  <2> QED
    BY <2>1, <2>4
<1> QED
  BY <1>1, <1>2, StepsOfTraffic

\* The values the variables take, those of the answers included: no difference,
\* no bucket and no sum is negative.
THEOREM TypeCorrect == Spec => []TypeOK
<1>1. CountTypes /\ AnswerTypes => TypeOK
  BY DEF TypeOK, AnswerTypes
<1> QED
  BY <1>1, TypesInit, TypesStep, ToldInit, ToldStep, PTL DEF Spec

\* The step AnswersGrow speaks of.
LEMMA AnswerGrows ==
    ASSUME CountTypes, AnswerTypes, StillRecorded, [Next]_vars, told # NoAnswer, told' # NoAnswer
    PROVE  /\ AtLeast(told'.total, told.total)
           /\ DayStart(told'.hour) = DayStart(told.hour) => AtLeast(told'.today, told.today)
           /\ MonthStart(told'.hour) = MonthStart(told.hour) => AtLeast(told'.month, told.month)
<1>1. CASE told' = told
  BY <1>1, AtLeastItself DEF AnswerTypes
<1>2. CASE Answer
  <2> USE <1>2
  <2>1. told.hour \in Nat /\ DayStart(told.hour) \in Nat /\ MonthStart(told.hour) \in Nat
    BY Starts DEF AnswerTypes, Hours
  <2>2. ASSUME NEW i \in Interfaces
        PROVE  /\ told.total[i] \in Nat /\ told.today[i] \in Nat /\ told.month[i] \in Nat
               /\ told.today[i] <= SumSince(DayStart(told.hour))[i]
               /\ told.month[i] <= SumSince(MonthStart(told.hour))[i]
               /\ told.total[i] <= SumSince(0)[i]
    BY DEF AnswerTypes, StillRecorded, Bytes
  <2>3. \A s \in Nat, i \in Interfaces : SumSince(s)[i] \in Nat
    BY SumsNow DEF Summed
  <2>4. AtLeast(told'.total, told.total)
    BY <2>2, <2>3, Answered DEF AtLeast
  <2>5. ASSUME DayStart(told'.hour) = DayStart(told.hour) PROVE AtLeast(told'.today, told.today)
    <3>1. told'.today = SumSince(DayStart(told.hour))
      BY <2>5, Answered
    <3> QED
      BY <2>1, <2>2, <2>3, <3>1 DEF AtLeast
  <2>6. ASSUME MonthStart(told'.hour) = MonthStart(told.hour) PROVE AtLeast(told'.month, told.month)
    <3>1. told'.month = SumSince(MonthStart(told.hour))
      BY <2>6, Answered
    <3> QED
      BY <2>1, <2>2, <2>3, <3>1 DEF AtLeast
  <2> QED
    BY <2>4, <2>5, <2>6
<1> QED
  BY <1>1, <1>2, StepsOfTraffic

\* From one answer to the next the panel sees the total grow, and the sums of the
\* day and of the month as long as the day and the month last: the sample an answer
\* is about may be older than the sums, and buckets are added to between two answers.
THEOREM AnswersOnlyGrow == Spec => AnswersGrow
<1> DEFINE Grows == (told # NoAnswer /\ told' # NoAnswer) =>
          /\ AtLeast(told'.total, told.total)
          /\ DayStart(told'.hour) = DayStart(told.hour)
                => AtLeast(told'.today, told.today)
          /\ MonthStart(told'.hour) = MonthStart(told.hour)
                => AtLeast(told'.month, told.month)
<1>1. CountTypes /\ AnswerTypes /\ StillRecorded /\ [Next]_vars => [Grows]_vars
  BY AnswerGrows
<1>2. AnswersGrow <=> [][Grows]_vars
  BY DEF AnswersGrow
<1> HIDE DEF Grows
<1> QED
  BY <1>1, <1>2, TypesInit, TypesStep, ToldInit, ToldStep, PTL DEF Spec
=============================================================================

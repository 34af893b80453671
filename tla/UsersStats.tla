----------------------------- MODULE UsersStats -----------------------------
(***************************************************************************)
(* FetchUsersStats: the bytes of every user, taken from the backends one   *)
(* after the other.  Each process counts by an identifier, id.username,    *)
(* and starts again from 0 when it is asked: what an answer does not bring *)
(* to the panel is gone.  Calls may overlap.                               *)
(***************************************************************************)
EXTENDS Integers, Sequences, FiniteSets, FiniteSetsExt

CONSTANTS
    Users,
    Idents,      \* identifiers: an id with a username it has or had
    UserOf,      \* int(identifier.split(".")[0])
    Order,       \* the backends, in the order main() made them
    Callers,     \* FetchUsersStats calls at once
    MaxBytes,    \* bound on the bytes of a user
    MaxFaults    \* bound on processes that die or hang and calls that fail

Backends == {"xray", "hysteria2", "sing-box"}

ASSUME UserOfAssumption == UserOf \in [Idents -> Users]
ASSUME OrderAssumption ==
    /\ Order \in Seq(Backends)
    /\ Len(Order) > 0
    /\ \A i, j \in 1..Len(Order) : Order[i] = Order[j] => i = j
ASSUME StatsFinite == IsFiniteSet(Idents) /\ IsFiniteSet(Callers)
ASSUME StatsBounds == MaxBytes \in Nat /\ MaxFaults \in Nat

VARIABLES
    status,    \* per process: up, down, or silent: it takes requests and is stuck
    counter,   \* per process: the bytes of each identifier since it was asked
    call,      \* per caller: the handler
    told,      \* history: the bytes of each user the panel was told of
    passed,    \* history: the bytes of each user
    lossy,     \* history: users some of whose bytes are lost
    faults     \* history: faults so far

statsVars == <<status, counter, call, told, passed, lossy, faults>>

Nothing == [i \in Idents |-> 0]

NoUsage == [u \in Users |-> 0]

\* pc: idle, ask (the request is on its way to backend at), answered (the answer is
\* on its way back) or send (the sums are).
Idle == [pc |-> "idle", at |-> 1, answer |-> Nothing, sum |-> NoUsage]

StatsInit ==
    /\ status = [b \in Backends |-> "up"]
    /\ counter = [b \in Backends |-> Nothing]
    /\ call = [c \in Callers |-> Idle]
    /\ told = NoUsage
    /\ passed = NoUsage
    /\ lossy = {}
    /\ faults = 0

Fault == faults < MaxFaults /\ faults' = faults + 1

\* The users with bytes in an answer or a process.
UsersIn(bytes) == {UserOf[i] : i \in {j \in Idents : bytes[j] > 0}}

UsersOf(sum) == {u \in Users : sum[u] > 0}

(***************************************************************************)
(* The processes.                                                          *)
(***************************************************************************)
Traffic(b, i) ==
    /\ status[b] = "up"
    /\ passed[UserOf[i]] < MaxBytes
    /\ counter' = [counter EXCEPT ![b][i] = @ + 1]
    /\ passed' = [passed EXCEPT ![UserOf[i]] = @ + 1]
    /\ UNCHANGED <<status, call, told, lossy, faults>>

Hang(b) ==
    /\ Fault
    /\ status[b] = "up"
    /\ status' = [status EXCEPT ![b] = "silent"]
    /\ UNCHANGED <<counter, call, told, passed, lossy>>

Die(b) ==
    /\ Fault
    /\ status[b] # "down"
    /\ status' = [status EXCEPT ![b] = "down"]
    /\ counter' = [counter EXCEPT ![b] = Nothing]
    /\ lossy' = lossy \cup UsersIn(counter[b])
    /\ UNCHANGED <<call, told, passed>>

ComeUp(b) ==
    /\ status[b] = "down"
    /\ status' = [status EXCEPT ![b] = "up"]
    /\ UNCHANGED <<counter, call, told, passed, lossy, faults>>

(***************************************************************************)
(* get_usages()                                                            *)
(***************************************************************************)
\* Mutant: the counters are read and go on.
KeptCounter(b) == counter

\* reset = True, or clear=1
ResetCounter(b) == [counter EXCEPT ![b] = Nothing]

Ask(c) == Order[call[c].at]

\* A process answers, and starts again from 0.
QueryStats(c) ==
    /\ call[c].pc = "ask"
    /\ status[Ask(c)] = "up"
    /\ call' = [call EXCEPT ![c].pc = "answered", ![c].answer = counter[Ask(c)]]
    /\ counter' = ResetCounter(Ask(c))
    /\ UNCHANGED <<status, told, passed, lossy, faults>>

IdentsOf(u) == {i \in Idents : UserOf[i] = u}

\* XrayBackend and SingBoxBackend add up what they find of a user.
Added(answer) ==
    {[u \in Users |-> MapThenSumSet(LAMBDA i : answer[i], IdentsOf(u))]}

\* HysteriaBackend keeps the last identifier of a user it comes to.
Assigned(answer) ==
    {usage \in [Users -> 0..MaxBytes] :
        \A u \in Users :
            LET counted == {i \in IdentsOf(u) : answer[i] > 0} IN
            IF counted = {} THEN usage[u] = 0
            ELSE \E i \in counted : usage[u] = answer[i]}

UsagesOf(b, answer) == IF b = "hysteria2" THEN Assigned(answer) ELSE Added(answer)

Whole(answer, usage) == usage \in Added(answer)

\* The loop of FetchUsersStats goes on with what backend at has given.
Advanced(c, sum) ==
    IF call[c].at < Len(Order)
    THEN [pc |-> "ask", at |-> call[c].at + 1, answer |-> Nothing, sum |-> sum]
    ELSE [pc |-> "send", at |-> call[c].at, answer |-> Nothing, sum |-> sum]

\* Mutant: what the backends before have given is replaced.
Overwritten(sum, usage) == [u \in Users |-> IF usage[u] > 0 THEN usage[u] ELSE sum[u]]

Collected(sum, usage) == [u \in Users |-> sum[u] + usage[u]]

\* The answer arrives.
GetUsages(c) ==
    /\ call[c].pc = "answered"
    /\ status[Ask(c)] # "silent"
    /\ \E usage \in UsagesOf(Ask(c), call[c].answer) :
          /\ call' = [call EXCEPT ![c] = Advanced(c, Collected(call[c].sum, usage))]
          /\ lossy' = IF Whole(call[c].answer, usage) THEN lossy
                      ELSE lossy \cup UsersIn(call[c].answer)
    /\ UNCHANGED <<status, counter, told, passed, faults>>

\* Nothing listens: OSError, or ClientConnectorError, is no usage at all.
Refused(c) ==
    /\ call[c].pc = "ask"
    /\ status[Ask(c)] = "down"
    /\ call' = [call EXCEPT ![c] = Advanced(c, call[c].sum)]
    /\ UNCHANGED <<status, counter, told, passed, lossy, faults>>

\* Mutant: nobody waits for less than an answer.
NoTimeout(c) == FALSE

\* sing-box is given three seconds, and aiohttp gives hysteria five minutes.
Timeout(c) == Ask(c) # "xray"

\* The call to sing-box: TimeoutError is an OSError too, and what the answer has taken
\* is lost.
TimesOut(c) ==
    /\ call[c].pc \in {"ask", "answered"}
    /\ status[Ask(c)] = "silent"
    /\ Timeout(c) /\ Ask(c) = "sing-box"
    /\ call' = [call EXCEPT ![c] = Advanced(c, call[c].sum)]
    /\ lossy' = lossy \cup UsersIn(call[c].answer)
    /\ UNCHANGED <<status, counter, told, passed, faults>>

\* The request to hysteria: its TimeoutError is no ClientConnectorError, and ends the
\* handler with all it has collected.
GivesUp(c) ==
    /\ call[c].pc \in {"ask", "answered"}
    /\ status[Ask(c)] = "silent"
    /\ Timeout(c) /\ Ask(c) = "hysteria2"
    /\ call' = [call EXCEPT ![c] = Idle]
    /\ lossy' = lossy \cup UsersOf(call[c].sum) \cup UsersIn(call[c].answer)
    /\ UNCHANGED <<status, counter, told, passed, faults>>

(***************************************************************************)
(* FetchUsersStats                                                         *)
(***************************************************************************)
FetchUsersStats(c) ==
    /\ call[c].pc = "idle"
    /\ call' = [call EXCEPT ![c].pc = "ask"]
    /\ UNCHANGED <<status, counter, told, passed, lossy, faults>>

SendStats(c) ==
    /\ call[c].pc = "send"
    /\ told' = [u \in Users |-> told[u] + call[c].sum[u]]
    /\ call' = [call EXCEPT ![c] = Idle]
    /\ UNCHANGED <<status, counter, passed, lossy, faults>>

\* An error no backend expects (the connection breaks while an answer is awaited,
\* the process answers with an error), or grpclib cancels the call: what it has
\* collected goes with it.
Fails(c) ==
    /\ Fault
    /\ call[c].pc # "idle"
    /\ call' = [call EXCEPT ![c] = Idle]
    /\ lossy' = lossy \cup UsersOf(call[c].sum) \cup UsersIn(call[c].answer)
    /\ UNCHANGED <<status, counter, told, passed>>

Step(c) ==
    QueryStats(c) \/ GetUsages(c) \/ Refused(c) \/ TimesOut(c) \/ GivesUp(c) \/ SendStats(c)

StatsNext ==
    \/ \E b \in Backends, i \in Idents : Traffic(b, i)
    \/ \E b \in Backends : Hang(b) \/ Die(b) \/ ComeUp(b)
    \/ \E c \in Callers : FetchUsersStats(c) \/ Step(c) \/ Fails(c)

\* What is ready runs, what is asked answers unless it is stuck, and time passes.
StatsFairness == \A c \in Callers : WF_statsVars(Step(c))

StatsSpec == StatsInit /\ [][StatsNext]_statsVars /\ StatsFairness

-----------------------------------------------------------------------------
(***************************************************************************)
(* Properties.                                                             *)
(***************************************************************************)
\* The values of the variables: a call is at a backend there is.
StatsTypeOK ==
    /\ status \in [Backends -> {"up", "down", "silent"}]
    /\ counter \in [Backends -> [Idents -> Nat]]
    /\ call \in [Callers -> [pc : {"idle", "ask", "answered", "send"}, at : 1..Len(Order),
                             answer : [Idents -> Nat], sum : [Users -> Nat]]]
    /\ told \in [Users -> Nat] /\ passed \in [Users -> Nat]
    /\ lossy \subseteq Users
    /\ faults \in 0..MaxFaults

BytesIn(bytes, u) == MapThenSumSet(LAMBDA i : bytes[i], IdentsOf(u))

InProcesses(u) == MapThenSumSet(LAMBDA b : BytesIn(counter[b], u), Backends)

InCalls(u) == MapThenSumSet(LAMBDA c : call[c].sum[u] + BytesIn(call[c].answer, u), Callers)

\* No byte is told twice, however calls overlap and fail: what the panel was told,
\* what is on its way and what the processes count is no more than what passed.  The
\* variables have their types.
NothingTwice ==
    /\ StatsTypeOK
    /\ \A u \in Users : told[u] + InCalls(u) + InProcesses(u) <= passed[u]

\* Nothing is lost of a user but by a process that died with its counters, a call that
\* failed, a sing-box or a hysteria that took too long after it had counted, and two usernames of
\* a user in one answer of hysteria.
NothingLost ==
    \A u \in Users \ lossy : told[u] + InCalls(u) + InProcesses(u) = passed[u]

\* Every call ends, with a sing-box or a hysteria that is stuck too.  xray has no
\* timeout: a call may wait as long as it is stuck.
FetchEnds ==
    \A c \in Callers :
        call[c].pc # "idle" ~> (call[c].pc = "idle" \/ status["xray"] = "silent")
=============================================================================

----------------------------- MODULE LogStreams -----------------------------
(***************************************************************************)
(* The lines a process writes, from the runner's capture to the clients of *)
(* StreamBackendLogs; XrayCore, SingBoxRunner and Hysteria have the same.  *)
(* Two coroutines, for stderr and stdout, walk one list of streams with    *)
(* every line.  A stream holds nothing: send() waits for the client.  A    *)
(* stream that was closed is taken from the list under the walk.           *)
(***************************************************************************)
EXTENDS Naturals, Sequences, SequencesExt

CONSTANTS
    Captures,      \* the coroutines
    Clients,       \* StreamBackendLogs calls
    Startup,       \* the stream XrayCore.start() reads until xray has started
    Startups,      \* whether there is that stream: XrayCore, or one of the others
    BufferSize,    \* deque(maxlen=100)
    MaxLines,      \* bound on the lines of a capture, the one at its end left out
    MaxStalls      \* bound on clients that stop reading and starts that time out

ASSUME StartupAssumption == Startup \notin Clients
ASSUME StartupsAssumption == Startups \subseteq BOOLEAN
ASSUME LogBounds ==
    BufferSize \in Nat \ {0} /\ MaxLines \in Nat /\ MaxStalls \in Nat

Streams == Clients \cup {Startup}

VARIABLES
    ended,     \* the process has ended
    cap,       \* per capture: where it is
    snd,       \* _snd_streams
    buffer,    \* _logs_buffer: lines, as a capture and a number
    open,      \* streams whose receiver is open
    reader,    \* per stream: the coroutine that reads
    todo,      \* per client: lines of the buffer's copy it still has to send
    stopEvent, \* has been set
    last,      \* history: per client and capture, the last line it was sent
    stalls     \* history: stalls so far

logVars == <<ended, cap, snd, buffer, open, reader, todo, stopEvent, last, stalls>>

\* A capture has the line n, the last if eof, and hands it to stream "to", which was
\* at place idx when it got there; it will come to those of due, or has been there.
Reading == [pc |-> "read", n |-> 0, eof |-> FALSE, idx |-> 0, to |-> Startup, due |-> {}]

LogInit ==
    /\ ended = FALSE
    /\ cap = [x \in Captures |-> Reading]
    /\ \E starts \in Startups :
          /\ snd = IF starts THEN <<Startup>> ELSE <<>>
          /\ reader = [s \in Streams |->
                           IF s = Startup /\ starts THEN "reading" ELSE "absent"]
    /\ buffer = <<>>
    /\ open = ToSet(snd)
    /\ todo = [s \in Clients |-> <<>>]
    /\ stopEvent = FALSE
    /\ last = [s \in Clients |-> [x \in Captures |-> 0]]
    /\ stalls = 0

(***************************************************************************)
(* capture_stream()                                                        *)
(***************************************************************************)
\* Mutant: a line is in the buffer before the streams have it.
BufferedFirst(c, x) ==
    IF c.pc = "send" /\ c.idx = 1
    THEN LET all == Append(buffer, <<x, c.n>>) IN
         IF Len(all) > BufferSize THEN Tail(all) ELSE all
    ELSE buffer

\* Mutant: the buffer grows.
Unbounded(c, x) ==
    IF c.pc \in {"read", "done"} THEN Append(buffer, <<x, c.n>>) ELSE buffer

\* A line is in the buffer when all streams have it.
Buffered(c, x) ==
    IF c.pc \in {"read", "done"}
    THEN LET all == Append(buffer, <<x, c.n>>) IN
         IF Len(all) > BufferSize THEN Tail(all) ELSE all
    ELSE buffer

RoundOver(c) ==
    [c EXCEPT !.pc = IF c.eof THEN "done" ELSE "read", !.idx = 0, !.to = Startup]

\* for stm in self._snd_streams: the next place of the list as it is now.
Onward(c, list) ==
    IF c.idx < Len(list)
    THEN [c EXCEPT !.pc = "send", !.idx = @ + 1, !.to = list[c.idx + 1]]
    ELSE RoundOver(c)

Capture(x, c) ==
    /\ cap' = [cap EXCEPT ![x] = c]
    /\ buffer' = Buffered(c, x)

\* readline() returns a line, or b"" once the process has ended.
ReadLine(x) ==
    /\ cap[x].pc = "read"
    /\ \E eof \in BOOLEAN :
          /\ IF eof THEN ended ELSE cap[x].n < MaxLines
          /\ Capture(x, Onward([cap[x] EXCEPT !.n = @ + 1, !.eof = eof, !.idx = 0,
                                            !.due = ToSet(snd)], snd))
    /\ UNCHANGED <<ended, snd, open, reader, todo, stopEvent, last, stalls>>

\* send() hands the line over.  The startup reader closes its stream when the line
\* says that xray has started, or is the last; a client sends it on.
SendLine(x) ==
    LET s == cap[x].to IN
    /\ cap[x].pc = "send"
    /\ s \in open
    /\ reader[s] = "reading"
    /\ cap' = [cap EXCEPT ![x].pc = "sent"]
    /\ IF s \in Clients
       THEN /\ last' = [last EXCEPT ![s][x] = cap[x].n]
            /\ reader' = [reader EXCEPT ![s] = "sending"]
            /\ UNCHANGED open
       ELSE /\ \/ /\ reader' = [reader EXCEPT ![s] = "gone"]
                  /\ open' = open \ {s}
               \/ /\ ~cap[x].eof
                  /\ UNCHANGED <<reader, open>>
            /\ UNCHANGED last
    /\ UNCHANGED <<ended, snd, buffer, todo, stopEvent, stalls>>

\* The coroutine runs on after send().
Sent(x) ==
    /\ cap[x].pc = "sent"
    /\ Capture(x, Onward(cap[x], snd))
    /\ UNCHANGED <<ended, snd, open, reader, todo, stopEvent, last, stalls>>

\* Mutant: a closed stream ends the round.
StopsAtBroken(c, list) == RoundOver(c)

AfterBroken(c, list) == Onward(c, list)

\* When place i is taken from the list, the stream that was next in the walk of
\* capture y comes to a place the walk has passed: it misses the line.
Shifted(y, i) ==
    IF i <= cap[y].idx /\ cap[y].idx < Len(snd)
    THEN [cap[y] EXCEPT !.due = @ \ {snd[cap[y].idx + 1]}]
    ELSE cap[y]

\* Mutant: BrokenResourceError is not expected.
NotCaught(x) == FALSE

\* send() raises: nobody can receive.
Caught(x) == cap[x].pc = "send" /\ cap[x].to \notin open

\* The stream is removed, unless the other capture has done so.
Broken(x) ==
    LET s == cap[x].to
        places == {i \in 1..Len(snd) : snd[i] = s}
        place == CHOOSE i \in places : \A k \in places : i <= k
        list == IF places = {} THEN snd ELSE RemoveAt(snd, place)
    IN
    /\ Caught(x)
    /\ snd' = list
    /\ LET shifted == [y \in Captures |->
               IF places = {} THEN cap[y] ELSE Shifted(y, place)]
           c == AfterBroken(shifted[x], list)
       IN /\ cap' = [shifted EXCEPT ![x] = c]
          /\ buffer' = Buffered(c, x)
    /\ UNCHANGED <<ended, open, reader, todo, stopEvent, last, stalls>>

\* gather() is done.
TellStop ==
    /\ ~stopEvent
    /\ \A x \in Captures : cap[x].pc = "done"
    /\ stopEvent' = TRUE
    /\ UNCHANGED <<ended, cap, snd, buffer, open, reader, todo, last, stalls>>

(***************************************************************************)
(* get_logs() and StreamBackendLogs.                                       *)
(***************************************************************************)
\* get_logs_stm()
Register(s) ==
    /\ snd' = Append(snd, s)
    /\ open' = open \cup {s}
    /\ reader' = [reader EXCEPT ![s] = "reading"]

\* A call, with or without the buffer.
StreamBackendLogs(s, include_buffer) ==
    /\ reader[s] = "absent"
    /\ IF include_buffer /\ buffer # <<>>
       THEN /\ todo' = [todo EXCEPT ![s] = buffer]
            /\ reader' = [reader EXCEPT ![s] = "buffer"]
            /\ UNCHANGED <<snd, open>>
       ELSE Register(s) /\ UNCHANGED todo
    /\ UNCHANGED <<ended, cap, buffer, stopEvent, last, stalls>>

\* A line of the copy has been sent to the client; after the last the call registers.
SentOfBuffer(s) ==
    LET line == Head(todo[s]) IN
    /\ reader[s] = "buffer"
    /\ last' = [last EXCEPT ![s][line[1]] = line[2]]
    /\ todo' = [todo EXCEPT ![s] = Tail(@)]
    /\ IF Len(todo[s]) = 1
       THEN Register(s)
       ELSE UNCHANGED <<snd, open, reader>>
    /\ UNCHANGED <<ended, cap, buffer, stopEvent, stalls>>

SentToClient(s) ==
    /\ reader[s] = "sending"
    /\ reader' = [reader EXCEPT ![s] = "reading"]
    /\ UNCHANGED <<ended, cap, snd, buffer, open, todo, stopEvent, last, stalls>>

Stall == stalls < MaxStalls /\ stalls' = stalls + 1

\* A client takes no more, and send_message() waits.
ClientStalls(s) ==
    /\ Stall
    /\ reader[s] = "sending"
    /\ reader' = [reader EXCEPT ![s] = "stalled"]
    /\ UNCHANGED <<ended, cap, snd, buffer, open, todo, stopEvent, last>>

\* The call ends, which closes the receiver.
ClientLeaves(s) ==
    /\ reader[s] \in {"buffer", "reading", "sending", "stalled"}
    /\ reader' = [reader EXCEPT ![s] = "gone"]
    /\ open' = open \ {s}
    /\ UNCHANGED <<ended, cap, snd, buffer, todo, stopEvent, last, stalls>>

\* The four seconds of XrayCore.start() are over: its receiver is left open.
StartupTimesOut ==
    /\ Stall
    /\ reader[Startup] = "reading"
    /\ reader' = [reader EXCEPT ![Startup] = "gone"]
    /\ UNCHANGED <<ended, cap, snd, buffer, open, todo, stopEvent, last>>

ProcessEnds ==
    /\ ~ended
    /\ ended' = TRUE
    /\ UNCHANGED <<cap, snd, buffer, open, reader, todo, stopEvent, last, stalls>>

CaptureStep(x) == ReadLine(x) \/ SendLine(x) \/ Sent(x) \/ Broken(x)

ClientStep(s) == SentOfBuffer(s) \/ SentToClient(s)

LogNext ==
    \/ \E x \in Captures : CaptureStep(x)
    \/ TellStop
    \/ \E s \in Clients : \/ \E b \in BOOLEAN : StreamBackendLogs(s, b)
                          \/ ClientStep(s)
                          \/ ClientStalls(s)
                          \/ ClientLeaves(s)
    \/ StartupTimesOut
    \/ ProcessEnds

\* What is ready runs, and a client that has not stalled takes its lines.
LogFairness ==
    /\ \A x \in Captures : WF_logVars(CaptureStep(x))
    /\ WF_logVars(TellStop)
    /\ \A s \in Clients : WF_logVars(ClientStep(s))

LogSpec == LogInit /\ [][LogNext]_logVars /\ LogFairness

-----------------------------------------------------------------------------
(***************************************************************************)
(* Properties.                                                             *)
(***************************************************************************)
\* The values of the variables: the buffer is as long as it may be.
LogTypeOK ==
    /\ ended \in BOOLEAN /\ stopEvent \in BOOLEAN
    /\ \A x \in Captures :
          /\ cap[x].pc \in {"read", "send", "sent", "done"}
          /\ cap[x].n \in 0..MaxLines + 1
          /\ cap[x].eof \in BOOLEAN
          /\ cap[x].to \in Streams /\ cap[x].due \subseteq Streams
    /\ ToSet(snd) \subseteq Streams
    /\ Len(buffer) <= BufferSize
    /\ open \subseteq Streams
    /\ reader \in [Streams -> {"absent", "buffer", "reading", "sending", "stalled", "gone"}]
    /\ last \in [Clients -> [Captures -> Nat]]
    /\ stalls \in 0..MaxStalls

\* The lines of a capture reach a client in their order and each at most once, those
\* of the buffer and those that follow it alike: a line is in the buffer only when it
\* has been round.
InOrder ==
    [][/\ \A x \in Captures :
             cap[x].pc = "send" /\ cap'[x].pc = "sent" /\ cap[x].to \in Clients =>
                 last[cap[x].to][x] < cap[x].n
       /\ \A s \in Clients :
             todo[s] # <<>> /\ todo'[s] = Tail(todo[s]) =>
                 last[s][Head(todo[s])[1]] < Head(todo[s])[2]]_logVars

RoundEnds(x) == cap[x].pc \in {"send", "sent"} /\ cap'[x].pc \in {"read", "done"}

\* When a line has been handed round, every stream that was in the list when it was
\* read and whose client is still there has it, but those that moved to a place the
\* walk had passed when a stream before them was removed: a client that leaves can
\* cost one other client a line, and no more than that.
NoneSkipped ==
    [][\A x \in Captures :
          RoundEnds(x) =>
              \A s \in open \cap cap'[x].due \cap Clients : last[s][x] = cap[x].n]_logVars

\* A client that does not read, or a start that timed out.
Stuck == \E s \in open : reader[s] \in {"stalled", "gone"}

\* When the process has ended the stop event is set, unless a client does not read or
\* start() left its stream behind: either holds up every line, the last one too.
StopTold == ended ~> (stopEvent \/ Stuck)
=============================================================================

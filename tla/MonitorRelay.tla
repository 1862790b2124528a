---------------------------- MODULE MonitorRelay ----------------------------
(* A monitor command run in the frontend for an agent unit: its lines are served to the readers    *)
(* that connect from the unit, queued while there is none, and replayed to the next.              *)
EXTENDS Naturals, FiniteSets, Sequences, SequencesExt

CONSTANTS Readers,          \* the unit's agent-monitor processes
          BufferLines, GiveUpAfter,
          SocketRoom,       \* lines a reader's socket holds before a write times out
          MaxLines, MaxRuns \* bounds: lines emitted, runs of the command

ASSUME RelayBounds == BufferLines \in Nat \ {0} /\ SocketRoom \in Nat \ {0} /\ GiveUpAfter \in Nat \ {0}

VARIABLES mon,              \* the command: idle, running, or waiting to be restarted
          clients,          \* the connections the relay holds
          queue,            \* lines with no reader
          sent,             \* lines emitted so far; a line is its number
          runs, short, announced, stopped,
          reader,           \* each reader: out, in, or at the end of a closed connection
          buf,              \* the lines in its socket
          got,              \* the lines it printed from this connection
          printed,          \* every line some reader printed
          over, unread      \* lines dropped over the buffer, and lost with a reader that died

relayVars == <<mon, clients, queue, sent, runs, short, announced, stopped, reader, buf, got,
               printed, over, unread>>

RelayInit ==
    /\ mon = "idle" /\ clients = {} /\ queue = <<>>
    /\ sent = 0 /\ runs = 0 /\ short = 0
    /\ announced = FALSE /\ stopped = FALSE
    /\ reader = [r \in Readers |-> "out"]
    /\ buf = [r \in Readers |-> <<>>]
    /\ got = [r \in Readers |-> <<>>]
    /\ printed = {} /\ over = {} /\ unread = {}

\* writeLine: a reader that has gone, or whose socket stays full, fails the write.
Takes(r) == reader[r] = "in" /\ Len(buf[r]) < SocketRoom

Newest(q, n) == SubSeq(q, Len(q) - n + 1, Len(q))
Kept(q) == IF Len(q) > BufferLines THEN Newest(q, BufferLines) ELSE q

\* emit: the line to every connection that takes it, else to the queue, whose oldest go.
Emit(line) ==
    LET live == {c \in clients : Takes(c)}
        q == IF live = {} THEN Append(queue, line) ELSE queue
    IN /\ sent' = line
       /\ clients' = live
       /\ buf' = [r \in Readers |-> IF r \in live THEN Append(buf[r], line) ELSE buf[r]]
       /\ reader' = [r \in Readers |-> IF r \in clients \ live /\ reader[r] = "in" THEN "ended" ELSE reader[r]]
       /\ queue' = Kept(q)
       /\ over' = over \cup (ToSet(q) \ ToSet(Kept(q)))

NoEmit == UNCHANGED <<sent, clients, buf, reader, queue, over>>

\* A mutant: the queue is emptied before its lines are written.
ForgottenQueue(ok) == <<>>

\* The queue is kept whole for the next reader unless all of it was written to this one.
QueueAfter(ok) == IF ok THEN <<>> ELSE queue

\* accept: replay the queue; the first reader that took it all starts the command.
AcceptReader(r) ==
    /\ reader[r] = "out" /\ ~stopped
    /\ LET ok == Len(queue) <= SocketRoom IN
       /\ buf' = [buf EXCEPT ![r] = IF ok THEN queue ELSE SubSeq(queue, 1, SocketRoom)]
       /\ reader' = [reader EXCEPT ![r] = IF ok THEN "in" ELSE "ended"]
       /\ clients' = IF ok THEN clients \cup {r} ELSE clients
       /\ queue' = QueueAfter(ok)
       /\ mon' = IF ok /\ mon = "idle" THEN "running" ELSE mon
       /\ runs' = IF ok /\ mon = "idle" THEN 1 ELSE runs
    /\ got' = [got EXCEPT ![r] = <<>>]
    /\ UNCHANGED <<sent, short, announced, stopped, printed, over, unread>>

\* copyLines: the reader prints the next line.
PrintLine(r) ==
    /\ reader[r] # "out" /\ buf[r] # <<>>
    /\ buf' = [buf EXCEPT ![r] = Tail(@)]
    /\ got' = [got EXCEPT ![r] = Append(@, Head(buf[r]))]
    /\ printed' = printed \cup {Head(buf[r])}
    /\ UNCHANGED <<mon, clients, queue, sent, runs, short, announced, stopped, reader, over, unread>>

\* The connection ended: the reader backs off and dials again.
Redial(r) ==
    /\ reader[r] = "ended" /\ buf[r] = <<>>
    /\ reader' = [reader EXCEPT ![r] = "out"]
    /\ UNCHANGED <<mon, clients, queue, sent, runs, short, announced, stopped, buf, got, printed, over, unread>>

\* The reader goes away with what its socket held; a new one may come in its place.
ReaderGoes(r) ==
    /\ reader[r] # "out"
    /\ reader' = [reader EXCEPT ![r] = "out"]
    /\ unread' = unread \cup ToSet(buf[r])
    /\ buf' = [buf EXCEPT ![r] = <<>>]
    /\ clients' = clients \ {r}
    /\ UNCHANGED <<mon, queue, sent, runs, short, announced, stopped, got, printed, over>>

\* runOnce: the command prints a line.
CommandPrints ==
    /\ mon = "running" /\ sent < MaxLines
    /\ Emit(sent + 1)
    /\ UNCHANGED <<mon, runs, short, announced, stopped, got, printed, unread>>

\* run: after GiveUpAfter short runs in a row, one notice until a long run; the command is always
\* restarted, unless the relay was closed.
CommandExits ==
    /\ mon = "running"
    /\ \/ /\ stopped
          /\ mon' = "stopped"
          /\ NoEmit
          /\ UNCHANGED <<short, announced>>
       \/ /\ ~stopped /\ runs < MaxRuns
          /\ mon' = "backoff"
          /\ \E brief \in BOOLEAN :
                /\ short' = IF brief THEN short + 1 ELSE 0
                /\ announced' = (brief /\ (announced \/ short' >= GiveUpAfter))
                /\ IF announced' /\ ~announced THEN Emit(sent + 1) ELSE NoEmit
    /\ UNCHANGED <<runs, stopped, got, printed, unread>>

Restarted ==
    /\ mon = "backoff" /\ runs < MaxRuns
    /\ mon' = "running"
    /\ runs' = runs + 1
    /\ UNCHANGED <<clients, queue, sent, short, announced, stopped, reader, buf, got, printed, over, unread>>

\* Close: the connections are closed and the command is told to stop; what is queued stays there.
CloseRelay ==
    /\ ~stopped
    /\ stopped' = TRUE
    /\ mon' = IF mon = "running" THEN "running" ELSE "stopped"
    /\ clients' = {}
    /\ reader' = [r \in Readers |-> IF r \in clients THEN "ended" ELSE reader[r]]
    /\ UNCHANGED <<queue, sent, runs, short, announced, buf, got, printed, over, unread>>

RelayNext ==
    \/ CommandPrints \/ CommandExits \/ Restarted \/ CloseRelay
    \/ \E r \in Readers : AcceptReader(r) \/ PrintLine(r) \/ Redial(r) \/ ReaderGoes(r)

-----------------------------------------------------------------------------
InSockets == UNION {ToSet(buf[r]) : r \in Readers}

\* Every line the command or the relay emitted is printed, on its way, queued, dropped over the
\* buffer, or lost with a reader that died with it unread; the queue holds only what no reader was
\* given whole; and each connection gives its reader the lines in their order.
LinesReachReader ==
    /\ 1..sent \subseteq printed \cup InSockets \cup ToSet(queue) \cup over \cup unread
    /\ \A r \in Readers : LET s == got[r] \o buf[r] IN \A i \in 1..Len(s) - 1 : s[i] < s[i + 1]
    /\ \A i \in 1..Len(queue) - 1 : queue[i] < queue[i + 1]
    /\ queue # <<>> => clients = {} /\ queue[Len(queue)] = sent
    /\ over # {} => \A n \in over, q \in ToSet(queue) : n < q
=============================================================================

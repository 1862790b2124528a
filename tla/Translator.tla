----------------------------- MODULE Translator -----------------------------
(***************************************************************************)
(* The router between a wrapped stdio MCP server, the child, and the       *)
(* bridge's HTTP handlers (cmd/clown-stdio-bridge/translator.go): the      *)
(* bounded write queue, the pending table, the writer and reader           *)
(* goroutines and the broadcasts.  A post is one HTTP request; while it    *)
(* waits in SendRequest its entry in the table is its own response         *)
(* channel, so the table holds the post itself.                            *)
(***************************************************************************)
EXTENDS Naturals, Sequences, FiniteSets

CONSTANTS
    Posts,        \* the HTTP requests
    Streams,      \* the GET event streams
    Ids,          \* JSON-RPC ids, chosen by clients
    PromptId,     \* the fixed id of the bridge's own prompts/get
    None,
    Abandoned,    \* the entry of a request that left without its answer
    QueueDepth,   \* room in the write queue and in a stream's channel
    PipeLines     \* lines that wait in the child's stdout

ASSUME PostAssumption ==
    /\ {None, Abandoned} \cap Posts = {} /\ None # Abandoned
    /\ PromptId \in Ids
ASSUME DepthAssumption == {QueueDepth, PipeLines} \subseteq Nat \ {0}

VARIABLES
    pc,           \* post -> its position
    msg,          \* post -> [kind, id] of what it posted
    result,       \* post -> what SendRequest returned
    ctx,          \* the posts whose client has gone or whose deadline passed
    pending,      \* id -> None, Abandoned, or the post that waits
    respCh,       \* post -> the line in its response channel
    queue,        \* writeQueue
    writer,       \* "run" or "gone"
    reader,       \* "scan", "send" or "gone"
    hand,         \* the post and the line a reader in "send" holds
    child,        \* "up" or "gone"
    heard,        \* the messages the child has been written
    answered,     \* the messages it has answered
    out,          \* its stdout: answers and unasked notes
    said, notes,  \* notes broadcast, and notes spoken
    subs          \* stream -> its channel, and got: the last note delivered

pipe  == <<child, heard, answered, out, notes>>
table == <<pending, respCh>>
loops == <<writer, reader, hand>>
tvars == <<pc, msg, result, ctx, table, queue, loops, pipe, said, subs>>

Kinds   == {"none", "call", "list", "prompt", "note"}
Unsent  == [kind |-> "none", id |-> PromptId]
Closed  == [open |-> FALSE, ch |-> <<>>, got |-> 0]
Answer(p) == [type |-> "answer", of |-> p, n |-> 0]
Note(n)   == [type |-> "note", of |-> None, n |-> n]

TInit ==
    /\ pc = [p \in Posts |-> "idle"]
    /\ msg = [p \in Posts |-> Unsent]
    /\ result = [p \in Posts |-> "none"]
    /\ ctx = {}
    /\ pending = [i \in Ids |-> None]
    /\ respCh = [p \in Posts |-> None]
    /\ queue = <<>>
    /\ writer = "run" /\ reader = "scan" /\ hand = <<None, None>>
    /\ child = "up" /\ heard = {} /\ answered = {} /\ out = <<>>
    /\ said = 0 /\ notes = 0
    /\ subs = [s \in Streams |-> Closed]

Id(p) == msg[p].id
At(p, s) == pc[p] = s
Goto(p, s) == pc' = [pc EXCEPT ![p] = s]
Returns(p, r) == result' = [result EXCEPT ![p] = r]

-----------------------------------------------------------------------------
(* SendRequest, a step per hold of pendingMu and per select.               *)

\* Mutant of Free: an abandoned id may be used again.
FreeOrAbandoned(i) == pending[i] \in {None, Abandoned}

\* An id is refused while a request with it waits, or is owed an answer.
Free(i) == pending[i] = None

Register(p) ==
    /\ At(p, "register")
    /\ IF Free(Id(p))
       THEN /\ pending' = [pending EXCEPT ![Id(p)] = p]
            /\ Goto(p, "enqueue") /\ UNCHANGED result
       ELSE Returns(p, "error") /\ Goto(p, "result") /\ UNCHANGED pending
    /\ UNCHANGED <<msg, ctx, respCh, queue, loops, pipe, said, subs>>

Enqueue(p) ==
    /\ At(p, "enqueue")
    /\ IF Len(queue) < QueueDepth
       THEN queue' = Append(queue, p) /\ Goto(p, "wait") /\ UNCHANGED result
       ELSE Returns(p, "busy") /\ Goto(p, "leave") /\ UNCHANGED queue
    /\ UNCHANGED <<msg, ctx, table, loops, pipe, said, subs>>

Await(p) ==
    /\ At(p, "wait")
    /\ \/ respCh[p] # None /\ Returns(p, "answer")
       \/ p \in ctx /\ Returns(p, "gone")
    /\ Goto(p, "leave")
    /\ UNCHANGED <<msg, ctx, table, queue, loops, pipe, said, subs>>

\* Mutant of Mine: whoever holds the id is abandoned.
Anyone(p) == pending[Id(p)] # None

\* The entry is still this request's: a namesake may have taken the id.
Mine(p) == pending[Id(p)] = p

\* The deferred hand-back: what was not answered is abandoned.
Leave(p) ==
    /\ At(p, "leave")
    /\ pending' = IF Mine(p) THEN [pending EXCEPT ![Id(p)] = Abandoned] ELSE pending
    /\ Goto(p, "result")
    /\ UNCHANGED <<msg, result, ctx, respCh, queue, loops, pipe, said, subs>>

\* SendNotification: what it returns is what the client is told.
Notify(p) ==
    /\ At(p, "notify")
    /\ IF Len(queue) < QueueDepth
       THEN queue' = Append(queue, p) /\ Returns(p, "accepted")
       ELSE Returns(p, "busy") /\ UNCHANGED queue
    /\ Goto(p, "result")
    /\ UNCHANGED <<msg, ctx, table, loops, pipe, said, subs>>

-----------------------------------------------------------------------------
(* The writer and the reader.                                              *)

\* A write to a child that is gone fails, and the writer with it.
Write ==
    /\ writer = "run" /\ queue # <<>>
    /\ queue' = Tail(queue)
    /\ IF child = "up" THEN heard' = heard \cup {Head(queue)} /\ UNCHANGED writer
       ELSE writer' = "gone" /\ UNCHANGED heard
    /\ UNCHANGED <<pc, msg, result, ctx, table, reader, hand, child, answered,
                   out, notes, said, subs>>

\* Mutant of Overflow: the newest is dropped.
DropNewest(ch, n) == IF Len(ch) < QueueDepth THEN Append(ch, n) ELSE ch

\* A full subscriber loses its oldest message to the newest.
Overflow(ch, n) == Append(IF Len(ch) < QueueDepth THEN ch ELSE Tail(ch), n)

Broadcast(n) ==
    /\ said' = n
    /\ subs' = [s \in Streams |->
                  IF subs[s].open THEN [subs[s] EXCEPT !.ch = Overflow(@, n)] ELSE subs[s]]

\* An answer is taken out for its id, or dropped; the rest is broadcast.
Demux ==
    /\ reader = "scan" /\ out # <<>>
    /\ out' = Tail(out)
    /\ LET line == Head(out)
           to == IF line.type = "answer" THEN pending[Id(line.of)] ELSE None
       IN  \/ /\ line.type = "answer"
              /\ pending' = [pending EXCEPT ![Id(line.of)] = None]
              /\ IF to \in Posts THEN hand' = <<to, line.of>> /\ reader' = "send"
                 ELSE UNCHANGED <<hand, reader>>
              /\ UNCHANGED <<said, subs>>
           \/ /\ line.type = "note" /\ Broadcast(line.n)
              /\ UNCHANGED <<pending, hand, reader>>
    /\ UNCHANGED <<pc, msg, result, ctx, respCh, queue, writer, child, heard,
                   answered, notes>>

Deliver ==
    /\ reader = "send"
    /\ respCh' = [respCh EXCEPT ![hand[1]] = hand[2]]
    /\ reader' = "scan" /\ hand' = <<None, None>>
    /\ UNCHANGED <<pc, msg, result, ctx, pending, queue, writer, pipe, said, subs>>

\* The end of the child's stdout, or a line longer than the scanner's buffer.
ReaderEnds ==
    /\ reader = "scan"
    /\ child = "gone" => out = <<>>
    /\ reader' = "gone"
    /\ UNCHANGED <<pc, msg, result, ctx, table, queue, writer, hand, pipe, said, subs>>

-----------------------------------------------------------------------------
(* The child, external: it answers a message at most once.                 *)

ChildAnswers(p) ==
    /\ child = "up" /\ p \in heard \ answered /\ msg[p].kind # "note"
    /\ Len(out) < PipeLines
    /\ out' = Append(out, Answer(p)) /\ answered' = answered \cup {p}
    /\ UNCHANGED <<pc, msg, result, ctx, table, queue, loops, child, heard,
                   notes, said, subs>>

ChildSpeaks ==
    /\ child = "up" /\ Len(out) < PipeLines
    /\ notes' = notes + 1 /\ out' = Append(out, Note(notes + 1))
    /\ UNCHANGED <<pc, msg, result, ctx, table, queue, loops, child, heard,
                   answered, said, subs>>

-----------------------------------------------------------------------------
(* Event streams: Subscribe, and its cancel when the client goes.          *)

Subscribe(s) ==
    /\ ~subs[s].open
    /\ subs' = [subs EXCEPT ![s] = [open |-> TRUE, ch |-> <<>>, got |-> said]]
    /\ UNCHANGED <<pc, msg, result, ctx, table, queue, loops, pipe, said>>

Forward(s) ==
    /\ subs[s].open /\ subs[s].ch # <<>>
    /\ subs' = [subs EXCEPT ![s].ch = Tail(@), ![s].got = Head(subs[s].ch)]
    /\ UNCHANGED <<pc, msg, result, ctx, table, queue, loops, pipe, said>>

Unsubscribe(s) ==
    /\ subs[s].open
    /\ subs' = [subs EXCEPT ![s] = Closed]
    /\ UNCHANGED <<pc, msg, result, ctx, table, queue, loops, pipe, said>>
=============================================================================

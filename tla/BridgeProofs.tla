---------------------------- MODULE BridgeProofs -----------------------------
(***************************************************************************)
(* What is proved of clown-stdio-bridge for every number of requests, ids, *)
(* event streams and rare events and every queue depth: its types, that    *)
(* answers are matched with their requests, that an excluded tool stays    *)
(* hidden, and that a slow stream keeps the newest message.                *)
(***************************************************************************)
EXTENDS Bridge, TLAPS

-----------------------------------------------------------------------------
(* The inductive invariant.                                                *)

OutLines == [type : {"answer"}, of : Posts, n : {0}] \cup [type : {"note"}, of : {None}, n : Nat]
Channels == [open : BOOLEAN, ch : Seq(Nat), got : Nat]

Types == /\ TypeOK
         /\ out \in Seq(OutLines)
         /\ subs \in [Streams -> Channels]

\* Where a post is once its message is in the queue.
Sent == {"wait", "leave", "result", "done"}

Request(p)   == msg[p].kind # "note"
Queued(p)    == \E i \in DOMAIN queue : queue[i] = p
Answering(p) == \E i \in DOMAIN out : out[i].type = "answer" /\ out[i].of = p

\* A message goes through the queue to the child once, and is answered once.
Once ==
    /\ \A i, j \in DOMAIN queue : queue[i] = queue[j] => i = j
    /\ \A i, j \in DOMAIN out : out[i].type = "answer" /\ out[j].type = "answer" /\ out[i].of = out[j].of => i = j
    /\ \A p \in Posts : /\ Queued(p) \/ p \in heard => pc[p] \in Sent
                        /\ Queued(p) => p \notin heard
                        /\ Answering(p) => p \in answered /\ Request(p)

\* An answer to p may still come.
Owed(p) == Request(p) /\ (Queued(p) \/ p \in heard \ answered \/ Answering(p))

\* The table tells of every answer that may still come: whose it is, or that nobody waits
\* for it; no two that may come have one id.
Table ==
    \A p \in Posts :
       /\ Owed(p) => pending[Id(p)] \in {p, Abandoned}
       /\ At(p, "enqueue") => pending[Id(p)] = p
       /\ At(p, "notify") => ~Request(p)
       /\ \A q \in Posts : Owed(p) /\ Owed(q) /\ Id(p) = Id(q) => p = q

\* What the reader holds between pendingMu and the send is the request's own answer.
Hand == /\ reader # "send" => hand = <<None, None>>
        /\ reader = "send" => hand[1] = hand[2] /\ hand[1] \in Posts

Matched == Once /\ Table /\ Hand /\ AnswersMatched

\* A post that came after an exclusion that stands: a call goes no further than the
\* checks, and nothing has shown it the tool.
Hidden ==
    /\ barred # {} => excluded
    /\ \A p \in Posts : pc[p] # "done" => reply[p] \in {"none", "gone"}
    /\ \A p \in barred : /\ msg[p].kind = "call" => pc[p] \in {"check", "refuse", "done"}
                         /\ msg[p].kind = "call" => ~Queued(p) /\ p \notin heard
                         /\ pc[p] # "idle" /\ reply[p] # "shown"

Inv == Types /\ Matched /\ Hidden /\ NewestKept

USE PostAssumption, DepthAssumption, ModeAssumption

-----------------------------------------------------------------------------
(* Queues and channels are sequences.                                      *)

\* What is appended comes last, and the rest stays where it was.
LEMMA AppendFacts ==
    ASSUME NEW S, NEW s \in Seq(S), NEW e \in S
    PROVE  /\ Append(s, e) \in Seq(S) /\ Len(Append(s, e)) = Len(s) + 1 /\ Append(s, e) # <<>>
           /\ DOMAIN Append(s, e) = 1..(Len(s) + 1) /\ DOMAIN s = 1..Len(s) /\ Len(s) \in Nat
           /\ \A i \in 1..Len(s) : Append(s, e)[i] = s[i]
           /\ Append(s, e)[Len(s) + 1] = e
  OBVIOUS

\* What is taken comes first, and the rest moves up.
LEMMA TailFacts ==
    ASSUME NEW S, NEW s \in Seq(S), s # <<>>
    PROVE  /\ Tail(s) \in Seq(S) /\ Len(Tail(s)) = Len(s) - 1 /\ Len(s) \in Nat /\ Len(s) > 0
           /\ Head(s) \in S /\ Head(s) = s[1]
           /\ DOMAIN s = 1..Len(s) /\ DOMAIN Tail(s) = 1..(Len(s) - 1)
           /\ \A i \in 1..(Len(s) - 1) : Tail(s)[i] = s[i + 1]
  OBVIOUS

\* Taking the first does not take the last, unless it is the only one.
LEMMA LastStays ==
    ASSUME NEW S, NEW s \in Seq(S), s # <<>>
    PROVE  s[Len(s)] = IF Tail(s) = <<>> THEN Head(s) ELSE Tail(s)[Len(Tail(s))]
<1> DEFINE t == Tail(s)
<1>1. /\ t \in Seq(S) /\ Len(t) = Len(s) - 1 /\ Len(s) \in Nat /\ Len(s) > 0 /\ Head(s) = s[1]
      /\ \A i \in 1..(Len(s) - 1) : t[i] = s[i + 1]
  BY TailFacts
<1> HIDE DEF t
<1>2. t = <<>> <=> Len(t) = 0
  BY <1>1
<1>3. CASE Len(s) = 1
  BY <1>1, <1>2, <1>3 DEF t
<1>4. CASE Len(s) # 1
  <2>1. Len(s) - 1 \in 1..(Len(s) - 1) /\ t # <<>> /\ Len(s) - 1 + 1 = Len(s)
    BY <1>1, <1>2, <1>4
  <2>2. t[Len(t)] = s[Len(s)]
    BY <1>1, <2>1
  <2> QED
    BY <2>1, <2>2 DEF t
<1> QED
  BY <1>3, <1>4

\* What is kept of a pipe that closes is what came first.
LEMMA PrefixFacts ==
    ASSUME NEW S, NEW s \in Seq(S), NEW n \in 0..Len(s)
    PROVE  /\ SubSeq(s, 1, n) \in Seq(S) /\ Len(SubSeq(s, 1, n)) = n
           /\ DOMAIN s = 1..Len(s) /\ DOMAIN SubSeq(s, 1, n) = 1..n
           /\ \A i \in 1..n : SubSeq(s, 1, n)[i] = s[i]
  OBVIOUS

-----------------------------------------------------------------------------
(* Steps that touch neither the queue nor the child's stdout.              *)

\* What the matching depends on besides the table.
Wires == <<queue, reader, hand, heard, answered, out>>

\* A step that moves posts on, but none into the queue's reach, and leaves the rest.
LEMMA StillMatched ==
    ASSUME Types, Matched, UNCHANGED <<Wires, pending, respCh>>,
           \A p \in Posts : \/ pc'[p] = pc[p] /\ msg'[p] = msg[p]
                            \/ pc[p] \notin Sent /\ pc'[p] \notin {"enqueue", "wait"}
                               /\ (pc'[p] = "notify" => ~Request(p)')
                            \/ pc'[p] \in Sent \ {"wait"} /\ msg'[p] = msg[p]
    PROVE  Matched'
<1> USE DEF Matched, Wires
<1>1. \A p \in Posts : Queued(p)' = Queued(p) /\ Answering(p)' = Answering(p)
  BY DEF Queued, Answering
<1>2. \A p \in Posts : Queued(p) \/ p \in heard \/ Answering(p) => pc[p] \in Sent
  BY DEF Once, Types, TypeOK
<1>3. \A p \in Posts : Queued(p) \/ p \in heard \/ Answering(p) => pc'[p] \in Sent /\ msg'[p] = msg[p]
  BY <1>2
<1>4. Once'
  BY <1>1, <1>3 DEF Once, Request
<1>5. \A p \in Posts : Owed(p)' <=> Owed(p)
  BY <1>1, <1>3 DEF Owed, Request
<1>6. \A p \in Posts : Owed(p) => Id(p)' = Id(p)
  BY <1>3 DEF Owed, Id
<1>7. \A p \in Posts : pc'[p] \in {"enqueue", "wait"} => pc'[p] = pc[p] /\ msg'[p] = msg[p]
  BY DEF Sent
<1>8. Table'
  <2>1. \A p \in Posts : pc'[p] = "notify" => ~Request(p)'
    BY DEF Table, At, Request, Sent
  <2> QED
    BY <1>5, <1>6, <1>7, <2>1 DEF Table, At, Id
<1>9. Hand' /\ AnswersMatched'
  BY <1>7 DEF Hand, AnswersMatched, OwnAnswer, WaiterListed, At, Id
<1> QED
  BY <1>4, <1>8, <1>9

\* A stream's channel moves only by its own steps and by a broadcast.
LEMMA StillNewest == ASSUME NewestKept, UNCHANGED <<said, subs>> PROVE NewestKept'
  BY DEF NewestKept

\* Nothing that was hidden shows: what reaches the queue is past the checks.
LEMMA StillHidden ==
    ASSUME Types, Hidden, UNCHANGED web,
           \A q \in Posts : Queued(q)' \/ q \in heard' =>
                               Queued(q) \/ q \in heard \/ pc[q] \in {"enqueue", "notify"},
           \A p \in Posts : \/ pc'[p] = pc[p] /\ msg'[p] = msg[p]
                            \/ /\ pc[p] \notin {"idle", "done", "check", "refuse"}
                               /\ pc'[p] \notin {"idle", "done"}
                               /\ msg'[p] = msg[p]
    PROVE  Hidden'
<1>1. \A p \in barred : p \in Posts
  BY DEF Types, TypeOK
<1> QED
  BY <1>1 DEF Hidden, web

-----------------------------------------------------------------------------
(* SendRequest and SendNotification.                                       *)

\* A request is listed under a free id: none that is owed an answer has it.
LEMMA RegisterMatched == ASSUME Types, Matched, NEW p \in Posts, Register(p) PROVE Matched'
<1>1. /\ pc[p] = "register" /\ UNCHANGED <<msg, respCh, queue, loops, pipe>>
      /\ \/ pc' = [pc EXCEPT ![p] = "enqueue"] /\ pending[Id(p)] = None /\ pending' = [pending EXCEPT ![Id(p)] = p]
         \/ pc' = [pc EXCEPT ![p] = "result"] /\ pending' = pending
  BY DEF Register, At, Free, Goto
<1>2. CASE pc' = [pc EXCEPT ![p] = "enqueue"] /\ pending[Id(p)] = None /\ pending' = [pending EXCEPT ![Id(p)] = p]
  <2>1. /\ \A q \in Posts : Queued(q)' = Queued(q) /\ Answering(q)' = Answering(q) /\ Owed(q)' = Owed(q) /\ Id(q)' = Id(q)
        /\ \A q \in Posts : Request(q)' = Request(q)
    BY <1>1 DEF Queued, Answering, Owed, Request, pipe, Id
  <2>2. \A q \in Posts : q # p => pc'[q] = pc[q]
    BY <1>2 DEF Types, TypeOK
  <2>3. pc'[p] = "enqueue" /\ pending'[Id(p)] = p /\ \A i \in Ids : i # Id(p) => pending'[i] = pending[i]
    BY <1>2 DEF Types, TypeOK, Id
  <2>4. \A q \in Posts : Queued(q) \/ q \in heard => q # p
    BY <1>1 DEF Matched, Once, Sent
  <2>5. Once'
    BY <1>1, <2>1, <2>2, <2>4 DEF Matched, Once, pipe
  <2>6. \A q \in Posts : Id(q) \in Ids
    BY DEF Id, Types, TypeOK
  <2>7. Table'
    BY <1>1, <1>2, <2>1, <2>2, <2>3, <2>6 DEF Matched, Table, At
  <2>8. Hand' /\ AnswersMatched'
    BY <1>1, <1>2, <2>1, <2>2, <2>3, <2>6 DEF Matched, Hand, AnswersMatched, OwnAnswer, WaiterListed, At, loops
  <2> QED
    BY <2>5, <2>7, <2>8 DEF Matched
<1>3. CASE pc' = [pc EXCEPT ![p] = "result"] /\ pending' = pending
  BY <1>1, <1>3, StillMatched DEF Types, TypeOK, Wires, loops, pipe, Sent
<1> QED
  BY <1>1, <1>2, <1>3

\* A message joins the queue: p has not been there before, and is listed or is a note.
LEMMA QueuedMatched ==
    ASSUME Types, Matched, NEW p \in Posts, queue' = Append(queue, p), NEW s \in Sent,
           pc' = [pc EXCEPT ![p] = s], pc[p] = "enqueue" \/ (pc[p] = "notify" /\ s # "wait" /\ ~Request(p)),
           UNCHANGED <<msg, table, loops, pipe>>
    PROVE  Matched'
<1> USE DEF Matched
<1>1. /\ ~Queued(p) /\ p \notin heard
  BY DEF Once, Sent
<1>2. /\ DOMAIN queue' = 1..(Len(queue) + 1) /\ DOMAIN queue = 1..Len(queue) /\ Len(queue) \in Nat
      /\ \A i \in 1..Len(queue) : queue'[i] = queue[i]
      /\ queue'[Len(queue) + 1] = p
  BY AppendFacts DEF Types, TypeOK
<1>3. \A q : Queued(q)' <=> Queued(q) \/ q = p
  BY <1>2 DEF Queued
<1>4. \A i, j \in DOMAIN queue' : queue'[i] = queue'[j] => i = j
  BY <1>1, <1>2 DEF Once, Queued
<1>5. \A q \in Posts : pc'[q] = IF q = p THEN s ELSE pc[q]
  BY DEF Types, TypeOK
<1>6. \A q \in Posts : Answering(q)' = Answering(q) /\ Request(q)' = Request(q) /\ Id(q)' = Id(q)
  BY DEF Answering, Request, Id, pipe
<1>7. Once'
  BY <1>1, <1>3, <1>4, <1>5, <1>6 DEF Once, pipe
<1>8. \A q \in Posts : Owed(q)' => Owed(q) \/ (q = p /\ pc[p] = "enqueue" /\ pending[Id(p)] = p)
  BY <1>3, <1>6 DEF Owed, pipe, Table, At
<1>9. Table'
  BY <1>5, <1>6, <1>8 DEF Table, At, table, Sent
<1>10. Hand' /\ AnswersMatched'
  BY <1>5, <1>6 DEF Hand, AnswersMatched, OwnAnswer, WaiterListed, At, loops, table, Table
<1> QED
  BY <1>7, <1>9, <1>10

\* An enqueue, or a queue that is full.
LEMMA EnqueueMatched == ASSUME Types, Matched, NEW p \in Posts, Enqueue(p) \/ Notify(p) PROVE Matched'
<1>1. /\ pc[p] \in {"enqueue", "notify"} /\ UNCHANGED <<msg, table, loops, pipe>>
      /\ \/ /\ queue' = Append(queue, p) /\ pc[p] = "enqueue"
            /\ pc' = [pc EXCEPT ![p] = "wait"]
         \/ queue' = queue /\ pc' = [pc EXCEPT ![p] = "leave"]
         \/ pc[p] = "notify" /\ queue' \in {queue, Append(queue, p)} /\ pc' = [pc EXCEPT ![p] = "result"]
  BY DEF Enqueue, Notify, At, Goto
<1>2. {"wait", "leave", "result"} \subseteq Sent
  BY DEF Sent
<1>3. pc[p] = "notify" => ~Request(p)
  BY DEF Matched, Table, At
<1>4. CASE queue' = Append(queue, p)
  <2>1. PICK s \in {"wait", "result"} : pc' = [pc EXCEPT ![p] = s] /\ (pc[p] = "notify" => s = "result")
    BY <1>1, <1>4, AppendFacts DEF Types, TypeOK
  <2> QED
    BY <1>1, <1>2, <1>3, <1>4, <2>1, QueuedMatched
<1>5. CASE queue' = queue
  <2>1. pc'[p] \in {"leave", "result"} /\ \A q \in Posts : q # p => pc'[q] = pc[q]
    BY <1>1, <1>5, AppendFacts DEF Types, TypeOK
  <2> QED
    BY <1>1, <1>2, <1>5, <2>1, StillMatched DEF Wires, table, loops, pipe
<1> QED
  BY <1>1, <1>4, <1>5

\* A request leaves: its entry tells that nobody waits.
LEMMA LeaveMatched == ASSUME Types, Matched, NEW p \in Posts, Leave(p) PROVE Matched'
<1>1. /\ pc[p] = "leave" /\ pc' = [pc EXCEPT ![p] = "result"]
      /\ UNCHANGED <<msg, respCh, queue, loops, pipe>>
      /\ pending' = IF pending[Id(p)] = p THEN [pending EXCEPT ![Id(p)] = Abandoned] ELSE pending
  BY DEF Leave, At, Mine, Goto
<1>2. /\ \A q \in Posts : Queued(q)' = Queued(q) /\ Answering(q)' = Answering(q) /\ Owed(q)' = Owed(q) /\ Id(q)' = Id(q)
      /\ \A q \in Posts : Request(q)' = Request(q)
  BY <1>1 DEF Queued, Answering, Owed, Request, pipe, Id
<1>3. \A q \in Posts : pc'[q] = IF q = p THEN "result" ELSE pc[q]
  BY <1>1 DEF Types, TypeOK
<1>4. \A i \in Ids : pending'[i] = pending[i] \/ (pending[i] = p /\ pending'[i] = Abandoned)
  BY <1>1 DEF Types, TypeOK, Id
<1>5. \A q \in Posts : Id(q) \in Ids
  BY DEF Id, Types, TypeOK
<1>6. Once'
  BY <1>1, <1>2, <1>3 DEF Matched, Once, pipe, Sent
<1>7. Table'
  BY <1>1, <1>2, <1>3, <1>4, <1>5 DEF Matched, Table, At
<1>8. Hand' /\ AnswersMatched'
  BY <1>1, <1>2, <1>3, <1>4, <1>5 DEF Matched, Hand, AnswersMatched, OwnAnswer, WaiterListed, At, loops
<1> QED
  BY <1>6, <1>7, <1>8 DEF Matched

-----------------------------------------------------------------------------
(* The writer, the reader and the child.                                   *)

\* The oldest message goes to the child, or is lost with it.
LEMMA WriteMatched == ASSUME Types, Matched, Write PROVE Matched'
<1> USE DEF Matched
<1>1. /\ queue # <<>> /\ queue' = Tail(queue) /\ heard' \in {heard, heard \cup {Head(queue)}}
      /\ UNCHANGED <<pc, msg, table, reader, hand, out, answered>>
  BY DEF Write
<1>2. /\ DOMAIN queue = 1..Len(queue) /\ DOMAIN queue' = 1..(Len(queue) - 1) /\ Len(queue) \in Nat /\ Len(queue) > 0
      /\ \A i \in 1..(Len(queue) - 1) : queue'[i] = queue[i + 1]
      /\ Head(queue) = queue[1] /\ Head(queue) \in Posts
  BY <1>1, TailFacts DEF Types, TypeOK
<1> DEFINE h == Head(queue)
<1>3. Queued(h) /\ \A q : Queued(q)' => Queued(q) /\ q # h
  <2>1. Queued(h)
    BY <1>2 DEF Queued
  <2>2. ASSUME NEW q, Queued(q)' PROVE Queued(q) /\ q # h
    <3>1. PICK i \in 1..(Len(queue) - 1) : queue'[i] = q
      BY <2>2, <1>2 DEF Queued
    <3>2. queue[i + 1] = q /\ i + 1 \in DOMAIN queue /\ 1 \in DOMAIN queue /\ i + 1 # 1
      BY <3>1, <1>2
    <3> QED
      BY <3>2, <1>2 DEF Queued, Once
  <2> QED
    BY <2>1, <2>2
<1>4. ASSUME NEW i \in DOMAIN queue', NEW j \in DOMAIN queue', queue'[i] = queue'[j] PROVE i = j
  <2>1. queue[i + 1] = queue[j + 1] /\ i + 1 \in DOMAIN queue /\ j + 1 \in DOMAIN queue
    BY <1>2, <1>4
  <2>2. i + 1 = j + 1
    BY <2>1 DEF Once
  <2> QED
    BY <1>2, <2>2
<1> HIDE DEF h
<1>5. heard' \subseteq heard \cup {h} /\ h \in Posts
  BY <1>1, <1>2 DEF h
<1>6. \A q \in Posts : /\ Answering(q)' = Answering(q) /\ Request(q)' = Request(q) /\ Id(q)' = Id(q) /\ pc'[q] = pc[q]
                       /\ Owed(q)' => Owed(q)
  BY <1>1, <1>3, <1>5 DEF Answering, Request, Id, Owed
<1>7. Once'
  BY <1>1, <1>3, <1>4, <1>5, <1>6 DEF Once
<1>8. Table'
  BY <1>1, <1>6 DEF Table, At, table
<1>9. Hand' /\ AnswersMatched'
  BY <1>1, <1>6 DEF Hand, AnswersMatched, OwnAnswer, WaiterListed, At, table
<1> QED
  BY <1>7, <1>8, <1>9

\* A line is read: an answer finds its own request, or one that left.
LEMMA DemuxMatched == ASSUME Types, Matched, Demux PROVE Matched'
<1> USE DEF Matched
<1> DEFINE line == Head(out)
           to == pending[Id(line.of)]
<1>1. /\ reader = "scan" /\ out # <<>> /\ out' = Tail(out)
      /\ UNCHANGED <<pc, msg, respCh, queue, heard, answered>>
      /\ \/ /\ line.type = "answer" /\ pending' = [pending EXCEPT ![Id(line.of)] = None]
            /\ \/ to \in Posts /\ hand' = <<to, line.of>> /\ reader' = "send"
               \/ to \notin Posts /\ UNCHANGED <<hand, reader>>
         \/ line.type = "note" /\ UNCHANGED <<pending, hand, reader>>
  BY DEF Demux
<1>2. /\ DOMAIN out = 1..Len(out) /\ DOMAIN out' = 1..(Len(out) - 1) /\ Len(out) \in Nat /\ Len(out) > 0
      /\ \A i \in 1..(Len(out) - 1) : out'[i] = out[i + 1]
      /\ line = out[1] /\ line \in OutLines
  BY <1>1, TailFacts DEF Types, TypeOK
<1>3. /\ line.type = "answer" => Answering(line.of)
      /\ \A q : Answering(q)' => Answering(q) /\ (line.type = "answer" => q # line.of)
  <2>1. line.type = "answer" => Answering(line.of)
    BY <1>2 DEF Answering
  <2>2. ASSUME NEW q, Answering(q)' PROVE Answering(q) /\ (line.type = "answer" => q # line.of)
    <3>1. PICK i \in 1..(Len(out) - 1) : out'[i].type = "answer" /\ out'[i].of = q
      BY <2>2, <1>2 DEF Answering
    <3>2. /\ out[i + 1].type = "answer" /\ out[i + 1].of = q
          /\ i + 1 \in DOMAIN out /\ 1 \in DOMAIN out /\ i + 1 # 1
      BY <3>1, <1>2
    <3>3. Answering(q)
      BY <3>2 DEF Answering
    <3>4. line.type = "answer" => q # line.of
      BY <3>2, <1>2 DEF Once
    <3> QED
      BY <3>3, <3>4
  <2> QED
    BY <2>1, <2>2
<1>4. \A i, j \in DOMAIN out' : out'[i].type = "answer" /\ out'[j].type = "answer" /\ out'[i].of = out'[j].of => i = j
  BY <1>2 DEF Once
<1>5. line.type \in {"answer", "note"} /\ (line.type = "answer" => line.of \in Posts)
  BY <1>2 DEF OutLines
<1> HIDE DEF line
<1>6. \A q \in Posts : /\ Queued(q)' = Queued(q) /\ Request(q)' = Request(q) /\ Id(q)' = Id(q) /\ pc'[q] = pc[q]
                       /\ Owed(q)' => Owed(q)
                       /\ Id(q) \in Ids
  BY <1>1, <1>3 DEF Queued, Request, Id, Owed, Types, TypeOK
<1>7. Once'
  BY <1>1, <1>3, <1>4, <1>6 DEF Once
<1>8. CASE line.type = "answer"
  <2> PICK o \in Posts : o = line.of
    BY <1>5, <1>8
  <2>1. Answering(o) /\ Request(o) /\ o \in answered /\ Owed(o) /\ to \in {o, Abandoned}
    BY <1>3, <1>5, <1>8 DEF Once, Owed, Table
  <2>2. ~Owed(o)'
    <3>1. o \in heard /\ ~Queued(o)
      BY <2>1 DEF Once, Types, TypeOK
    <3> QED
      BY <1>1, <1>3, <1>6, <1>8, <2>1, <3>1 DEF Owed
  <2>3. pending' = [pending EXCEPT ![Id(o)] = None]
    BY <1>1, <1>8
  <2>4. \A q \in Posts : q # o /\ (Owed(q)' \/ At(q, "enqueue") \/ pending[Id(q)] = q) => Id(q) # Id(o)
    BY <1>6, <2>1 DEF Table, At
  <2>5. pc[o] \in Sent
    BY <2>1 DEF Once, Types, TypeOK
  <2>6. \A q \in Posts : Id(q) # Id(o) => pending'[Id(q)] = pending[Id(q)]
    BY <1>6, <2>3 DEF Types, TypeOK
  <2>7. \/ to = o /\ hand' = <<o, o>> /\ reader' = "send"
        \/ to = Abandoned /\ UNCHANGED <<hand, reader>>
    BY <1>1, <1>8, <2>1
  <2> HIDE DEF to
  <2>8. Table'
    BY <1>6, <2>2, <2>4, <2>5, <2>6 DEF Table, At, Sent
  <2>9. Hand'
    BY <1>1, <2>1, <2>7 DEF Hand
  <2>10. AnswersMatched'
    <3>1. hand[1] = None
      BY <1>1 DEF Hand
    <3>2. ASSUME NEW q \in Posts, pc[q] = "wait", respCh[q] = None PROVE pending'[Id(q)] = q \/ hand'[1] = q
      <4>1. pending[Id(q)] = q
        BY <3>1, <3>2 DEF AnswersMatched, WaiterListed, At
      <4>2. CASE q = o
        BY <2>1, <2>7, <4>1, <4>2 DEF to
      <4>3. CASE q # o
        BY <2>4, <2>6, <4>1, <4>3
      <4> QED
        BY <4>2, <4>3
    <3> QED
      BY <1>1, <1>6, <3>2 DEF AnswersMatched, OwnAnswer, WaiterListed, At
  <2> QED
    BY <1>7, <2>8, <2>9, <2>10
<1>9. CASE line.type = "note"
  BY <1>1, <1>6, <1>7, <1>9 DEF Table, Hand, AnswersMatched, OwnAnswer, WaiterListed, At
<1> QED
  BY <1>5, <1>8, <1>9

\* The answer reaches the channel of the request it is the answer to.
LEMMA DeliverMatched == ASSUME Types, Matched, Deliver PROVE Matched'
<1> USE DEF Matched
<1>1. /\ reader = "send" /\ respCh' = [respCh EXCEPT ![hand[1]] = hand[2]]
      /\ reader' = "scan" /\ hand' = <<None, None>> /\ UNCHANGED <<pc, msg, pending, queue, pipe>>
  BY DEF Deliver
<1>2. hand[1] = hand[2] /\ hand[1] \in Posts
  BY <1>1 DEF Hand
<1>3. \A q \in Posts : /\ Queued(q)' = Queued(q) /\ Answering(q)' = Answering(q) /\ Owed(q)' = Owed(q)
                       /\ Id(q)' = Id(q) /\ Request(q)' = Request(q)
  BY <1>1 DEF Queued, Answering, Owed, Request, pipe, Id
<1>4. \A q \in Posts : respCh'[q] = IF q = hand[1] THEN hand[1] ELSE respCh[q]
  BY <1>1, <1>2 DEF Types, TypeOK
<1>5. Once' /\ Table'
  BY <1>1, <1>3 DEF Once, Table, At, pipe
<1>6. Hand' /\ AnswersMatched'
  BY <1>1, <1>2, <1>3, <1>4 DEF Hand, AnswersMatched, OwnAnswer, WaiterListed, At
<1> QED
  BY <1>5, <1>6

\* The child answers what it has heard and not answered.
LEMMA AnswerMatched == ASSUME Types, Matched, NEW p \in Posts, ChildAnswers(p) PROVE Matched'
<1> USE DEF Matched
<1>1. /\ p \in heard \ answered /\ Request(p) /\ out' = Append(out, Answer(p)) /\ answered' = answered \cup {p}
      /\ UNCHANGED <<pc, msg, table, queue, loops, heard>>
  BY DEF ChildAnswers, Request
<1>2. Answer(p) \in OutLines /\ Answer(p).type = "answer" /\ Answer(p).of = p
  BY DEF Answer, OutLines
<1>3. /\ DOMAIN out' = 1..(Len(out) + 1) /\ DOMAIN out = 1..Len(out) /\ Len(out) \in Nat
      /\ \A i \in 1..Len(out) : out'[i] = out[i]
      /\ out'[Len(out) + 1] = Answer(p)
  BY <1>1, <1>2, AppendFacts DEF Types
<1>4. ~Answering(p) /\ \A q : Answering(q)' <=> Answering(q) \/ q = p
  BY <1>1, <1>2, <1>3 DEF Answering, Once
<1>5. \A i, j \in DOMAIN out' : out'[i].type = "answer" /\ out'[j].type = "answer" /\ out'[i].of = out'[j].of => i = j
  BY <1>2, <1>3, <1>4 DEF Once, Answering
<1>6. \A q \in Posts : /\ Queued(q)' = Queued(q) /\ Request(q)' = Request(q) /\ Id(q)' = Id(q) /\ pc'[q] = pc[q]
                       /\ Owed(q)' => Owed(q)
  BY <1>1, <1>4 DEF Queued, Request, Id, Owed
<1>7. Once'
  BY <1>1, <1>4, <1>5, <1>6 DEF Once
<1>8. Table' /\ Hand' /\ AnswersMatched'
  BY <1>1, <1>6 DEF Table, Hand, AnswersMatched, OwnAnswer, WaiterListed, At, table, loops
<1> QED
  BY <1>7, <1>8

\* It says something unasked, or is gone with what the scanner has not read.
LEMMA OutMatched ==
    ASSUME Types, Matched, UNCHANGED <<pc, msg, table, queue, loops, heard, answered>>,
           \/ \E n \in Nat : out' = Append(out, Note(n))
           \/ \E n \in 0..Len(out) : out' = SubSeq(out, 1, n)
    PROVE  Matched'
<1> USE DEF Matched
<1>1. /\ DOMAIN out = 1..Len(out)
      /\ \A i \in DOMAIN out' : out'[i].type # "note" => i \in DOMAIN out /\ out[i] = out'[i]
  <2>1. CASE \E n \in Nat : out' = Append(out, Note(n))
    <3>1. PICK n \in Nat : out' = Append(out, Note(n))
      BY <2>1
    <3>2. Note(n) \in OutLines /\ Note(n).type = "note"
      BY DEF Note, OutLines
    <3> QED
      BY <3>1, <3>2, AppendFacts DEF Types
  <2>2. CASE \E n \in 0..Len(out) : out' = SubSeq(out, 1, n)
    <3>1. PICK n \in 0..Len(out) : out' = SubSeq(out, 1, n)
      BY <2>2
    <3>2. Len(out) \in Nat
      BY DEF Types
    <3> QED
      BY <3>1, <3>2, PrefixFacts DEF Types
  <2> QED
    BY <2>1, <2>2
<1>2. \A q : Answering(q)' => Answering(q)
  BY <1>1 DEF Answering
<1>3. \A i, j \in DOMAIN out' : out'[i].type = "answer" /\ out'[j].type = "answer" /\ out'[i].of = out'[j].of => i = j
  BY <1>1 DEF Once
<1>4. \A q \in Posts : /\ Queued(q)' = Queued(q) /\ Request(q)' = Request(q) /\ Id(q)' = Id(q) /\ pc'[q] = pc[q]
                       /\ Owed(q)' => Owed(q)
  BY <1>2 DEF Queued, Request, Id, Owed
<1>5. Once'
  BY <1>2, <1>3, <1>4 DEF Once
<1>6. Table' /\ Hand' /\ AnswersMatched'
  BY <1>4 DEF Table, Hand, AnswersMatched, OwnAnswer, WaiterListed, At, table, loops
<1> QED
  BY <1>5, <1>6

-----------------------------------------------------------------------------
(* The other invariants, step by step.                                     *)

\* The translator's steps: its posts are past the checks, and only those reach the queue.
LEMMA TranslatorHidden ==
    ASSUME Types, Hidden, UNCHANGED web,
           \/ \E p \in Posts : Register(p) \/ Enqueue(p) \/ Await(p) \/ Leave(p) \/ Notify(p) \/ ChildAnswers(p)
           \/ Write \/ Demux \/ Deliver \/ ChildSpeaks \/ ReaderEnds
           \/ \E s \in Streams : Subscribe(s) \/ Forward(s) \/ Unsubscribe(s)
    PROVE  Hidden'
<1>1. ASSUME NEW p \in Posts, Register(p) \/ Enqueue(p) \/ Await(p) \/ Leave(p) \/ Notify(p) PROVE Hidden'
  <2>1. /\ pc[p] \in {"register", "enqueue", "wait", "leave", "notify"} /\ msg' = msg /\ heard' = heard
        /\ \E s \in {"enqueue", "result", "wait", "leave"} : pc' = [pc EXCEPT ![p] = s]
    BY <1>1 DEF Register, Enqueue, Await, Leave, Notify, At, Goto, pipe
  <2>2. queue' = queue \/ (queue' = Append(queue, p) /\ pc[p] \in {"enqueue", "notify"})
    BY <1>1 DEF Register, Enqueue, Await, Leave, Notify, At
  <2>3. \A q \in Posts : Queued(q)' => Queued(q) \/ (q = p /\ pc[p] \in {"enqueue", "notify"})
    <3>1. CASE queue' = queue
      BY <3>1 DEF Queued
    <3>2. CASE queue' = Append(queue, p) /\ pc[p] \in {"enqueue", "notify"}
      BY <3>2, AppendFacts DEF Queued, Types, TypeOK
    <3> QED
      BY <2>2, <3>1, <3>2
  <2> QED
    BY <2>1, <2>3, StillHidden DEF Types, TypeOK
<1>2. CASE Write
  <2>1. queue # <<>> /\ queue' = Tail(queue) /\ heard' \in {heard, heard \cup {Head(queue)}} /\ UNCHANGED <<pc, msg>>
    BY <1>2 DEF Write
  <2>2. Queued(Head(queue)) /\ \A q : Queued(q)' => Queued(q)
    <3>1. /\ DOMAIN queue = 1..Len(queue) /\ DOMAIN queue' = 1..(Len(queue) - 1) /\ Len(queue) \in Nat
          /\ Len(queue) > 0 /\ Head(queue) = queue[1]
          /\ \A i \in 1..(Len(queue) - 1) : queue'[i] = queue[i + 1]
      BY <2>1, TailFacts DEF Types, TypeOK
    <3>2. ASSUME NEW q, Queued(q)' PROVE Queued(q)
      <4>1. PICK i \in 1..(Len(queue) - 1) : queue'[i] = q
        BY <3>1, <3>2 DEF Queued
      <4>2. queue[i + 1] = q /\ i + 1 \in DOMAIN queue
        BY <3>1, <4>1
      <4> QED
        BY <4>2 DEF Queued
    <3>3. 1 \in DOMAIN queue
      BY <3>1
    <3> QED
      BY <3>1, <3>2, <3>3 DEF Queued
  <2> QED
    BY <2>1, <2>2, StillHidden
<1>3. CASE \/ \E p \in Posts : ChildAnswers(p)
           \/ Demux \/ Deliver \/ ChildSpeaks \/ ReaderEnds
           \/ \E s \in Streams : Subscribe(s) \/ Forward(s) \/ Unsubscribe(s)
  <2>1. UNCHANGED <<pc, msg, queue, heard>>
    BY <1>3 DEF ChildAnswers, Demux, Deliver, ChildSpeaks, ReaderEnds, Subscribe, Forward, Unsubscribe, pipe
  <2>2. \A q : Queued(q)' => Queued(q)
    BY <2>1 DEF Queued
  <2> QED
    BY <2>1, <2>2, StillHidden
<1> QED
  BY <1>1, <1>2, <1>3

\* The handlers' own steps: the check against the set as it is, and what is written back.
LEMMA HandlersHidden ==
    ASSUME Types, Matched, Hidden, NEW p \in Posts,
           Arrive(p) \/ CheckSet(p) \/ RefuseExcludedCall(p) \/ Reply(p) \/ HandlerLeaves(p)
    PROVE  Hidden'
<1>1. /\ UNCHANGED <<queue, heard>> /\ \A q : Queued(q)' = Queued(q)
  BY DEF Arrive, CheckSet, RefuseExcludedCall, Reply, HandlerLeaves, pipe, tvars, Queued
<1>2. barred \subseteq Posts
  BY DEF Types, TypeOK
<1>3. CASE Arrive(p)
  <2>1. /\ pc[p] = "idle" /\ barred' = (IF excluded THEN barred \cup {p} ELSE barred)
        /\ UNCHANGED <<reply, excluded>>
        /\ \E k \in Kinds, i \in Ids, s \in {"check", "register"} :
              /\ msg' = [msg EXCEPT ![p] = [kind |-> k, id |-> i]] /\ pc' = [pc EXCEPT ![p] = s]
              /\ k = "call" => s = "check"
    BY <1>3 DEF Arrive, At, Goto, Kinds
  <2>2. ~Queued(p) /\ p \notin heard
    BY <2>1 DEF Matched, Once, Sent
  <2>3. /\ \A q \in Posts : q # p => pc'[q] = pc[q] /\ msg'[q] = msg[q]
        /\ pc'[p] \in {"check", "register"} /\ (msg'[p].kind = "call" => pc'[p] = "check")
    BY <2>1 DEF Types, TypeOK
  <2> QED
    BY <1>1, <1>2, <2>1, <2>2, <2>3 DEF Hidden
<1>4. CASE CheckSet(p) \/ (RefuseExcludedCall(p) /\ ~Refused(p))
  <2>1. /\ pc[p] \in {"check", "refuse"} /\ UNCHANGED <<msg, reply, excluded, barred>>
        /\ \E s \in {"refuse", "notify", "register"} :
              pc' = [pc EXCEPT ![p] = s] /\ (excluded /\ msg[p].kind = "call" => s = "refuse")
    BY <1>4 DEF CheckSet, RefuseExcludedCall, Refused, Dispatch, Goto, At, web
  <2>2. /\ \A q \in Posts : q # p => pc'[q] = pc[q]
        /\ pc'[p] \in {"refuse", "notify", "register"} /\ (excluded /\ msg[p].kind = "call" => pc'[p] = "refuse")
    BY <2>1 DEF Types, TypeOK
  <2> QED
    BY <1>1, <1>2, <2>1, <2>2 DEF Hidden
<1>5. CASE (RefuseExcludedCall(p) /\ Refused(p)) \/ Reply(p)
  <2>1. /\ UNCHANGED <<msg, excluded, barred>> /\ pc' = [pc EXCEPT ![p] = "done"]
        /\ \E r : reply' = [reply EXCEPT ![p] = r] /\ (excluded /\ reply[p] # "shown" => r # "shown")
        /\ pc[p] \in {"refuse", "result"}
    BY <1>5 DEF RefuseExcludedCall, Reply, Goto, Shown, At, Types, TypeOK
  <2>2. /\ \A q \in Posts : q # p => pc'[q] = pc[q] /\ reply'[q] = reply[q]
        /\ pc'[p] = "done" /\ (excluded /\ reply[p] # "shown" => reply'[p] # "shown")
    BY <2>1 DEF Types, TypeOK
  <2> QED
    BY <1>1, <1>2, <2>1, <2>2 DEF Hidden
<1>6. CASE HandlerLeaves(p)
  <2>1. /\ UNCHANGED <<pc, msg, excluded, barred>>
        /\ \A q \in Posts : reply'[q] = IF q = p THEN "gone" ELSE reply[q]
    BY <1>6 DEF HandlerLeaves, tvars, Types, TypeOK
  <2> QED
    BY <1>1, <1>2, <2>1 DEF Hidden
<1> QED
  BY <1>3, <1>4, <1>5, <1>6

\* The set is replaced: with an empty one nothing is barred any more.
LEMMA SetHidden == ASSUME Types, Hidden, NEW c, SetExcludeTools(c) PROVE Hidden'
<1>1. /\ UNCHANGED <<pc, msg, reply, queue, heard>>
      /\ barred' = IF excluded' THEN barred ELSE {}
  BY DEF SetExcludeTools, tvars, pipe
<1>2. \A q : Queued(q)' = Queued(q)
  BY <1>1 DEF Queued
<1> QED
  BY <1>1, <1>2 DEF Hidden

\* A full channel has room for the newest, and ends with it.
LEMMA OverflowKeeps ==
    ASSUME NEW ch \in Seq(Nat), Len(ch) <= QueueDepth, NEW n \in Nat
    PROVE  /\ Overflow(ch, n) \in Seq(Nat) /\ Len(Overflow(ch, n)) <= QueueDepth
           /\ Overflow(ch, n) # <<>> /\ Overflow(ch, n)[Len(Overflow(ch, n))] = n
<1> DEFINE t == IF Len(ch) < QueueDepth THEN ch ELSE Tail(ch)
<1>1. t \in Seq(Nat) /\ Len(t) \in Nat /\ Len(t) + 1 <= QueueDepth
  <2>1. CASE Len(ch) < QueueDepth
    BY <2>1
  <2>2. CASE ~(Len(ch) < QueueDepth)
    <3>1. ch # <<>>
      BY <2>2
    <3> QED
      BY <2>2, <3>1, TailFacts
  <2> QED
    BY <2>1, <2>2
<1> HIDE DEF t
<1>2. Overflow(ch, n) = Append(t, n)
  BY DEF Overflow, t
<1> QED
  BY <1>1, <1>2, AppendFacts, SMTT(30)

\* What the streams and the reader do to the channels.
LEMMA StreamStep ==
    ASSUME Types, NewestKept,
           \/ Demux \/ \E s \in Streams : Subscribe(s) \/ Forward(s) \/ Unsubscribe(s)
    PROVE  /\ NewestKept' /\ said' \in Nat /\ subs' \in [Streams -> Channels]
           /\ \A s \in Streams : Len(subs'[s].ch) <= QueueDepth
<1> USE DEF Types, TypeOK
<1>1. ASSUME NEW s \in Streams, NEW new \in Channels, said' = said, subs' = [subs EXCEPT ![s] = new],
             Len(new.ch) <= QueueDepth,
             new.open => said = IF new.ch = <<>> THEN new.got ELSE new.ch[Len(new.ch)]
      PROVE  /\ NewestKept' /\ said' \in Nat /\ subs' \in [Streams -> Channels]
             /\ \A r \in Streams : Len(subs'[r].ch) <= QueueDepth
  BY <1>1 DEF NewestKept
<1>2. CASE Demux
  <2>1. \/ UNCHANGED <<said, subs>>
        \/ out # <<>> /\ Head(out).type = "note" /\ Broadcast(Head(out).n)
    BY <1>2 DEF Demux
  <2>2. CASE UNCHANGED <<said, subs>>
    BY <2>2, StillNewest
  <2>3. CASE out # <<>> /\ Head(out).type = "note" /\ Broadcast(Head(out).n)
    <3>1. PICK n : n = Head(out).n
      OBVIOUS
    <3>2. n \in Nat /\ said' = n
          /\ subs' = [s \in Streams |-> IF subs[s].open THEN [subs[s] EXCEPT !.ch = Overflow(@, n)] ELSE subs[s]]
      BY <2>3, <3>1, TailFacts DEF OutLines, Broadcast
    <3>3. ASSUME NEW s \in Streams
          PROVE  /\ subs'[s] \in Channels /\ Len(subs'[s].ch) <= QueueDepth
                 /\ subs'[s].open => subs'[s].ch # <<>> /\ subs'[s].ch[Len(subs'[s].ch)] = n
      <4>1. subs[s] \in Channels /\ subs[s].ch \in Seq(Nat) /\ Len(subs[s].ch) <= QueueDepth
        BY DEF Channels
      <4> DEFINE o == Overflow(subs[s].ch, n)
      <4>2. o \in Seq(Nat) /\ Len(o) <= QueueDepth /\ o # <<>> /\ o[Len(o)] = n
        BY <3>2, <4>1, OverflowKeeps
      <4> HIDE DEF o
      <4>3. [subs[s] EXCEPT !.ch = o] \in Channels /\ [subs[s] EXCEPT !.ch = o].ch = o
        BY <4>1, <4>2 DEF Channels
      <4>4. subs'[s] = IF subs[s].open THEN [subs[s] EXCEPT !.ch = o] ELSE subs[s]
        BY <3>2 DEF o
      <4> QED
        BY <4>1, <4>2, <4>3, <4>4
    <3>4. NewestKept'
      BY <3>2, <3>3 DEF NewestKept
    <3>5. subs' \in [Streams -> Channels]
      BY <3>2, <3>3
    <3> QED
      BY <3>2, <3>3, <3>4, <3>5
  <2> QED
    BY <2>1, <2>2, <2>3
<1>3. ASSUME NEW s \in Streams, Subscribe(s) \/ Unsubscribe(s)
      PROVE  /\ NewestKept' /\ said' \in Nat /\ subs' \in [Streams -> Channels]
             /\ \A r \in Streams : Len(subs'[r].ch) <= QueueDepth
  <2>1. \E new \in {[open |-> TRUE, ch |-> <<>>, got |-> said], [open |-> FALSE, ch |-> <<>>, got |-> 0]} :
           said' = said /\ subs' = [subs EXCEPT ![s] = new]
    BY <1>3 DEF Subscribe, Unsubscribe, Closed
  <2>2. \A b \in BOOLEAN, g \in Nat :
           LET new == [open |-> b, ch |-> <<>>, got |-> g]
           IN  new \in Channels /\ Len(new.ch) <= QueueDepth /\ new.ch = <<>> /\ new.got = g /\ new.open = b
    BY DEF Channels
  <2>3. CASE said' = said /\ subs' = [subs EXCEPT ![s] = [open |-> TRUE, ch |-> <<>>, got |-> said]]
    BY <1>1, <2>2, <2>3
  <2>4. CASE said' = said /\ subs' = [subs EXCEPT ![s] = [open |-> FALSE, ch |-> <<>>, got |-> 0]]
    BY <1>1, <2>2, <2>4
  <2> QED
    BY <2>1, <2>3, <2>4
<1>4. ASSUME NEW s \in Streams, Forward(s)
      PROVE  /\ NewestKept' /\ said' \in Nat /\ subs' \in [Streams -> Channels]
             /\ \A r \in Streams : Len(subs'[r].ch) <= QueueDepth
  <2> DEFINE ch == subs[s].ch
             new == [subs[s] EXCEPT !.ch = Tail(ch), !.got = Head(ch)]
  <2>1. /\ subs[s].open /\ ch # <<>> /\ said' = said /\ subs' = [subs EXCEPT ![s] = new]
        /\ ch \in Seq(Nat) /\ subs[s] \in Channels /\ Len(ch) <= QueueDepth
    BY <1>4 DEF Forward, Channels
  <2>2. /\ Tail(ch) \in Seq(Nat) /\ Len(Tail(ch)) = Len(ch) - 1 /\ Head(ch) \in Nat
        /\ Len(Tail(ch)) <= QueueDepth /\ said = ch[Len(ch)]
        /\ said = IF Tail(ch) = <<>> THEN Head(ch) ELSE Tail(ch)[Len(Tail(ch))]
    <3>1. said = ch[Len(ch)]
      BY <2>1 DEF NewestKept
    <3> HIDE DEF ch
    <3>2. ch \in Seq(Nat) /\ ch # <<>> /\ Len(ch) <= QueueDepth
      BY <2>1
    <3>3. /\ Tail(ch) \in Seq(Nat) /\ Len(Tail(ch)) = Len(ch) - 1 /\ Head(ch) \in Nat /\ Len(ch) \in Nat
      BY <3>2, TailFacts
    <3>4. ch[Len(ch)] = IF Tail(ch) = <<>> THEN Head(ch) ELSE Tail(ch)[Len(Tail(ch))]
      BY <3>2, LastStays
    <3> QED
      BY <3>1, <3>2, <3>3, <3>4
  <2>3. new \in Channels /\ new.ch = Tail(ch) /\ new.got = Head(ch)
    BY <2>1, <2>2 DEF Channels
  <2> HIDE DEF new, ch
  <2> QED
    BY <1>1, <2>1, <2>2, <2>3
<1> QED
  BY <1>2, <1>3, <1>4

-----------------------------------------------------------------------------
(* Types, in the parts that a step changes together.                       *)

Positions == {"idle", "check", "refuse", "register", "enqueue", "wait", "leave", "notify", "result", "done"}
Results   == {"none", "answer", "gone", "error", "busy", "accepted"}
Replies   == Results \cup {"shown", "refused"}

ClientTypes ==
    /\ pc \in [Posts -> Positions] /\ msg \in [Posts -> [kind : Kinds, id : Ids]]
    /\ result \in [Posts -> Results] /\ ctx \subseteq Posts
WebTypes == reply \in [Posts -> Replies] /\ excluded \in BOOLEAN /\ barred \subseteq Posts
TableTypes ==
    /\ pending \in [Ids -> Posts \cup {None, Abandoned}] /\ respCh \in [Posts -> Posts \cup {None}]
    /\ reader \in {"scan", "send", "gone"} /\ hand \in (Posts \cup {None}) \X (Posts \cup {None})
QueueTypes == queue \in Seq(Posts) /\ Len(queue) <= QueueDepth /\ writer \in {"run", "gone"} /\ heard \subseteq Posts
OutTypes ==
    /\ child \in {"up", "gone"} /\ answered \subseteq heard
    /\ out \in Seq(OutLines) /\ Len(out) <= PipeLines /\ notes \in Nat
StreamTypes == /\ said \in Nat /\ subs \in [Streams -> Channels]
               /\ \A s \in Streams : Len(subs[s].ch) <= QueueDepth
ProcTypes ==
    /\ main \in {"starting", "serving", "term", "grace", "kill", "reap", "shutdown", "ended"}
    /\ childDone \in {"empty", "full"} /\ stolen \in BOOLEAN

Parts == ClientTypes /\ WebTypes /\ TableTypes /\ QueueTypes /\ OutTypes /\ StreamTypes /\ ProcTypes

\* The parts are all there is to the types.
LEMMA PartsAreTypes == /\ Types <=> Parts /\ events \in Nat
                       /\ Types' <=> Parts' /\ events' \in Nat
<1> USE DEF Types, TypeOK, Parts, ClientTypes, WebTypes, TableTypes, QueueTypes, OutTypes, StreamTypes, ProcTypes,
        Positions, Results, Replies
<1>1. Types => Parts /\ events \in Nat
  OBVIOUS
<1>2. Parts /\ events \in Nat => Types
  OBVIOUS
<1>3. Types' => Parts' /\ events' \in Nat
  OBVIOUS
<1>4. Parts' /\ events' \in Nat => Types'
  OBVIOUS
<1> HIDE DEF Types, Parts
<1> QED
  BY <1>1, <1>2, <1>3, <1>4

\* A part none of whose variables changes keeps its types.
LEMMA PartsStay ==
    ASSUME Parts
    PROVE  /\ UNCHANGED <<pc, msg, result, ctx>> => ClientTypes'
           /\ UNCHANGED web => WebTypes'
           /\ UNCHANGED <<table, reader, hand>> => TableTypes'
           /\ UNCHANGED <<queue, writer, heard>> => QueueTypes'
           /\ UNCHANGED <<child, heard, answered, out, notes>> => OutTypes'
           /\ UNCHANGED <<said, subs>> => StreamTypes'
           /\ UNCHANGED proc => ProcTypes'
<1> USE DEF Parts
<1>1. UNCHANGED <<pc, msg, result, ctx>> => ClientTypes'
  BY DEF ClientTypes
<1>2. UNCHANGED web => WebTypes'
  BY DEF WebTypes, web
<1>3. UNCHANGED <<table, reader, hand>> => TableTypes'
  BY DEF TableTypes, table
<1>4. UNCHANGED <<queue, writer, heard>> => QueueTypes'
  BY DEF QueueTypes
<1>5. UNCHANGED <<child, heard, answered, out, notes>> => OutTypes'
  BY DEF OutTypes
<1>6. UNCHANGED <<said, subs>> => StreamTypes'
  BY DEF StreamTypes
<1>7. UNCHANGED proc => ProcTypes'
  BY DEF ProcTypes, proc
<1> QED
  BY <1>1, <1>2, <1>3, <1>4, <1>5, <1>6, <1>7

\* The requests' own steps.
LEMMA PostTypes ==
    ASSUME Types, NEW p \in Posts, PostStep(p) \/ Arrive(p) \/ HandlerLeaves(p) \/ ClientGoes(p),
           events' \in Nat
    PROVE  Types'
<1>0. Parts
  BY PartsAreTypes
<1>1. /\ ClientTypes /\ WebTypes /\ TableTypes /\ QueueTypes
      /\ Id(p) \in Ids
  BY <1>0 DEF Parts, ClientTypes, Id
<1> SUFFICES Parts'
  BY PartsAreTypes
<1>2. CASE CheckSet(p) \/ RefuseExcludedCall(p) \/ Reply(p) \/ Arrive(p) \/ HandlerLeaves(p) \/ ClientGoes(p)
  <2>1. UNCHANGED <<table, queue, loops, pipe, said, subs, proc>>
    BY <1>2 DEF CheckSet, RefuseExcludedCall, Reply, Arrive, HandlerLeaves, ClientGoes, tvars
  <2>2. TableTypes' /\ QueueTypes' /\ OutTypes' /\ StreamTypes' /\ ProcTypes'
    BY <1>0, <2>1, PartsStay DEF loops, pipe
  <2>3. pc' = pc \/ \E s \in Positions : Goto(p, s)
    BY <1>2 DEF CheckSet, RefuseExcludedCall, Reply, Arrive, HandlerLeaves, ClientGoes, Dispatch, Positions, tvars
  <2>4. pc' \in [Posts -> Positions]
    BY <1>1, <2>3 DEF ClientTypes, Goto
  <2>5. msg' = msg \/ \E k \in Kinds, i \in Ids : msg' = [msg EXCEPT ![p] = [kind |-> k, id |-> i]]
    BY <1>2, PostAssumption DEF CheckSet, RefuseExcludedCall, Reply, Arrive, HandlerLeaves, ClientGoes, tvars, Kinds
  <2>6. msg' \in [Posts -> [kind : Kinds, id : Ids]]
    BY <1>1, <2>5 DEF ClientTypes
  <2>7. result' = result /\ ctx' \subseteq ctx \cup {p} /\ excluded' = excluded /\ barred' \subseteq barred \cup {p}
    BY <1>2 DEF CheckSet, RefuseExcludedCall, Reply, Arrive, HandlerLeaves, ClientGoes, tvars, web
  <2>8. reply' = reply \/ \E r \in Replies : reply' = [reply EXCEPT ![p] = r]
    <3>1. CASE Reply(p)
      <4>1. reply[p] \in Replies /\ result[p] \in Replies /\ "shown" \in Replies
        BY <1>1 DEF WebTypes, ClientTypes, Replies
      <4>2. reply' = [reply EXCEPT ![p] = IF reply[p] = "gone" THEN reply[p]
                        ELSE IF result[p] = "answer" /\ Shown(p) THEN "shown" ELSE result[p]]
        BY <3>1 DEF Reply
      <4> QED
        BY <4>1, <4>2
    <3> QED
      BY <1>2, <3>1 DEF CheckSet, RefuseExcludedCall, Arrive, HandlerLeaves, ClientGoes, web, Replies, Results
  <2>9. ClientTypes'
    BY <1>1, <2>4, <2>6, <2>7 DEF ClientTypes
  <2>10. WebTypes'
    BY <1>1, <2>7, <2>8 DEF WebTypes
  <2> QED
    BY <2>2, <2>9, <2>10 DEF Parts
<1>3. CASE (Register(p) \/ Enqueue(p) \/ Await(p) \/ Leave(p) \/ Notify(p)) /\ UNCHANGED <<web, proc>>
  <2>1. UNCHANGED <<msg, ctx, respCh, loops, pipe, said, subs, web, proc>>
    BY <1>3 DEF Register, Enqueue, Await, Leave, Notify, table
  <2>2. OutTypes' /\ StreamTypes' /\ ProcTypes' /\ WebTypes'
    BY <1>0, <2>1, PartsStay DEF pipe
  <2>3. \E s \in Positions : Goto(p, s)
    BY <1>3 DEF Register, Enqueue, Await, Leave, Notify, Positions
  <2>4. result' = result \/ \E r \in Results : Returns(p, r)
    BY <1>3 DEF Register, Enqueue, Await, Leave, Notify, Results
  <2>5. ClientTypes'
    BY <1>1, <2>1, <2>3, <2>4 DEF ClientTypes, Goto, Returns
  <2>6. pending' = pending \/ \E x \in {p, Abandoned} : pending' = [pending EXCEPT ![Id(p)] = x]
    BY <1>3 DEF Register, Enqueue, Await, Leave, Notify, table
  <2>7. TableTypes'
    BY <1>1, <2>1, <2>6 DEF TableTypes, loops
  <2>8. queue' = queue \/ (queue' = Append(queue, p) /\ Len(queue) < QueueDepth)
    BY <1>3 DEF Register, Enqueue, Await, Leave, Notify
  <2>9. queue' \in Seq(Posts) /\ Len(queue') <= QueueDepth
    BY <1>1, <2>8, AppendFacts DEF QueueTypes
  <2>10. QueueTypes'
    BY <1>1, <2>1, <2>9 DEF QueueTypes, loops, pipe
  <2> QED
    BY <2>2, <2>5, <2>7, <2>10 DEF Parts
<1> QED
  BY <1>2, <1>3 DEF PostStep

\* The writer, the reader and the child.
LEMMA PumpTypes ==
    ASSUME Types, NewestKept, UNCHANGED <<web, proc>>, events' \in Nat,
           \/ Write \/ Demux \/ Deliver \/ ChildSpeaks \/ ReaderEnds
           \/ \E p \in Posts : ChildAnswers(p)
    PROVE  Types'
<1>0. Parts
  BY PartsAreTypes
<1>1. TableTypes /\ QueueTypes /\ OutTypes /\ WebTypes' /\ ProcTypes'
  BY <1>0, PartsStay DEF Parts
<1>2. ClientTypes'
  BY <1>0, PartsStay DEF Write, Demux, Deliver, ChildSpeaks, ReaderEnds, ChildAnswers
<1> SUFFICES TableTypes' /\ QueueTypes' /\ OutTypes' /\ StreamTypes'
  BY <1>1, <1>2, PartsAreTypes DEF Parts
<1>3. CASE Write
  <2>1. /\ queue' \in Seq(Posts) /\ Len(queue') <= QueueDepth /\ Head(queue) \in Posts
    BY <1>1, <1>3, TailFacts DEF Write, QueueTypes
  <2>2. TableTypes' /\ StreamTypes'
    BY <1>0, <1>3, PartsStay DEF Write
  <2>3. QueueTypes' /\ OutTypes'
    BY <1>1, <1>3, <2>1 DEF Write, QueueTypes, OutTypes
  <2> QED
    BY <2>2, <2>3
<1>4. CASE Demux
  <2>1. out # <<>> /\ out' = Tail(out) /\ out' \in Seq(OutLines) /\ Len(out') <= PipeLines /\ Head(out) \in OutLines
    BY <1>1, <1>4, TailFacts DEF Demux, OutTypes
  <2>2. StreamTypes'
    BY <1>4, StreamStep DEF StreamTypes
  <2>3. OutTypes' /\ QueueTypes'
    BY <1>1, <1>4, <2>1 DEF Demux, OutTypes, QueueTypes
  <2>4. CASE Head(out).type = "answer"
    <3> DEFINE of == Head(out).of
               to == pending[Id(of)]
    <3>1. of \in Posts /\ Id(of) \in Ids
      BY <1>0, <2>1, <2>4 DEF OutLines, Id, Parts, ClientTypes
    <3>2. /\ pending' = [pending EXCEPT ![Id(of)] = None] /\ respCh' = respCh
          /\ \/ to \in Posts /\ hand' = <<to, of>> /\ reader' = "send"
             \/ UNCHANGED <<hand, reader>>
      BY <1>4, <2>4 DEF Demux
    <3> QED
      BY <1>1, <2>2, <2>3, <3>1, <3>2 DEF TableTypes
  <2>5. CASE Head(out).type # "answer"
    <3>1. UNCHANGED <<table, hand, reader>>
      BY <1>4, <2>5 DEF Demux, table
    <3> QED
      BY <1>0, <2>2, <2>3, <3>1, PartsStay
  <2> QED
    BY <2>4, <2>5
<1>5. CASE Deliver
  <2>1. StreamTypes' /\ QueueTypes' /\ OutTypes'
    BY <1>0, <1>5, PartsStay DEF Deliver, pipe
  <2>2. TableTypes'
    BY <1>1, <1>5 DEF Deliver, TableTypes
  <2> QED
    BY <2>1, <2>2
<1>6. CASE ReaderEnds
  <2>1. StreamTypes' /\ QueueTypes' /\ OutTypes'
    BY <1>0, <1>6, PartsStay DEF ReaderEnds, pipe
  <2>2. TableTypes'
    BY <1>1, <1>6 DEF ReaderEnds, TableTypes, table
  <2> QED
    BY <2>1, <2>2
<1>7. ASSUME ChildSpeaks \/ \E p \in Posts : ChildAnswers(p)
      PROVE  TableTypes' /\ QueueTypes' /\ OutTypes' /\ StreamTypes'
  <2>1. TableTypes' /\ QueueTypes' /\ StreamTypes'
    BY <1>0, <1>7, PartsStay DEF ChildSpeaks, ChildAnswers, loops
  <2>2. /\ child' = child /\ heard' = heard /\ answered' \subseteq heard /\ notes' \in Nat /\ Len(out) < PipeLines
        /\ \E l \in OutLines : out' = Append(out, l)
    <3>1. CASE ChildSpeaks
      <4>1. Note(notes + 1) \in OutLines /\ notes + 1 \in Nat
        BY <1>1 DEF Note, OutLines, OutTypes
      <4> QED
        BY <1>1, <3>1, <4>1 DEF ChildSpeaks, OutTypes
    <3>2. ASSUME NEW p \in Posts, ChildAnswers(p)
          PROVE /\ child' = child /\ heard' = heard /\ answered' \subseteq heard /\ notes' \in Nat /\ Len(out) < PipeLines
                /\ \E l \in OutLines : out' = Append(out, l)
      <4>1. Answer(p) \in OutLines
        BY DEF Answer, OutLines
      <4> QED
        BY <1>1, <3>2, <4>1 DEF ChildAnswers, OutTypes
    <3> QED
      BY <1>7, <3>1, <3>2
  <2>3. out' \in Seq(OutLines) /\ Len(out') <= PipeLines
    BY <1>1, <2>2, AppendFacts DEF OutTypes
  <2>4. OutTypes'
    BY <1>1, <2>2, <2>3 DEF OutTypes
  <2> QED
    BY <2>1, <2>4
<1> QED
  BY <1>3, <1>4, <1>5, <1>6, <1>7

\* The streams, the exclude set and the process.
LEMMA OtherTypes ==
    ASSUME Types, NewestKept, events' \in Nat,
           \/ (\E s \in Streams : Subscribe(s) \/ Forward(s) \/ Unsubscribe(s)) /\ UNCHANGED <<web, proc>>
           \/ \E c \in {"frontend", "unit"} : SetExcludeTools(c)
           \/ ChildExits \/ MainWaits \/ Stop \/ Escalate \/ Healthz \/ End
    PROVE  Types'
<1> USE DEF Types, TypeOK, table, loops, pipe, tvars, web, proc
<1>1. CASE (\E s \in Streams : Subscribe(s) \/ Forward(s) \/ Unsubscribe(s)) /\ UNCHANGED <<web, proc>>
  <2>1. said' \in Nat /\ subs' \in [Streams -> Channels] /\ \A s \in Streams : Len(subs'[s].ch) <= QueueDepth
    BY <1>1, StreamStep
  <2> QED
    BY <1>1, <2>1 DEF Subscribe, Forward, Unsubscribe
<1>2. ASSUME NEW c, SetExcludeTools(c) PROVE Types'
  BY <1>2 DEF SetExcludeTools
<1>3. CASE ChildExits
  <2>1. out' \in Seq(OutLines) /\ Len(out') <= PipeLines
    <3>1. PICK n \in 0..Len(out) : out' = SubSeq(out, 1, n)
      BY <1>3 DEF ChildExits
    <3>2. Len(out) \in Nat
      OBVIOUS
    <3> QED
      BY <3>1, <3>2, PrefixFacts
  <2> QED
    BY <1>3, <2>1 DEF ChildExits, Heard
<1>4. CASE MainWaits
  <2>1. UNCHANGED <<tvars, web, stolen>>
    BY <1>4 DEF MainWaits
  <2>2. main' \in {"shutdown", "serving", "grace", "reap"} /\ childDone' \in {"empty", "full"}
    BY <1>4 DEF MainWaits, Heard
  <2> QED
    BY <2>1, <2>2
<1>5. CASE Stop \/ Escalate
  BY <1>5 DEF Stop, Escalate
<1>6. CASE Healthz \/ End
  BY <1>6, ZenonT(40) DEF Healthz, End, Heard
<1> QED
  BY <1>1, <1>2, <1>3, <1>4, <1>5, <1>6

-----------------------------------------------------------------------------
(* Together.                                                               *)

\* The bridge starts with nobody waiting.
LEMMA InitInv == Init => Inv
<1> SUFFICES ASSUME Init PROVE Inv
  OBVIOUS
<1> USE DEF Init, TInit
<1>1. Types
  <2>1. ClientTypes /\ WebTypes
    BY PostAssumption DEF ClientTypes, WebTypes, Unsent, Kinds, Positions, Results, Replies
  <2>2. TableTypes /\ ProcTypes
    BY DEF TableTypes, ProcTypes
  <2>3. QueueTypes /\ OutTypes
    BY DepthAssumption DEF QueueTypes, OutTypes
  <2>4. StreamTypes
    BY DepthAssumption DEF StreamTypes, Closed, Channels
  <2>5. events \in Nat
    OBVIOUS
  <2> QED
    BY <2>1, <2>2, <2>3, <2>4, <2>5, PartsAreTypes DEF Parts
<1>2. \A p \in Posts : ~Queued(p) /\ ~Answering(p)
  BY DEF Queued, Answering
<1>3. Once /\ Table /\ Hand /\ AnswersMatched
  BY <1>2 DEF Once, Table, Hand, AnswersMatched, OwnAnswer, WaiterListed, Owed, At
<1>4. Hidden /\ NewestKept
  BY DEF Hidden, NewestKept, Closed
<1> QED
  BY <1>1, <1>3, <1>4 DEF Inv, Matched

\* Every step keeps the invariant.
LEMMA NextInv == Inv /\ [Next]_vars => Inv'
<1> SUFFICES ASSUME Inv, [Next]_vars PROVE Inv'
  OBVIOUS
<1> USE DEF Inv
<1>1. CASE UNCHANGED vars
  <2>1. UNCHANGED <<pc, msg, result, ctx, pending, respCh, queue, writer, reader, hand, child, heard, answered,
                    out, notes, said, subs, reply, excluded, barred, main, childDone, stolen, events>>
    BY <1>1 DEF vars, tvars, table, loops, pipe, web, proc
  <2>2. Types' /\ NewestKept'
    BY <2>1, StillNewest DEF Types, TypeOK
  <2>3. Matched'
    BY <2>1, StillMatched DEF Wires
  <2>4. Hidden'
    BY <2>1, StillHidden DEF Queued, web
  <2> QED
    BY <2>2, <2>3, <2>4
<1>2. ASSUME Next PROVE events' \in Nat
  BY <1>2 DEF Next, Types, TypeOK
<1>3. ASSUME NEW p \in Posts, events' \in Nat, PostStep(p) \/ Arrive(p) \/ HandlerLeaves(p) \/ ClientGoes(p)
      PROVE  Inv'
  <2>1. Types'
    BY <1>3, PostTypes
  <2>2. NewestKept'
    BY <1>3, StillNewest DEF PostStep, CheckSet, RefuseExcludedCall, Reply, Register, Enqueue, Await, Leave, Notify,
       Arrive, HandlerLeaves, ClientGoes, tvars
  <2>3. CASE (Register(p) \/ Enqueue(p) \/ Await(p) \/ Leave(p) \/ Notify(p)) /\ UNCHANGED <<web, proc>>
    <3>1. Matched'
      <4>1. CASE Await(p)
        BY <4>1, StillMatched DEF Await, At, Goto, Types, TypeOK, Wires, table, loops, pipe, Sent
      <4> QED
        BY <2>3, <4>1, RegisterMatched, EnqueueMatched, LeaveMatched
    <3>2. Hidden'
      BY <2>3, TranslatorHidden
    <3> QED
      BY <2>1, <2>2, <3>1, <3>2
  <2>4. CASE CheckSet(p) \/ RefuseExcludedCall(p) \/ Reply(p) \/ Arrive(p) \/ HandlerLeaves(p)
    <3>1. Hidden'
      BY <2>4, HandlersHidden
    <3>2. UNCHANGED <<Wires, pending, respCh>>
      BY <2>4 DEF CheckSet, RefuseExcludedCall, Reply, Arrive, HandlerLeaves, Wires, tvars, table, loops, pipe
    <3>3. Matched'
      <4>1. CASE CheckSet(p) \/ RefuseExcludedCall(p)
        <5>1. /\ pc[p] \in {"check", "refuse"} /\ msg' = msg
              /\ \E s \in {"refuse", "notify", "register", "done"} :
                    pc' = [pc EXCEPT ![p] = s] /\ (s = "notify" => ~Request(p))
          BY <4>1 DEF CheckSet, RefuseExcludedCall, Dispatch, Goto, At, Request
        <5>2. Request(p)' = Request(p)
          BY <5>1 DEF Request
        <5> QED
          BY <3>2, <5>1, <5>2, StillMatched DEF Sent, Types, TypeOK
      <4>2. CASE Reply(p)
        BY <3>2, <4>2, StillMatched DEF Reply, Goto, At, Sent, Types, TypeOK
      <4>3. CASE Arrive(p)
        <5>1. pc[p] = "idle" /\ pc'[p] \in {"check", "register"}
              /\ \A q \in Posts : q # p => pc'[q] = pc[q] /\ msg'[q] = msg[q]
          BY <4>3 DEF Arrive, Goto, At, Types, TypeOK
        <5> QED
          BY <3>2, <5>1, StillMatched DEF Sent
      <4>4. CASE HandlerLeaves(p)
        BY <3>2, <4>4, StillMatched DEF HandlerLeaves, tvars
      <4> QED
        BY <2>4, <4>1, <4>2, <4>3, <4>4
    <3> QED
      BY <2>1, <2>2, <3>1, <3>3
  <2>5. CASE ClientGoes(p)
    <3>1. UNCHANGED <<pc, msg, pending, respCh, queue, reader, hand, heard, answered, out, web>>
      BY <2>5 DEF ClientGoes, table, loops, pipe
    <3>2. Matched' /\ Hidden'
      BY <3>1, StillMatched, StillHidden DEF Wires, Queued
    <3> QED
      BY <2>1, <2>2, <3>2
  <2> QED
    BY <1>3, <2>3, <2>4, <2>5 DEF PostStep
<1>4. ASSUME UNCHANGED <<web, proc>>, events' \in Nat,
             \/ Write \/ Demux \/ Deliver \/ ChildSpeaks \/ ReaderEnds
             \/ \E p \in Posts : ChildAnswers(p)
      PROVE  Inv'
  <2>1. Types' /\ Hidden'
    BY <1>4, PumpTypes, TranslatorHidden
  <2>2. NewestKept'
    <3>1. CASE ~Demux
      BY <1>4, <3>1, StillNewest DEF Write, Deliver, ChildSpeaks, ReaderEnds, ChildAnswers
    <3> QED
      BY <3>1, StreamStep
  <2>3. CASE ChildSpeaks
    <3>1. notes + 1 \in Nat
      BY DEF Types, TypeOK
    <3>2. Matched'
      BY <2>3, <3>1, OutMatched DEF ChildSpeaks
    <3> QED
      BY <2>1, <2>2, <3>2
  <2>4. CASE ReaderEnds
    <3>1. /\ reader = "scan" /\ reader' = "gone" /\ UNCHANGED <<pc, msg, pending, respCh, queue, hand, heard, answered, out>>
      BY <2>4 DEF ReaderEnds, table, pipe
    <3>2. \A q \in Posts : Queued(q)' = Queued(q) /\ Answering(q)' = Answering(q) /\ Request(q)' = Request(q)
                           /\ Id(q)' = Id(q) /\ Owed(q)' = Owed(q)
      BY <3>1 DEF Queued, Answering, Request, Id, Owed
    <3>3. Once' /\ Table'
      BY <3>1, <3>2 DEF Matched, Once, Table, At
    <3>4. Hand' /\ AnswersMatched'
      BY <3>1, <3>2 DEF Matched, Hand, AnswersMatched, OwnAnswer, WaiterListed, At
    <3> QED
      BY <2>1, <2>2, <3>3, <3>4 DEF Matched
  <2> QED
    BY <1>4, <2>1, <2>2, <2>3, <2>4, WriteMatched, DemuxMatched, DeliverMatched, AnswerMatched
<1>5. ASSUME UNCHANGED <<web, proc>>, events' \in Nat,
             \E s \in Streams : Subscribe(s) \/ Forward(s) \/ Unsubscribe(s)
      PROVE  Inv'
  <2>1. Types' /\ Hidden' /\ NewestKept'
    BY <1>5, OtherTypes, TranslatorHidden, StreamStep
  <2>2. UNCHANGED <<Wires, pending, respCh, pc, msg>>
    BY <1>5 DEF Subscribe, Forward, Unsubscribe, Wires, table, loops, pipe
  <2> QED
    BY <2>1, <2>2, StillMatched
<1>6. ASSUME events' \in Nat,
             \/ \E c \in {"frontend", "unit"} : SetExcludeTools(c)
             \/ MainWaits \/ Stop \/ Escalate \/ Healthz \/ End
      PROVE  Inv'
  <2>1. Types'
    BY <1>6, OtherTypes
  <2>2. UNCHANGED tvars
    BY <1>6 DEF SetExcludeTools, MainWaits, Stop, Escalate, Healthz, End
  <2>3. UNCHANGED <<Wires, pending, respCh, pc, msg, said, subs, queue, heard>>
    BY <2>2 DEF tvars, Wires, table, loops, pipe
  <2>4. Matched' /\ NewestKept'
    BY <2>3, StillMatched, StillNewest
  <2>5. Hidden'
    <3>1. CASE UNCHANGED web
      BY <2>3, <3>1, StillHidden DEF Queued
    <3> QED
      BY <1>6, <3>1, SetHidden DEF MainWaits, Stop, Escalate, Healthz, End, web
  <2> QED
    BY <2>1, <2>4, <2>5
<1>7. ASSUME events' \in Nat, ChildExits PROVE Inv'
  <2>1. Types'
    BY <1>7, OtherTypes
  <2>2. /\ UNCHANGED <<pc, msg, table, queue, loops, heard, answered, said, subs, web>>
        /\ \E n \in 0..Len(out) : out' = SubSeq(out, 1, n)
    BY <1>7 DEF ChildExits
  <2>3. Matched' /\ NewestKept'
    BY <2>2, OutMatched, StillNewest
  <2>4. Hidden'
    BY <2>2, StillHidden DEF Queued
  <2> QED
    BY <2>1, <2>3, <2>4
<1> QED
  BY <1>1, <1>2, <1>3, <1>4, <1>5, <1>6, <1>7 DEF Next, Usual, Rare, Pump

\* The invariant holds at all times.
THEOREM InvHolds == Spec => []Inv
  BY InitInv, NextInv, PTL DEF Spec

\* The bridge's variables keep their types, the write queue and the streams' channels
\* their depth (newTranslator, Subscribe).
THEOREM TypesHold == Spec => []TypeOK
  BY InvHolds, PTL DEF Inv, Types

\* A request gets the child's answer to it or none, and one that waits is where its answer
\* will look for it, whatever ids clients choose again (SendRequest, run's demux).
THEOREM AnswersStayMatched == Spec => []AnswersMatched
<1>1. Inv => AnswersMatched
  BY DEF Inv, Matched
<1> QED
  BY <1>1, InvHolds, PTL

\* A tool that is excluded stays hidden from whoever asks after the exclusion, whatever
\* is under way when the set changes (handleMCP, refuseExcludedCall).
THEOREM ExcludedStaysHidden == Spec => []ExcludedIsHidden
<1>1. Inv => ExcludedIsHidden
  BY DEF Inv, Types, TypeOK, Hidden, ExcludedIsHidden, Queued, At
<1> QED
  BY <1>1, InvHolds, PTL

\* However far a stream falls behind, the last message it has yet to read is the newest
\* (broadcast drops the oldest).
THEOREM NewestStays == Spec => []NewestKept
<1>1. Inv => NewestKept
  BY DEF Inv
<1> QED
  BY <1>1, InvHolds, PTL
=============================================================================

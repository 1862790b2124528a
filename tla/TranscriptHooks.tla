-------------------------- MODULE TranscriptHooks --------------------------
(* The two hooks that read a session's transcript while claude appends to it: clown-hook-toolcost, *)
(* which counts what each response and tool result cost from where the last run committed, and     *)
(* clown-hook-tee, which posts the replies since its cursor. Several runs of each may overlap, and *)
(* any may be killed.                                                                             *)
EXTENDS Naturals, FiniteSets, Sequences, SequencesExt, FiniteSetsExt

CONSTANTS Keys,             \* tool keys
          CostRuns, TeeRuns,\* runs of the two hooks
          MaxRecords,       \* bound: records claude appends
          MaxResponses      \* bound: responses

VARIABLES transcript,       \* the complete records, in order
          old,              \* how many a session had before it had hooks
          costState,        \* the saved State
          costLock,         \* who holds its lock
          cost,             \* each toolcost run
          counted,          \* metrics sent, or lost between the save and the send
          cuts,             \* where a final run closed the trailing response
          cursor,           \* the tee's cursor: -1 is none
          tee, posted,      \* each tee run; how often each reply was posted
          skipped,          \* what a first post leaves out
          orderly           \* no tee run overlapped another or was killed

hookVars == <<transcript, old, costState, costLock, cost, counted, cuts, cursor, tee, posted, skipped, orderly>>

NoCursor == 0 - 1
NoRun == "nobody"

\* No run of the hook is the name of none.
ASSUME HooksAssumption == MaxRecords \in Nat /\ NoRun \notin CostRuns

Closed == [id |-> 0, calls |-> {}, consumes |-> {}]

Metrics == ({"session"} \X {"response", "floor", "compaction"}) \cup (Keys \X {"result", "carry", "retry"})
NoMetrics == [m \in Metrics |-> 0]
Plus(a, b) == [m \in Metrics |-> a[m] + b[m]]
One(m) == [NoMetrics EXCEPT ![m] = 1]

-------------------------- (* what claude writes *) --------------------------
Assistant(id, what) == [type |-> "assistant", id |-> id, what |-> what]
Result(call) == [type |-> "result", id |-> call, what |-> ""]
Prompt == [type |-> "prompt", id |-> 0, what |-> ""]
Compact == [type |-> "compact", id |-> 0, what |-> ""]

IsA(i) == transcript[i].type = "assistant"
IsCall(i) == IsA(i) /\ transcript[i].what \in Keys
IsReply(i) == IsA(i) /\ transcript[i].what = "text"
LastId == Max({0} \cup {transcript[i].id : i \in {j \in 1..Len(transcript) : IsA(j)}})
Answered == {transcript[i].id : i \in {j \in 1..Len(transcript) : transcript[j].type = "result"}}

Appends ==
    /\ Len(transcript) < old + MaxRecords
    /\ \/ \E id \in {LastId, LastId + 1} \ {0}, what \in Keys \cup {"text"} :
             id <= MaxResponses /\ transcript' = Append(transcript, Assistant(id, what))
       \/ \E i \in {j \in 1..Len(transcript) : IsCall(j)} \ Answered : transcript' = Append(transcript, Result(i))
       \/ \E rec \in {Prompt, Compact} : transcript' = Append(transcript, rec)
    /\ UNCHANGED <<old, costState, costLock, cost, counted, cuts, cursor, tee, posted, skipped, orderly>>

------------------------------ (* toolcost.Run *) ------------------------------
ZeroWork == [uses |-> {}, unconsumed |-> {}, prev |-> {}, live |-> [k \in Keys |-> 0], floorDone |-> FALSE,
             model |-> FALSE]
ZeroState == [offset |-> 0, w |-> ZeroWork]

\* runner: the working state, the open response, the metrics since the last commit, and what is
\* committed.
\* A state past the start counts as past the first response.
Runner(st) ==
    LET s == [st EXCEPT !.w.floorDone = @ \/ st.offset > 0]
    IN [w |-> s.w, open |-> Closed, pending |-> NoMetrics, committed |-> s, out |-> NoMetrics]

commit(r, offset) ==
    [r EXCEPT !.committed = [offset |-> offset, w |-> r.w], !.out = Plus(@, r.pending), !.pending = NoMetrics]

KeyOf(call) == transcript[call].what
Of(calls, k) == Cardinality({c \in calls : KeyOf(c) = k})

\* The metrics of one response: its own, what earlier results cost it, what it consumes, and which
\* of its calls the response before made too.
ResponseMetrics(w, g) ==
    [m \in Metrics |->
        IF m[2] = "response" THEN 1
        ELSE IF m[2] = "floor" THEN (IF w.floorDone THEN 0 ELSE 1)
        ELSE IF m[2] = "compaction" THEN 0
        ELSE LET k == m[1] IN
             IF m[2] = "carry" THEN w.live[k]
             ELSE IF m[2] = "result" THEN Of(g.consumes, k)
             ELSE IF k \in w.prev THEN Of(g.calls, k) ELSE 0]

closeOpen(r) ==
    IF r.open = Closed THEN r
    ELSE [r EXCEPT !.pending = Plus(@, ResponseMetrics(r.w, r.open)),
                   !.w = [@ EXCEPT !.floorDone = TRUE, !.model = TRUE, !.prev = {KeyOf(c) : c \in r.open.calls},
                                   !.live = [k \in Keys |-> r.w.live[k] + Of(r.open.consumes, k)]],
                   !.open = Closed]

\* The commit comes before the new response takes the results, so that a replay sees them again.
Opens(r, i) ==
    LET c == commit(closeOpen(r), i - 1)
    IN [c EXCEPT !.open = [Closed EXCEPT !.id = transcript[i].id, !.consumes = c.w.unconsumed],
                 !.w.unconsumed = {}]

\* A record of the open response, or the first of the next one.
assistant(r, i) ==
    LET o == IF r.open.id = transcript[i].id THEN r ELSE Opens(r, i)
    IN IF ~IsCall(i) THEN o
       ELSE [o EXCEPT !.w.uses = @ \cup {i}, !.open.calls = @ \cup {i}]

\* A result whose call was seen waits for the request that reads it first.
user(r, i) ==
    LET call == transcript[i].id
    IN IF call \in r.w.uses
       THEN [r EXCEPT !.w.uses = @ \ {call}, !.w.unconsumed = @ \cup {call}] ELSE r

\* The boundary ends the open response before it drops the live results.
compact(r, i) ==
    LET c == IF r.open = Closed THEN r ELSE commit(closeOpen(r), i - 1)
    IN [c EXCEPT !.w.live = [k \in Keys |-> 0],
                 !.pending = IF c.w.model THEN Plus(@, One(<<"session", "compaction">>)) ELSE @]

handle(r, i) ==
    IF transcript[i].type = "assistant" THEN assistant(r, i)
    ELSE IF transcript[i].type = "result" THEN user(r, i)
    ELSE IF transcript[i].type = "compact" THEN compact(r, i) ELSE r

--------------------------- (* clown-hook-toolcost *) ---------------------------
IdleCost == [at |-> "idle", final |-> FALSE, n |-> 0, r |-> Runner(ZeroState), cut |-> FALSE, st |-> ZeroState,
             out |-> NoMetrics]
Cost(c, f) == cost' = [cost EXCEPT ![c] = f]
TeeKept == UNCHANGED <<transcript, old, cursor, tee, posted, skipped, orderly>>

CostStarts(c) ==
    /\ cost[c].at = "idle"
    /\ \E final \in BOOLEAN : Cost(c, [IdleCost EXCEPT !.at = "lock", !.final = final])
    /\ UNCHANGED <<costState, costLock, counted, cuts>> /\ TeeKept

\* A non-final run that loses the lock yields; a final one waits until its budget is spent.
CostLocks(c) ==
    /\ cost[c].at = "lock"
    /\ \/ costLock = NoRun /\ costLock' = c /\ Cost(c, [cost[c] EXCEPT !.at = "read"])
       \/ costLock # NoRun /\ Cost(c, IdleCost) /\ UNCHANGED costLock
    /\ UNCHANGED <<costState, counted, cuts>> /\ TeeKept

\* The state is read under the lock, and the transcript from its offset on.
CostReads(c) ==
    /\ cost[c].at = "read"
    /\ Cost(c, [cost[c] EXCEPT !.at = "scan", !.n = costState.offset, !.r = Runner(costState)])
    /\ UNCHANGED <<costState, costLock, counted, cuts>> /\ TeeKept

\* What a run that stops reading has for the state and the counters.
Yields(c, r, cut) == Cost(c, [IdleCost EXCEPT !.at = "save", !.cut = cut, !.st = r.committed, !.out = r.out])

\* The next record. After any of them the deadline may stop the run; at the end, a final one closes and
\* commits all of it.
CostScans(c) ==
    LET n == cost[c].n
        r == cost[c].r
    IN /\ cost[c].at = "scan"
       /\ \/ n < Len(transcript) /\ Cost(c, [cost[c] EXCEPT !.n = n + 1, !.r = handle(r, n + 1)])
          \/ n > costState.offset /\ Yields(c, r, FALSE)
          \/ n = Len(transcript) /\ cost[c].final /\ Yields(c, commit(closeOpen(r), n), TRUE)
          \/ n = Len(transcript) /\ ~cost[c].final /\ Yields(c, r, FALSE)
       /\ UNCHANGED <<costState, costLock, counted, cuts>> /\ TeeKept

\* State first, then emit.
CostSaves(c) ==
    /\ cost[c].at = "save"
    /\ \/ /\ costState' = cost[c].st
          /\ cuts' = IF cost[c].cut THEN cuts \cup {cost[c].st.offset} ELSE cuts
          /\ Cost(c, [cost[c] EXCEPT !.at = "send"])
          /\ UNCHANGED costLock
       \/ /\ costLock' = NoRun /\ Cost(c, IdleCost)
          /\ UNCHANGED <<costState, cuts>>
    /\ UNCHANGED counted /\ TeeKept

CostSends(c) ==
    /\ cost[c].at = "send"
    /\ counted' = Plus(counted, cost[c].out)
    /\ costLock' = NoRun
    /\ Cost(c, IdleCost)
    /\ UNCHANGED <<costState, cuts>> /\ TeeKept

\* The harness's timeout; the kernel drops the lock.
CostKilled(c) ==
    /\ cost[c].at # "idle"
    /\ counted' = IF cost[c].at = "send" THEN Plus(counted, cost[c].out) ELSE counted
    /\ costLock' = IF costLock = c THEN NoRun ELSE costLock
    /\ Cost(c, IdleCost)
    /\ UNCHANGED <<costState, cuts>> /\ TeeKept

------------------------------ (* clown-hook-tee *) ------------------------------
IdleTee == [at |-> "idle", from |-> NoCursor, texts |-> {}, consumed |-> 0]
Tee(t, f) == tee' = [tee EXCEPT ![t] = f]
CostKept == UNCHANGED <<transcript, old, costState, costLock, cost, counted, cuts>>

TeeLoads(t) ==
    /\ tee[t].at = "idle"
    /\ Tee(t, [IdleTee EXCEPT !.at = "read", !.from = cursor])
    /\ orderly' = (orderly /\ \A u \in TeeRuns : tee[u].at = "idle")
    /\ UNCHANGED <<cursor, posted, skipped>> /\ CostKept

\* The replies from the cursor on; without one, those of the last turn only.
extractSince(from) ==
    LET first == IF from # NoCursor THEN from
                 ELSE Max({0} \cup {i \in 1..Len(transcript) : transcript[i].type = "prompt"})
    IN {i \in first + 1..Len(transcript) : IsReply(i)}

TeeReads(t) ==
    LET texts == extractSince(tee[t].from)
    IN /\ tee[t].at = "read"
       /\ Tee(t, [tee[t] EXCEPT !.at = IF texts = {} THEN "save" ELSE "post", !.texts = texts,
                                !.consumed = Len(transcript)])
       /\ skipped' = IF tee[t].from # NoCursor THEN skipped
                     ELSE skipped \cup ({i \in 1..Len(transcript) : IsReply(i)} \ texts)
       /\ UNCHANGED <<cursor, posted, orderly>> /\ CostKept

\* spawnSend: a post that could not be started leaves the cursor.
TeePosts(t) ==
    /\ tee[t].at = "post"
    /\ \/ /\ posted' = [i \in DOMAIN posted |-> IF i \in tee[t].texts THEN Min({posted[i] + 1, 2}) ELSE posted[i]]
          /\ Tee(t, [tee[t] EXCEPT !.at = "save"])
       \/ Tee(t, IdleTee) /\ UNCHANGED posted
    /\ UNCHANGED <<cursor, skipped, orderly>> /\ CostKept

\* saveCursor, by a rename.
TeeSaves(t) ==
    /\ tee[t].at = "save"
    /\ cursor' = tee[t].consumed
    /\ Tee(t, IdleTee)
    /\ UNCHANGED <<posted, skipped, orderly>> /\ CostKept

\* The harness's timeout, or a save that fails.
TeeKilled(t) ==
    /\ tee[t].at # "idle"
    /\ Tee(t, IdleTee)
    /\ orderly' = FALSE
    /\ UNCHANGED <<cursor, posted, skipped>> /\ CostKept

HooksInit ==
    /\ transcript \in {<<>>, <<Prompt, Assistant(1, "text"), Prompt>>} \cup
                      {<<Assistant(1, k), Result(1), Assistant(2, "text")>> : k \in Keys}
    /\ old = Len(transcript)
    /\ costState = ZeroState /\ costLock = NoRun
    /\ cost = [c \in CostRuns |-> IdleCost]
    /\ counted = NoMetrics /\ cuts = {}
    /\ cursor = NoCursor
    /\ tee = [t \in TeeRuns |-> IdleTee]
    /\ posted = [i \in 1..old + MaxRecords |-> 0]
    /\ skipped = {} /\ orderly = TRUE

CostNext ==
    \/ Appends
    \/ \E c \in CostRuns : CostStarts(c) \/ CostLocks(c) \/ CostReads(c) \/ CostScans(c) \/ CostSaves(c) \/ CostSends(c)
                           \/ CostKilled(c)

TeeNext ==
    \/ Appends
    \/ \E t \in TeeRuns : TeeLoads(t) \/ TeeReads(t) \/ TeePosts(t) \/ TeeSaves(t) \/ TeeKilled(t)

-----------------------------------------------------------------------------
\* What the first p records are worth, said of the whole transcript at once. A response starts at a
\* record whose id is new, or new since a compaction or a final run.
Starts(p) ==
    {i \in 1..p : IsA(i) /\ \A j \in 1..i - 1 :
        IsA(j) /\ transcript[j].id = transcript[i].id =>
            \E m \in j..i - 1 : m \in cuts \/ transcript[m].type = "compact"}

ResultsOf(k, p) == {i \in 1..p : transcript[i].type = "result" /\ KeyOf(transcript[i].id) = k}
ReadBy(i, p) == {g \in Starts(p) : g > i}
CarriedBy(i, p) ==
    LET first == Min(ReadBy(i, p))
    IN {g \in ReadBy(i, p) \ {first} : \A m \in first..g : transcript[m].type # "compact"}
CallsOf(g, k, p) == {j \in g..p : IsCall(j) /\ transcript[j].what = k /\ \A s \in Starts(p) : s > g => j < s}
Before(g, p) == {s \in Starts(p) : s < g}
Repeats(k, p) ==
    {j \in 1..p : \E g \in Starts(p) :
        j \in CallsOf(g, k, p) /\ Before(g, p) # {} /\ CallsOf(Max(Before(g, p)), k, p) # {}}

Worth(p) ==
    [m \in Metrics |->
        IF m[2] = "response" THEN Cardinality(Starts(p))
        ELSE IF m[2] = "floor" THEN 0
        ELSE IF m[2] = "compaction" THEN Cardinality({i \in 1..p : transcript[i].type = "compact" /\ Starts(i) # {}})
        ELSE LET k == m[1]  read == {i \in ResultsOf(k, p) : ReadBy(i, p) # {}} IN
             IF m[2] = "result" THEN Cardinality(read)
             ELSE IF m[2] = "carry" THEN Cardinality({x \in read \X Starts(p) : x[2] \in CarriedBy(x[1], p)})
             ELSE Cardinality(Repeats(k, p))]

\* What the runs sent, lost after they saved their state, or are about to send.
Sending == {c \in CostRuns : cost[c].at = "send"}
Emitted == IF Sending = {} THEN counted ELSE Plus(counted, cost[CHOOSE c \in Sending : TRUE].out)
Floor == <<"session", "floor">>

\* One run at a time is about to send, and all that was is exactly what the committed records are worth:
\* whatever was flushed when, no run counts a response or a result twice or drops one; and the floor is
\* judged at most once.
CountedOnce ==
    /\ \A c, d \in Sending : c = d
    /\ [Emitted EXCEPT ![Floor] = 0] = Worth(costState.offset)
    /\ Emitted[Floor] <= 1

\* Once a response is counted, the context floor was judged: a state with Offset > 0 and no FloorDone
\* is one saved before the guard existed (toolcost.go:119-122). It is also what a run saves that found
\* the first response still open after a prompt.
FloorIsJudged == Emitted[<<"session", "response">>] > 0 => Emitted[Floor] = 1

\* Every reply before the cursor was posted, unless it belongs to a turn before the first post; and
\* none twice unless runs overlapped, or one was killed or could not save.
TeedOnce ==
    /\ \A i \in 1..cursor : IsReply(i) => posted[i] > 0 \/ i \in skipped
    /\ orderly => \A i \in DOMAIN posted : posted[i] <= 1

\* A transcript is read once by each of its hooks, however their runs overlap and die.
TranscriptReadOnce == CountedOnce /\ TeedOnce
=============================================================================

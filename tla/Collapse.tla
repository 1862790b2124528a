----------------------------- MODULE Collapse -----------------------------
(* clown-mcp-collapse (internal/alfa/mcpcollapse): the tools of every upstream behind three     *)
(* verbs. It enumerates the upstreams once, and each call then reuses a session id cached per   *)
(* upstream, which the upstream may have dropped since. The map's lock is never held over I/O.  *)
EXTENDS ManagedServer, SequencesExt

CONSTANTS Calls,      \* the mcp_call requests the agent makes
          Ids,        \* the tool ids it may name
          IdOf,       \* the id each call names
          Offers,     \* the ids each upstream's tools render to
          Stateless,  \* the upstreams that hand out no session id
          MaxEpoch    \* bound: how often an upstream drops its session

ASSUME OffersIds == Offers \in [Servers -> SUBSET Ids] /\ IdOf \in [Calls -> Ids]

VARIABLES upstreams,  \* the upstreams in the order of the --upstream flags
          degraded,   \* those that failed to enumerate
          epoch,      \* the session id each upstream accepts now
          sessions,   \* Handler.sessions: the cached id per upstream, or none
          call,       \* where each call is
          sid,        \* the session id a call is using
          runs,       \* how often the upstream executed a call
          calm        \* nothing disturbed the call: its upstream stayed up, with its session

collapseVars == <<upstreams, degraded, epoch, sessions, call, sid, runs, calm>>

None == -1    \* no entry in the map
Empty == 0    \* the id of an upstream without session continuity

States == {"new", "session", "first", "stale", "reinit", "retry", "rotated", "ok", "failed", "refused"}

CollapseTypes ==
    /\ ToSet(upstreams) \subseteq Servers
    /\ degraded \subseteq Servers
    /\ epoch \in [Servers -> 1..MaxEpoch]
    /\ sessions \in [Servers -> None..MaxEpoch]
    /\ call \in [Calls -> States]
    /\ sid \in [Calls -> None..MaxEpoch]
    /\ runs \in [Calls -> 0..2]
    /\ calm \in [Calls -> BOOLEAN]

CollapseIdle ==
    /\ upstreams = << >>
    /\ degraded = {}
    /\ epoch = [s \in Servers |-> 1]
    /\ sessions = [s \in Servers |-> None]
    /\ call = [c \in Calls |-> "new"]
    /\ sid = [c \in Calls |-> None]
    /\ runs = [c \in Calls |-> 0]
    /\ calm = [c \in Calls |-> TRUE]

--------------------------- (* the registry *) ---------------------------
\* NewAggregator enumerates every upstream at once and keeps those that answered; the rest are
\* degraded. An upstream may fail although it answers: its 3 s may run out.
Unreachable(ups) == {s \in ToSet(ups) : ~Answers(s)}

Enumerate(ups) ==
    \E D \in SUBSET ToSet(ups) :
        /\ Unreachable(ups) \subseteq D
        /\ upstreams' = ups
        /\ degraded' = D
    /\ UNCHANGED <<epoch, sessions, call, sid, runs, calm>>

\* Builder.Build: an id two upstreams render belongs to the first of them.
Enumerated == {n \in 1..Len(upstreams) : upstreams[n] \notin degraded}
Offering(i) == {n \in Enumerated : i \in Offers[upstreams[n]]}
Known(i) == Offering(i) # {}
Owner(i) == upstreams[CHOOSE n \in Offering(i) : \A m \in Offering(i) : n <= m]

--------------------------- (* mcp_call *) ---------------------------
Busy(c) == call[c] \in {"session", "first", "stale", "reinit", "retry", "rotated"}

Up(c) == Owner(IdOf[c])
Together(c) == {d \in Calls \ {c} : Busy(d) /\ Up(d) = Up(c)}

Go(c, state) == call' = [call EXCEPT ![c] = state]

\* An unknown id and arguments that break the tool's schema are answered without the upstream.
Reject(c) ==
    /\ call[c] = "new"
    /\ Go(c, "refused")
    /\ UNCHANGED <<upstreams, degraded, epoch, sessions, sid, runs, calm>>

\* verbCall: any other call reads the cached session id, and initializes when there is none.
VerbCall(c) ==
    /\ call[c] = "new"
    /\ Known(IdOf[c])
    /\ sid' = [sid EXCEPT ![c] = sessions[Up(c)]]
    /\ Go(c, IF sessions[Up(c)] = None THEN "session" ELSE "first")
    /\ calm' = [d \in Calls |-> calm[d] /\ (d \in Together(c) \cup {c} => Together(c) = {})]
    /\ UNCHANGED <<upstreams, degraded, epoch, sessions, runs>>

\* The initialize round trip of sessionForURL: the upstream's answer carries the id it has then,
\* and is only later written to the map (Cache).
Initialize(c) ==
    /\ call[c] \in {"session", "reinit"}
    /\ sid[c] = None
    /\ \/ /\ Answers(Up(c))
          /\ sid' = [sid EXCEPT ![c] = IF Up(c) \in Stateless THEN Empty ELSE epoch[Up(c)]]
          /\ UNCHANGED <<call, calm>>
       \/ /\ Go(c, "failed")
          /\ calm' = [calm EXCEPT ![c] = FALSE]
          /\ UNCHANGED sid
    /\ UNCHANGED <<upstreams, degraded, epoch, sessions, runs>>

\* sessionForURL writes whatever id it was given, over any id written since.
Cache(c) ==
    /\ call[c] \in {"session", "reinit"}
    /\ sid[c] # None
    /\ sessions' = [sessions EXCEPT ![Up(c)] = sid[c]]
    /\ Go(c, IF call[c] = "session" THEN "first" ELSE "retry")
    /\ UNCHANGED <<upstreams, degraded, epoch, sid, runs, calm>>

\* The upstream accepts the session a request names.
Accepts(c) == Answers(Up(c)) /\ (sid[c] = Empty \/ sid[c] = epoch[Up(c)])

\* Only a call that named a session is tried again, once.
Retried(c) == call[c] = "first" /\ sid[c] # Empty
AfterFailure(c) == IF Retried(c) THEN "stale" ELSE "failed"

\* attemptDispatch: the upstream executes the call and answers, perhaps with a new session id.
Dispatch(c) ==
    /\ call[c] \in {"first", "retry"}
    /\ Accepts(c)
    /\ runs' = [runs EXCEPT ![c] = @ + 1]
    /\ \/ Go(c, "ok") /\ UNCHANGED <<epoch, sid>>
       \/ /\ sid[c] # Empty
          /\ epoch[Up(c)] < MaxEpoch
          /\ epoch' = [epoch EXCEPT ![Up(c)] = @ + 1]
          /\ sid' = [sid EXCEPT ![c] = epoch'[Up(c)]]
          /\ Go(c, "rotated")
    /\ UNCHANGED <<upstreams, degraded, sessions, calm>>

\* The id an answer brought goes to the map, over any id written since.
Rotate(c) ==
    /\ call[c] = "rotated"
    /\ sessions' = [sessions EXCEPT ![Up(c)] = sid[c]]
    /\ Go(c, "ok")
    /\ UNCHANGED <<upstreams, degraded, epoch, sid, runs, calm>>

\* The call is refused, or executed and its answer lost.
DispatchFails(c) ==
    /\ call[c] \in {"first", "retry"}
    /\ \/ Accepts(c) /\ runs' = [runs EXCEPT ![c] = @ + 1]
       \/ ~Accepts(c) /\ UNCHANGED runs
    /\ calm' = [calm EXCEPT ![c] = @ /\ Answers(Up(c)) /\ ~Accepts(c)]
    /\ Go(c, AfterFailure(c))
    /\ UNCHANGED <<upstreams, degraded, epoch, sessions, sid>>

KeptSession(c) == sessions[Up(c)]

\* reinitSession: a compare-and-delete, so a session refreshed since is kept, and then the map
\* is read again.
Invalidated(c) == IF sessions[Up(c)] = sid[c] THEN None ELSE sessions[Up(c)]

Reinit(c) ==
    /\ call[c] = "stale"
    /\ sessions' = [sessions EXCEPT ![Up(c)] = Invalidated(c)]
    /\ sid' = [sid EXCEPT ![c] = Invalidated(c)]
    /\ Go(c, IF Invalidated(c) = None THEN "reinit" ELSE "retry")
    /\ UNCHANGED <<upstreams, degraded, epoch, runs, calm>>

\* An upstream drops its session: a TTL, or a restart of what it fronts.
Expire(s) ==
    /\ epoch[s] < MaxEpoch
    /\ epoch' = [epoch EXCEPT ![s] = @ + 1]
    /\ calm' = [c \in Calls |-> calm[c] /\ ~(Busy(c) /\ Up(c) = s)]
    /\ UNCHANGED <<upstreams, degraded, sessions, call, sid, runs>>

\* The agent is gone, and its calls with it: the collapse's state matters no more.
CollapseOver ==
    /\ upstreams' = << >> /\ degraded' = {}
    /\ epoch' = [s \in Servers |-> 1] /\ sessions' = [s \in Servers |-> None]
    /\ call' = [c \in Calls |-> "new"] /\ sid' = [c \in Calls |-> None]
    /\ runs' = [c \in Calls |-> 0] /\ calm' = [c \in Calls |-> TRUE]

CollapseStep ==
    \/ \E c \in Calls : Reject(c) \/ VerbCall(c) \/ Initialize(c) \/ Cache(c) \/ Dispatch(c) \/ DispatchFails(c)
           \/ Rotate(c) \/ Reinit(c)
    \/ \E s \in ToSet(upstreams) : Expire(s)
=============================================================================

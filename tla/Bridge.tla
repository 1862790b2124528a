------------------------------- MODULE Bridge -------------------------------
(***************************************************************************)
(* clown-stdio-bridge: the HTTP handlers in front of the translator        *)
(* (internal/0/mcphttp/server.go, cmd/clown-stdio-bridge http.go,          *)
(* routes.go and systemprompt.go), and the process around both (main.go):  *)
(* it starts the child, serves, waits for the first reason to stop,        *)
(* terminates the child and shuts the server down.  One goroutine waits    *)
(* for the child and sends its exit on childDone, a channel with room for  *)
(* one; /healthz and main both receive from it.                            *)
(***************************************************************************)
EXTENDS Translator

CONSTANTS
    ServeMode,    \* BOOLEAN: the unix serve socket, not loopback TCP
    Streaming,    \* BOOLEAN: POSTs are answered as event streams
    MaxEvents     \* at most this many of the steps that need not happen: Rare

ASSUME ModeAssumption ==
    /\ {ServeMode, Streaming} \subseteq BOOLEAN /\ MaxEvents \in Nat

VARIABLES
    reply,        \* post -> what its client was sent
    excluded,     \* the tool is in the exclude set
    barred,       \* history: posts that came after an exclusion that stands
    events,       \* rare steps so far
    main,         \* main's position
    childDone,    \* "empty" or "full"
    stolen        \* history: a health check took the exit

web  == <<reply, excluded, barred>>
proc == <<main, childDone, stolen>>
vars == <<tvars, web, proc, events>>

Init ==
    /\ TInit
    /\ reply = [p \in Posts |-> "none"]
    /\ excluded = FALSE /\ barred = {} /\ events = 0
    /\ main = "starting" /\ childDone = "empty" /\ stolen = FALSE

Alive == main # "ended"
Serving == main \notin {"shutdown", "ended"}

-----------------------------------------------------------------------------
(* The HTTP handlers.                                                      *)

\* Control routes of the serve socket are the frontend's alone.
Control(caller) == ServeMode => caller = "frontend"

\* A client posts to /mcp, or clown asks for the child's prompt fragment.
Arrive(p) ==
    /\ Serving /\ At(p, "idle")
    /\ \/ \E k \in {"call", "list", "note"}, i \in Ids \ {PromptId} :
            msg' = [msg EXCEPT ![p] = [kind |-> k, id |-> i]] /\ Goto(p, "check")
       \/ /\ Control("frontend")
          /\ msg' = [msg EXCEPT ![p] = [kind |-> "prompt", id |-> PromptId]]
          /\ Goto(p, "register")
    /\ barred' = IF excluded THEN barred \cup {p} ELSE barred
    /\ UNCHANGED <<result, ctx, table, queue, loops, pipe, said, subs, reply,
                   excluded, proc>>

\* The client disconnects, or childPromptTimeout is over.
ClientGoes(p) ==
    /\ pc[p] \notin {"idle", "done"} /\ p \notin ctx
    /\ ctx' = ctx \cup {p}
    /\ UNCHANGED <<pc, msg, result, table, queue, loops, pipe, said, subs, web, proc>>

Dispatch(p) == Goto(p, IF msg[p].kind = "note" THEN "notify" ELSE "register")

\* handleMCP reads the exclude set to see whether there is anything to check.
CheckSet(p) ==
    /\ At(p, "check")
    /\ IF excluded THEN Goto(p, "refuse") ELSE Dispatch(p)
    /\ UNCHANGED <<msg, result, ctx, table, queue, loops, pipe, said, subs, web, proc>>

\* Mutant of Refused: only the tools/list answer is filtered.
NoneRefused(p) == FALSE

Refused(p) == excluded /\ msg[p].kind = "call"

\* refuseExcludedCall reads it again for the tool of this call.
RefuseExcludedCall(p) ==
    /\ At(p, "refuse")
    /\ IF Refused(p)
       THEN reply' = [reply EXCEPT ![p] = "refused"] /\ Goto(p, "done")
       ELSE UNCHANGED reply /\ Dispatch(p)
    /\ UNCHANGED <<msg, result, ctx, table, queue, loops, pipe, said, subs,
                   excluded, barred, proc>>

\* Mutant of Shown: the list is passed on as the child wrote it.
ShownWhole(p) == msg[p].kind = "list"

\* The tool is in what the client reads: a tools/list answer is filtered by
\* the exclude set as it is now.
Shown(p) == msg[p].kind = "list" /\ ~excluded

\* The handler writes the answer or the error.
Reply(p) ==
    /\ At(p, "result")
    /\ reply' = [reply EXCEPT ![p] =
                   IF @ = "gone" THEN @
                   ELSE IF result[p] = "answer" /\ Shown(p) THEN "shown" ELSE result[p]]
    /\ Goto(p, "done")
    /\ UNCHANGED <<msg, result, ctx, table, queue, loops, pipe, said, subs,
                   excluded, barred, proc>>

\* A streaming handler waits beside SendRequest, and may see the client go
\* while that one still runs.
HandlerLeaves(p) ==
    /\ Streaming /\ p \in ctx /\ reply[p] = "none"
    /\ msg[p].kind \in {"call", "list"}
    /\ pc[p] \in {"register", "enqueue", "wait", "leave", "result"}
    /\ reply' = [reply EXCEPT ![p] = "gone"]
    /\ UNCHANGED <<tvars, excluded, barred, proc>>

\* POST /clown/exclude-tools replaces the set.
SetExcludeTools(caller) ==
    /\ Serving /\ Control(caller)
    /\ excluded' \in BOOLEAN
    /\ barred' = IF excluded' THEN barred ELSE {}
    /\ UNCHANGED <<tvars, reply, proc>>

-----------------------------------------------------------------------------
(* The process: run, terminate, watchParent, the Wait goroutine.           *)

Parked == main \in {"serving", "grace", "reap"}

\* What main does with the exit it receives.  run puts it back.
Heard ==
    /\ main' = "shutdown"
    /\ childDone' = IF main \in {"starting", "serving"} THEN "full" ELSE "empty"

\* The child exits and is waited for, which closes the pipe: what the scanner
\* has not read of it is lost.  A main that waits is handed the exit.
ChildExits ==
    /\ child = "up"
    /\ child' = "gone"
    /\ \E n \in 0..Len(out) : out' = SubSeq(out, 1, n)
    /\ IF Parked THEN Heard ELSE childDone' = "full" /\ UNCHANGED main
    /\ UNCHANGED <<pc, msg, result, ctx, table, queue, loops, heard, answered,
                   notes, said, subs, web, stolen>>

\* main comes to a receive: the exit may be there already.
MainWaits ==
    /\ main \in {"starting", "term", "kill"}
    /\ IF childDone = "full" THEN Heard
       ELSE /\ main' = CASE main = "starting" -> "serving"
                         [] main = "term" -> "grace" [] main = "kill" -> "reap"
            /\ UNCHANGED childDone
    /\ UNCHANGED <<tvars, web, stolen>>

\* A signal, a parent that is gone, or a server that fails: terminate.
Stop ==
    /\ main = "serving"
    /\ main' = "term"
    /\ UNCHANGED <<tvars, web, childDone, stolen>>

\* stopGracePeriod is over: SIGKILL.
Escalate ==
    /\ main = "grace"
    /\ main' = "kill"
    /\ UNCHANGED <<tvars, web, childDone, stolen>>

\* GET /healthz receives from childDone.
Healthz ==
    /\ Serving /\ childDone = "full"
    /\ childDone' = "empty" /\ stolen' = TRUE
    /\ UNCHANGED <<tvars, web, main>>

\* Shutdown waits for handlers, or not, and the process ends.
End ==
    /\ main = "shutdown"
    /\ main' = "ended"
    /\ UNCHANGED <<tvars, web, childDone, stolen>>

-----------------------------------------------------------------------------
PostStep(p) ==
    \/ CheckSet(p) \/ RefuseExcludedCall(p) \/ Reply(p)
    \/ (Register(p) \/ Enqueue(p) \/ Await(p) \/ Leave(p) \/ Notify(p))
         /\ UNCHANGED <<web, proc>>

Pump == (Write \/ Demux \/ Deliver) /\ UNCHANGED <<web, proc>>

\* What may or may not happen: clients that go or change the exclude set, the
\* child's own messages, its death, a failed reader, streams, polls, a stop.
Rare ==
    \/ \E p \in Posts : ClientGoes(p)
    \/ \E caller \in {"frontend", "unit"} : SetExcludeTools(caller)
    \/ (ChildSpeaks \/ ReaderEnds) /\ UNCHANGED <<web, proc>>
    \/ \E s \in Streams : (Subscribe(s) \/ Unsubscribe(s)) /\ UNCHANGED <<web, proc>>
    \/ main \in {"starting", "serving"} /\ ChildExits
    \/ Healthz \/ Stop

Usual ==
    \/ \E p \in Posts : Arrive(p) \/ HandlerLeaves(p) \/ PostStep(p)
    \/ Pump
    \/ (\E p \in Posts : ChildAnswers(p)) /\ UNCHANGED <<web, proc>>
    \/ (\E s \in Streams : Forward(s)) /\ UNCHANGED <<web, proc>>
    \/ main \in {"term", "grace", "kill", "reap"} /\ ChildExits
    \/ MainWaits \/ Escalate \/ End

Next ==
    /\ Alive
    /\ \/ Usual /\ UNCHANGED events
       \/ Rare /\ events < MaxEvents /\ events' = events + 1

Spec == Init /\ [][Next]_vars

-----------------------------------------------------------------------------
TypeOK ==
    /\ pc \in [Posts -> {"idle", "check", "refuse", "register", "enqueue", "wait",
                         "leave", "notify", "result", "done"}]
    /\ msg \in [Posts -> [kind : Kinds, id : Ids]]
    /\ result \in [Posts -> {"none", "answer", "gone", "error", "busy", "accepted"}]
    /\ ctx \subseteq Posts /\ barred \subseteq Posts
    /\ pending \in [Ids -> Posts \cup {None, Abandoned}]
    /\ respCh \in [Posts -> Posts \cup {None}]
    /\ queue \in Seq(Posts) /\ Len(queue) <= QueueDepth
    /\ writer \in {"run", "gone"} /\ reader \in {"scan", "send", "gone"}
    /\ hand \in (Posts \cup {None}) \X (Posts \cup {None})
    /\ child \in {"up", "gone"} /\ heard \subseteq Posts /\ answered \subseteq heard
    /\ Len(out) <= PipeLines
    /\ {said, notes, events} \subseteq Nat
    /\ \A s \in Streams : Len(subs[s].ch) <= QueueDepth
    /\ reply \in [Posts -> {"none", "answer", "shown", "gone", "error", "busy",
                            "accepted", "refused"}]
    /\ excluded \in BOOLEAN /\ stolen \in BOOLEAN
    /\ main \in {"starting", "serving", "term", "grace", "kill", "reap", "shutdown", "ended"}
    /\ childDone \in {"empty", "full"}

OwnAnswer == \A p \in Posts : respCh[p] \in {None, p}

\* Once an exclusion is in force, a call that comes after it does not reach
\* the child's queue, and no tools/list answer shows the tool (handleMCP and
\* filterToolsListResponse against a set that other requests replace).
ExcludedIsHidden ==
    \A p \in barred :
       /\ msg[p].kind = "call" => p \notin heard /\ \A i \in DOMAIN queue : queue[i] # p
       /\ At(p, "done") => reply[p] # "shown"

\* A stream that falls behind still has the newest message to read.
NewestKept ==
    \A s \in Streams : subs[s].open =>
       said = IF subs[s].ch = <<>> THEN subs[s].got ELSE subs[s].ch[Len(subs[s].ch)]

WaiterListed ==
    \A p \in Posts :
       At(p, "wait") /\ respCh[p] = None => pending[Id(p)] = p \/ hand[1] = p

\* Requests and answers are matched: a request is answered with what the child wrote for
\* it, never with a late answer to an abandoned request of the same id (SendRequest's
\* abandoned entries); and one that waits can be answered, its entry being the one its
\* id leads to, unless the reader has its answer in hand, whatever namesakes come, leave
\* and are refused meanwhile.
AnswersMatched == OwnAnswer /\ WaiterListed

=============================================================================

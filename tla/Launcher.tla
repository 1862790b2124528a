------------------------------ MODULE Launcher ------------------------------
(***************************************************************************)
(* The llama-server launcher of `juggler daemon` (cmd/juggler/launcher.go) *)
(* behind its RPCs StartInstance, ResolveModel, StopInstance and StopAll   *)
(* (server.go).  Each RPC is a call, a goroutine of its own connection; a  *)
(* start's server, its Wait goroutine and its reaper are named by the      *)
(* call.  One hold of l.mu is one step; everything between is interleaved. *)
(*                                                                         *)
(* A server is "up", then a "zombie" until the Wait goroutine collects it  *)
(* and closes ch.exited, then "gone".                                      *)
(***************************************************************************)
EXTENDS Naturals, FiniteSets

CONSTANTS
    Calls,          \* the RPCs
    Aliases,        \* instance aliases
    Ports,          \* TCP ports pickFreePort may find
    None,
    Verbs,          \* the RPCs this instance may make
    ZombieRefuses,  \* BOOLEAN: kill(-pgid) of a dead group is EPERM (macOS)
    MaxFaults       \* at most this many starts outlast pendingStopWait

ASSUME CallAssumption == None \notin Calls \cup Aliases
ASSUME VerbAssumption ==
    /\ Verbs \subseteq {"start", "resolve", "stop", "stopall"}
    /\ ZombieRefuses \in BOOLEAN /\ MaxFaults \in Nat

VARIABLES
    starting,   \* alias -> the start that reserved it (l.starting)
    children,   \* alias -> the start whose child runs under it (l.children)
    registry,   \* alias -> the start whose instance is listed (rm.Registry)
    pc, req,    \* each call's position, and its [verb, alias]
    held,       \* a stop's target: the pending start or the child it took
    todo,       \* a StopAll's aliases still to stop
    missed,     \* a StopAll's aliases it could not stop
    seen,       \* history: the starts pending or listed when a StopAll began
    ctxDone,    \* the starts whose ctx is cancelled
    proc,       \* start -> its server
    reaped,     \* the starts whose reapOnExit has returned
    port,       \* start -> the port it was given
    bound,      \* port -> the server listening there
    faults

tables  == <<starting, children, registry>>
sweep   == <<todo, missed, seen>>
servers == <<proc, reaped, port, bound>>
vars    == <<tables, pc, req, held, sweep, ctxDone, servers, faults>>

Init ==
    /\ starting = [a \in Aliases |-> None]
    /\ children = [a \in Aliases |-> None]
    /\ registry = [a \in Aliases |-> None]
    /\ pc = [c \in Calls |-> "idle"]
    /\ req = [c \in Calls |-> [verb |-> "none", alias |-> None]]
    /\ held = [c \in Calls |-> None]
    /\ todo = [c \in Calls |-> {}]
    /\ missed = [c \in Calls |-> {}]
    /\ seen = [c \in Calls |-> {}]
    /\ ctxDone = {}
    /\ proc = [c \in Calls |-> "none"]
    /\ reaped = {}
    /\ port = [c \in Calls |-> None]
    /\ bound = [p \in Ports |-> None]
    /\ faults = 0

-----------------------------------------------------------------------------
Alias(c) == req[c].alias
At(c, s) == pc[c] = s
Goto(c, s) == pc' = [pc EXCEPT ![c] = s]
Ended(c) == pc[c] \in {"ok", "failed"}
Exited(s) == proc[s] = "gone"

\* A dead server frees its port.
Dead(s) ==
    /\ proc' = [proc EXCEPT ![s] = IF @ = "up" THEN "zombie" ELSE @]
    /\ bound' = [p \in Ports |-> IF bound[p] = s THEN None ELSE bound[p]]
    /\ UNCHANGED <<reaped, port>>

Call(c) ==
    /\ At(c, "idle")
    /\ \E v \in Verbs, a \in Aliases :
          /\ req' = [req EXCEPT ![c] = [verb |-> v, alias |-> a]]
          /\ Goto(c, CASE v = "start" -> "reserve" [] v = "resolve" -> "get"
                       [] v = "stop" -> "stop" [] v = "stopall" -> "pending")
    /\ UNCHANGED <<tables, held, sweep, ctxDone, servers, faults>>

\* The client disconnects: a start's ctx is the connection's, a stop's is not.
\* Past register nothing of the start looks at its ctx.
ClientLeaves(c) ==
    /\ pc[c] \in {"get", "reserve", "spawn", "health", "healthy", "register"}
    /\ c \notin ctxDone
    /\ ctxDone' = ctxDone \cup {c}
    /\ UNCHANGED <<tables, pc, req, held, sweep, servers, faults>>

-----------------------------------------------------------------------------
(* Start.                                                                  *)

\* ResolveModel answers with a listed instance, or starts one.
ResolveModel(c) ==
    /\ At(c, "get")
    /\ Goto(c, IF registry[Alias(c)] # None THEN "ok" ELSE "reserve")
    /\ UNCHANGED <<tables, req, held, sweep, ctxDone, servers, faults>>

\* Mutant of Free: a start that has not registered yet does not count.
NotRunning(a) == children[a] = None /\ registry[a] = None

\* Mutant of Free: the registry is not asked, as a stop's grace needs.
NotTracked(a) == starting[a] = None /\ children[a] = None

Free(a) == starting[a] = None /\ children[a] = None /\ registry[a] = None

\* reserveAlias.
Reserve(c) ==
    /\ At(c, "reserve")
    /\ IF Free(Alias(c))
       THEN starting' = [starting EXCEPT ![Alias(c)] = c] /\ Goto(c, "spawn")
       ELSE UNCHANGED starting /\ Goto(c, "failed")
    /\ UNCHANGED <<children, registry, req, held, sweep, ctxDone, servers, faults>>

\* The port, the ctx check and cmd.Start, which may fail.
Spawn(c) ==
    /\ At(c, "spawn")
    /\ \/ Goto(c, "end.failed") /\ UNCHANGED <<proc, port>>
       \/ /\ c \notin ctxDone
          /\ \E p \in Ports :
                /\ bound[p] = None
                /\ port' = [port EXCEPT ![c] = p]
          /\ proc' = [proc EXCEPT ![c] = "up"]
          /\ Goto(c, "health")
    /\ UNCHANGED <<tables, req, held, sweep, ctxDone, reaped, bound, faults>>

\* waitHealthy: a 200 from whoever listens on the port.
Healthy(c) ==
    /\ At(c, "health")
    /\ c \notin ctxDone
    /\ bound[port[c]] # None
    /\ Goto(c, "healthy")
    /\ UNCHANGED <<tables, req, held, sweep, ctxDone, servers, faults>>

\* The timeout or the cancelled ctx.
Unhealthy(c) ==
    /\ At(c, "health")
    /\ Goto(c, "kill")
    /\ UNCHANGED <<tables, req, held, sweep, ctxDone, servers, faults>>

\* The ctx check between afterHealthy and register.
Recheck(c) ==
    /\ At(c, "healthy")
    /\ Goto(c, IF c \in ctxDone THEN "kill" ELSE "register")
    /\ UNCHANGED <<tables, req, held, sweep, ctxDone, servers, faults>>

\* Mutant of Registrable: Stop's cancel is not seen.
RegistrableStopped(c) == ~Exited(c) /\ registry[Alias(c)] = None

Registrable(c) == c \notin ctxDone /\ ~Exited(c) /\ registry[Alias(c)] = None

Register(c) ==
    LET a == Alias(c) IN
    /\ At(c, "register")
    /\ IF Registrable(c)
       THEN /\ registry' = [registry EXCEPT ![a] = c]
            /\ children' = [children EXCEPT ![a] = c]
            /\ starting' = [starting EXCEPT ![a] = None]
            /\ Goto(c, "end.ok")
       ELSE UNCHANGED tables /\ Goto(c, "kill")
    /\ UNCHANGED <<req, held, sweep, ctxDone, servers, faults>>

\* SIGKILL to the group, then the wait for its exit.
Kill(c) ==
    /\ At(c, "kill")
    /\ Dead(c)
    /\ Goto(c, "drain")
    /\ UNCHANGED <<tables, req, held, sweep, ctxDone, faults>>

Drain(c) ==
    /\ At(c, "drain")
    /\ Exited(c)
    /\ Goto(c, "end.failed")
    /\ UNCHANGED <<tables, req, held, sweep, ctxDone, servers, faults>>

\* Mutant of Unreserved: whoever holds the alias now loses it.
UnreservedAnyone(c) == [starting EXCEPT ![Alias(c)] = None]

\* endStart drops the reservation only if it is still this start's.
Unreserved(c) == [starting EXCEPT ![Alias(c)] = IF @ = c THEN None ELSE @]

\* Closing done is what makes the call Ended to a stop that waits for it.
EndStart(c) ==
    /\ \/ At(c, "end.ok") /\ Goto(c, "ok")
       \/ At(c, "end.failed") /\ Goto(c, "failed")
    /\ starting' = Unreserved(c)
    /\ UNCHANGED <<children, registry, req, held, sweep, ctxDone, servers, faults>>

StartStep(c) ==
    \/ ResolveModel(c) \/ Reserve(c) \/ Spawn(c) \/ Healthy(c) \/ Unhealthy(c)
    \/ Recheck(c) \/ Register(c) \/ Kill(c) \/ Drain(c) \/ EndStart(c)

-----------------------------------------------------------------------------
(* Stop, as an RPC and as StopAll's loop body.                             *)

Stopped(c) ==
    /\ Goto(c, IF req[c].verb = "stopall" THEN "next" ELSE "ok")
    /\ UNCHANGED missed

NotStopped(c) ==
    IF req[c].verb = "stopall"
    THEN Goto(c, "next") /\ missed' = [missed EXCEPT ![c] = @ \cup {Alias(c)}]
    ELSE Goto(c, "failed") /\ UNCHANGED missed

\* A pending start is cancelled; a running child is taken.
StopTake(c) ==
    LET a == Alias(c) IN
    /\ At(c, "stop")
    /\ IF starting[a] # None
       THEN /\ ctxDone' = ctxDone \cup {starting[a]}
            /\ held' = [held EXCEPT ![c] = starting[a]]
            /\ Goto(c, "stop.await")
            /\ UNCHANGED <<children, missed>>
       ELSE IF children[a] # None
       THEN /\ children' = [children EXCEPT ![a] = None]
            /\ held' = [held EXCEPT ![c] = children[a]]
            /\ Goto(c, "stop.term")
            /\ UNCHANGED <<ctxDone, missed>>
       ELSE NotStopped(c) /\ UNCHANGED <<children, held, ctxDone>>
    /\ UNCHANGED <<starting, registry, req, todo, seen, servers, faults>>

StopAwait(c) ==
    /\ At(c, "stop.await")
    /\ \/ Ended(held[c]) /\ Stopped(c) /\ UNCHANGED faults
       \/ faults < MaxFaults /\ faults' = faults + 1 /\ NotStopped(c)
    /\ UNCHANGED <<tables, req, held, todo, seen, ctxDone, servers>>

\* Mutant of TermAnswer: a dead group is not told from a refused signal.
TermAnswerPlain(s) == IF proc[s] = "up" THEN "sent" ELSE "EPERM"

\* kill(-pgid, SIGTERM).
TermAnswer(s) ==
    IF Exited(s) THEN "ESRCH"
    ELSE IF proc[s] = "zombie" /\ ZombieRefuses THEN "EPERM" ELSE "sent"

StopTerm(c) ==
    LET answer == TermAnswer(held[c]) IN
    /\ At(c, "stop.term")
    /\ \/ answer = "ESRCH" /\ Goto(c, "stop.remove") /\ UNCHANGED missed
       \/ answer = "EPERM" /\ NotStopped(c)
       \/ answer = "sent" /\ Goto(c, "stop.grace") /\ UNCHANGED missed
    /\ UNCHANGED <<tables, req, held, todo, seen, ctxDone, servers, faults>>

\* The grace ends with the exit or with a SIGKILL.
StopGrace(c) ==
    /\ At(c, "stop.grace")
    /\ Dead(held[c])
    /\ Goto(c, "stop.drain")
    /\ UNCHANGED <<tables, req, held, sweep, ctxDone, faults>>

\* Mutant of StopWaits: the SIGKILL is not waited for.
StopHurries(c) == TRUE

\* Mutant of StopWaits: a stop leaves the list to a reaper that has nothing to do.
StopAwaitsReaper(c) == registry[Alias(c)] # held[c]

StopWaits(c) == Exited(held[c])

StopDrain(c) ==
    /\ pc[c] \in {"stop.grace", "stop.drain"}
    /\ StopWaits(c)
    /\ Goto(c, "stop.remove")
    /\ UNCHANGED <<tables, req, held, sweep, ctxDone, servers, faults>>

\* reg.Remove is by alias, whoever is listed under it.
StopRemove(c) ==
    /\ At(c, "stop.remove")
    /\ registry' = [registry EXCEPT ![Alias(c)] = None]
    /\ Stopped(c)
    /\ UNCHANGED <<starting, children, req, held, todo, seen, ctxDone, servers, faults>>

StopStep(c) ==
    \/ StopTake(c) \/ StopAwait(c) \/ StopTerm(c)
    \/ StopGrace(c) \/ StopDrain(c) \/ StopRemove(c)

-----------------------------------------------------------------------------
(* StopAll: the pending starts, then the listed instances, then a stop of  *)
(* each.                                                                   *)

\* Mutant of Names: the instances for their aliases.
NamesAsStarts(table) == {table[a] : a \in {b \in Aliases : table[b] # None}}

Names(table) == {a \in Aliases : table[a] # None}

\* Mutant of ReadOrder: the registry is read first.
ReadOrderSwapped == <<registry, starting>>

ReadOrder == <<starting, registry>>

ReadPending(c) ==
    /\ At(c, "pending")
    /\ todo' = [todo EXCEPT ![c] = Names(ReadOrder[1])]
    /\ seen' = [seen EXCEPT ![c] = {s \in Calls : \E a \in Aliases : s \in {starting[a], registry[a]}}]
    /\ Goto(c, "list")
    /\ UNCHANGED <<tables, req, held, missed, ctxDone, servers, faults>>

ReadRegistry(c) ==
    /\ At(c, "list")
    /\ todo' = [todo EXCEPT ![c] = @ \cup Names(ReadOrder[2])]
    /\ Goto(c, "next")
    /\ UNCHANGED <<tables, req, held, missed, seen, ctxDone, servers, faults>>

NextAlias(c) ==
    /\ At(c, "next")
    /\ \/ todo[c] = {} /\ Goto(c, "ok") /\ UNCHANGED <<todo, req>>
       \/ \E a \in todo[c] :
             /\ todo' = [todo EXCEPT ![c] = @ \ {a}]
             /\ req' = [req EXCEPT ![c].alias = a]
             /\ Goto(c, "stop")
    /\ UNCHANGED <<tables, held, missed, seen, ctxDone, servers, faults>>

StopAllStep(c) == ReadPending(c) \/ ReadRegistry(c) \/ NextAlias(c)

-----------------------------------------------------------------------------
(* The servers.                                                            *)

\* llama-server binds its port, or dies as the port is taken.
Bind(s) ==
    /\ proc[s] = "up"
    /\ bound[port[s]] # s
    /\ IF bound[port[s]] = None
       THEN bound' = [bound EXCEPT ![port[s]] = s] /\ UNCHANGED <<proc, reaped, port>>
       ELSE Dead(s)
    /\ UNCHANGED <<tables, pc, req, held, sweep, ctxDone, faults>>

\* A crash, an OOM kill, an exit on SIGTERM.
Exit(s) ==
    /\ proc[s] = "up"
    /\ Dead(s)
    /\ UNCHANGED <<tables, pc, req, held, sweep, ctxDone, faults>>

\* cmd.Wait returns and exited is closed.
WaitReturns(s) ==
    /\ proc[s] = "zombie"
    /\ proc' = [proc EXCEPT ![s] = "gone"]
    /\ UNCHANGED <<tables, pc, req, held, sweep, ctxDone, reaped, port, bound, faults>>

\* Mutant of Owns: whoever runs under the alias is dropped.
OwnsAny(s) == children[Alias(s)] # None

\* The coordination point of reapOnExit with Stop.
Owns(s) == children[Alias(s)] = s

ReapOnExit(s) ==
    LET a == Alias(s) IN
    /\ Exited(s)
    /\ s \notin reaped
    /\ reaped' = reaped \cup {s}
    /\ IF Owns(s)
       THEN /\ children' = [children EXCEPT ![a] = None]
            /\ registry' = [registry EXCEPT ![a] = None]
       ELSE UNCHANGED <<children, registry>>
    /\ UNCHANGED <<starting, pc, req, held, sweep, ctxDone, proc, port, bound, faults>>

ServerStep(s) == Bind(s) \/ Exit(s) \/ WaitReturns(s) \/ ReapOnExit(s)

-----------------------------------------------------------------------------
CallStep(c) == StartStep(c) \/ StopStep(c) \/ StopAllStep(c)

Quiet == (\A c \in Calls : pc[c] # "idle" => Ended(c)) /\ UNCHANGED vars

Next ==
    \/ \E c \in Calls : Call(c) \/ ClientLeaves(c) \/ CallStep(c) \/ ServerStep(c)
    \/ Quiet

\* Goroutines run, and a health wait and a grace time out.  A server need
\* not do anything; a dead one is collected and its reaper runs.
Fairness == \A c \in Calls :
    WF_vars(CallStep(c)) /\ WF_vars(WaitReturns(c)) /\ WF_vars(ReapOnExit(c))

Spec     == Init /\ [][Next]_vars
FairSpec == Spec /\ Fairness

-----------------------------------------------------------------------------
StartPCs == {"get", "reserve", "spawn", "health", "healthy", "register", "kill", "drain",
             "end.ok", "end.failed"}
StopPCs  == {"stop", "stop.await", "stop.term", "stop.grace", "stop.drain", "stop.remove"}
PCs      == {"idle", "pending", "list", "next", "ok", "failed"} \cup StartPCs \cup StopPCs

TypeOK ==
    /\ starting \in [Aliases -> Calls \cup {None}]
    /\ children \in [Aliases -> Calls \cup {None}]
    /\ registry \in [Aliases -> Calls \cup {None}]
    /\ pc \in [Calls -> PCs]
    /\ req \in [Calls -> [verb : {"none"} \cup Verbs, alias : Aliases \cup {None}]]
    /\ held \in [Calls -> Calls \cup {None}]
    /\ todo \in [Calls -> SUBSET Aliases] /\ missed \in [Calls -> SUBSET Aliases]
    /\ seen \in [Calls -> SUBSET Calls]
    /\ ctxDone \subseteq Calls /\ reaped \subseteq Calls
    /\ proc \in [Calls -> {"none", "up", "zombie", "gone"}]
    /\ port \in [Calls -> Ports \cup {None}]
    /\ bound \in [Ports -> Calls \cup {None}]
    /\ faults \in 0..MaxFaults

OneServerPerAlias ==
    \A s, t \in Calls : proc[s] = "up" /\ proc[t] = "up" /\ Alias(s) = Alias(t) => s = t

\* A stop at work on a child it took.
Stopping(c) == pc[c] \in {"stop.term", "stop.grace", "stop.drain", "stop.remove"}

NoOrphanServer ==
    \A s \in Calls : proc[s] = "up" =>
        \/ pc[s] \in {"health", "healthy", "register", "kill"}
        \/ children[Alias(s)] = s
        \/ \E c \in Calls : Stopping(c) /\ held[c] = s

\* Every server is accounted for, however starts, stops, crashes and disconnects
\* interleave (reserveAlias, Stop's grace window): no two of one alias are ever up
\* together, and none is up that nobody answers for, that is, whose start is not
\* still at it, that does not run under its alias and that no stop has taken.
ServersAccounted == OneServerPerAlias /\ NoOrphanServer

StoppedIsGone ==
    \A c \in Calls : At(c, "ok") /\ req[c].verb = "stop" =>
        LET s == held[c] IN proc[s] # "up" /\ registry[Alias(s)] # s /\ children[Alias(s)] # s

\* A server leaves the list only dead, and nobody else's entry with it
\* (reg.Remove is by alias).
UnlistedWhenDead ==
    [][\A a \in Aliases : registry[a] # None /\ registry'[a] # registry[a] =>
          proc[registry[a]] # "up" /\ registry'[a] = None]_vars

StopAllSweeps ==
    \A c \in Calls : At(c, "ok") /\ req[c].verb = "stopall" =>
        \A s \in seen[c] : Alias(s) \notin missed[c] =>
            proc[s] # "up" /\ registry[Alias(s)] # s

\* A stop that answers holds. One that answers ok leaves its target dead and
\* unlisted for good, be it a running child or a start that had not registered yet;
\* and what was pending or listed when StopAll began is dead and unlisted when it
\* answers, the aliases it could not stop aside: a start that registers between its
\* two reads does not slip through.
StopsHold == StoppedIsGone /\ StopAllSweeps

EveryCallAnswers == \A c \in Calls : pc[c] # "idle" ~> Ended(c)

DeadIsUnlisted ==
    \A a \in Aliases, s \in Calls : registry[a] = s /\ proc[s] # "up" ~> registry[a] # s

\* Every RPC is answered, whatever stop, start and cleanup wait for each other, and
\* a listed instance whose server died does not stay listed ("stop of a child that
\* is already dead still clears the alias").
LauncherSettles == EveryCallAnswers /\ DeadIsUnlisted

\* The launcher implements ServerSlots: a server is alive while it is up, and
\* was offered once its start got past Register.
Slots == INSTANCE ServerSlots WITH
    Servers <- Calls,
    of      <- [s \in Calls |-> IF proc[s] = "none" THEN None ELSE Alias(s)],
    alive   <- {s \in Calls : proc[s] = "up"},
    listed  <- registry,
    offered <- {s \in Calls : proc[s] # "none" /\ pc[s] \in {"end.ok", "ok"}}

\* Every step of the launcher is a step of ServerSlots or changes nothing of it.
SlotsImplemented == Slots!Spec
=============================================================================

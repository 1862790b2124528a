-------------------------- MODULE ManagedServer --------------------------
(* The plugin servers the frontend starts (internal/alfa/pluginhost, server.go and health.go):  *)
(* each is a process in a group of its own, which must print a handshake line and then answer   *)
(* its health check before the host calls it started.                                           *)
EXTENDS Integers, FiniteSets

CONSTANTS Servers,   \* the servers clown.json declares
          Agg,       \* clown-mcp-collapse, started like any other server
          MaxDeaths  \* bound: how many servers exit unasked

ASSUME AggIsNoPlugin == Agg \notin Servers
ASSUME ServersAssumption == IsFiniteSet(Servers) /\ MaxDeaths \in Nat

Procs == Servers \cup {Agg}

VARIABLES proc,    \* the process: "none", "run", "serve" (answers 200), "dead"
          line,    \* the first line of its stdout: "none", "good", "bad"
          mgr,     \* where ManagedServer.Start or Stop is with it
          reaped,  \* done is closed: reap has waited for it
          deaths   \* the unasked exits so far

serverVars == <<proc, line, mgr, reaped, deaths>>

ServerTypes ==
    /\ proc \in [Procs -> {"none", "run", "serve", "dead"}]
    /\ line \in [Procs -> {"none", "good", "bad"}]
    /\ mgr \in [Procs -> {"idle", "handshake", "health", "failed", "managed", "term", "kill", "stopped"}]
    /\ reaped \in [Procs -> BOOLEAN]
    /\ deaths \in 0..MaxDeaths

ServersIdle ==
    /\ proc = [p \in Procs |-> "none"]
    /\ line = [p \in Procs |-> "none"]
    /\ mgr = [p \in Procs |-> "idle"]
    /\ reaped = [p \in Procs |-> FALSE]
    /\ deaths = 0

Alive(p) == proc[p] \in {"run", "serve"}
Answers(p) == proc[p] = "serve"
Settled(p) == mgr[p] \in {"managed", "failed"}

------------------------------ (* Start *) ------------------------------
\* fork and exec, or the failure of either.
Spawn(p) ==
    /\ mgr[p] = "idle"
    /\ \/ /\ proc' = [proc EXCEPT ![p] = "run"]
          /\ mgr' = [mgr EXCEPT ![p] = "handshake"]
       \/ /\ mgr' = [mgr EXCEPT ![p] = "failed"]
          /\ UNCHANGED proc
    /\ UNCHANGED <<line, reaped, deaths>>

\* kill: SIGKILL to the group, then Wait once stderr is drained.
KillAndWait(p) ==
    /\ proc' = [proc EXCEPT ![p] = "dead"]
    /\ mgr' = [mgr EXCEPT ![p] = "failed"]

\* readHandshake has no deadline of its own: it takes the first line, or the end of stdout.
ReadHandshake(p) ==
    /\ mgr[p] = "handshake"
    /\ \/ /\ line[p] = "good"
          /\ mgr' = [mgr EXCEPT ![p] = "health"]
          /\ UNCHANGED proc
       \/ line[p] = "bad" /\ KillAndWait(p)
       \/ line[p] = "none" /\ proc[p] = "dead" /\ KillAndWait(p)
    /\ UNCHANGED <<line, reaped, deaths>>

\* WaitHealthyHandshake polls until a 200 or the end of the configured timeout.
HealthEnds(p) ==
    /\ mgr[p] = "health"
    /\ \/ /\ Answers(p)
          /\ mgr' = [mgr EXCEPT ![p] = "managed"]
          /\ UNCHANGED proc
       \/ KillAndWait(p)
    /\ UNCHANGED <<line, reaped, deaths>>

\* The reaper goroutine of a started server: Wait returns once it is dead.
Reap(p) ==
    /\ mgr[p] \in {"managed", "term", "kill"}
    /\ proc[p] = "dead"
    /\ ~reaped[p]
    /\ reaped' = [reaped EXCEPT ![p] = TRUE]
    /\ UNCHANGED <<proc, line, mgr, deaths>>

------------------------------- (* Stop *) -------------------------------
\* The state of mgr once Stop has been called on every server of S: a server already reaped has
\* nothing to stop, any other is sent SIGTERM.
Stopping(S) ==
    [p \in Procs |-> IF p \notin S \/ mgr[p] # "managed" THEN mgr[p]
                     ELSE IF reaped[p] THEN "stopped" ELSE "term"]

\* Stop's select: done was closed within the grace period.
StopReturns(p) ==
    /\ mgr[p] \in {"term", "kill"}
    /\ reaped[p]
    /\ mgr' = [mgr EXCEPT ![p] = "stopped"]
    /\ UNCHANGED <<proc, line, reaped, deaths>>

GraceWaits(p) ==
    /\ mgr[p] = "term"
    /\ ~reaped[p]
    /\ mgr' = [mgr EXCEPT ![p] = "kill"]
    /\ UNCHANGED <<proc, line, reaped, deaths>>

\* The grace period passed first: SIGKILL to the group, and the wait goes on.
Grace(p) ==
    /\ mgr[p] = "term"
    /\ ~reaped[p]
    /\ mgr' = [mgr EXCEPT ![p] = "kill"]
    /\ proc' = [proc EXCEPT ![p] = "dead"]
    /\ UNCHANGED <<line, reaped, deaths>>

--------------------------- (* the processes *) ---------------------------
\* A server prints its first line, and then begins to serve.
Speak(p) ==
    /\ proc[p] = "run"
    /\ line[p] = "none"
    /\ \E l \in {"good", "bad"} : line' = [line EXCEPT ![p] = l]
    /\ UNCHANGED <<proc, mgr, reaped, deaths>>

Serve(p) ==
    /\ proc[p] = "run"
    /\ line[p] = "good"
    /\ proc' = [proc EXCEPT ![p] = "serve"]
    /\ UNCHANGED <<line, mgr, reaped, deaths>>

\* A server exits, asked to or not.
Exit(p) ==
    /\ Alive(p)
    /\ \/ mgr[p] = "term" /\ UNCHANGED deaths
       \/ mgr[p] # "term" /\ deaths < MaxDeaths /\ deaths' = deaths + 1
    /\ proc' = [proc EXCEPT ![p] = "dead"]
    /\ UNCHANGED <<line, mgr, reaped>>
=============================================================================

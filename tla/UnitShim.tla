------------------------------ MODULE UnitShim ------------------------------
(* Inside the unit: the exec shim (its dead-man connection, the relays and the in-unit servers it *)
(* starts before the provider, and the init loop it becomes), as systemd and the kernel see it.   *)
EXTENDS UnitLaunch

CONSTANTS Servers,          \* the in-unit servers a launch may have
          ProviderCodes     \* how a provider may exit of its own accord

ASSUME CodesAssumption == ProviderCodes \subseteq 0..255

VARIABLES unit,             \* what systemd knows of the unit
          shim,             \* where the shim is
          relay,            \* the agent-relay child
          srv,              \* the in-unit servers
          provider,         \* the provider, and the code it exited with
          stop,             \* how far the shim is in stopping the unit
          conn,             \* the shim's dead-man connection
          open,             \* the endpoints the frontend serves
          launch            \* the launch's inputs

unitVars == <<unit, shim, relay, srv, provider, stop>>

Usage == 2
ShimRefusal == 126
NotFound == 127
Killed == 137
ShimRefused(c) == c \in {Usage, ShimRefusal, NotFound}

Up == unit.state \in {"activating", "active"}
ServerAlive(s) == srv[s] \in {"starting", "up", "confirmed", "unconfirmed"}

UnitInit ==
    /\ unit = [state |-> "none", ran |-> FALSE, killed |-> FALSE, code |-> 0]
    /\ shim = "none"
    /\ relay = "none"
    /\ srv = [s \in Servers |-> "off"]
    /\ provider = [state |-> "none", code |-> 0]
    /\ stop = "no"

\* The shim is the init of the unit's pid namespace: its end ends everything in the unit.
EndUnit(code, killed) ==
    /\ unit' = [state |-> IF code = 0 THEN "collected" ELSE "failed", ran |-> TRUE,
                killed |-> killed, code |-> code]
    /\ shim' = "exited"
    /\ relay' = IF relay = "none" THEN "none" ELSE "dead"
    /\ srv' = [s \in Servers |-> "off"]
    /\ provider' = IF provider.state = "none" THEN provider ELSE [provider EXCEPT !.state = "gone"]
    /\ UNCHANGED <<stop, open, launch>>

ShimExits(code) == EndUnit(code, FALSE) /\ conn' = IF conn = "none" THEN "none" ELSE "closed"

---------------------------- (* before the provider *) ----------------------------
\* The dead-man connection is up: the relay and the in-unit servers start.
Connects ==
    /\ "deadman" \in open /\ conn = "none"
    /\ conn' = "queued"
    /\ shim' = "relays"
    /\ relay' = "serving"
    /\ srv' = [s \in Servers |-> IF s \in launch.inUnit THEN "starting" ELSE "off"]
    /\ UNCHANGED <<unit, provider, stop, open, launch>>

\* A mutant: the shim waits for a frontend that does not answer.
WaitsForFrontend == shim = "start" /\ Connects

\* The dead-man connection comes first; a frontend that cannot be reached refuses.
WatchFrontend == shim = "start" /\ (Connects \/ ShimExits(ShimRefusal))

\* startInUnitServers: one that fails to start is left out.
ServerSettles(s) ==
    /\ relay = "serving"
    /\ srv[s] = "starting"
    /\ \E r \in {"up", "failed"} : srv' = [srv EXCEPT ![s] = r]
    /\ UNCHANGED <<unit, shim, relay, provider, stop, conn, open, launch>>

\* applyInUnitExclusions: the saved exclusions are pushed and read back.
ReadBack(s) ==
    /\ relay = "serving"
    /\ srv[s] = "up" /\ s \in launch.excluded
    /\ \E r \in {"confirmed", "unconfirmed"} : srv' = [srv EXCEPT ![s] = r]
    /\ UNCHANGED <<unit, shim, relay, provider, stop, conn, open, launch>>

Started == \A s \in Servers : srv[s] # "starting" /\ (srv[s] = "up" => s \notin launch.excluded)
Unconfirmed == {s \in Servers : srv[s] = "unconfirmed"}

\* A mutant: an unconfirmed exclusion is only reported.
NeverRefused == {}

\* recordInUnitExclusionReadback: exclusions that are not confirmed refuse before the ready byte.
ExclusionsRefused == Unconfirmed

\* runAgentRelay: a refusal stops the servers; a listener that cannot be opened does not.
RelayStarts ==
    /\ relay = "serving"
    /\ Started
    /\ \/ /\ ExclusionsRefused # {}
          /\ srv' = [s \in Servers |-> IF ServerAlive(s) THEN "off" ELSE srv[s]]
          /\ relay' = "dead"
       \/ /\ ExclusionsRefused = {}
          /\ relay' \in {"ready", "dead"}
          /\ UNCHANGED srv
    /\ UNCHANGED <<unit, shim, provider, stop, conn, open, launch>>

\* startRelays: the shim reads the ready byte, or that the relay exited: the pipe is closed on exec, so
\* that its exit alone ends the read.
RelaysUp ==
    /\ shim = "relays"
    /\ \/ /\ relay = "ready"
          /\ shim' = "exec"
          /\ UNCHANGED <<unit, relay, srv, provider, stop, conn, open, launch>>
       \/ relay = "dead" /\ ShimExits(ShimRefusal)

\* The terminal, the provider's path and its start may each refuse.
StartProvider ==
    /\ shim = "exec"
    /\ \/ \E code \in {ShimRefusal, NotFound} : ShimExits(code)
       \/ /\ provider' = [provider EXCEPT !.state = "running"]
          /\ shim' = "started"
          /\ UNCHANGED <<unit, relay, srv, stop, conn, open, launch>>

\* runAsInit renames itself once the provider runs: how the frontend tells.
Rename ==
    /\ shim = "started"
    /\ shim' = "init"
    /\ UNCHANGED <<unit, relay, srv, provider, stop, conn, open, launch>>

------------------------------- (* the init loop *) -------------------------------
\* The provider exits on its own, or at the shim's signal; it may also be stuck in the kernel.
ProviderExits(code) ==
    /\ provider.state = "running"
    /\ provider' = [state |-> "zombie", code |-> code]
    /\ UNCHANGED <<unit, shim, relay, srv, stop, conn, open, launch>>

\* superviseProvider: the provider's status is the unit's.
Reap ==
    /\ shim = "init"
    /\ provider.state = "zombie"
    /\ ShimExits(provider.code)

\* The connection ended: SIGTERM to everything.
FrontendGone ==
    /\ shim = "init"
    /\ conn = "closed" /\ stop = "no"
    /\ stop' = "term"
    /\ UNCHANGED <<unit, shim, relay, srv, provider, conn, open, launch>>

\* DeadManGrace is over: SIGKILL to everything.
GraceOver ==
    /\ shim = "init"
    /\ stop = "term"
    /\ stop' = "kill"
    /\ UNCHANGED <<unit, shim, relay, srv, provider, conn, open, launch>>

\* deadManKillWait after the SIGKILL the shim exits whether or not the provider was reaped.
Unreaped == provider.state # "zombie"

GiveUp ==
    /\ shim = "init"
    /\ stop = "kill"
    /\ Unreaped
    /\ ShimExits(Killed)

------------------------------ (* systemd *) ------------------------------
\* The transient unit starts, or fails before any process of it ran.
UnitStarts ==
    /\ unit.state = "none"
    /\ \/ unit' = [unit EXCEPT !.state = "activating"] /\ shim' = "start"
       \/ unit' = [unit EXCEPT !.state = "failed", !.code = 1] /\ UNCHANGED shim
    /\ UNCHANGED <<relay, srv, provider, stop, conn, open, launch>>

\* The main process is the one that stays: systemd names the namespace's init.
Settle ==
    /\ unit.state = "activating"
    /\ unit' = [unit EXCEPT !.state = "active"]
    /\ UNCHANGED <<shim, relay, srv, provider, stop, conn, open, launch>>

\* SIGKILL from outside: the restart's kill, the memory limit, systemctl stop.
KillUnit ==
    /\ Up
    /\ EndUnit(Killed, TRUE)
    /\ conn' = IF conn = "none" THEN "none" ELSE "closed"

\* --collect: a failed unit is forgotten.
Collect ==
    /\ unit.state = "failed"
    /\ unit' = [unit EXCEPT !.state = "collected"]
    /\ UNCHANGED <<shim, relay, srv, provider, stop, conn, open, launch>>

ShimSteps == WatchFrontend \/ RelayStarts \/ RelaysUp \/ StartProvider \/ Rename \/ Reap
             \/ FrontendGone \/ GraceOver \/ GiveUp
=============================================================================

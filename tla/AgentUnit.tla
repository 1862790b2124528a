----------------------------- MODULE AgentUnit -----------------------------
(* One confined launch from the frontend's side: preparing it, serving its endpoints, running      *)
(* systemd-run, the goroutine that reports the provider's start, and the result file; beside the   *)
(* unit itself. The frontend may be killed at any step.                                           *)
EXTENDS UnitShim

CONSTANTS Launches          \* the inputs a launch may have

ASSUME LaunchesAssumption == \A l \in Launches : l.excluded \subseteq Servers

VARIABLES fe,               \* where the frontend is
          cred,             \* launch.ModelCredential
          todo,             \* the endpoints still to bring up
          report,           \* the report goroutine and its startOutcome
          ctx,              \* its context
          client,           \* systemd-run
          file              \* the result file

feVars == <<fe, cred, todo, report, ctx, client, file>>
vars == <<unitVars, conn, open, launch, feVars>>

Interrupted == 255
NoCode == 999
NoFile == [exit |-> NoCode, error |-> FALSE, started |-> FALSE]

Over == fe \in {"returned", "killed"}

Init ==
    /\ UnitInit
    /\ conn = "none"
    /\ open = {}
    /\ launch \in Launches
    /\ fe = "prepare"
    /\ cred = ""
    /\ todo = <<>>
    /\ report = [state |-> "none", err |-> "none", seen |-> FALSE]
    /\ ctx = "live"
    /\ client = [state |-> "none", code |-> 0]
    /\ file = NoFile

To(s) == fe' = s

\* Launch.fail: the error replaces whatever the result said.
Fail == file' = [exit |-> NoCode, error |-> TRUE, started |-> FALSE]

\* stop: every endpoint opened so far is closed, and the unit's directory removed. A connection the
\* dead-man has not yet stored is closed when it comes to store it.
CloseAll ==
    /\ open' = {}
    /\ conn' = IF conn \in {"queued", "held"} THEN "closed" ELSE conn

Inert == UNCHANGED <<unitVars, launch>>

----------------------------- (* before the unit *) -----------------------------
\* prepareAgentScope: a refused spec names no result file; what fails after it does.
Prepare ==
    /\ fe = "prepare"
    /\ \/ /\ ~loadLaunchSpec(launch.spec, launch.digest)
          /\ To("returned")
          /\ UNCHANGED <<cred, todo, file>>
       \/ /\ loadLaunchSpec(launch.spec, launch.digest)
          /\ Fail
          /\ To("returned")
          /\ UNCHANGED <<cred, todo>>
       \/ /\ loadLaunchSpec(launch.spec, launch.digest)
          /\ launchModelCredential(launch) # Refused
          /\ CredentialConsistent(launch)
          /\ cred' = launchModelCredential(launch)
          /\ todo' = Endpoints(launch, cred')
          /\ To("endpoints")
          /\ UNCHANGED file
    /\ UNCHANGED <<conn, open, report, ctx, client>>
    /\ Inert

\* startFrontendEndpoints: each in turn; only the statsd relay may be left out.
OpenEndpoint ==
    /\ fe = "endpoints"
    /\ todo # <<>>
    /\ \/ /\ CanOpen(launch, Head(todo))
          /\ open' = open \cup {Head(todo)}
          /\ todo' = Tail(todo)
          /\ UNCHANGED <<fe, conn, file>>
       \/ /\ Head(todo) = "statsd"
          /\ todo' = Tail(todo)
          /\ UNCHANGED <<fe, conn, open, file>>
       \/ /\ Head(todo) # "statsd"
          /\ CloseAll
          /\ Fail
          /\ To("returned")
          /\ UNCHANGED todo
    /\ UNCHANGED <<cred, report, ctx, client>>
    /\ Inert

\* Run: the arguments and the terminal are checked, and systemd-run started.
StartClient ==
    /\ fe = "endpoints"
    /\ todo = <<>>
    /\ \/ /\ Fail
          /\ To("close")
          /\ UNCHANGED <<client, report>>
       \/ /\ Launchable(launch)
          /\ client' = [client EXCEPT !.state = "running"]
          /\ report' = [report EXCEPT !.state = "polling"]
          /\ To("wait")
          /\ UNCHANGED file
    /\ UNCHANGED <<conn, open, cred, todo, ctx>>
    /\ Inert

--------------------------- (* the report goroutine *) ---------------------------
Outcome(err, seen) == report' = [state |-> "done", err |-> err, seen |-> seen]

\* waitActive, one poll: the provider started, the unit failed, or it goes on.
Poll ==
    /\ report.state = "polling" /\ fe # "killed"
    /\ \/ /\ unit.state = "active" /\ shim = "init"
          /\ Outcome("none", TRUE)
          /\ file' = [exit |-> NoCode, error |-> FALSE, started |-> TRUE]
       \/ /\ unit.state = "active" /\ shim # "init" /\ ~report.seen
          /\ report' = [report EXCEPT !.seen = TRUE]
          /\ UNCHANGED file
       \/ /\ unit.state = "failed" /\ ~unit.ran
          /\ Outcome("failed", report.seen)
          /\ Fail
       \/ /\ unit.state = "failed" /\ unit.ran
          /\ Outcome("ended", report.seen)
          /\ UNCHANGED file
    /\ UNCHANGED <<fe, cred, todo, ctx, client, conn, open>>
    /\ Inert

\* startupTimeout.
Expire ==
    /\ report.state = "polling" /\ ctx = "live"
    /\ ctx' = "expired"
    /\ UNCHANGED <<fe, cred, todo, report, client, file, conn, open>>
    /\ Inert

\* The context ended: a timeout is recorded at once, a cancel is not.
StopPolling ==
    /\ report.state = "polling" /\ fe # "killed"
    /\ ctx # "live"
    /\ Outcome(ctx, report.seen)
    /\ IF ctx = "expired" THEN Fail ELSE UNCHANGED file
    /\ UNCHANGED <<fe, cred, todo, ctx, client, conn, open>>
    /\ Inert

----------------------------- (* systemd-run *) -----------------------------
\* The client ends with its unit, is refused before there is one, or is interrupted by a signal
\* passed on to it while the unit runs.
ClientExits ==
    /\ client.state = "running"
    /\ \/ unit.state \in {"failed", "collected"} /\ client' = [state |-> "done", code |-> unit.code]
       \/ unit.state = "none" /\ client' = [state |-> "done", code |-> 1]
       \/ client' = [state |-> "done", code |-> Interrupted]
    /\ UNCHANGED <<fe, cred, todo, report, ctx, file, conn, open>>
    /\ Inert

\* Only a client asks for the unit.
StartUnit == client.state = "running" /\ UnitStarts /\ UNCHANGED feVars

------------------------------ (* the end of Run *) ------------------------------
\* The client is done: the report goroutine is told to stop.
Wait ==
    /\ fe = "wait"
    /\ client.state = "done"
    /\ ctx' = IF ctx = "live" THEN "cancelled" ELSE ctx
    /\ To("outcome")
    /\ UNCHANGED <<cred, todo, report, client, file, conn, open>>
    /\ Inert

Code == client.code

\* Mutant of RefusedByShim: the shim's own codes are not told apart.
NoRefusal == FALSE
RefusedByShim == ShimRefused(Code)

\* No evidence that anything ran.
NothingSeen == Code # 0 /\ ~report.seen /\ report.err # "ended"

\* The outcome decides what the result says last.
Settled ==
    /\ fe = "outcome"
    /\ report.state = "done"
    /\ IF report.err \in {"failed", "expired"}
          \/ (report.err # "none" /\ (RefusedByShim \/ NothingSeen))
       THEN Fail
       ELSE file' = [exit |-> Code, error |-> FALSE, started |-> report.err = "none"]
    /\ To("stop")
    /\ UNCHANGED <<cred, todo, report, ctx, client, conn, open>>
    /\ Inert

\* stopIfActive: the stop may fail, or hang until its own bound.
StopIfActive ==
    /\ fe = "stop"
    /\ To("close")
    /\ \/ Up /\ KillUnit
       \/ UNCHANGED <<unitVars, conn, open, launch>>
    /\ UNCHANGED <<cred, todo, report, ctx, client, file>>

\* stopEndpoints.
StopEndpoints ==
    /\ fe = "close"
    /\ CloseAll
    /\ To("returned")
    /\ UNCHANGED <<cred, todo, report, ctx, client, file>>
    /\ Inert

------------------------------- (* the dead-man *) -------------------------------
\* DeadMan.accept: the shim's connection is taken off the queue, or refused.
Accept ==
    /\ conn = "queued" /\ "deadman" \in open
    /\ conn' \in {"accepted", "closed"}
    /\ UNCHANGED <<open, feVars>>
    /\ Inert

\* Close may have run between the accept and this: then nothing would close a stored connection.
Stored == IF "deadman" \in open THEN "held" ELSE "closed"

Store ==
    /\ conn = "accepted"
    /\ fe # "killed"
    /\ conn' = Stored
    /\ UNCHANGED <<open, feVars>>
    /\ Inert

\* SIGKILL: no defer runs; the kernel closes every socket the frontend had.
FrontendDies ==
    /\ ~Over
    /\ To("killed")
    /\ open' = {}
    /\ conn' = IF conn = "none" THEN "none" ELSE "closed"
    /\ UNCHANGED <<cred, todo, report, ctx, client, file>>
    /\ Inert

UnitStep == \/ ShimSteps \/ Settle \/ Collect \/ KillUnit
            \/ \E s \in Servers : ServerSettles(s) \/ ReadBack(s)
            \/ \E c \in ProviderCodes : ProviderExits(c)

Next ==
    \/ Prepare \/ OpenEndpoint \/ StartClient \/ Poll \/ Expire \/ StopPolling
    \/ ClientExits \/ StartUnit \/ Wait \/ Settled \/ StopIfActive \/ StopEndpoints
    \/ Accept \/ Store \/ FrontendDies
    \/ UnitStep /\ UNCHANGED feVars

\* The shim's own steps and timers, and the dead-man's goroutine, are taken in the end; systemd
\* starts the unit or not. Nothing makes the provider exit.
Fairness ==
    /\ WF_vars(ShimSteps /\ UNCHANGED feVars)
    /\ WF_vars(Store)
    /\ WF_vars(Accept)
    /\ \A s \in Servers : WF_vars(ReadBack(s) /\ UNCHANGED feVars)

\* An in-unit server prints its first line or exits.
ServersAnswer == \A s \in Servers : WF_vars(ServerSettles(s) /\ UNCHANGED feVars)

Spec == Init /\ [][Next]_vars /\ Fairness /\ ServersAnswer

\* readHandshake has no timeout of its own: a server may never print its first line.
SpecHung == Init /\ [][Next]_vars /\ Fairness

-----------------------------------------------------------------------------
\* Once the frontend has died or returned, nothing of its unit stays (the dead-man, stopIfActive,
\* the relay's close-on-exec pipe, the shim's give-up).
UnitEnds == Over ~> ~Up

Loaded == loadLaunchSpec(launch.spec, launch.digest)
Ran == provider.state # "none"

\* What the result says on return: an exit code or an error, the code the client's own; without an
\* error the provider ran and the code is its own, unless the unit was killed (by the shim's own
\* give-up too) or the client interrupted. A start once seen is never turned into a failed launch, and a timeout once
\* recorded is not undone.
ResultIsTrue ==
    /\ fe = "returned" /\ Loaded =>
         /\ file.error \/ file.exit # NoCode
         /\ ~file.error => file.exit = client.code
         /\ ~file.error /\ ~unit.killed /\ client.code # Interrupted =>
                Ran /\ (file.exit = provider.code \/ stop = "kill")
    /\ file.started => Ran
    /\ report.state = "done" /\ report.err = "none" => ~file.error
    /\ report.state = "done" /\ report.err = "expired" => file.error

\* A running provider has its exclusions confirmed, where a server that carries them started, and
\* its dead-man connection made.
Covered ==
    provider.state = "running" =>
        /\ \A s \in launch.excluded : srv[s] \in {"confirmed", "failed", "off"}
        /\ conn # "none"

\* With the proxy the unit holds a placeholder, no login, and no way to the model's own hosts.
CredentialOutside ==
    LET env == environment(launch, cred, "shim")
        held == {env[k] : k \in DOMAIN env \cap CredentialKeys}
    IN Ran /\ cred = Proxy =>
         /\ held \subseteq {Placeholder, ModelEndpoint, ""}
         /\ ~LoginBound(launch, cred)
         /\ launch.spec.egress = {None} =>
              agentEgressAllowlistFor({None}, launch.front.base, TRUE) \cap ModelHosts = {}

\* Nothing the unit may write reaches clown's state, through symlinks too; the frontend decides what
\* unit it is and which clown it runs; an in-unit moxy only narrows the ceiling.
Confined ==
    Ran => /\ \A p \in Writable(launch.spec) : ~Touches(ResolvePath(p), ResolvePath(ClownState))
           /\ environment(launch, cred, "shim")["CLOWN_UNIT"] = "unit"
           /\ environment(launch, cred, "shim")["CLOWN_BIN"] = "shim"
           /\ launch.moxy # "widens"

\* What must hold of the unit once its provider runs, whatever raced or failed before.
UnitContained == Covered /\ CredentialOutside /\ Confined
=============================================================================

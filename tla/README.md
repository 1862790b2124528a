# clown: TLA+ models of its concurrent core

This directory is a verification development of clown, a Go program that wraps
coding agents (a *frontend* around one provider process) and runs confined
background agents (*juggler*). It holds TLA+ modules translated from the code
under `../src/`, TLC configurations that check them on small instances, and
proofs that TLAPS checks. `PROJECT.json` maps every definition to the lines it
models, and lists the components, the runs, a mutant for each property, the
hazards of the code and the theorems.

```
tlc -workers 2 -config Run_life.cfg MCRunLifecycle.tla   # a run
tlapm RestartProofs.tla                                   # a proof module
```

## 1. The system

clown is many short processes, a few long ones, and files, locks and external
services between them.

| part | state it keeps | operations | what is hard |
|---|---|---|---|
| **Run lifecycle** `internal/charlie/jugglerrun` (spawn, resolve, clean, store, ledger, troupe) | run record, run ledger, child records, password, brief, moxyfile and traffic files, two "already posted" markers; outside: troupe accounts, a MUC room, posted stanzas, ringmaster jobs, systemd units | `spawn --new-run`, `spawn --brief`, `resolve`, `clean` (pending runs and resolved runs), `decide` (one routed account) | every step may fail, or succeed and lose its reply; a verb may be killed between any two steps; verbs race, some of them without the run lock |
| **Agent exit and wake** (agent, exitwake, ringmaster) | the job's journal, the job lock, the wake lock and marker | one agent job's producer: lock, loop, verdict, `done`; the unit's ExecStopPost hook: read, `done` with retries, wakes; ringmaster's reaper | producer, hook and reaper all want to write the one terminal record; a failed `done` may have landed |
| **Agent loop and environment** `internal/alfa/jugglerloop`, jugglerrun/agent | transcript, ledger, traffic file, the moxy child, budgets | turns and tool calls until an end reason; set-up and verdict | cancel, SIGTERM and the wall clock between a call and its result; budgets reached mid-turn |
| **llama-server launcher** `cmd/juggler` (launcher, server), `internal/0/juggler` | three tables by alias: pending starts, children, the registry | StartInstance, ResolveModel, StopInstance, StopAll, a child's reaper | RPCs of several clients on one alias, clients that disconnect, children that die at any point |
| **Model download** `internal/0/jugglermodels`, cmd/juggler/models | the path of a model, temporary files, a slot per daemon | download, sync, verify, publish | concurrent downloads of one model, a crash between the last byte and the publish |
| **Launch pipeline** `cmd/clown` (main, resume, profilegate, agentscope_record, restart_relaunch), `internal/alfa/sessions`, `clownname` | `session-names.jsonl`: names, profile pins, confinement records; the profile registry; presence | resume, resolve, the two gates, the claim of a name, the wrap and its inner clown, the records, the relaunch | two launches of one session; torn records; forms of the command line that name the session differently at each stage |
| **Frontend restart** `cmd/clown` (restart*, selfclose) | the request queue (pending, deferred, being retried), `inFlight`, two mutexes, the stored plan, the busy flag, the idle listener's channel | requests for *idle* and for *now*, idle transitions, the preflight, the countdown, deferral, the stop | the listener, each request and the provider run concurrently; hooks' datagrams may be lost; a verdict is consumed once |
| **Plugin host and selection** `internal/alfa/pluginhost`, cmd/clown main, pluginbinding, cheapcontext | managed servers, handshakes, the saved selection | concurrent start, health check, the failure policy, stop | failed and slow starts, a death before the handshake, a fall-back to what the selection excludes |
| **MCP collapse** `internal/alfa/mcpcollapse` | a session id per upstream | dispatch of a tool call, one retry after a stale session | compare-and-delete of a session others use |
| **Stdio bridge** `cmd/clown-stdio-bridge`, **MCP HTTP** `internal/0/mcphttp` | pending table with abandoned ids, bounded write queue, subscribers, the exclude set | requests, notifications, broadcasts, the child's exit | late answers to abandoned ids, full queues, a child that stops reading |
| **Agent scope** `internal/alfa/agentscope`, cmd/clown/agentscope | the unit, its dead-man connection, the endpoints, the result file, monitor relays | prepare, serve, systemd-run, shim, init loop, report, result | either end dies at any step; checked addresses and callers change before the dial |
| **Hooks** `cmd/clown-hook-*`, `toolcost`, `permstat` | a saved offset and open response, a tee cursor, one file of pending prompts | one run per hook event | runs overlap, time out, are killed; the transcript grows under them |
| **Session status** `internal/alfa/sessionstatus`, selfclose, hungsession | one file per session key, an idle socket | writes under a mutex with trailing timers; removal at exit | a timer that fires after the removal; a successor under the same key |

The rest (configuration, argv building, parsing, reports, the pty and the tent)
keeps no protocol state; `PROJECT.json` lists it with the reason it is left out.

How they interact: a frontend or a person calls the juggler verbs; `spawn`
launches a unit in which the producer of *Agent exit* runs the agent loop, and
whose exit hook wakes the job's holders; `resolve` cancels those jobs and waits
for them; the loop's model is a llama-server that the launcher keeps; its tools
come over the MCP parts. A launch goes through the pipeline, starts the plugin
servers, may run the provider in a confined unit, and keeps its status file;
the provider's hooks run beside it. A restart replaces a frontend under a
session that goes on, and the relaunch goes through the pipeline again.

What makes each part correct:

- *Run lifecycle*: no account of an agent at work is deleted; an account that
  exists can be found again by its record; a teardown entry in the ledger tells
  the truth; a resolution is one for record, ledger and job; a failed spawn
  leaves nothing; one agent per brief; a retired run key stays retired.
- *Agent exit*: one terminal record for good; the holders are told that record
  and no other; a live holder of the lock keeps its outcome; every job that was
  ever locked is settled.
- *Agent loop*: every request a model API gets is well formed, whatever cut the
  reply before it; transcript, ledger and traffic agree; the verdict has its
  cause; moxy does not outlive the run.
- *Launcher*: one server per alias; no server without somebody who answers for
  it; a stop that says ok is final; a stop-all misses nothing it began with;
  the list forgets the dead.
- *Model download*: a verified model is what the registry says, also after a
  crash, and a download does not replace a model by another's.
- *Launch pipeline*: a session that ever ran confined stays confined, under the
  same boundary; a pin is replaced only with approval; one launch's gates do
  not contradict each other.
- *Restart*: one question per request; one fate per granted restart; nothing
  begins once a restart is underway; bounded retries; no request left waiting.
- *Plugin host, collapse, bridge*: what the provider is offered obeys the saved
  selection; nothing outlives clown; a call runs once unless its session is
  stale; an answer reaches its own request or nobody; an excluded tool is
  neither listed nor called.
- *Agent scope*: the unit ends when its frontend does; the result file tells
  the provider's exit or an error; nothing the spec forbids is bound, put in
  the environment or dialled; a monitor's lines reach a reader in order.
- *Hooks, status*: each response and prompt is counted once; the file tells the
  last state of the frontend that serves the key.

## 2. The modules

**Run lifecycle.** `RunState` declares the shared state: the files of one run
key, what its verbs made outside, and per call a program counter, an undo stack
and what the call remembers from earlier reads (`mem`). A *call* is one process
of the `juggler` binary. Each external command and each file write is one step
with an outcome: `ok`, `refused` (no effect, an error), `lost` (it took effect,
the caller sees an error), or `disk` for a file. `NewRun`, `SpawnChild`,
`Resolve` and `Clean` have one action per step of their Go function, `Teardown`
the deletion of one account that `resolve` and `clean` share, `Unwind` the undo
stack. `RunLifecycle` composes them with agents, crashes and the clock;
`RunProperties` says what they promise together.

**Agent exit.** `AgentExit` has one action per step of `RunAgent`'s exit
(`Acquire`, `LoopEnd`, `Judge`, `Done`, `Relay`, `Release`), of `ExitWake`
(`HookRead`, `HookDone`, `HookReread`, `HookLock`, `HookSend`, `HookMark`), and
the holder's cancel, the unit's SIGTERM before or at the wall clock's end, the
reaper, and the death of any of them. The journal's rule that the first
terminal record wins is external (`Settle`). `JobSpec` is the promise to the
job's holders, and `AgentExit` implements it.

**Agent loop.** `AgentLoop` is `jugglerloop.Run`: requests, replies of several
blocks, tool calls, step edges, refusals, budgets, and the two encoders of the
transcript that a request goes through. `AgentRun` is `RunAgent` around it: the
set-up steps that may each fail, moxy, the traffic sink, the cancel sources,
the verdict and the finish. What becomes of the terminal record is
`AgentExit`'s.

**Launcher and downloads.** In `Launcher` an RPC is a call with a program
counter; a server is named by the call that started it. `starting`, `children`
and `registry` are the code's three tables; `ctxDone` is the set of starts whose
context was cancelled; a process is up, a zombie, or gone (its `exited` channel
closed); `bound` says who listens on a port. A stop's SIGTERM of a group whose
only process is a zombie may be answered as one platform or another answers it
(`ZombieRefuses`). `ServerSlots` is the promise, and `Launcher` implements it.
`ModelDownload` follows two downloads of one model, in one process or two:
the slot, the look at the path, the bytes (written or durable), the digest, the
link or rename. `Juggler` is the daemon: a behaviour follows the launcher or the
downloads, which share no variable; a product would multiply the states and
add no interleaving that either can see.

**Launch pipeline.** `SessionNames` is the sidecar journal, with torn and glued
lines, and the allocator of names. `LaunchGates` has what a launch decides:
the session its arguments name (with `--resume`, `--session-id`, `--continue`,
a search term), both gates, what it may record. `Session` runs launches through
the stages, each stage one read or one append; the inner clown of a wrap and a
relaunched frontend go through the same stages with the arguments the code
gives them.

**Restart.** In `Restart` the threads are the idle listener's run loop and one
per request. The queue is `restartQueue` (pending, deferred, resuming), the
runner `idleRunner` (inFlight, mu, closeMu); a thread's steps are the reads and
writes of shared state in the order of the code, from the control socket's
handler to the stop and its grace timer. The hooks' datagrams are a sequence
that the listener reads in order, and that a send may fail to reach. The gates
of the relaunch, the operator and spinclass's verdict are free choices (the
gates are modelled in `Session`). `newest` and `shown` are history variables.

**Tool plane.** `ManagedServer` is one plugin server: handshake, health check,
death, the stop with SIGTERM then SIGKILL. `Collapse` extends it with the
aggregator: the fan-out, the session cache, the dispatch and its retry.
`ToolPlane` is one launch around them: the selection, the failure policy, the
bindings the provider is given, interrupt and shutdown. `Translator` is the
stdio bridge's router, `Bridge` the HTTP handlers and the process around it.

**Agent scope.** `UnitLaunch` has the decisions before the unit exists (symlinks
resolved, binds and environment refused or passed, endpoints wanted); `UnitShim`
the inside of the unit; `AgentUnit` the frontend's side, systemd-run and the
result file. `MonitorRelay` is one monitor and its readers, `EndpointCalls` the
proxies per call. `TranscriptHooks` has the cost hook, which reads a growing transcript record by
record from its saved offset, and the tee hook, which loads its cursor and then
reads what is there, `PromptCounts` the pending prompts, `StatusFile` the status
file and the idle socket. `Scope` puts them together: they share no variable,
only the time the unit runs, so a behaviour follows one of them, chosen at the
start; an older transcript, in the middle of a response or of a turn, is given to the
hook it matters to.

**Instances.** `MC*` modules give the sets and records that a configuration
cannot write. **Proofs.** `RunProofs`, `SessionProofs`,
`ToolPlaneProofs`, `BridgeProofs`, `ScopeProofs`, `LauncherProofs`,
`AgentProofs`, `RestartProofs`.

## 3. The runs

A passing run checks its properties to the end of the state space. Each of its
properties has a mutant in `PROJECT.json`: a plausible bug in one mapped
definition under which TLC finds that property violated. Properties named
together are conjunctions of named parts.

| run | instance | distinct states | shows |
|---|---|---|---|
| `Run_life` | 4 calls, 1 brief, one failed step (refused, lost or disk), one killed call; verbs new, spawn, resolve, sweep, decide | 813k | accounts, ledger, records, files and posts agree; nothing is taken from those who use it |
| `Run_spawn` | 3 calls, 2 briefs, two failed steps, time 0..1 against an age of 1, fair | 132k | failed calls leave nothing; one agent per brief; a reaped key stays so; every call returns |
| `Exit` | main producer, 1 duplicate, 2 hooks, 1 holder, 2 faults, 1 retry, fair | 1.5M | one terminal record; wakes tell it; a locked job is settled; implements `JobSpec` |
| `AgentRun` | 2 tools, one allowed, 2 steps, replies of up to 2 blocks, every set-up failure, fair | 1.7M | requests well formed; accounts agree; verdict and moxy; the run ends |
| `Launcher` | 3 RPCs (resolve, stop, stop-all) on one alias and one port, 1 wedged start, fair; or 2 downloads, one change by hand, one crash or kill | 276k | one server per alias, none orphaned, stops final, each RPC answered; implements `ServerSlots`; a published model stands |
| `Session` | 2 launches of every form, 1 known session, one trouble (an edit, a closed session, a failed write), restarts | 1.8M | confined stays confined; pins; the gates agree |
| `Restart` | one idle and one now request, 2 turns, 2 attempts, fair | 558k | asked once, one fate, bounded retries, none left waiting |
| `ToolPlane` | 2 servers, 2 calls, 2 ids, 2 session drops, 1 death, every flag, fair | 337k | selection, nothing outlives, calls run once, the host never hangs |
| `Bridge` | 2 POSTs, 1 stream, 2 ids, a queue of 1, a pipe of 1, 3 events | 4.8M | own answers only; excluded is hidden; a slow stream keeps the newest |
| `Scope` | 11 launches with 2 in-unit servers; 2 readers, 3 lines, 2 runs; 2 calls; 3 responses, 2 runs of each hook; 2 prompts; 2 frontends of a key | 678k | the unit ends, results are true, nothing escapes, lines arrive, hooks count once, the status stands |

Why the bounds are enough for what is asked. In a run's lifecycle two calls
race, a third makes the run and a fourth repeats or sweeps; a property that
needs two failures (a step and its compensation) is in the run with
`MaxFaults = 2`. In `Exit` a fault for the producer and one for a hook leave the
second hook or the reaper to settle; two hooks are what the marker and its lock
are about. In `Launcher` one alias is where RPCs meet (aliases share nothing but
ports), and three RPCs are a start, its stop and whoever comes in between; two
downloads meet in one slot or at one path. In `Session` two launches are two
writers of a pin or a launch and its successor, and one trouble is what turns
the first's reading stale (`MaxTroubles` bounds edits, closed sessions and
failed writes together). In `Restart` the two requests meet each other and the
idle listener, two turns are one to defer a restart and one to end its retry,
and `MaxAttempts` is 2 rather than the code's `maxRestartAttempts` so that the
bound is met; the proofs hold for every value. In `Bridge` two POSTs on two ids
are a late answer and the reuse of its id; a queue and a pipe of one are full at
once. In `ToolPlane` two drops of a session let the retry's own session be
dropped too. In `Scope` two readers are one that goes in the middle of a replay
and its successor; a buffer of two lines against three overflows; three
responses are one that a run leaves open, its successor and one more;
`MaxReopen` is 2 for the code's 5 and `MaxPending` 1 for its 32, so that both
limits are met; two frontends are an owner of the key and its successor.
`Calls` is a symmetry set in `Run_life`, which has no liveness.

Deadlock is checked where all rest is a stuttering `Quiet` (or, in `Restart`, a
step after `left`). The other configurations say `CHECK_DEADLOCK FALSE`: a
process that has returned takes no step, and the liveness properties say that
it gets there.

### Violations: where the code and what is said of it differ

Each checks one property that a comment or a document states, and TLC finds the
counterexample. The quotes are in `PROJECT.json`.

| run | statement | what the code does |
|---|---|---|
| `Restart_newest` | a newer request replaces a deferred one | a restart deferred *after* the newer request was queued stays, and is retried later |
| `Scope_floor` | an offset above 0 without `FloorDone` is a state from before the guard existed, or past the first response | a first hook run that finds the first response still open commits such a state, and the session's context floor is never judged |

Other observations, met while modelling, that no run checks:

- `resolve.go:69` finds the run before the lock and `resolve.go:153` writes that
  copy back: a resolve that waited for another resets `torn_down`.
- `spawn.go:609-620`: a spawn killed between saving the child and launching its
  unit leaves a room with a brief and no agent, and each later spawn returns it
  as existing.
- `resolve.go:106` and `:190`: a resolve that fails after closing the ledger
  lets a spawn in, and its retry skips the children.
- `exitwake.go:194`: the hook of a refused duplicate producer may settle the
  job of the live holder.
- `launcher.go:201`, `:335`: a start may be told healthy by the winner of a port
  race, and answers ok. `launcher.go:299`: with `ZombieRefuses` a stop that
  meets a zombie group answers an error and has dropped the child already.
- `spawn.go:231`: a resumed `--new-run` saves a fresh record with `RoomCreated`
  false when the room's creation fails on the retry.
- `main.go:2366`: a SIGTERM that comes before the provider runs is not passed
  on. `claim.go:48`: the lock is released before the name is visible.
- `resume_hint.go:44-45` against `main.go:329-331`: an inner clown given
  `--session-id` takes that id as its key, so the key is then not the name of
  its multiplexer session (`InnerKeepsKey`, stated in `Session` and checked by
  no run).
- A torn profile record hides a pin, so an inner clown of an approved wrap may
  be refused.
- `agentscope_record.go:84-106` against `:244-278`: under `--agent-scope` an
  outer clown that resumes by a search term, or by a cluster such as `-cr`, is
  let through while no session is recorded as confined, and records its own key
  as confined; its inner clown behind the `[attach]` wrap finds that record and
  is refused the same arguments, unless the term is the session key it was
  given. A scoped launch of another provider ends the same way. `GatesAgree`
  leaves these launches out (`OwnRecordRefuses`), as the refusal is the
  documented one.
- `agentscope.go:716`: the shim waits in `startRelays` for its servers'
  handshakes, without a timeout, before it reads the dead-man connection; a
  server that never speaks keeps the unit alive after its frontend
  (`SpecHung` in `AgentUnit` states it without the assumption), though
  `spec.go:247` names the frontend's death as an ending.
- `run.go:334`: a provider that exits with one of the shim's own codes before it
  was seen is reported as the shim's refusal (documented); `spec.go:275`:
  `exit_code` is -1 when systemd-run was interrupted; a start-up timeout
  records a failure and leaves the unit running.
- A relay delivers at least once: a reader that goes in the middle of a replay
  leaves its successor duplicates.

## 4. Fairness

Liveness (`EveryCallReturns`, `LockedIsSettled`, `RunEnds`, `LauncherSettles`,
`RequestIsAsked`, `HostSettles`, `UnitEnds`) is checked under weak fairness
only.

- Processes and goroutines that can run do: each call's, producer's, hook's and
  thread's own steps. A step that waits (a lock, a mutex, a health check) is
  enabled only when what it waits for is there; timeouts are steps that are
  always enabled, as their deadlines expire.
- An agent's unit has a `RuntimeMaxSec`, so an agent ends; systemd runs the
  exit hook once the main process is gone; some ringmaster reaper watches the
  host. In `AgentRun` that clock is fair, and a model or a tool need never
  answer before it.
- A killed server is collected by its `cmd.Wait` goroutine; a server need not
  exit, bind or answer by itself.
- In `Restart` the preflight, the countdown and the gates have deadlines and
  the stop's grace timer fires. A close-self-run is assumed to end: it has no
  timeout in the code. Nothing is assumed of turns, of the provider, of the
  operator or of who sends requests.
- In `ToolPlane` each server in the end prints a first line or exits
  (`Speak`); whether the line is a handshake and whether it turns healthy is
  free. Nothing is assumed of the provider: `HostSettles` allows it to run.
- In `AgentUnit` the shim, systemd and the kernel's delivery are fair, and each
  in-unit server settles (`ServersAnswer`, see the observation above); nothing
  is assumed of the frontend, the client or the provider.

## 5. What is proved

TLAPS proves these for every value of the constants that the named assumptions
allow (how many actors, which bounds), not just for the instances above. Each
module has the same plan: an inductive invariant made of named parts, one lemma
per action (or per group that touches the same part), and the theorems last. The
inductive invariants were checked with TLC, as invariants of the runs above,
before they were proved.

**`RunProofs`** (`CallsAssumption`, `OptionAssumption`, `VerbAssumption`): the
types, `TeardownTruthful`, `AccountsInOrder`, `ResolvedOnce`, `ReapedForGood`,
`NothingTakenBack`, `SpawnsAreSingle` and `FailedCallLeavesNothing`, for any
calls, briefs, faults and crashes. None of them is inductive. The invariant is
split by what a call may rely on:

- `Locks`: whoever is past its lock step and has not returned holds the lock.
- `Holding(c)`, what the holder of the lock may rely on: a `--new-run` has its
  root minted (`NewHolds`), a spawn an open run and a brief that is nobody
  else's (`SpawnHolds`), a resolve its ledger, job, markers and record as far as
  it has come (`ResolveHolds`), a teardown a principal whose job has ended and
  nothing it found gone that is there (`AccountHolds`), a clean a pending record
  until the tombstone (`CleanHolds`).
- `Known(c)`, what holds of a call wherever it is: the copy of the record that
  `resolve` reads before it has the lock is old in one way only (`Copy`:
  somebody else may have resolved the run since), a sweep reads the children
  when they can no longer change (`Swept`), an agent is admitted before it is
  launched (`Member`).
- `Shared`: the records, the run's job, the ledger and what has been torn down;
  `Posts` and `RootKnown`: the markers, and who can tell of a root that no
  record tells of.

A step of one call only makes the shared state grow for the others (`Grows`), so
each of these is proved once for the others (`OthersKnow`, `OthersHold`,
`HolderKeeps`) and once for the caller. The two theorems on spawns need the undo
stack too (`LeftInv`: what a spawn has made is on its stack, or in its record,
or its own to undo), and they assume `"lost" \notin Faults`: a launch whose reply
is lost leaves a unit behind that the unwinding spawn does not know of, and a
second spawn of that brief then starts another; the code cannot tell, and the
two properties do not claim it. `Run_spawn`, which checks them, has the same
`Faults`.

**`SessionProofs`** (`InvocationsAssumption`: the resume hint of a launch is
computed, never given, and nobody is started as an inner clown but by a wrap;
`StartsAssumption`: the file begins with whole records; `LaunchesMintIds`: a
launch mints a conversation id):
`ConfinedStaysConfined`, `PinStands` and `GatesAgree`, for any launches,
invocations, specs, restarts, edits, closed sessions and failed writes. Of the first: a launch past
the confinement gate has its conversation's record in the file before it goes on
(`Secure`), so whatever ran confined is recorded (`Noted`). A line of the file
is never lost: an append leaves it, glues to it or completes it, and a line that
no longer parses closes the gate to every id in it (`Recorded` is kept either
way). A gate that lets a launch through on a recorded session gives it the
recorded spec at the recorded boundary, so the launch is as its session was
(`Passed`). The gates in between may change the launch (the resume hint, the id
minted for it), and the lemmas on them say that its conversation stays the one
that was judged. Nothing is assumed of what two launches do to one session at
once: sessions the file tells two things of (`Contested`) are outside the
property, see section 6. `PinStands` needs no such exception: a pin about to be
written was approved, or the launch read no other (`ReadBefore`, with the file
as long as it was then); a line that got worse since shows that same pin or none
(`Worsened`, `Reread`), so a launch that replaces a pin had not read it. What
the profile gate lets through unapproved applies the pin it read (`PinApplied`,
which needs that the resume hint is an id the args name, `Decided`), and the
definition it applies is the registry's as long as nobody edits that (`Current`,
`Upheld`).

`GatesAgree` compares two asks of one gate, so its invariant (`CalmInv`) is about
a launch that a gate let through and that nobody disturbed since (`calm`, the
model's history variable: an edit, a failed write, and another launch's record
that it would read all clear it). Of such a launch `Quiet` says, for each stage,
what the next ask will find: the profile asked for again is the one applied
(`ProfileStays`), the profile gate lets the next flags through or will once the
one pin still to be written is there (`PinAgrees`, `FirstPinned`), and so does
the confinement gate (`ScopeAgrees`, `Confinable`) and the unit's own read
(`StillBounded`). Three facts carry it. Deciding a session twice decides nothing
new: the args name a conversation after the first time (`DecidedIsNamed`,
`NamedIsKept`), so an inner clown keeps them, its hint and its ids. What the
outer records is what the inner looks for (`GateGranted`, `FirstPinFound`,
`ConfinedFirst`, `ConfinableRecorded`). And a record that a launch would not
read leaves both gates' answers (`GateKept`, `ConfinableKept`, `Untouched`). A
file with a line that does not parse is exempt, and so are the launches of
`OwnRecordRefuses` (section 3).

**`ToolPlaneProofs`** (`ServersAssumption`, `InUnitAssumption`,
`AggIsNoPlugin`, `OffersIds`): `NothingOutlives`, `SelectionHolds`,
`CallOutcome`, for any servers, upstreams, tools, calls and session drops. The
processes (`Fleet`: what is idle, failed, killed or reaped is not alive), the
order of a launch (`Order`: servers start in one phase only, a shutdown has told
every one of them to stop), the selection (`Narrowed`: what has been kept,
excluded and confirmed by each phase), and the calls. Of a call, `Course` says
how often it can have run where it is, and that only a call with a session is
tried again; `Undisturbed` that a call nothing disturbed is alone at its
upstream, so the cached id it invalidates in `reinitSession` is its own stale
one and the id it gets is the upstream's current one. Builder.Build's "first
upstream that renders an id" is the least position, and that there is one
(`FirstOf`) is the well-foundedness of `<` on the naturals.

**`BridgeProofs`** (`PostAssumption`, `DepthAssumption`, `ModeAssumption`): the
types, `AnswersMatched`, `ExcludedIsHidden`, `NewestKept`. `AnswersMatched` is
about what waiters got; the invariant says where every request is: through the
queue once (`Once`), the table has every answer that may still come, by its
waiter or as abandoned, and no two of them have one id (`Table`), and what the
reader holds between the table and the channel is that entry's (`Hand`).
`Hidden` says how far a call posted after its exclusion can have got.

**`ScopeProofs`** (`FrontendsAssumption`, `RelayBounds`, `SitesAssumption`,
`AddressesAssumption`, `RoutesAssumption`, `CodesAssumption`,
`LaunchesAssumption`, `CredentialKeysAssumption`, `PromptBounds`,
`HooksAssumption`): `StatusStands`, `LinesReachReader`, `ResultIsTrue`,
`UnitIsContained` and `HooksCountOnce` (`PromptsSettled`, `TeedOnce` and
`CountedOnce`), of the composed scope. As the parts share no variable, a step of
one leaves the invariants of the others. `StatusInv`: one frontend of a key may
write, and its timer goes with it. `RelayInv`: lines wait in the order of their
numbers, a queue is only there without readers, and every line is somewhere.
`CallsInv`: what each stage of an endpoint call has established of its caller,
address and token (`Bounded`). `UnitInv`: the unit's side (the shim lives as
long as the unit, the provider within the shim, nothing runs before the relay is
ready) and the frontend's (a stage, systemd-run's code, and what was seen of the
start, each from what the unit did); containment is that, and three lemmas on
what `UnitLaunch` decides, for any spec, keys, binds and environment.
`PromptInv`: a prompt that was asked is in one place, a file, a run's hands, or
counted (`Apart`, `Placed`), one run at a time uses a file (`Exclusive`), and no
file has a prompt twice (`Unrepeated`), so a cap or a sweep can drop one but
none is counted twice. `TeeInv`: what a tee run has read lies behind what it
will save (`TeeForm`), and runs that take turns post from the cursor on
(`InTurn`).

`CountedOnce` says what the cost hook has sent is what the committed records are
worth, and `Worth` reads the whole transcript at once, where the hook reads it
record by record and stops anywhere. So `CostInv` restates the worth of a prefix
by sets of positions (`WorthOf`: who begins a response, which results it reads,
what is still live, what is called again), and lemmas say how each set grows by
one record, for each type of record. `RunnerAt` is what a run knows after `n`
records: its calls and results are those of the prefix (`WorkAt`), the open
response began right after what is committed and no boundary came since
(`OpenAt`), and counted, flushed, pending and still open together are worth the
prefix. Only one run is past its wait for the lock (`CostForm`), so what that run
saves is what it or a killed run was about to send (`PaidFor`). A last
lemma joins `WorthOf` with `Worth` where no response is left open (`Fresh`, or a
cut).

**`LauncherProofs`** (`CallAssumption`, `VerbAssumption`, `DownloadsAssumption`,
for both values of `ZombieRefuses`): the type invariant, `OneServerPerAlias` and
`NoOrphanServer` (together `ServersAccounted`), `StoppedIsGone` and
`StopAllSweeps` (together `StopsHold`), `UnlistedWhenDead`, and that `Launcher`
implements `ServerSlots`. The invariant says where each living server is in the
tables: a start past its reservation holds it (`Reserved`), a living server is
its start's, its alias's or a stop's (`NoOrphanServer`, `Held`, `Alone`), the
listed server is the tracked child or one that a stop has in hand (`Listed`,
`Tracked`), and what an `ok` was answered on (`Awaited`, `Answered`). The
removal by alias at the end of a stop is safe because nothing else can be listed
there until then; a stop-all misses nothing because a start that it does not see
pending is registered, was cancelled, or has not reserved yet. Every behaviour
of `Juggler` is one of `Launcher` (`DaemonIsLauncher`), so all of it holds of
the daemon. Of the downloads, `ModelStands`, from `DownloadInv`: one download
per process and slot (`OneAtATime`), what it left at the path was synced and
checked before (`Genuine`), and a rename only replaces what another process or
the operator put there (`Renaming`).

**`AgentProofs`** has `AgentExit` and `AgentRun`. Of the exit
(`ActorAssumption`, `BoundAssumption`): the type invariant, `WakeTruth`,
`EndedMeansTold` (together `HoldersTold`),
`AbortedHasCause`, `ReportsTheJournal` (together `OneVerdict`),
`OutcomeStands`, and that `AgentExit` implements `JobSpec`. `WakeTruth` alone is
not inductive: a hook about to send must know that what it read is still the
journal's terminal (`Informed`), which is the first-record rule; a producer
about to write must have a state to write (`Judged`); a marker, a hook that
ended well and a hook that has missed nothing are each evidence of wakes sent
(`Delivered`); a cut loop has its cause on the record (`Caused`); the hook runs
last (`HookLast`); and without failures each producer at work holds the lock
(`Unfailed`).

Of the run (`LoopAssumption`), for any tools, allowlist, number of steps and
length of a reply: `EndsWell`, `AccountsAgree` and `RequestsAccepted`. `EndsWell`
needs where the run stands (`Positions`) and what is known of each cause a
verdict may have (`Causes`: who cancelled, whether the clock had run out, who
was still watching). The accounts need that a call has the place of its turn as
its id (`CallsNumbered`), that the ledger is the transcript's results
(`Ledgered`) and that traffic is the ledger while its sink is open (`Recorded`).
`RequestsAccepted` is about what two encoders make of the whole transcript, which
a fold over it defines. The prover cannot use an induction scheme, but what is
needed is only what one more element does to a fold; that is proved once, from
the well-foundedness of `<` on the naturals (a least counterexample, `Least`,
and `FoldOf`), and the rest is first-order. The invariant (`WellFormed`)
describes the messages so far with what is still owed: `AnthropicForm(A, P)`
says that the messages `A` lack the results of the calls `P` and nothing else,
`OpenAIForm` the same of messages of one result each, and `P` is the loop's
`pending`.

**`RestartProofs`** (`RequestAssumption`, `BoundAssumption`, `NoneAssumption`):
the type invariant, `AskedOnce`, `RestartIsFinal`, `BoundedRetries` and
`OneFate` (together `RestartSettles`). The invariant says who is inside `mu` and
what it has at hand (`Holder`), that `mu` is never taken under a stored plan
(`Final`), that a request on its way in is nowhere else (`Unseen`), that what is
queued has not been asked about and what is at hand past the preflight was
granted (`Asked`), that an attempt's count is the number of countdowns its
request got (`Counted`, without which the queue's counter would say nothing
about the request), and that a restart is in one place only (`Fated`).

The assumptions on constants that are not about numbers or distinct names: a
unit's own servers are among the discovered ones, and a launch excludes only
servers there are (both sets are computed from the discovered servers);
`CLOWN_UNIT` and `CLOWN_BIN` are no credentials (`credentialKeys` lists others);
the exit codes of a provider are those of a process; the routes of a forward are
no addresses, and the words for an empty slot or path no downloads (both are
names the model gives).

Only model-checked:

- all liveness (`EveryCallReturns`, `LockedIsSettled`, `LauncherSettles`,
  `RequestIsAsked`, `RunEnds`, `HostSettles`, `UnitEnds`): the prover has
  neither fairness nor `ENABLED`.

## 6. Abstractions, and what is left out

- *Run lifecycle.* One run key, so the holder table and job handles that map
  names to runs are out. A stored copy of the ledger under the lock is loaded
  and saved in one step. The two moxyfiles a spawn derives and compares are one
  step. Affiliation removals are best effort in the code and in the model. A
  troupe password is external to mint and revoke; a spool write that the code
  ignores the failure of is left out. The age of a resolved run is taken as
  reached when the sweep starts. `RootIsRecorded` exempts a mint whose reply was
  lost (`MintLost`): its retry mints the same root again.
  `ProtocolCheckedRingmaster` and `WaitChild` are not modelled.
- *Agent exit.* The loop's result is an input (pass, fail, or cut by its
  context). Heartbeats, readiness and traffic are out.
- *Agent loop and run.* Left out: the override of moxy's URL, the posts after a
  turn, the note of a degraded lock, URIs, prompts, schemas and wording, the
  retry of one HTTP request, and a bare `juggler run` without `RuntimeMaxSec`.
- *Launcher.* A process id is never reused while a stop holds it; processes
  outside the daemon do not take ports. The daemon's own shutdown leaves its
  children untracked (the tables are in memory).
- *Model download.* Two downloads of one model, by the daemon or by another
  process; one change by hand; one crash or kill. A model the operator put there
  is taken to be good; a download without a digest may publish wrong bytes; a
  killed process leaves its temporary file. A replacement is allowed only
  without hard links and by another process, as the code documents.
- *Pipeline.* claude is the provider in resume (others only carry flags); the
  picker, staging, prompts, the tent and the listing of claude's transcripts are
  out. The clown on `PATH` has this build's digest. The restart's own gate asks
  the profile gate only, as the code does. `claude -c` outside clown is
  unconfined (documented). A read error other than an unparseable line is left
  out. The sidecar has no lock: two launches of one session that both pass the
  gate before either is recorded can confine it under two specs, and a third
  follows the later record, though `agentscope_record.go:302-304` says that a
  later launch cannot change a recorded spec. With three launches and two specs
  TLC finds it; such sessions (`Contested`) are left out of
  `ConfinedStaysConfined`, and the run has two launches and one spec.
- *Restart.* The verdicts none, refused and error are one "no". The busy check
  of `onIdle` and its compare-and-swap of `inFlight` are one step. A turn may
  start between the last busy check and the stop; the code cannot see it, and
  it is listed as a hazard.
- *Tool plane.* The catalogue and the grammar of tool names are data; the
  collapse's cache is dropped from the state when the provider exits, as nothing
  reads it after that. `MaxEpoch` bounds session drops and `MaxDeaths` servers
  that exit unasked.
- *Bridge.* Streaming tools, origin checks and the sessions of other servers
  are out; `MaxEvents` bounds the child's own messages.
- *Agent scope.* Paths are sequences of components over a small file system;
  the checks of `nix.conf` and of the home are lexical only, as in the code.
  `ListenServeSocket`'s race is documented there. `Permissive` is FALSE in the
  run (a switch for probes, with which the model proxy also forwards
  other `/v1/` and `/api/` paths). The text of the unit's
  properties, cgroup limits and statsd's wire format are out.
- *Hooks.* Left out: a transcript that is truncated or replaced, a torn last
  line, the pruning of states of 30 days, responses without usage. A datagram
  lost on the way counts as sent. A final run cuts the open response, and a
  response continued after it counts again (`cuts`). The sweep of another
  session's hook may lose prompts (`sweptUs` exempts them), and there is one
  sweeper at a time. The context floor is counted at most once, not exactly
  once: see `Scope_floor`.
- *Status file.* Launches of one key do not race (`Alone`): the dial and the
  removal of a stale socket at `selfclose.go:221` are not atomic, and two racing
  launches would both serve. A closing frontend may unlink its successor's
  socket (`selfclose.go:289-294`): the model reaches it, and it is listed as a
  hazard. A write is atomic (a mutex, then a rename); time is abstract (a timer
  may fire at any moment); the fields are a turn, a session and whether its own
  calls reported; a process's id and start ticks are its identity.

Not modelled at all: the task owner, profiles and providers, the Clownfile,
briefs, decision and evaluation, the tent, pty and staging, the other verbs of
clown and the juggler command's flags. They parse, print, build an argv or
plumb one child, and keep no state that two actors share.

## 7. Plan

Done: every component with protocol state has a module and a passing run; the
run lifecycle, the confinement and the pins of sessions, the tool plane, the bridge, the
scope, the launcher and the downloads, the agent's run and exit and the restart
have proofs, and every safety property of every passing run is a theorem. Left:
`WaitChild` and the ringmaster protocol probe, into `RunLifecycle`.

The runs are kept to one per question.

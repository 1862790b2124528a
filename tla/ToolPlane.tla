---------------------------- MODULE ToolPlane ----------------------------
(* One launch of a provider with its plugin servers (cmd/clown: runWithPluginHost, runManaged,  *)
(* the bindings of pluginbinding.go, the selection of cheapcontext.go): what is started, what   *)
(* the provider is offered, what the collapse dispatches for it, and what is left when it ends. *)
EXTENDS Collapse

CONSTANTS InUnit,     \* the servers an agent unit would start itself (no "scope": "frontend")
          SavedKeep,  \* the servers a profile's saved selection keeps
          SavedExcl   \* the kept servers with a saved exclusion

ASSUME InUnitAssumption == InUnit \subseteq Servers

VARIABLES flags,    \* how clown was started; fixed at the start
          phase,    \* where runManaged is
          kept,     \* the servers that survive the selection (discovered, narrowed)
          excl,     \* the servers whose selection excludes a tool
          checked,  \* those whose exclusion has been pushed, and read back under a profile
          hidden,   \* the servers that hide the excluded tool
          offer     \* what the provider was given for each server

hostVars == <<flags, phase, kept, excl, checked, hidden, offer>>
vars == <<serverVars, collapseVars, hostVars>>

Modes == {"plain", "cheap", "saved", "collapse"}
Offers_ == {"none", "original", "compiled", "unit", "collapsed"}
Phases == {"begin", "start", "policy", "catalog", "apply", "collapse", "bind", "run", "unbound", "shutdown", "done",
           "killed"}

\* failed: what to do with servers that failed: skip them, ask on a terminal, or abort.
FlagSet == [failed : {"skip", "ask", "abort"}, tty : BOOLEAN, mode : Modes, claude : BOOLEAN, oneDir : BOOLEAN,
            scoped : BOOLEAN, disabled : BOOLEAN]

TypeOK ==
    /\ ServerTypes
    /\ CollapseTypes
    /\ flags \in FlagSet
    /\ phase \in Phases
    /\ kept \subseteq Servers /\ excl \subseteq Servers
    /\ checked \subseteq Servers /\ hidden \subseteq Servers
    /\ offer \in [Servers -> Offers_]

\* mcpCollapseProviderError, and the refusal of --mcp-collapse with --agent-scope. Who shares a
\* plugin dir makes no difference to the collapse, nor a terminal to any mode but the picker's.
Flags == {f \in FlagSet :
            /\ f.mode = "collapse" => f.claude /\ ~f.scoped /\ ~f.oneDir
            /\ f.failed = "ask" => f.tty
            /\ f.failed # "skip" /\ f.tty => f.failed = "ask"
            /\ f.mode # "cheap" /\ f.failed = "skip" => ~f.tty}

Init ==
    /\ ServersIdle
    /\ CollapseIdle
    /\ flags \in Flags
    /\ phase = "begin"
    /\ kept = Servers
    /\ excl = {} /\ checked = {} /\ hidden = {}
    /\ offer = [s \in Servers |-> "none"]

SavedSelection == flags.mode = "saved"
Reserved == IF flags.scoped THEN InUnit ELSE {}
StartableHere == Servers \ Reserved
Started == {s \in StartableHere : mgr[s] \notin {"idle", "handshake", "health", "failed"}}
Failed == {s \in StartableHere : mgr[s] = "failed"}

ListedServers == Started

\* Host.Servers: what Shutdown stops. A reserved server has no process.
Listed == Started \cup {p \in {Agg} : mgr[p] \notin {"idle", "failed"}}

Phase(p) == phase' = p
Leave == UNCHANGED <<line, proc, reaped, deaths, collapseVars, flags>>

-------------------------- (* starting the servers *) --------------------------
\* --disable-clown-protocol launches unbound before anything is discovered.
Begin ==
    /\ phase = "begin"
    /\ Phase(IF flags.disabled THEN "unbound" ELSE "start")
    /\ UNCHANGED <<serverVars, collapseVars, flags, kept, excl, checked, hidden, offer>>

\* StartAll returns when every server has started or failed.
StartAll ==
    /\ phase = "start"
    /\ \A s \in StartableHere : Settled(s)
    /\ Phase("policy")
    /\ UNCHANGED <<serverVars, collapseVars, flags, kept, excl, checked, hidden, offer>>

\* Shutdown: Stop on every listed server at once.
StopListed == mgr' = Stopping(Listed)

\* The failure policy: skip, ask on a terminal, or abort. An abort shuts the healthy ones down.
Abort ==
    /\ StopListed
    /\ Phase("shutdown")
    /\ UNCHANGED offer

\* With nothing started and no server for a unit, the launch falls back to no plugin servers.
NothingStarted == Started = {} /\ Reserved = {}

FailurePolicy ==
    /\ phase = "policy"
    /\ \/ /\ Failed # {} /\ flags.failed # "skip"
          /\ Abort
       \/ /\ Failed # {} => flags.failed # "abort"
          /\ Phase(IF NothingStarted THEN "unbound"
                   ELSE IF flags.mode \in {"cheap", "saved"} THEN "catalog"
                   ELSE IF flags.mode = "collapse" THEN "collapse" ELSE "bind")
          /\ UNCHANGED <<mgr, offer>>
    /\ Leave
    /\ UNCHANGED <<kept, excl, checked, hidden>>

------------------------- (* --cheap-context *) -------------------------
\* FetchToolCatalog: no catalog from a server that does not answer, and perhaps none from one
\* that does.
Catalogs == {C \in SUBSET Started : \A s \in C : Answers(s)}

\* selectionFromSavedProfile keeps what is saved and is here; the picker whatever is chosen, with
\* exclusions only where a catalog showed the tools; a cancelled picker keeps everything.
Replayed(K, X) == K = SavedKeep \cap (Started \cup Reserved) /\ X = SavedExcl \cap K
Picked(K, X, C) == X \subseteq K \cap C
Selection(K, X, C) == IF SavedSelection THEN Replayed(K, X) ELSE Picked(K, X, C)

\* The picker needs a terminal. A server that is not kept is stopped, one after another.
Select ==
    /\ phase = "catalog"
    /\ \/ /\ flags.mode = "cheap" /\ ~flags.tty
          /\ Abort
          /\ UNCHANGED <<kept, excl>>
       \/ /\ flags.mode = "cheap" => flags.tty
          /\ \E C \in Catalogs, K \in SUBSET (Started \cup Reserved), X \in SUBSET Servers :
                /\ Selection(K, X, C)
                /\ kept' = K
                /\ excl' = X
                /\ mgr' = Stopping(Started \ K)
                /\ Phase("apply")
          /\ UNCHANGED offer
    /\ Leave
    /\ UNCHANGED <<checked, hidden>>

Stopped(s) == mgr[s] = "stopped"

\* applyAndReadBackExclusions: under a saved selection a second catalog, fetched after the push,
\* must list none of the names. Any failure on the way is a problem.
ReadBack(s) == SavedSelection => s \in hidden'

\* The POST of the names: it may have been applied although it seems to fail.
Push(s) == hidden' \in {hidden, hidden \cup {s}}

\* One server's exclusion: pushed best-effort for a picker; read back under a saved selection,
\* where one that is not confirmed refuses the launch.
Exclude(s) ==
    /\ phase = "apply"
    /\ \A t \in Started \ kept : Stopped(t)
    /\ s \in excl \ (checked \cup Reserved)
    /\ checked' = checked \cup {s}
    /\ \/ /\ Answers(s)
          /\ Push(s)
          /\ ReadBack(s)
          /\ UNCHANGED <<mgr, phase, offer>>
       \/ /\ ~SavedSelection
          /\ UNCHANGED <<hidden, mgr, phase, offer>>
       \/ /\ SavedSelection
          /\ Push(s)
          /\ Abort
    /\ Leave
    /\ UNCHANGED <<kept, excl>>

\* Everything deselected launches unbound.
Selected ==
    /\ phase = "apply"
    /\ \A t \in Started \ kept : Stopped(t)
    /\ excl \ Reserved \subseteq checked
    /\ Phase(IF kept = {} THEN "unbound" ELSE "bind")
    /\ UNCHANGED <<serverVars, collapseVars, flags, kept, excl, checked, hidden, offer>>

--------------------------- (* --mcp-collapse *) ---------------------------
\* collapseUpstreamsFor: an upstream per discovered server; one that has no running instance
\* refuses the launch. The aggregator is started like a server.
CollapseStart ==
    /\ phase = "collapse"
    /\ mgr[Agg] = "idle"
    /\ \/ /\ ~(kept \subseteq Started)
          /\ Abort
          /\ UNCHANGED <<proc, line, reaped, deaths>>
       \/ /\ kept \subseteq Started
          /\ Spawn(Agg)
          /\ UNCHANGED <<phase, offer>>
    /\ UNCHANGED <<collapseVars, flags, kept, excl, checked, hidden>>

\* The aggregator prints its handshake once its fan-out is complete.
Fanout ==
    /\ phase = "collapse"
    /\ proc[Agg] = "run" /\ line[Agg] = "none"
    /\ \E ups \in SetToSeqs(kept) : Enumerate(ups)
    /\ line' = [line EXCEPT ![Agg] = "good"]
    /\ UNCHANGED <<proc, mgr, reaped, deaths, hostVars>>

CollapseStarted ==
    /\ phase = "collapse"
    /\ Settled(Agg)
    /\ \/ mgr[Agg] = "failed" /\ Abort
       \/ mgr[Agg] = "managed" /\ Phase("bind") /\ UNCHANGED <<mgr, offer>>
    /\ Leave
    /\ UNCHANGED <<kept, excl, checked, hidden>>

------------------------------ (* Bind *) ------------------------------
SameDir(s, t) == s = t \/ flags.oneDir

\* CompileForClaude stages every plugin dir of the selection; the staged manifest names the
\* selected servers that are listed or reserved.
Compiled(s) == \E t \in kept : SameDir(s, t)
Entry(s) ==
    IF s \notin kept THEN "none"
    ELSE IF s \in Reserved THEN "unit"
    ELSE IF s \in Started THEN "compiled" ELSE "none"

\* claudeBinding: under a selection, a dir that owned a server and was not compiled is dropped;
\* otherwise it would be passed through with its original manifest.
ClaudeEntry(s) ==
    IF Compiled(s) THEN Entry(s)
    ELSE IF flags.mode \in {"cheap", "saved"} THEN "none" ELSE "original"

\* collapseBinding drops every dir that owned a server; the collapse fronts those enumerated.
CollapseEntry(s) == IF s \in ToSet(upstreams) \ degraded THEN "collapsed" ELSE "none"

\* configFileBinding: the generated config names the selected servers and nothing else.
ConfigEntry(s) == Entry(s)

Bound(s) ==
    IF flags.mode = "collapse" THEN CollapseEntry(s)
    ELSE IF flags.claude THEN ClaudeEntry(s) ELSE ConfigEntry(s)

\* Bind compiles the manifests or writes the provider's config, or fails; the provider then runs.
Bind ==
    /\ phase = "bind"
    /\ \/ /\ offer' = [s \in Servers |-> Bound(s)]
          /\ Phase("run")
          /\ UNCHANGED mgr
       \/ Abort
    /\ Leave
    /\ UNCHANGED <<kept, excl, checked, hidden>>

\* savedSelectionFallbackRefusal: a saved selection refuses to run un-narrowed.
NeverRefused == FALSE
FallbackRefused == SavedSelection

\* runUnbound: the original plugin dirs, which declare every server themselves; a provider with
\* a generated config gets no server at all.
RunUnbound ==
    /\ phase = "unbound"
    /\ \/ /\ FallbackRefused
          /\ Abort
       \/ /\ ~FallbackRefused
          /\ offer' = [s \in Servers |-> IF flags.claude THEN "original" ELSE "none"]
          /\ Phase("run")
          /\ UNCHANGED mgr
    /\ Leave
    /\ UNCHANGED <<kept, excl, checked, hidden>>

\* The provider exits, or never starts, and its calls with it; the deferred Shutdown stops what
\* is listed.
ProviderExits ==
    /\ phase = "run"
    /\ Abort
    /\ CollapseOver
    /\ UNCHANGED <<line, proc, reaped, deaths, flags, kept, excl, checked, hidden>>

ShutdownReturns ==
    /\ phase = "shutdown"
    /\ \A p \in Listed : Stopped(p)
    /\ Phase("done")
    /\ UNCHANGED <<serverVars, collapseVars, flags, kept, excl, checked, hidden, offer>>

\* Signals are forwarded only once the provider runs: until then SIGTERM or SIGINT ends clown.
Interrupt ==
    /\ phase \notin {"run", "shutdown", "done", "killed"}
    /\ Phase("killed")
    /\ UNCHANGED <<serverVars, collapseVars, flags, kept, excl, checked, hidden, offer>>

Running == phase \notin {"done", "killed"}

HostStep ==
    \/ Begin \/ StartAll \/ FailurePolicy \/ Select \/ Selected
    \/ \E s \in Servers : Exclude(s)
    \/ CollapseStart \/ CollapseStarted \/ Bind \/ RunUnbound \/ ShutdownReturns

ServerStep(p) ==
    /\ \/ phase = "start" /\ p \in StartableHere /\ Spawn(p)
       \/ Running /\ (ReadHandshake(p) \/ HealthEnds(p) \/ Reap(p) \/ StopReturns(p) \/ Grace(p))
    /\ UNCHANGED <<collapseVars, hostVars>>

ProcessStep(p) ==
    /\ Running
    /\ \/ p # Agg /\ Speak(p)
       \/ Serve(p) \/ Exit(p)
    /\ UNCHANGED <<collapseVars, hostVars>>

CollapseRuns ==
    /\ phase = "run" /\ Answers(Agg)
    /\ CollapseStep
    /\ UNCHANGED <<serverVars, hostVars>>

Next ==
    \/ HostStep \/ ProviderExits \/ Interrupt \/ Fanout \/ CollapseRuns
    \/ \E p \in Procs : ServerStep(p) \/ ProcessStep(p)

Spec == Init /\ [][Next]_vars

\* Go schedules the host's goroutines and its timers fire; a server speaks (the host would wait
\* for ever for one that does not), and a server that was killed is gone at once.
FairSpec ==
    /\ Spec
    /\ WF_vars(HostStep) /\ WF_vars(Fanout)
    /\ \A p \in Procs : WF_vars(ServerStep(p))
    /\ \A p \in Servers : WF_vars(Speak(p) /\ UNCHANGED <<collapseVars, hostVars>>)

--------------------------- (* properties *) ---------------------------
\* While a provider runs under a saved selection, every server it was given is one the selection
\* keeps, and one with a saved exclusion hides it (or leaves it to the unit's relay): whatever
\* failed, died or fell back on the way, the launch was refused rather than run un-narrowed
\* (runUnbound, claudeBinding.Bind, applyCheapContextSelection).
SelectionHolds ==
    phase = "run" /\ SavedSelection =>
        \A s \in Servers : offer[s] # "none" =>
            /\ offer[s] # "original" /\ s \in SavedKeep
            /\ s \in SavedExcl => offer[s] = "unit" \/ s \in hidden

\* When clown has returned, no server it started is alive: not the one deselected, not the one
\* whose handshake or health check failed, not the aggregator (Start, Stop, Shutdown).
NothingOutlives == phase = "done" => \A p \in Procs : ~Alive(p)

\* A finished call nothing disturbed succeeded, and was executed once, whatever stale id earlier
\* calls left in the session cache; a refused call was never executed, and no call to an upstream
\* without sessions was executed twice (dispatchUpstream, reinitSession).
CallOutcome ==
    \A c \in Calls :
        /\ call[c] \in {"ok", "failed"} /\ calm[c] => call[c] = "ok" /\ runs[c] = 1
        /\ call[c] = "refused" => runs[c] = 0
        /\ runs[c] = 2 => Up(c) \notin Stateless

\* Every launch gets its provider running or ends, and every shutdown ends, though a server
\* ignores SIGTERM, dies early or fails its checks (StartAll, Stop, Shutdown).
HostSettles == []<>(phase \in {"run", "done", "killed"})

=============================================================================

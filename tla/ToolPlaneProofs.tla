--------------------------- MODULE ToolPlaneProofs ---------------------------
(***************************************************************************)
(* What is proved of a launch's tool plane, for every set of servers,      *)
(* upstreams, tools and calls: nothing that was started outlives clown, a  *)
(* saved selection is never run un-narrowed, and a call that nothing       *)
(* disturbed was executed once.  The three parts of the invariant are      *)
(* kept apart: the processes, the selection, and the calls.                *)
(***************************************************************************)
EXTENDS ToolPlane, TLAPS, FiniteSetTheorems

PlaneTypes ==
    /\ proc \in [Procs -> {"none", "run", "serve", "dead"}]
    /\ mgr \in [Procs -> {"idle", "handshake", "health", "failed", "managed", "term", "kill", "stopped"}]
    /\ reaped \in [Procs -> BOOLEAN]
    /\ flags \in FlagSet
    /\ phase \in Phases
    /\ kept \subseteq Servers

Starting(p) == mgr[p] \in {"handshake", "health"}

\* What is not started, failed or was stopped is not alive, nor what was waited for.
Fleet ==
    \A p \in Procs :
        /\ mgr[p] = "idle" => proc[p] = "none"
        /\ mgr[p] \in {"failed", "kill", "stopped"} => ~Alive(p)
        /\ reaped[p] => ~Alive(p) /\ mgr[p] \in {"managed", "term", "kill", "stopped"}

\* Servers start in one phase only, and the aggregator in one; a shutdown has told every server to stop.
Order ==
    /\ \A s \in Reserved : mgr[s] = "idle"
    /\ phase = "begin" => \A p \in Procs : mgr[p] = "idle"
    /\ phase \notin {"begin", "start", "killed"} => \A s \in Servers : ~Starting(s)
    /\ phase \notin {"collapse", "killed"} => ~Starting(Agg)
    /\ phase \in {"shutdown", "done"} => \A p \in Procs : mgr[p] # "managed"
    /\ phase = "done" => \A p \in Procs : mgr[p] \notin {"term", "kill"}

\* What a saved selection has narrowed, and confirmed, by each phase.
Narrowed ==
    SavedSelection =>
        /\ phase # "collapse"
        /\ phase \in {"begin", "start", "policy", "catalog"} => checked = {}
        /\ phase \in {"apply", "bind", "run"} => kept \subseteq SavedKeep /\ excl = SavedExcl \cap kept /\ checked \subseteq hidden
        /\ phase \in {"bind", "run"} => excl \ Reserved \subseteq checked
        /\ phase = "run" => \A s \in Servers : offer[s] # "none" =>
              offer[s] # "original" /\ s \in kept /\ (offer[s] = "unit" \/ s \notin Reserved)

HostInv == PlaneTypes /\ Fleet /\ Order /\ Narrowed

\* The calls, while their provider runs.
CallTypes ==
    /\ upstreams \in Seq(Servers)
    /\ epoch \in [Servers -> Nat \ {0}]
    /\ sessions \in [Servers -> Int]
    /\ call \in [Calls -> States]
    /\ sid \in [Calls -> Int]
    /\ runs \in [Calls -> Nat]
    /\ calm \in [Calls -> BOOLEAN]

\* How often a call ran by where it is; only with a session is it tried again.
Course(c) ==
    /\ Busy(c) => Up(c) \in Servers
    /\ call[c] \in {"new", "session", "first", "refused"} => runs[c] = 0
    /\ call[c] \in {"stale", "reinit", "retry"} => runs[c] <= 1 /\ Up(c) \notin Stateless
    /\ call[c] = "rotated" => runs[c] \in {1, 2} /\ Up(c) \notin Stateless /\ sid[c] # None
    /\ runs[c] = 2 => Up(c) \notin Stateless
    /\ call[c] \in {"first", "retry"} => sid[c] # None
    /\ Busy(c) /\ Up(c) \in Stateless => sid[c] \in {None, Empty}

\* A call that nothing disturbed is alone at its upstream; the session it uses is the cached one, and
\* the one it was given is the upstream's own.
Undisturbed(c) ==
    calm[c] =>
        /\ Busy(c) => Together(c) = {}
        /\ call[c] \in {"session", "reinit"} => sid[c] \in {None, Empty, epoch[Up(c)]}
        /\ call[c] \in {"first", "stale", "retry"} => sessions[Up(c)] = sid[c]
        /\ call[c] = "retry" => sid[c] \in {Empty, epoch[Up(c)]}
        /\ call[c] \in {"stale", "reinit", "retry"} => runs[c] = 0
        /\ call[c] \in {"rotated", "ok"} => runs[c] = 1
        /\ call[c] # "failed"

CallInv ==
    /\ CallTypes
    /\ phase # "run" => \A c \in Calls : call[c] = "new" /\ runs[c] = 0
    /\ \A s \in Servers \cap Stateless : sessions[s] \in {None, Empty}
    /\ \A c \in Calls : Course(c) /\ Undisturbed(c)

-----------------------------------------------------------------------------
(* The processes and the selection.                                        *)

\* Stop, called on some of the servers, leaves every other where it is.
LEMMA StopsKept ==
    ASSUME PlaneTypes, Fleet, NEW S, mgr' = Stopping(S), UNCHANGED <<proc, reaped>>
    PROVE  /\ mgr' \in [Procs -> {"idle", "handshake", "health", "failed", "managed", "term", "kill", "stopped"}]
           /\ Fleet'
           /\ \A p \in Procs : /\ mgr'[p] = mgr[p] \/ (mgr[p] = "managed" /\ mgr'[p] \in {"term", "stopped"})
                               /\ p \in S => mgr'[p] # "managed"
<1>1. \A p \in Procs : mgr'[p] = IF p \notin S \/ mgr[p] # "managed" THEN mgr[p]
                                ELSE IF reaped[p] THEN "stopped" ELSE "term"
  BY DEF Stopping
<1>2. mgr' \in [Procs -> {"idle", "handshake", "health", "failed", "managed", "term", "kill", "stopped"}]
  BY DEF Stopping, PlaneTypes
<1>3. Fleet'
  BY <1>1 DEF Fleet, PlaneTypes, Alive
<1> QED
  BY <1>1, <1>2, <1>3

\* The host goes on to a phase in which no server starts but perhaps the aggregator.
LEMMA GoesOn ==
    ASSUME PlaneTypes, Fleet, Order, UNCHANGED <<proc, reaped, flags>>, kept' \subseteq Servers,
           mgr' = mgr \/ \E S : mgr' = Stopping(S),
           phase' \in Phases \ {"begin", "start", "shutdown", "done"},
           \A p \in Procs : Starting(p) => phase' = "collapse" /\ p = Agg
    PROVE  PlaneTypes' /\ Fleet' /\ Order'
<1>1. /\ mgr' \in [Procs -> {"idle", "handshake", "health", "failed", "managed", "term", "kill", "stopped"}] /\ Fleet'
      /\ \A p \in Procs : mgr'[p] = mgr[p] \/ (mgr[p] = "managed" /\ mgr'[p] \in {"term", "stopped"})
  <2>1. CASE mgr' = mgr
    BY <2>1 DEF PlaneTypes, Fleet, Alive
  <2>2. CASE \E S : mgr' = Stopping(S)
    BY <2>2, StopsKept
  <2> QED
    BY <2>1, <2>2
<1>2. PlaneTypes'
  BY <1>1 DEF PlaneTypes
<1>3. Reserved' = Reserved /\ Reserved \subseteq Procs
  BY InUnitAssumption DEF Reserved, Procs
<1>4. \A p \in Procs : Starting(p)' => Starting(p)
  BY <1>1 DEF Starting
<1>5. \A s \in Reserved : mgr'[s] = "idle"
  BY <1>1, <1>3 DEF Order
<1>6. Order'
  BY <1>3, <1>4, <1>5, AggIsNoPlugin DEF Order, Procs
<1> QED
  BY <1>1, <1>2, <1>6

\* A managed server is one Shutdown stops.
LEMMA ManagedAreListed ==
    ASSUME PlaneTypes, Order, NEW p \in Procs, mgr[p] = "managed"
    PROVE  p \in Listed
  BY DEF Order, Listed, Started, StartableHere, Procs

\* Whatever aborts the launch, every server is told to stop.
LEMMA AbortKept ==
    ASSUME PlaneTypes, Fleet, Order, Abort, UNCHANGED <<proc, reaped, flags>>, kept' \subseteq Servers,
           \A p \in Procs : ~Starting(p)
    PROVE  HostInv'
<1>1. /\ mgr' \in [Procs -> {"idle", "handshake", "health", "failed", "managed", "term", "kill", "stopped"}] /\ Fleet'
      /\ \A p \in Procs : /\ mgr'[p] = mgr[p] \/ (mgr[p] = "managed" /\ mgr'[p] \in {"term", "stopped"})
                          /\ p \in Listed => mgr'[p] # "managed"
  BY StopsKept DEF Abort, StopListed
<1>2. PlaneTypes' /\ phase' = "shutdown"
  BY <1>1 DEF PlaneTypes, Abort, Phase, Phases
<1>3. \A p \in Procs : mgr'[p] # "managed" /\ ~Starting(p)'
  BY <1>1, ManagedAreListed DEF Starting
<1>4. Reserved' = Reserved /\ Reserved \subseteq Procs
  BY InUnitAssumption DEF Reserved, Procs
<1>5. \A s \in Reserved : mgr'[s] = "idle"
  BY <1>1, <1>4 DEF Order
<1>6. Order'
  BY <1>2, <1>3, <1>4, <1>5 DEF Order, Procs
<1>7. Narrowed'
  BY <1>2 DEF Narrowed
<1> QED
  BY <1>1, <1>2, <1>6, <1>7 DEF HostInv

\* Before the selection: what is discovered, started, and what a failure does.
LEMMA BeginningKept ==
    ASSUME HostInv, Begin \/ StartAll \/ FailurePolicy
    PROVE  HostInv'
<1>0. PlaneTypes /\ Fleet /\ Order /\ UNCHANGED <<proc, reaped, flags, kept, checked>> /\ kept' \subseteq Servers
  BY DEF HostInv, Begin, StartAll, FailurePolicy, Leave, serverVars, PlaneTypes
<1>1. SavedSelection' = SavedSelection
  BY <1>0 DEF SavedSelection
<1>2. \A p \in Procs : ~Starting(p)
  <2>1. CASE Begin
    BY <1>0, <2>1 DEF Order, Begin, Starting
  <2>2. CASE StartAll
    <3>1. \A s \in Servers : ~Starting(s)
      BY <1>0, <2>2 DEF StartAll, Settled, StartableHere, Order, Starting
    <3> QED
      BY <1>0, <2>2, <3>1 DEF StartAll, Order, Procs
  <2>3. CASE FailurePolicy
    BY <1>0, <2>3 DEF FailurePolicy, Order, Procs
  <2> QED
    BY <2>1, <2>2, <2>3
<1>3. CASE Abort
  BY <1>0, <1>2, <1>3, AbortKept
<1>4. CASE Begin /\ phase' = "start"
  <2>1. UNCHANGED <<mgr, checked>> /\ phase = "begin"
    BY <1>4 DEF Begin, serverVars
  <2>2. PlaneTypes' /\ Fleet'
    BY <1>0, <1>4, <2>1 DEF PlaneTypes, Phases, Fleet, Alive
  <2>3. Order'
    BY <1>0, <1>4, <2>1 DEF Order, Reserved, Starting, Procs
  <2>4. Narrowed'
    BY <1>1, <1>4, <2>1 DEF HostInv, Narrowed
  <2> QED
    BY <2>2, <2>3, <2>4 DEF HostInv
<1>5. CASE ~Abort /\ ~(Begin /\ phase' = "start")
  <2>1. mgr' = mgr /\ phase \in {"begin", "start", "policy"} /\ phase' \in {"unbound", "policy", "catalog", "collapse", "bind"}
    BY <1>5 DEF Begin, StartAll, FailurePolicy, Phase, serverVars
  <2>2. PlaneTypes' /\ Fleet' /\ Order'
    BY <1>0, <1>2, <2>1, GoesOn DEF Phases
  <2>3. SavedSelection => phase' \in {"unbound", "policy", "catalog"}
    BY <1>5 DEF Begin, StartAll, FailurePolicy, Phase, SavedSelection
  <2>4. Narrowed'
    BY <1>0, <1>1, <2>1, <2>3 DEF HostInv, Narrowed
  <2> QED
    BY <2>2, <2>4 DEF HostInv
<1> QED
  BY <1>3, <1>4, <1>5

\* The selection, its exclusions, and what follows from it.
LEMMA SelectingKept ==
    ASSUME HostInv, Select \/ (\E s \in Servers : Exclude(s)) \/ Selected
    PROVE  HostInv'
<1>0. PlaneTypes /\ Fleet /\ Order /\ UNCHANGED <<proc, reaped, flags>> /\ phase \in {"catalog", "apply"}
  BY DEF HostInv, Select, Exclude, Selected, Leave, serverVars
<1>1. SavedSelection' = SavedSelection /\ Reserved' = Reserved
  BY <1>0 DEF SavedSelection, Reserved
<1>2. \A p \in Procs : ~Starting(p)
  BY <1>0 DEF Order, Procs
<1>3. kept' \subseteq Servers
  <2>1. Started \cup Reserved \subseteq Servers
    BY InUnitAssumption DEF Started, StartableHere, Reserved
  <2> QED
    BY <1>0, <2>1 DEF Select, Exclude, Selected, PlaneTypes
<1>4. CASE Abort
  BY <1>0, <1>2, <1>3, <1>4, AbortKept
<1>5. CASE Select /\ ~Abort
  <2>1. PICK C \in Catalogs, K \in SUBSET (Started \cup Reserved), X \in SUBSET Servers :
            Selection(K, X, C) /\ kept' = K /\ excl' = X /\ mgr' = Stopping(Started \ K) /\ Phase("apply")
    BY <1>5 DEF Select
  <2>2. PlaneTypes' /\ Fleet' /\ Order'
    <3>1. phase' \in Phases \ {"begin", "start", "shutdown", "done"}
      BY <2>1 DEF Phase, Phases
    <3> QED
      BY <1>0, <1>2, <1>3, <2>1, <3>1, GoesOn
  <2>3. phase = "catalog" /\ phase' = "apply" /\ checked' = checked
    BY <1>5, <2>1 DEF Select, Phase
  <2>4. SavedSelection => K \subseteq SavedKeep /\ X = SavedExcl \cap K
    BY <2>1 DEF Selection, Replayed
  <2>5. Narrowed'
    BY <1>1, <2>1, <2>3, <2>4 DEF HostInv, Narrowed
  <2> QED
    BY <2>2, <2>5 DEF HostInv
<1>6. ASSUME NEW s \in Servers, Exclude(s), ~Abort
      PROVE  HostInv'
  <2>1. /\ phase = "apply" /\ UNCHANGED <<mgr, phase, kept, excl>>
        /\ checked' = checked \cup {s} /\ hidden \subseteq hidden'
        /\ SavedSelection => s \in hidden'
    BY <1>6 DEF Exclude, Push, ReadBack
  <2>2. PlaneTypes' /\ Fleet' /\ Order'
    <3>1. phase' \in Phases \ {"begin", "start", "shutdown", "done"}
      BY <2>1 DEF Phases
    <3> QED
      BY <1>0, <1>2, <1>3, <2>1, <3>1, GoesOn
  <2>3. Narrowed'
    BY <1>1, <2>1 DEF HostInv, Narrowed
  <2> QED
    BY <2>2, <2>3 DEF HostInv
<1>7. CASE Selected
  <2>1. /\ phase = "apply" /\ phase' \in {"unbound", "bind"} /\ excl \ Reserved \subseteq checked
        /\ UNCHANGED <<mgr, kept, excl, checked, hidden, offer>>
    BY <1>7 DEF Selected, Phase, serverVars
  <2>2. PlaneTypes' /\ Fleet' /\ Order'
    <3>1. phase' \in Phases \ {"begin", "start", "shutdown", "done"}
      BY <2>1 DEF Phases
    <3> QED
      BY <1>0, <1>2, <1>3, <2>1, <3>1, GoesOn
  <2>3. Narrowed'
    BY <1>1, <2>1 DEF HostInv, Narrowed
  <2> QED
    BY <2>2, <2>3 DEF HostInv
<1> QED
  BY <1>4, <1>5, <1>6, <1>7

\* The collapse, the binding, the provider's end and clown's own.
LEMMA BindingKept ==
    ASSUME HostInv, CollapseStart \/ CollapseStarted \/ Bind \/ RunUnbound \/ ProviderExits \/ ShutdownReturns \/ Interrupt
    PROVE  HostInv'
<1>0. PlaneTypes /\ Fleet /\ Order /\ UNCHANGED <<reaped, flags, kept, excl, checked, hidden>> /\ kept' \subseteq Servers
  BY DEF HostInv, PlaneTypes, CollapseStart, CollapseStarted, Bind, RunUnbound, ProviderExits, ShutdownReturns, Interrupt, Leave,
         Spawn, serverVars
<1>1. SavedSelection' = SavedSelection /\ Reserved' = Reserved /\ Reserved \subseteq Servers
  BY <1>0, InUnitAssumption DEF SavedSelection, Reserved
<1>2. CASE Abort
  <2>1. UNCHANGED proc /\ \A p \in Procs : ~Starting(p)
    BY <1>0, <1>2 DEF CollapseStart, CollapseStarted, Bind, RunUnbound, ProviderExits, ShutdownReturns, Interrupt, Leave, Abort, Phase,
           Order, Procs, Starting, Settled, Spawn, serverVars
  <2> QED
    BY <1>0, <1>2, <2>1, AbortKept
<1>3. CASE CollapseStart /\ ~Abort
  <2>1. Spawn(Agg) /\ phase' = phase /\ phase = "collapse" /\ mgr[Agg] = "idle"
    BY <1>3 DEF CollapseStart
  <2>2. /\ Agg \in Procs /\ mgr'[Agg] \in {"handshake", "failed"} /\ (mgr'[Agg] = "failed" => proc'[Agg] = "none")
        /\ \A p \in Procs \ {Agg} : mgr'[p] = mgr[p] /\ proc'[p] = proc[p]
        /\ mgr' \in [Procs -> {"idle", "handshake", "health", "failed", "managed", "term", "kill", "stopped"}]
        /\ proc' \in [Procs -> {"none", "run", "serve", "dead"}]
    BY <1>0, <2>1 DEF Spawn, PlaneTypes, Fleet, Procs
  <2>3. PlaneTypes'
    BY <1>0, <2>1, <2>2 DEF PlaneTypes
  <2>4. Fleet'
    BY <1>0, <2>1, <2>2 DEF Fleet, PlaneTypes, Alive
  <2>5. Order'
    BY <1>0, <1>1, <2>1, <2>2, AggIsNoPlugin DEF Order, Procs, Starting
  <2>6. Narrowed'
    BY <1>0, <1>1, <2>1 DEF HostInv, Narrowed
  <2> QED
    BY <2>3, <2>4, <2>5, <2>6 DEF HostInv
<1>4. CASE CollapseStarted /\ ~Abort
  <2>1. mgr[Agg] = "managed" /\ phase = "collapse" /\ phase' = "bind" /\ UNCHANGED <<mgr, proc>>
    BY <1>4 DEF CollapseStarted, Phase, Leave
  <2>2. \A p \in Procs : ~Starting(p)
    BY <1>0, <2>1 DEF Order, Procs, Starting
  <2>3. PlaneTypes' /\ Fleet' /\ Order'
    BY <1>0, <2>1, <2>2, GoesOn DEF Phases
  <2>4. Narrowed'
    BY <1>1, <2>1 DEF HostInv, Narrowed
  <2> QED
    BY <2>3, <2>4 DEF HostInv
<1>5. CASE (Bind \/ RunUnbound) /\ ~Abort
  <2>1. phase \in {"bind", "unbound"} /\ phase' = "run" /\ UNCHANGED <<mgr, proc>>
    BY <1>5 DEF Bind, RunUnbound, Phase, Leave
  <2>2. \A p \in Procs : ~Starting(p)
    BY <1>0, <2>1 DEF Order, Procs
  <2>3. PlaneTypes' /\ Fleet' /\ Order'
    BY <1>0, <2>1, <2>2, GoesOn DEF Phases
  <2>4. SavedSelection => phase = "bind" /\ offer' = [s \in Servers |-> Bound(s)]
    BY <1>5 DEF Bind, RunUnbound, FallbackRefused
  <2>5. ASSUME SavedSelection, NEW s \in Servers, Bound(s) # "none"
        PROVE  Bound(s) # "original" /\ s \in kept /\ (Bound(s) = "unit" \/ s \notin Reserved)
    BY <2>5 DEF SavedSelection, Bound, ClaudeEntry, ConfigEntry, Entry
  <2>6. Narrowed'
    BY <1>0, <1>1, <2>1, <2>4, <2>5 DEF HostInv, Narrowed
  <2> QED
    BY <2>3, <2>6 DEF HostInv
<1>6. CASE ShutdownReturns
  <2>1. phase = "shutdown" /\ phase' = "done" /\ UNCHANGED <<mgr, proc>> /\ \A p \in Listed : mgr[p] = "stopped"
    BY <1>6 DEF ShutdownReturns, Phase, serverVars, Stopped
  <2>2. \A p \in Procs : mgr[p] \in {"term", "kill"} => p \in Listed
    BY <1>0 DEF Order, Listed, Started, StartableHere, Procs
  <2>3. PlaneTypes' /\ Fleet'
    BY <1>0, <2>1 DEF PlaneTypes, Phases, Fleet, Alive
  <2>4. Order'
    BY <1>0, <1>1, <2>1, <2>2 DEF Order, Starting
  <2>5. Narrowed'
    BY <2>1 DEF Narrowed
  <2> QED
    BY <2>3, <2>4, <2>5 DEF HostInv
<1>7. CASE Interrupt
  <2>1. phase' = "killed" /\ UNCHANGED <<mgr, proc>>
    BY <1>7 DEF Interrupt, Phase, serverVars
  <2>2. PlaneTypes' /\ Fleet'
    BY <1>0, <2>1 DEF PlaneTypes, Phases, Fleet, Alive
  <2>3. Order'
    BY <1>0, <1>1, <2>1 DEF Order
  <2>4. Narrowed'
    BY <2>1 DEF Narrowed
  <2> QED
    BY <2>2, <2>3, <2>4 DEF HostInv
<1> QED
  <2>1. ProviderExits => Abort
    BY DEF ProviderExits
  <2> QED
    BY <1>2, <1>3, <1>4, <1>5, <1>6, <1>7, <2>1

\* A step of one server, its process or the host's goroutines for it.
LEMMA ServersKept ==
    ASSUME HostInv, NEW p \in Procs, ServerStep(p) \/ ProcessStep(p)
    PROVE  HostInv'
<1>0. PlaneTypes /\ Fleet /\ Order /\ UNCHANGED <<flags, phase, kept, excl, checked, hidden, offer>> /\ phase \notin {"done", "killed"}
  BY DEF HostInv, ServerStep, ProcessStep, hostVars, Running
<1>1. /\ \A q \in Procs \ {p} : mgr'[q] = mgr[q] /\ proc'[q] = proc[q] /\ reaped'[q] = reaped[q]
      /\ mgr' \in [Procs -> {"idle", "handshake", "health", "failed", "managed", "term", "kill", "stopped"}]
      /\ proc' \in [Procs -> {"none", "run", "serve", "dead"}]
      /\ reaped' \in [Procs -> BOOLEAN]
  BY <1>0 DEF PlaneTypes, ServerStep, ProcessStep, Spawn, ReadHandshake, KillAndWait, HealthEnds, Reap, StopReturns, Grace, Speak,
         Serve, Exit
<1>2. /\ mgr'[p] = "idle" => proc'[p] = "none"
      /\ mgr'[p] \in {"failed", "kill", "stopped"} => ~Alive(p)'
      /\ reaped'[p] => ~Alive(p)' /\ mgr'[p] \in {"managed", "term", "kill", "stopped"}
  BY <1>0 DEF Fleet, PlaneTypes, Alive, ServerStep, ProcessStep, Spawn, ReadHandshake, KillAndWait, HealthEnds, Reap, StopReturns, Grace,
         Speak, Serve, Exit
<1>3. /\ mgr'[p] # mgr[p] => (mgr[p] = "idle" /\ phase = "start" /\ p \in StartableHere) \/ Starting(p) \/ mgr[p] \in {"term", "kill"}
      /\ mgr[p] \in {"term", "kill"} => mgr'[p] \in {"term", "kill", "stopped"}
  BY <1>0 DEF PlaneTypes, ServerStep, ProcessStep, Spawn, ReadHandshake, KillAndWait, HealthEnds, Reap, StopReturns, Grace, Speak,
         Serve, Exit, Starting
<1>4. PlaneTypes' /\ Fleet'
  <2>1. PlaneTypes'
    BY <1>0, <1>1 DEF PlaneTypes
  <2>2. Fleet'
    BY <1>0, <1>1, <1>2 DEF Fleet, Alive
  <2> QED
    BY <2>1, <2>2
<1>5. Order'
  <2>1. Reserved' = Reserved /\ Reserved \subseteq Servers
    BY <1>0, InUnitAssumption DEF Reserved
  <2>2. p \in Reserved => mgr'[p] = "idle"
    BY <1>0, <1>3 DEF Order, StartableHere, Starting
  <2>3. phase = "begin" => mgr'[p] = "idle"
    BY <1>0, <1>3 DEF Order, Starting
  <2>4. phase # "start" /\ ~Starting(p) => ~Starting(p)'
    BY <1>3 DEF Starting
  <2>5. phase # "collapse" /\ p = Agg => ~Starting(p)'
    BY <1>0, <1>3, AggIsNoPlugin DEF Order, Starting, StartableHere
  <2>6. phase = "shutdown" => mgr'[p] # "managed"
    BY <1>0, <1>3 DEF Order, Starting, Procs
  <2>7. \A q \in Procs \ {p} : Starting(q)' <=> Starting(q)
    BY <1>1 DEF Starting
  <2> QED
    BY <1>0, <1>1, <2>1, <2>2, <2>3, <2>4, <2>5, <2>6, <2>7 DEF Order, Procs
<1>6. Narrowed'
  BY <1>0 DEF HostInv, Narrowed, SavedSelection, Reserved
<1> QED
  BY <1>4, <1>5, <1>6 DEF HostInv

\* Every step of a launch keeps its processes and its selection in order.
LEMMA HostKept == HostInv /\ [Next]_vars => HostInv'
<1>1. CASE HostInv /\ UNCHANGED <<serverVars, flags, phase, kept, excl, checked, hidden, offer>>
  BY <1>1 DEF serverVars, HostInv, PlaneTypes, Fleet, Alive, Order, Reserved, Starting, Narrowed, SavedSelection
<1>2. CASE HostInv /\ Fanout
  <2>1. UNCHANGED <<proc, mgr, reaped, flags, phase, kept, excl, checked, hidden, offer>>
    BY <1>2 DEF Fanout, hostVars
  <2> QED
    BY <1>2, <2>1 DEF HostInv, PlaneTypes, Fleet, Alive, Order, Reserved, Starting, Narrowed, SavedSelection
<1> QED
  BY <1>1, <1>2, BeginningKept, SelectingKept, BindingKept, ServersKept DEF Next, HostStep, CollapseRuns, vars, hostVars

\* The host's invariant holds of every launch.
LEMMA HostHolds == Spec => []HostInv
<1>1. Init => HostInv
  <2> SUFFICES ASSUME Init PROVE HostInv
    OBVIOUS
  <2>1. PlaneTypes
    BY DEF Init, ServersIdle, PlaneTypes, Phases, Flags
  <2>2. Reserved \subseteq Procs
    BY InUnitAssumption DEF Reserved, Procs
  <2>3. Fleet /\ Order
    BY <2>2 DEF Init, ServersIdle, Fleet, Order, Starting, Procs
  <2>4. Narrowed
    BY DEF Init, Narrowed
  <2> QED
    BY <2>1, <2>3, <2>4 DEF HostInv
<1> QED
  BY <1>1, HostKept, PTL DEF Spec

\* When clown has returned, no server it started is alive: not the one deselected, not one whose
\* handshake or health check failed, not the aggregator (Start, Stop, Shutdown).
THEOREM NothingIsLeft == Spec => []NothingOutlives
<1>1. HostInv => NothingOutlives
  <2> SUFFICES ASSUME HostInv, phase = "done", NEW p \in Procs PROVE ~Alive(p)
    BY DEF NothingOutlives
  <2>1. mgr[p] \in {"idle", "failed", "stopped"}
    BY DEF HostInv, PlaneTypes, Order, Starting, Procs
  <2> QED
    BY <2>1 DEF HostInv, Fleet, Alive
<1> QED
  BY <1>1, HostHolds, PTL

\* A provider never runs under a saved selection with a server or a tool the selection leaves out,
\* whatever failed, died or fell back on the way (runUnbound, claudeBinding.Bind,
\* applyCheapContextSelection).
THEOREM SelectionAlwaysHolds == Spec => []SelectionHolds
<1>1. HostInv => SelectionHolds
  BY DEF HostInv, Narrowed, SelectionHolds
<1> QED
  BY <1>1, HostHolds, PTL

-----------------------------------------------------------------------------
(* The calls.                                                              *)

\* A set of positions has a first one.
LEMMA FirstOf ==
    ASSUME NEW T \in SUBSET Nat, T # {}
    PROVE  \E n \in T : \A m \in T : n <= m
<1>1. PICK n \in T : \A m \in T : <<m, n>> \notin OpToRel(<, Nat)
  BY NatLessThanWellFounded, WFMin
<1>2. ASSUME NEW m \in T PROVE n <= m
  <2>1. ~(m < n)
    BY <1>1 DEF OpToRel
  <2> QED
    BY <2>1
<1> QED
  BY <1>2

\* An id that is known belongs to one of the upstreams (Builder.Build).
LEMMA OwnerIsUpstream ==
    ASSUME upstreams \in Seq(Servers), NEW i, Known(i)
    PROVE  Owner(i) \in Servers
<1>1. Offering(i) \in SUBSET Nat /\ Offering(i) # {}
  BY DEF Offering, Enumerated, Known
<1>2. \E n \in Offering(i) : \A m \in Offering(i) : n <= m
  BY <1>1, FirstOf
<1>3. (CHOOSE n \in Offering(i) : \A m \in Offering(i) : n <= m) \in 1..Len(upstreams)
  BY <1>2 DEF Offering, Enumerated
<1> QED
  BY <1>3 DEF Owner

\* The order of the --upstream flags is a sequence of servers.
LEMMA SetToSeqsAreSeqs ==
    ASSUME NEW S \in SUBSET Servers, NEW ups \in SetToSeqs(S)
    PROVE  ups \in Seq(Servers)
<1>1. Cardinality(S) \in Nat
  BY ServersAssumption, FS_Subset, FS_CardinalityType
<1>2. ups \in [1..Cardinality(S) -> Servers]
  BY DEF SetToSeqs
<1> QED
  BY <1>1, <1>2

\* Who fronts an id changes only with the enumeration.
LEMMA UpStays ==
    ASSUME UNCHANGED <<upstreams, degraded>>, NEW c
    PROVE  Up(c)' = Up(c)
  BY DEF Up, Owner, Offering, Enumerated

\* A call under way has no calm neighbour at its upstream.
LEMMA CalmIsAlone ==
    ASSUME CallInv, NEW c \in Calls, Busy(c), NEW d \in Calls \ {c}, calm[d], Busy(d)
    PROVE  Up(d) # Up(c)
<1>1. Together(d) = {}
  BY DEF CallInv, Undisturbed
<1> QED
  BY <1>1 DEF Together

\* A step of one call changes its own upstream's session, and calls elsewhere stay as they are.
LEMMA OthersKeep ==
    ASSUME CallInv, NEW c \in Calls, UNCHANGED <<upstreams, degraded>>,
           \A d \in Calls \ {c} : /\ call'[d] = call[d] /\ sid'[d] = sid[d] /\ runs'[d] = runs[d]
                                  /\ calm'[d] => calm[d],
           \A s \in Servers : s # Up(c) => sessions'[s] = sessions[s] /\ epoch'[s] = epoch[s],
           \/ UNCHANGED <<sessions, epoch>> /\ call'[c] = "refused"
           \/ \A d \in Calls \ {c} : calm'[d] /\ Busy(d) => Up(d) # Up(c)
    PROVE  \A d \in Calls \ {c} : Course(d)' /\ Undisturbed(d)'
<1> SUFFICES ASSUME NEW d \in Calls \ {c} PROVE Course(d)' /\ Undisturbed(d)'
  OBVIOUS
<1>0. \A e : Up(e)' = Up(e)
  BY UpStays
<1>1. Busy(d)' <=> Busy(d)
  BY DEF Busy
<1>2. Course(d) /\ Undisturbed(d)
  BY DEF CallInv
<1>3. Course(d)'
  BY <1>0, <1>1, <1>2 DEF Course
<1>4. ASSUME calm'[d], Busy(d) PROVE Together(d)' = {}
  <2>1. Together(d) = {}
    BY <1>2, <1>4 DEF Undisturbed
  <2>2. \A e \in Calls \ {c, d} : Busy(e)' => Up(e) # Up(d)
    BY <2>1 DEF Together, Busy
  <2>3. Busy(c)' => Up(c) # Up(d)
    BY <1>4 DEF Busy
  <2> QED
    BY <1>0, <2>2, <2>3 DEF Together
<1>5. ASSUME calm'[d], Busy(d) PROVE sessions'[Up(d)] = sessions[Up(d)] /\ epoch'[Up(d)] = epoch[Up(d)]
  BY <1>2, <1>5 DEF Course
<1>6. Undisturbed(d)'
  BY <1>0, <1>1, <1>2, <1>4, <1>5 DEF Undisturbed, Busy
<1> QED
  BY <1>3, <1>6

\* The invariant after a step of one call.
LEMMA CallMoves ==
    ASSUME CallInv, phase' = "run", NEW c \in Calls, CallTypes',
           \A s \in Servers \cap Stateless : sessions'[s] \in {None, Empty},
           \A d \in Calls \ {c} : Course(d)' /\ Undisturbed(d)', Course(c)', Undisturbed(c)'
    PROVE  CallInv'
  BY DEF CallInv

\* An unknown id, or arguments out of the schema: the upstream never hears of it.
LEMMA RejectKept ==
    ASSUME CallInv, phase' = "run", NEW c \in Calls, Reject(c)
    PROVE  CallInv'
<1>1. CallTypes'
  BY DEF CallInv, CallTypes, Reject, Go, States
<1>2. \A d \in Calls \ {c} : Course(d)' /\ Undisturbed(d)'
  BY OthersKeep DEF Reject, Go, CallInv, CallTypes
<1>3. call'[c] = "refused" /\ runs'[c] = runs[c] /\ runs[c] = 0
  BY DEF Reject, Go, CallInv, CallTypes, Course
<1>4. Course(c)' /\ Undisturbed(c)'
  BY <1>3 DEF Course, Undisturbed, Busy
<1>5. \A s \in Servers \cap Stateless : sessions'[s] \in {None, Empty}
  BY DEF CallInv, Reject
<1> QED
  BY <1>1, <1>2, <1>4, <1>5, CallMoves

\* verbCall disturbs whoever it meets at the upstream, and is disturbed by them.
LEMMA VerbCallKept ==
    ASSUME CallInv, phase' = "run", NEW c \in Calls, VerbCall(c)
    PROVE  CallInv'
<1>0. CallTypes /\ Up(c) \in Servers /\ \A d : Up(d)' = Up(d)
  BY OwnerIsUpstream, UpStays DEF CallInv, CallTypes, VerbCall, Up
<1>1. CallTypes'
  BY <1>0 DEF CallTypes, VerbCall, Go, States
<1>2. \A d \in Calls \ {c} : calm'[d] /\ Busy(d) => calm[d] /\ Up(d) # Up(c)
  BY <1>0 DEF VerbCall, Together
<1>3. \A d \in Calls \ {c} : Course(d)' /\ Undisturbed(d)'
  <2>1. \A d \in Calls \ {c} : /\ call'[d] = call[d] /\ sid'[d] = sid[d] /\ runs'[d] = runs[d]
                               /\ calm'[d] => calm[d]
    BY <1>0 DEF CallTypes, VerbCall, Go
  <2> QED
    BY <1>2, <2>1, OthersKeep DEF VerbCall
<1>4. /\ sid'[c] = sessions[Up(c)] /\ runs'[c] = runs[c] /\ runs[c] = 0
      /\ call'[c] = IF sessions[Up(c)] = None THEN "session" ELSE "first"
      /\ calm'[c] => calm[c] /\ Together(c) = {}
      /\ sessions' = sessions
  BY <1>0 DEF CallTypes, VerbCall, Go, CallInv, Course
<1>5. \A d \in Calls \ {c} : Busy(d)' <=> Busy(d)
  BY <1>0 DEF VerbCall, Go, CallTypes, Busy
<1>6. Together(c)' = Together(c)
  BY <1>0, <1>5 DEF Together
<1>7. \A s \in Servers \cap Stateless : sessions[s] \in {None, Empty}
  BY DEF CallInv
<1>8. Course(c)'
  BY <1>0, <1>4, <1>7 DEF Course
<1>9. Undisturbed(c)'
  BY <1>0, <1>4, <1>6 DEF Undisturbed
<1> QED
  BY <1>1, <1>3, <1>4, <1>7, <1>8, <1>9, CallMoves

\* Where a call that is under way is, and what its step leaves alone.
LEMMA AtUpstream ==
    ASSUME CallInv, NEW c \in Calls, Busy(c), UNCHANGED <<upstreams, degraded>>,
           \A d \in Calls \ {c} : call'[d] = call[d]
    PROVE  /\ Up(c) \in Servers /\ Up(c)' = Up(c)
           /\ calm[c] => Together(c)' = {}
<1>1. Up(c) \in Servers /\ \A d : Up(d)' = Up(d)
  BY UpStays DEF CallInv, Course
<1>2. calm[c] => Together(c) = {}
  BY DEF CallInv, Undisturbed
<1> QED
  BY <1>1, <1>2 DEF Together, Busy

\* The initialize round trip of sessionForURL gives the call the upstream's own id, or fails it.
LEMMA InitializeKept ==
    ASSUME CallInv, phase' = "run", NEW c \in Calls, Initialize(c)
    PROVE  CallInv'
<1>0. CallTypes /\ Course(c) /\ Undisturbed(c) /\ Busy(c)
  BY DEF CallInv, Initialize, Busy
<1>1. CallTypes'
  <2>1. Up(c) \in Servers
    BY <1>0 DEF Course
  <2>2. sid' \in [Calls -> Int]
    BY <1>0, <2>1 DEF CallTypes, Initialize, Empty
  <2>3. call' \in [Calls -> States] /\ calm' \in [Calls -> BOOLEAN]
    BY <1>0 DEF CallTypes, Initialize, Go, States
  <2> QED
    BY <1>0, <2>2, <2>3 DEF CallTypes, Initialize
<1>2. \A d \in Calls \ {c} : /\ call'[d] = call[d] /\ sid'[d] = sid[d] /\ runs'[d] = runs[d]
                             /\ calm'[d] => calm[d]
  BY <1>0 DEF CallTypes, Initialize, Go
<1>3. \A d \in Calls \ {c} : Course(d)' /\ Undisturbed(d)'
  BY <1>0, <1>2, CalmIsAlone, OthersKeep DEF Initialize
<1>4. Up(c) \in Servers /\ Up(c)' = Up(c) /\ (calm[c] => Together(c)' = {})
  BY <1>0, <1>2, AtUpstream DEF Initialize
<1>5. /\ UNCHANGED <<sessions, epoch>> /\ runs'[c] = runs[c]
      /\ \/ /\ call'[c] = call[c] /\ calm'[c] = calm[c]
            /\ sid'[c] = IF Up(c) \in Stateless THEN Empty ELSE epoch[Up(c)]
         \/ call'[c] = "failed" /\ ~calm'[c]
  BY <1>0 DEF CallTypes, Initialize, Go
<1>6. Course(c)'
  BY <1>0, <1>4, <1>5 DEF Course, Initialize, Busy
<1>7. Undisturbed(c)'
  BY <1>0, <1>4, <1>5 DEF Undisturbed, Initialize, Busy
<1>8. \A s \in Servers \cap Stateless : sessions'[s] \in {None, Empty}
  BY <1>5 DEF CallInv
<1> QED
  BY <1>1, <1>3, <1>6, <1>7, <1>8, CallMoves

\* sessionForURL writes the id the call was given.
LEMMA CacheKept ==
    ASSUME CallInv, phase' = "run", NEW c \in Calls, Cache(c)
    PROVE  CallInv'
<1>0. CallTypes /\ Course(c) /\ Undisturbed(c) /\ Busy(c)
  BY DEF CallInv, Cache, Busy
<1>1. CallTypes'
  BY <1>0 DEF CallTypes, Cache, Go, States
<1>2. \A d \in Calls \ {c} : /\ call'[d] = call[d] /\ sid'[d] = sid[d] /\ runs'[d] = runs[d]
                             /\ calm'[d] => calm[d]
  BY <1>0 DEF CallTypes, Cache, Go
<1>3. \A s \in Servers : s # Up(c) => sessions'[s] = sessions[s] /\ epoch'[s] = epoch[s]
  BY <1>0 DEF CallTypes, Cache
<1>4. \A d \in Calls \ {c} : Course(d)' /\ Undisturbed(d)'
  BY <1>0, <1>2, <1>3, CalmIsAlone, OthersKeep DEF Cache
<1>5. Up(c) \in Servers /\ Up(c)' = Up(c) /\ (calm[c] => Together(c)' = {})
  BY <1>0, <1>2, AtUpstream DEF Cache
<1>6. /\ UNCHANGED <<epoch, sid, runs, calm>> /\ sid[c] # None /\ sessions'[Up(c)] = sid[c]
      /\ call[c] \in {"session", "reinit"} /\ call'[c] = IF call[c] = "session" THEN "first" ELSE "retry"
  BY <1>0, <1>5 DEF CallTypes, Cache, Go
<1>7. Course(c)'
  BY <1>0, <1>5, <1>6 DEF Course, Busy
<1>8. Undisturbed(c)'
  BY <1>0, <1>5, <1>6 DEF Undisturbed, Busy, None
<1>9. \A s \in Servers \cap Stateless : sessions'[s] \in {None, Empty}
  BY <1>0, <1>3, <1>6 DEF CallInv, Course
<1> QED
  BY <1>1, <1>4, <1>7, <1>8, <1>9, CallMoves

\* attemptDispatch answers: the call was executed once more.
LEMMA DispatchKept ==
    ASSUME CallInv, phase' = "run", NEW c \in Calls, Dispatch(c)
    PROVE  CallInv'
<1>0. CallTypes /\ Course(c) /\ Undisturbed(c) /\ Busy(c)
  BY DEF CallInv, Dispatch, Busy
<1>00. Up(c) \in Servers
  BY <1>0 DEF Course
<1>1. CallTypes'
  <2>1. CASE call' = [call EXCEPT ![c] = "ok"] /\ UNCHANGED <<epoch, sid>>
    BY <1>0, <2>1 DEF CallTypes, Dispatch, States
  <2>2. CASE /\ epoch' = [epoch EXCEPT ![Up(c)] = @ + 1]
             /\ sid' = [sid EXCEPT ![c] = epoch'[Up(c)]]
             /\ call' = [call EXCEPT ![c] = "rotated"]
    BY <1>0, <1>00, <2>2 DEF CallTypes, Dispatch, States
  <2> QED
    BY <2>1, <2>2 DEF Dispatch, Go
<1>2. \A d \in Calls \ {c} : /\ call'[d] = call[d] /\ sid'[d] = sid[d] /\ runs'[d] = runs[d]
                             /\ calm'[d] => calm[d]
  BY <1>0 DEF CallTypes, Dispatch, Go
<1>3. \A s \in Servers : s # Up(c) => sessions'[s] = sessions[s] /\ epoch'[s] = epoch[s]
  BY <1>0 DEF CallTypes, Dispatch
<1>4. \A d \in Calls \ {c} : Course(d)' /\ Undisturbed(d)'
  BY <1>0, <1>2, <1>3, CalmIsAlone, OthersKeep DEF Dispatch
<1>5. Up(c) \in Servers /\ Up(c)' = Up(c) /\ (calm[c] => Together(c)' = {})
  BY <1>0, <1>2, AtUpstream DEF Dispatch
<1>6. /\ UNCHANGED <<sessions, calm>> /\ call[c] \in {"first", "retry"} /\ runs'[c] = runs[c] + 1 /\ runs[c] \in Nat
      /\ \/ call'[c] = "ok"
         \/ call'[c] = "rotated" /\ sid[c] # Empty /\ sid'[c] \in Nat \ {0}
  <2>1. epoch'[Up(c)] \in Nat \ {0}
    BY <1>1, <1>00 DEF CallTypes
  <2> QED
    BY <1>0, <2>1 DEF CallTypes, Dispatch, Go
<1>7. Course(c)'
  BY <1>0, <1>5, <1>6 DEF Course, Busy, None, Empty
<1>8. Undisturbed(c)'
  <2>1. calm[c] => runs[c] = 0
    BY <1>0, <1>6 DEF Undisturbed, Course
  <2> QED
    BY <1>5, <1>6, <2>1 DEF Undisturbed, Busy
<1>9. \A s \in Servers \cap Stateless : sessions'[s] \in {None, Empty}
  BY <1>6 DEF CallInv
<1> QED
  BY <1>1, <1>4, <1>7, <1>8, <1>9, CallMoves

\* The id an answer brought goes to the map.
LEMMA RotateKept ==
    ASSUME CallInv, phase' = "run", NEW c \in Calls, Rotate(c)
    PROVE  CallInv'
<1>0. CallTypes /\ Course(c) /\ Undisturbed(c) /\ Busy(c)
  BY DEF CallInv, Rotate, Busy
<1>1. CallTypes'
  BY <1>0 DEF CallTypes, Rotate, Go, States
<1>2. \A d \in Calls \ {c} : /\ call'[d] = call[d] /\ sid'[d] = sid[d] /\ runs'[d] = runs[d]
                             /\ calm'[d] => calm[d]
  BY <1>0 DEF CallTypes, Rotate, Go
<1>3. \A s \in Servers : s # Up(c) => sessions'[s] = sessions[s] /\ epoch'[s] = epoch[s]
  BY <1>0 DEF CallTypes, Rotate
<1>4. \A d \in Calls \ {c} : Course(d)' /\ Undisturbed(d)'
  BY <1>0, <1>2, <1>3, CalmIsAlone, OthersKeep DEF Rotate
<1>5. Up(c)' = Up(c) /\ Up(c) \notin Stateless
  BY <1>0, <1>2, AtUpstream DEF Rotate, Course
<1>6. UNCHANGED <<runs, calm>> /\ call[c] = "rotated" /\ call'[c] = "ok"
  BY <1>0 DEF CallTypes, Rotate, Go
<1>7. Course(c)' /\ Undisturbed(c)'
  BY <1>0, <1>5, <1>6 DEF Course, Undisturbed, Busy
<1>8. \A s \in Servers \cap Stateless : sessions'[s] \in {None, Empty}
  BY <1>3, <1>5 DEF CallInv
<1> QED
  BY <1>1, <1>4, <1>7, <1>8, CallMoves

\* The call is refused, or executed and its answer lost: only the latter, or an upstream that is
\* down, ends an undisturbed call, so it is disturbed.
LEMMA DispatchFailsKept ==
    ASSUME CallInv, phase' = "run", NEW c \in Calls, DispatchFails(c)
    PROVE  CallInv'
<1>0. CallTypes /\ Course(c) /\ Undisturbed(c) /\ Busy(c)
  BY DEF CallInv, DispatchFails, Busy
<1>1. CallTypes'
  <2>1. call' \in [Calls -> States] /\ runs' \in [Calls -> Nat]
    BY <1>0 DEF CallTypes, DispatchFails, Go, States, AfterFailure
  <2>2. \E b \in BOOLEAN : calm' = [calm EXCEPT ![c] = b]
    <3>1. (calm[c] /\ Answers(Up(c)) /\ ~Accepts(c)) \in BOOLEAN
      OBVIOUS
    <3> QED
      BY <3>1 DEF DispatchFails
  <2>3. calm' \in [Calls -> BOOLEAN]
    BY <1>0, <2>2 DEF CallTypes
  <2> QED
    BY <1>0, <2>1, <2>3 DEF CallTypes, DispatchFails
<1>2. \A d \in Calls \ {c} : /\ call'[d] = call[d] /\ sid'[d] = sid[d] /\ runs'[d] = runs[d]
                             /\ calm'[d] => calm[d]
  BY <1>0 DEF CallTypes, DispatchFails, Go
<1>3. \A d \in Calls \ {c} : Course(d)' /\ Undisturbed(d)'
  BY <1>0, <1>2, CalmIsAlone, OthersKeep DEF DispatchFails
<1>4. Up(c)' = Up(c) /\ (calm[c] => Together(c)' = {})
  BY <1>0, <1>2, AtUpstream DEF DispatchFails
<1>5. /\ UNCHANGED <<sessions, epoch, sid>> /\ call[c] \in {"first", "retry"}
      /\ call'[c] = IF call[c] = "first" /\ sid[c] # Empty THEN "stale" ELSE "failed"
      /\ runs'[c] = runs[c] \/ (Accepts(c) /\ runs'[c] = runs[c] + 1)
      /\ calm'[c] => calm[c] /\ Answers(Up(c)) /\ ~Accepts(c)
  BY <1>0 DEF CallTypes, DispatchFails, Go, AfterFailure, Retried
<1>6. Course(c)'
  BY <1>0, <1>4, <1>5 DEF Course, Busy, CallTypes
<1>7. Undisturbed(c)'
  BY <1>0, <1>4, <1>5 DEF Undisturbed, Busy, Accepts, Course
<1>8. \A s \in Servers \cap Stateless : sessions'[s] \in {None, Empty}
  BY <1>5 DEF CallInv
<1> QED
  BY <1>1, <1>3, <1>6, <1>7, <1>8, CallMoves

\* reinitSession: the call's own stale id is deleted; an id refreshed since is taken.
LEMMA ReinitKept ==
    ASSUME CallInv, phase' = "run", NEW c \in Calls, Reinit(c)
    PROVE  CallInv'
<1>0. CallTypes /\ Course(c) /\ Undisturbed(c) /\ Busy(c) /\ Up(c) \in Servers
  BY DEF CallInv, Reinit, Busy, Course
<1>1. CallTypes'
  BY <1>0 DEF CallTypes, Reinit, Go, States, Invalidated, None
<1>2. \A d \in Calls \ {c} : /\ call'[d] = call[d] /\ sid'[d] = sid[d] /\ runs'[d] = runs[d]
                             /\ calm'[d] => calm[d]
  BY <1>0 DEF CallTypes, Reinit, Go
<1>3. \A s \in Servers : s # Up(c) => sessions'[s] = sessions[s] /\ epoch'[s] = epoch[s]
  BY <1>0 DEF CallTypes, Reinit
<1>4. \A d \in Calls \ {c} : Course(d)' /\ Undisturbed(d)'
  BY <1>0, <1>2, <1>3, CalmIsAlone, OthersKeep DEF Reinit
<1>5. Up(c)' = Up(c) /\ (calm[c] => Together(c)' = {})
  BY <1>0, <1>2, AtUpstream DEF Reinit
<1>6. /\ UNCHANGED <<epoch, runs, calm>> /\ call[c] = "stale" /\ sid'[c] = Invalidated(c)
      /\ call'[c] = IF Invalidated(c) = None THEN "reinit" ELSE "retry"
  BY <1>0 DEF CallTypes, Reinit, Go
<1>7. Course(c)'
  BY <1>0, <1>5, <1>6 DEF Course, Busy
<1>8. Undisturbed(c)'
  BY <1>0, <1>5, <1>6 DEF Undisturbed, Busy, Invalidated
<1>9. \A s \in Servers \cap Stateless : sessions'[s] \in {None, Empty}
  BY <1>0, <1>3, <1>6 DEF CallInv, Course
<1> QED
  BY <1>1, <1>4, <1>7, <1>8, <1>9, CallMoves

\* An upstream drops its session: every call at it is disturbed.
LEMMA ExpireKept ==
    ASSUME CallInv, phase' = "run", NEW s \in Servers, Expire(s)
    PROVE  CallInv'
<1>0. CallTypes /\ \A d : Up(d)' = Up(d)
  BY UpStays DEF CallInv, Expire
<1>1. CallTypes'
  BY <1>0 DEF CallTypes, Expire
<1> SUFFICES ASSUME NEW c \in Calls PROVE Course(c)' /\ Undisturbed(c)'
  BY <1>1 DEF CallInv, Expire
<1>2. Course(c) /\ Undisturbed(c)
  BY DEF CallInv
<1>3. UNCHANGED <<sessions, call, sid, runs>>
  BY DEF Expire
<1>4. Course(c)'
  BY <1>0, <1>2, <1>3 DEF Course, Busy
<1>5. calm'[c] => calm[c] /\ (Busy(c) => Up(c) # s)
  BY <1>0 DEF Expire
<1>6. Together(c)' = Together(c)
  BY <1>0, <1>3 DEF Together, Busy
<1>7. Busy(c) /\ calm'[c] => epoch'[Up(c)] = epoch[Up(c)]
  BY <1>0, <1>2, <1>5 DEF Expire, CallTypes, Course
<1>8. Undisturbed(c)'
  BY <1>0, <1>2, <1>3, <1>5, <1>6, <1>7 DEF Undisturbed, Busy
<1> QED
  BY <1>4, <1>8

\* Whatever the collapse does while the provider runs.
LEMMA CollapseRunsKept ==
    ASSUME HostInv, CallInv, CollapseRuns
    PROVE  CallInv'
<1>0. phase' = "run" /\ ToSet(upstreams) \subseteq Servers
  <2>1. upstreams \in Seq(Servers)
    BY DEF CallInv, CallTypes
  <2> QED
    BY <2>1 DEF CollapseRuns, hostVars, ToSet
<1>1. CASE \E c \in Calls : Reject(c) \/ VerbCall(c) \/ Initialize(c) \/ Cache(c) \/ Dispatch(c) \/ DispatchFails(c)
           \/ Rotate(c) \/ Reinit(c)
  BY <1>0, <1>1, RejectKept, VerbCallKept, InitializeKept, CacheKept, DispatchKept, DispatchFailsKept,
     RotateKept, ReinitKept
<1>2. CASE \E s \in ToSet(upstreams) : Expire(s)
  BY <1>0, <1>2, ExpireKept
<1> QED
  BY <1>1, <1>2 DEF CollapseRuns, CollapseStep

\* The aggregator's fan-out, before the provider is bound, and the end of the collapse.
LEMMA AroundRunKept ==
    ASSUME HostInv, CallInv, Fanout \/ ProviderExits
    PROVE  CallInv'
<1>1. CASE Fanout
  <2>1. upstreams' \in Seq(Servers)
    BY <1>1, SetToSeqsAreSeqs DEF Fanout, Enumerate, HostInv, PlaneTypes
  <2>2. UNCHANGED <<epoch, sessions, call, sid, runs, calm>> /\ phase = "collapse"
    BY <1>1 DEF Fanout, Enumerate
  <2> QED
    BY <2>1, <2>2 DEF CallInv, CallTypes, Course, Undisturbed, Busy
<1>2. CASE ProviderExits
  <2>1. CollapseOver
    BY <1>2 DEF ProviderExits
  <2>2. CallTypes'
    BY <2>1 DEF CollapseOver, CallTypes, States, None
  <2> QED
    BY <2>1, <2>2 DEF CollapseOver, CallInv, Course, Undisturbed, Busy
<1> QED
  BY <1>1, <1>2

\* Every step keeps the calls' invariant.
LEMMA CallKept ==
    ASSUME HostInv, CallInv, [Next]_vars
    PROVE  CallInv'
<1>1. CASE Fanout \/ ProviderExits
  BY <1>1, AroundRunKept
<1>2. CASE CollapseRuns
  BY <1>2, CollapseRunsKept
<1>3. CASE UNCHANGED collapseVars /\ (phase' = phase \/ phase # "run")
  <2>1. /\ UNCHANGED <<upstreams, degraded, epoch, sessions, call, sid, runs, calm>>
        /\ \A c : Up(c)' = Up(c)
    BY <1>3, UpStays DEF collapseVars
  <2>2. CASE phase' = phase
    BY <2>1, <2>2 DEF CallInv, CallTypes, Course, Undisturbed, Busy, Together
  <2>3. CASE phase # "run"
    BY <2>1, <2>3 DEF CallInv, CallTypes, Course, Undisturbed, Busy
  <2> QED
    BY <1>3, <2>2, <2>3
<1>4. ASSUME HostStep \/ Interrupt PROVE UNCHANGED collapseVars /\ (phase' = phase \/ phase # "run")
  BY <1>4 DEF HostStep, Begin, StartAll, FailurePolicy, Select, Selected, Exclude, CollapseStart, CollapseStarted,
       Bind, RunUnbound, ShutdownReturns, Interrupt, Leave
<1>5. ASSUME NEW p \in Procs, ServerStep(p) \/ ProcessStep(p) PROVE UNCHANGED collapseVars /\ phase' = phase
  BY <1>5 DEF ServerStep, ProcessStep, hostVars
<1>6. ASSUME UNCHANGED vars PROVE UNCHANGED collapseVars /\ phase' = phase
  BY <1>6 DEF vars, hostVars
<1> QED
  BY <1>1, <1>2, <1>3, <1>4, <1>5, <1>6 DEF Next

\* A finished call nothing disturbed succeeded and ran once, a refused call never ran, and no call to
\* an upstream without sessions ran twice (dispatchUpstream, reinitSession).
THEOREM CallsEndWell == Spec => []CallOutcome
<1>1. Init => CallInv
  <2> SUFFICES ASSUME Init PROVE CallInv
    OBVIOUS
  <2>1. CallTypes
    BY DEF Init, CollapseIdle, CallTypes, States, None
  <2> QED
    BY <2>1 DEF Init, CollapseIdle, CallInv, Course, Undisturbed, Busy
<1>2. HostInv /\ CallInv /\ [Next]_vars => CallInv'
  BY CallKept
<1>3. CallInv => CallOutcome
  BY DEF CallInv, Course, Undisturbed, CallOutcome
<1> QED
  BY <1>1, <1>2, <1>3, HostHolds, PTL DEF Spec
=============================================================================

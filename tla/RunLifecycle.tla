---------------------------- MODULE RunLifecycle ----------------------------
(***************************************************************************)
(* The verbs of one juggler run, interleaved: spawn --new-run, spawn       *)
(* --brief, resolve, clean and decide, the agents they launch, crashes and *)
(* failed steps.                                                           *)
(***************************************************************************)
EXTENDS NewRun, SpawnChild, Resolve, Clean

CONSTANTS
    Verbs,      \* the verbs this instance may start
    Asked,      \* the verdicts a resolve may be asked for
    Keeping,    \* values of --keep-accounts
    Canaries    \* values of "a canary room was given"

ASSUME VerbAssumption ==
    /\ Verbs \subseteq {"new", "spawn", "resolve", "clean", "sweep", "decide"}
    /\ Asked \subseteq Verdicts /\ Keeping \subseteq BOOLEAN /\ Canaries \subseteq BOOLEAN

-----------------------------------------------------------------------------
(* The agents.  AgentExit.tla has the detail of how a job gets its one     *)
(* terminal record; here an agent writes its own, or its unit dies without *)
(* and the unit's exit hook (or ringmaster's reaper) settles the job.      *)

AgentFinish(c) ==
    /\ unit[c] = "active"
    /\ job[c] = "running"
    /\ job' = [job EXCEPT ![c] = IF c \in cancelled THEN "aborted" ELSE "succeeded"]
    /\ UNCHANGED <<lock, pc, req, undo, mem, store, acct, muc, stanza, sent, unit,
                   cancelled, faults, clocks>>

AgentStop(c) ==
    /\ unit[c] = "active"
    /\ unit' = [unit EXCEPT ![c] = "stopped"]
    /\ UNCHANGED <<lock, pc, req, undo, mem, store, acct, muc, stanza, sent, job,
                   cancelled, faults, clocks>>

HookSettle(c) ==
    /\ unit[c] = "stopped"
    /\ job[c] = "running"
    /\ job' = [job EXCEPT ![c] = "interrupted"]
    /\ UNCHANGED <<lock, pc, req, undo, mem, store, acct, muc, stanza, sent, unit,
                   cancelled, faults, clocks>>

AgentStep(c) == AgentFinish(c) \/ AgentStop(c) \/ HookSettle(c)

-----------------------------------------------------------------------------
StartStep(c) ==
    \/ "new" \in Verbs /\ StartNew(c)
    \/ "spawn" \in Verbs /\ \E b \in Briefs : StartSpawn(c, b)
    \/ "resolve" \in Verbs /\ \E v \in Asked, keep \in Keeping, canary \in Canaries :
                                 StartResolve(c, v, keep, canary)
    \/ "clean" \in Verbs /\ StartClean(c)
    \/ "sweep" \in Verbs /\ StartSweep(c)
    \/ "decide" \in Verbs /\ StartDecide(c)

CallStep(c) ==
    \/ NewRunStep(c) \/ SpawnStep(c) \/ ResolveStep(c) \/ TeardownStep(c)
    \/ CleanStep(c)  \/ Unwind(c)    \/ Unwound(c)

\* Every call has been made and every agent is settled.
Quiet == /\ \A c \in Calls : pc[c] # "idle" => Ended(c)
         /\ UNCHANGED vars

Next ==
    \/ \E c \in Calls : StartStep(c) \/ CallStep(c) \/ AgentStep(c) \/ Crash(c)
    \/ Tick
    \/ Quiet

\* A started call is a process that runs, an agent ends (its unit has a
\* RuntimeMaxSec), and a dead agent's job is settled.
Fairness == \A c \in Calls : WF_vars(CallStep(c)) /\ WF_vars(AgentStep(c))

Spec     == Init /\ [][Next]_vars
FairSpec == Spec /\ Fairness

-----------------------------------------------------------------------------
PhaseSet == {"none", "pending", "open", "reaped"}

TypeOK ==
    /\ lock \in Calls \cup {None}
    /\ DOMAIN pc = Calls /\ DOMAIN req = Calls /\ DOMAIN undo = Calls /\ DOMAIN mem = Calls
    /\ run \in [phase : PhaseSet, room : BOOLEAN, job : Calls \cup {None}, since : 0..MaxTime,
                resolved : Verdicts \cup {None}, tornDown : BOOLEAN]
    /\ ledger \in [resolved : Verdicts \cup {None}, fallbacks : Nat, gone : SUBSET Principals,
                   routes : Nat, refusals : Nat, canary : Nat]
    /\ child \in [Briefs -> Calls \cup {None}]
    /\ files \in [pw : SUBSET Principals, brief : SUBSET Briefs, moxy : SUBSET Briefs,
                  traffic : SUBSET Calls, canary : BOOLEAN, wake : BOOLEAN]
    /\ acct \subseteq Principals
    /\ muc \in [made : BOOLEAN, members : SUBSET Principals]
    /\ stanza \in [Calls -> {"none", "posted", "withdrawn"}]
    /\ sent \in [canary : Nat, wake : Nat]
    /\ job \in [Calls -> {"none", "running"} \cup Terminal]
    /\ unit \in [Calls -> {"none", "active", "stopped"}]
    /\ cancelled \subseteq Calls
    /\ faults \in 0..MaxFaults /\ crashes \in 0..MaxCrashes /\ now \in 0..MaxTime
=============================================================================

--------------------------- MODULE RunProperties ----------------------------
(***************************************************************************)
(* What the verbs of a run promise together, about the run record, its     *)
(* ledger, the accounts, the agents and what failed calls leave behind.    *)
(***************************************************************************)
EXTENDS RunLifecycle

Idle == \A c \in Calls : ~Active(c)

-----------------------------------------------------------------------------
(* Accounts.                                                               *)

\* An account goes only in an unwind of its own spawn or once the job is terminal.
AgentKeepsAccount ==
    \A p \in Calls : p \in acct \ acct' => pc[p] = "unwind" \/ job[p] \in Terminal

RootLast == Root \notin acct => Recorded \cap acct = {}

LedgerTruthful == ledger.gone \cap acct = {}

TornDownMeansGone ==
    run.tornDown => /\ (Recorded \cup {Root}) \cap acct = {}
                    /\ \A p \in Recorded : job[p] \in Terminal

\* What the teardown records is true. A principal with an ok entry has no
\* account, so that skipping it on a retry leaks nothing (teardownAccounts'
\* gone set, the tombstone of cleanPendingRun); torn_down means what store.go
\* says, no account of the run is left and no recorded agent is at work.
TeardownTruthful == LedgerTruthful /\ TornDownMeansGone

\* The mint's reply was lost: the root exists and the call failed before it had a
\* room. The retry mints the same root again (NewMint).
MintLost == run.phase = "none" /\ ~muc.made /\ faults > 0

RootIsRecorded ==
    Idle /\ crashes = 0 /\ Root \in acct /\ (\A c \in Calls : pc[c] # "dirty")
        => run.phase \in {"pending", "open"} \/ MintLost

AgentIsMember ==
    \A p \in Recorded : OwnRoom /\ pc[p] = "done" /\ unit[p] = "active" /\ job[p] = "running"
        => p \in muc.members

\* The accounts are in order: the root outlives every recorded child, whose
\* affiliations it removes (teardownAccounts); once a call has ended an existing
\* root has a record that a retry or a clean can find it by, unless its mint's reply
\* was lost or the call said its save failed too (NewRun); and a recorded agent at work in a room juggler
\* made, whose spawn has answered, is a member of it, so that it can join (SpawnChild).
AccountsInOrder == RootLast /\ RootIsRecorded /\ AgentIsMember

-----------------------------------------------------------------------------
(* The resolution.                                                         *)

OneResolution ==
    run.resolved # None => /\ ledger.resolved = run.resolved
                           /\ job[run.job] = run.resolved
                           /\ files.wake /\ sent.wake > 0

\* A resolved ledger keeps its resolution and its one fallback entry, and
\* takes no route entry (AppendRunLedgerEntry).
ResolutionKept ==
    ledger.resolved # None => /\ ledger'.resolved = ledger.resolved
                              /\ ledger'.fallbacks = ledger.fallbacks
                              /\ ledger'.routes = ledger.routes

PostedOnce ==
    /\ sent.canary <= 1 + faults + crashes
    /\ sent.wake <= 1 + faults + crashes

\* A run is resolved once: the run record, the ledger and the run job's terminal
\* record agree, with the exit wake already sent, and the canary line and the
\* wake are posted once, each repeat at the cost of a failed step or a killed
\* call (the markers are written after the post).
ResolvedOnce == OneResolution /\ PostedOnce

-----------------------------------------------------------------------------
(* Spawning.                                                               *)

OneAgentPerBrief ==
    \A c, d \in Calls :
        unit[c] = "active" /\ unit[d] = "active" /\ req[c].brief = req[d].brief => c = d

ReapedForGood == run.phase = "reaped" => Root \notin acct

\* Nobody is made twice, whatever races: at most one agent is ever at work on a
\* brief digest (a launched unit is recorded, and the record stops the next
\* spawn), and the root of a reaped run key is never minted again (the tombstone).
SpawnsAreSingle == OneAgentPerBrief /\ ReapedForGood

\* The calls that said they left something behind, or were killed.
Unclean == {d \in Calls : pc[d] \in {"dirty", "crashed"}}

\* A spawn that failed cleanly left nothing: no account, running job, stanza
\* that is not withdrawn, record, unit or staged file (undoStack).
FailedCallLeavesNothing ==
    \A c \in Calls :
        pc[c] = "failed" /\ req[c].verb \in {"new", "spawn"} =>
            /\ c \notin acct /\ c \notin muc.members /\ c \notin Recorded
            /\ job[c] # "running" /\ stanza[c] # "posted" /\ unit[c] = "none"
            /\ Idle => files.brief \cup files.moxy \subseteq
                          {b \in Briefs : child[b] # None} \cup {req[d].brief : d \in Unclean}

LiveFilesKept ==
    \A b \in Briefs :
        LET p == child[b] IN
        p # None /\ pc[p] = "done" /\ job[p] = "running" =>
            /\ b \in files.brief => b \in files'.brief
            /\ b \in files.moxy => b \in files'.moxy
            /\ p \in files.traffic => p \in files'.traffic

\* Nothing is taken back, whatever raced: from an agent at work neither its account
\* by a teardown (stopLiveChildren, teardownChild) nor its files by the sweep of a
\* resolved run (stillRunning: not knowing is running), and from a resolved ledger
\* nothing, however many resolves race.
NothingTakenBack == [][AgentKeepsAccount /\ LiveFilesKept /\ ResolutionKept]_vars

-----------------------------------------------------------------------------
(* Liveness: every call that started ends, so the run lock is released.    *)

\* No chain of lock, wait and undo leaves an invocation stuck.
EveryCallReturns == \A c \in Calls : Active(c) ~> Ended(c)

=============================================================================

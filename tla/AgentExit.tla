----------------------------- MODULE AgentExit ------------------------------
(***************************************************************************)
(* How one agent job ends (RunAgent and finish in agent.go, ExitWake in    *)
(* exitwake.go): the producers that may run it (the unit's main process    *)
(* and hand-run duplicates), the advisory job lock, the SIGTERM and the    *)
(* holder's cancel that cut a run short, the terminal record, the unit's   *)
(* exit hook with its retries, and ringmaster's reaper.                    *)
(***************************************************************************)
EXTENDS Naturals, FiniteSets

CONSTANTS
    Main,        \* the unit's main process
    Dups,        \* `juggler run --job` of the same job by hand
    Hooks,       \* runs of the unit's exit-wake hook
    Holders,     \* the accepted holders of the job
    None,
    MaxFaults,   \* at most this many failed calls and kills
    MaxRetries   \* done attempts inside one hook's budget

Producers == {Main} \cup Dups
States    == {"succeeded", "failed", "aborted", "interrupted"}
Ends      == {"pass", "fail", "cut"}

ASSUME ActorAssumption ==
    Main \notin Dups /\ None \notin Producers \cup Hooks \cup States \cup Ends
ASSUME BoundAssumption == MaxFaults \in Nat /\ MaxRetries \in Nat

VARIABLES
    terminal,    \* the journal's terminal record, or None
    told,        \* holder -> the states it was woken with
    jobLock,     \* the producer that holds the job's advisory lock, or None
    everLocked,  \* the lock was taken once (the reaper watches the job)
    ppc,         \* producer -> where it is
    verdict,     \* producer -> its own outcome, then what it reports
    locked,      \* the producers that got the lock (the rest run without)
    cancelReq,   \* a holder's cancel-requested record is on the journal
    cancelSeen,  \* the producers whose watcher saw it
    sigterm,     \* SIGTERM to the unit: "none", "early" or "late" (deadline)
    hpc,         \* hook -> where it is
    known,       \* hook -> the terminal it will tell, or None
    todo,        \* hook -> the holders it has not tried yet
    missed,      \* hook -> some send failed
    tries,       \* hook -> done attempts
    wakeLock,    \* the hook that holds the marker lock, or None
    marker,      \* the sent-wake marker
    faults

journal  == <<terminal, told>>
producer == <<jobLock, everLocked, ppc, verdict, locked, cancelSeen>>
signals  == <<cancelReq, sigterm>>
hook     == <<hpc, known, todo, missed, tries, wakeLock, marker>>
vars     == <<journal, producer, signals, hook, faults>>

Init ==
    /\ terminal = None
    /\ told = [h \in Holders |-> {}]
    /\ jobLock = None
    /\ everLocked = FALSE
    /\ ppc = [p \in Producers |-> "idle"]
    /\ verdict = [p \in Producers |-> None]
    /\ locked = {}
    /\ cancelReq = FALSE
    /\ cancelSeen = {}
    /\ sigterm = "none"
    /\ hpc = [k \in Hooks |-> "idle"]
    /\ known = [k \in Hooks |-> None]
    /\ todo = [k \in Hooks |-> {}]
    /\ missed = [k \in Hooks |-> FALSE]
    /\ tries = [k \in Hooks |-> 0]
    /\ wakeLock = None
    /\ marker = FALSE
    /\ faults = 0

Fault == faults < MaxFaults /\ faults' = faults + 1
Fine  == UNCHANGED faults

\* Mutant of Settle: the last terminal record wins.
Overwrite(s) == terminal' = s

\* Mutant of Settle: an interrupted job still waits for its outcome.
NotInterrupted(s) == terminal' = IF terminal = None /\ s # "interrupted" THEN s ELSE terminal

\* ringmaster done: the first terminal record wins.
Settle(s) == terminal' = IF terminal = None THEN s ELSE terminal

-----------------------------------------------------------------------------
(* The producers.                                                          *)

\* AcquireJobLock: another live producer's lock refuses the run outright,
\* with nothing written; any other failure loses only the reaper backstop.
Acquire(p) ==
    /\ ppc[p] = "idle"
    /\ \/ /\ jobLock = None
          /\ jobLock' = p /\ everLocked' = TRUE /\ locked' = locked \cup {p}
          /\ ppc' = [ppc EXCEPT ![p] = "work"]
          /\ Fine
       \/ /\ jobLock # None
          /\ ppc' = [ppc EXCEPT ![p] = "refused"]
          /\ Fine /\ UNCHANGED <<jobLock, everLocked, locked>>
       \/ /\ Fault
          /\ ppc' = [ppc EXCEPT ![p] = "work"]
          /\ UNCHANGED <<jobLock, everLocked, locked>>
    /\ UNCHANGED <<journal, verdict, cancelSeen, signals, hook>>

\* The watcher goroutine sees the cancel and cancels the loop's context.
SeeCancel(p) ==
    /\ ppc[p] \in {"work", "judge"}
    /\ cancelReq
    /\ cancelSeen' = cancelSeen \cup {p}
    /\ UNCHANGED <<journal, jobLock, everLocked, ppc, verdict, locked, signals, hook, faults>>

Signalled(p) == p = Main /\ sigterm # "none"

\* jugglerloop.Run returns: by itself, or because its context was cut.
LoopEnd(p) ==
    /\ ppc[p] = "work"
    /\ \E end \in Ends :
          /\ end = "cut" => p \in cancelSeen \/ Signalled(p)
          /\ verdict' = [verdict EXCEPT ![p] = end]
    /\ ppc' = [ppc EXCEPT ![p] = "judge"]
    /\ UNCHANGED <<journal, jobLock, everLocked, locked, cancelSeen, signals, hook, faults>>

\* Mutant of Judgement: the loop's own result is recorded as it is.
RawJudgement(p) == IF p \in cancelSeen THEN "aborted" ELSE verdict[p]

\* Mutant of Judgement: a context cut by the wall clock is an abort as well.
CutIsAbort(p) ==
    IF p \in cancelSeen \/ verdict[p] = "cut" THEN "aborted"
    ELSE IF verdict[p] = "pass" THEN "succeeded" ELSE "failed"

\* A cancel the watcher saw is the holder's even if the loop ended by itself;
\* a context cut at or past the deadline is the wall clock's, not a holder's.
Judgement(p) ==
    IF p \in cancelSeen THEN "aborted"
    ELSE IF verdict[p] = "cut" THEN (IF sigterm = "late" THEN "failed" ELSE "aborted")
    ELSE IF verdict[p] = "pass" THEN "succeeded" ELSE "failed"

Judge(p) ==
    /\ ppc[p] = "judge"
    /\ verdict' = [verdict EXCEPT ![p] = Judgement(p)]
    /\ ppc' = [ppc EXCEPT ![p] = "done"]
    /\ UNCHANGED <<journal, jobLock, everLocked, locked, cancelSeen, signals, hook, faults>>

\* finish's Done.  "Already terminal" leads to the relay; any other error is
\* logged, whether or not the record landed.
Done(p) ==
    /\ ppc[p] = "done"
    /\ \/ /\ Fine
          /\ Settle(verdict[p])
          /\ ppc' = [ppc EXCEPT ![p] = IF terminal = None THEN "release" ELSE "relay"]
       \/ /\ Fault
          /\ Settle(verdict[p]) \/ UNCHANGED terminal
          /\ ppc' = [ppc EXCEPT ![p] = "release"]
    /\ UNCHANGED <<told, jobLock, everLocked, verdict, locked, cancelSeen, signals, hook>>

\* Mutant of Winner: a run reports its own verdict.
OwnOutcome(p) == verdict[p]

Winner(p) == terminal

\* The terminal that won is reported instead of this run's own verdict.
Relay(p) ==
    /\ ppc[p] = "relay"
    /\ \/ Fine /\ verdict' = [verdict EXCEPT ![p] = Winner(p)]
       \/ Fault /\ UNCHANGED verdict
    /\ ppc' = [ppc EXCEPT ![p] = "release"]
    /\ UNCHANGED <<journal, jobLock, everLocked, locked, cancelSeen, signals, hook>>

Unlock(p) == jobLock' = IF jobLock = p THEN None ELSE jobLock

\* The lock goes only after Done has returned.
Release(p) ==
    /\ ppc[p] = "release"
    /\ Unlock(p)
    /\ ppc' = [ppc EXCEPT ![p] = "exited"]
    /\ UNCHANGED <<journal, everLocked, verdict, locked, cancelSeen, signals, hook, faults>>

Gone(p) == ppc[p] \in {"exited", "refused", "dead"}

\* A kill or a crash: the lock dies with the process.
Die(p) ==
    /\ ppc[p] # "idle" /\ ~Gone(p)
    /\ Fault
    /\ Unlock(p)
    /\ ppc' = [ppc EXCEPT ![p] = "dead"]
    /\ UNCHANGED <<journal, everLocked, verdict, locked, cancelSeen, signals, hook>>

ProducerStep(p) ==
    Acquire(p) \/ LoopEnd(p) \/ Judge(p) \/ Done(p) \/ Relay(p) \/ Release(p)

-----------------------------------------------------------------------------
(* The signals: a holder cancels, systemd stops the unit or its            *)
(* RuntimeMaxSec runs out.                                                 *)

Cancel ==
    /\ ~cancelReq
    /\ cancelReq' = TRUE
    /\ UNCHANGED <<journal, producer, sigterm, hook, faults>>

Terminate(when) ==
    /\ sigterm = "none"
    /\ ppc[Main] # "idle" /\ ~Gone(Main)
    /\ sigterm' = when
    /\ UNCHANGED <<journal, producer, cancelReq, hook, faults>>

\* A lock that was taken, is free, and left no terminal.
Abandoned == everLocked /\ jobLock = None /\ terminal = None

\* ringmaster's reaper.
Reap ==
    /\ Abandoned
    /\ Settle("interrupted")
    /\ UNCHANGED <<told, producer, signals, hook, faults>>

-----------------------------------------------------------------------------
(* The exit-wake hook, which systemd runs once the main process is gone.   *)

\* Mutant of UnitStopped: ExecStop instead of ExecStopPost.
UnitStopping == Gone(Main) \/ sigterm # "none"

UnitStopped == Gone(Main)

HookGoto(k, s) == hpc' = [hpc EXCEPT ![k] = s]

\* The first read of the journal decides: relay its terminal or write one.
HookRead(k) ==
    /\ hpc[k] = "idle"
    /\ UnitStopped
    /\ \/ /\ Fine
          /\ known' = [known EXCEPT ![k] = terminal]
          /\ HookGoto(k, IF terminal = None THEN "done" ELSE "wake")
       \/ Fault /\ HookGoto(k, "failed") /\ UNCHANGED known
    /\ UNCHANGED <<journal, producer, signals, todo, missed, tries, wakeLock, marker>>

\* HookTerminal: systemd reports a unit it timed out as "timeout".
HookState == IF sigterm = "late" THEN "failed" ELSE "interrupted"

\* What the hook tells once its own done has failed: the journal's terminal.
Relayed == terminal

\* doneWithRetry's done.  Any failure, "already terminal" included, leads to
\* a fresh read of the journal.
HookDone(k) ==
    /\ hpc[k] = "done"
    /\ tries' = [tries EXCEPT ![k] = @ + 1]
    /\ \/ /\ Fine /\ terminal = None
          /\ Settle(HookState)
          /\ known' = [known EXCEPT ![k] = HookState]
          /\ HookGoto(k, "wake")
       \/ /\ Fine /\ terminal # None
          /\ HookGoto(k, "reread") /\ UNCHANGED <<terminal, known>>
       \/ /\ Fault
          /\ Settle(HookState) \/ UNCHANGED terminal
          /\ HookGoto(k, "reread") /\ UNCHANGED known
    /\ UNCHANGED <<told, producer, signals, todo, missed, wakeLock, marker>>

\* A terminal on the journal is relayed; otherwise back off and try again,
\* until the budget is spent.
HookReread(k) ==
    /\ hpc[k] = "reread"
    /\ \/ /\ Fine /\ terminal # None
          /\ known' = [known EXCEPT ![k] = Relayed]
          /\ HookGoto(k, "wake")
       \/ /\ (Fine /\ terminal = None) \/ Fault
          /\ HookGoto(k, IF tries[k] > MaxRetries THEN "failed" ELSE "done")
          /\ UNCHANGED known
    /\ UNCHANGED <<journal, producer, signals, todo, missed, tries, wakeLock, marker>>

\* sendExitWakes: under the marker lock, unless the marker is there.
HookLock(k) ==
    /\ hpc[k] = "wake"
    /\ wakeLock = None
    /\ IF marker THEN HookGoto(k, "ended") /\ UNCHANGED <<wakeLock, todo>>
       ELSE /\ wakeLock' = k
            /\ todo' = [todo EXCEPT ![k] = Holders]
            /\ HookGoto(k, "send")
    /\ UNCHANGED <<journal, producer, signals, known, missed, tries, marker, faults>>

\* One wake; a failed send does not stop the others.
HookSend(k) ==
    /\ hpc[k] = "send"
    /\ \E h \in todo[k] :
          /\ todo' = [todo EXCEPT ![k] = @ \ {h}]
          /\ \/ Fine /\ told' = [told EXCEPT ![h] = @ \cup {known[k]}] /\ UNCHANGED missed
             \/ /\ Fault
                /\ told' = [told EXCEPT ![h] = @ \cup {known[k]}] \/ UNCHANGED told
                /\ missed' = [missed EXCEPT ![k] = TRUE]
    /\ UNCHANGED <<terminal, producer, signals, hpc, known, tries, wakeLock, marker>>

\* Mutant of AllSent: every send was tried.
AllTried(k) == todo[k] = {}

AllSent(k) == ~missed[k]

\* The marker only after every send succeeded.
HookMark(k) ==
    /\ hpc[k] = "send"
    /\ todo[k] = {}
    /\ wakeLock' = None
    /\ \/ Fine /\ AllSent(k) /\ marker' = TRUE /\ HookGoto(k, "ended")
       \/ Fine /\ ~AllSent(k) /\ UNCHANGED marker /\ HookGoto(k, "failed")
       \/ Fault /\ UNCHANGED marker /\ HookGoto(k, "failed")
    /\ UNCHANGED <<journal, producer, signals, known, todo, missed, tries>>

HookEnded(k) == hpc[k] \in {"ended", "failed"}

\* Killed: its budget is spent or the host goes down; the flock dies with it.
HookDie(k) ==
    /\ hpc[k] # "idle" /\ ~HookEnded(k)
    /\ Fault
    /\ HookGoto(k, "failed")
    /\ wakeLock' = IF wakeLock = k THEN None ELSE wakeLock
    /\ UNCHANGED <<journal, producer, signals, known, todo, missed, tries, marker>>

HookStep(k) ==
    \/ HookRead(k) \/ HookDone(k) \/ HookReread(k)
    \/ HookLock(k) \/ HookSend(k) \/ HookMark(k)

-----------------------------------------------------------------------------
Quiet == /\ \A p \in Producers : Gone(p)
         /\ \A k \in Hooks : HookEnded(k)
         /\ UNCHANGED vars

Next ==
    \/ \E p \in Producers : ProducerStep(p) \/ SeeCancel(p) \/ Die(p)
    \/ \E k \in Hooks : HookStep(k) \/ HookDie(k)
    \/ Cancel \/ Terminate("early") \/ Terminate("late") \/ Reap
    \/ Quiet

\* Processes run, systemd starts the hook, and some reaper watches the host.
Fairness ==
    /\ \A p \in Producers : WF_vars(ProducerStep(p))
    /\ \A k \in Hooks : WF_vars(HookStep(k))
    /\ WF_vars(Reap)

Spec     == Init /\ [][Next]_vars
FairSpec == Spec /\ Fairness

-----------------------------------------------------------------------------
PStates == {"idle", "work", "judge", "done", "relay", "release", "exited", "refused", "dead"}
HStates == {"idle", "done", "reread", "wake", "send", "ended", "failed"}

TypeOK ==
    /\ terminal \in States \cup {None}
    /\ told \in [Holders -> SUBSET States]
    /\ jobLock \in Producers \cup {None}
    /\ everLocked \in BOOLEAN
    /\ ppc \in [Producers -> PStates]
    /\ verdict \in [Producers -> States \cup Ends \cup {None}]
    /\ locked \subseteq Producers
    /\ cancelReq \in BOOLEAN
    /\ cancelSeen \subseteq Producers
    /\ sigterm \in {"none", "early", "late"}
    /\ hpc \in [Hooks -> HStates]
    /\ known \in [Hooks -> States \cup {None}]
    /\ todo \in [Hooks -> SUBSET Holders]
    /\ missed \in [Hooks -> BOOLEAN]
    /\ tries \in [Hooks -> Nat]
    /\ wakeLock \in Hooks \cup {None}
    /\ marker \in BOOLEAN
    /\ faults \in 0..MaxFaults

\* The exit path implements the promise to the holders: one terminal record,
\* whoever writes it, and wakes that only ever tell that state (ExitWake).
Job == INSTANCE JobSpec
JobRefined == Job!Spec

WakeTruth == \A h \in Holders : told[h] \subseteq {terminal} \ {None}

EndedMeansTold == \A k \in Hooks : hpc[k] = "ended" => \A h \in Holders : told[h] # {}

\* The holders are told the truth. A wake tells the journal's terminal, even when the
\* hook's own done failed after landing or lost to the producer or the reaper
\* (doneWithRetry); and a hook that reports success has woken every accepted holder,
\* or found the marker of one that did (sendExitWakes).
HoldersTold == WakeTruth /\ EndedMeansTold

ReportsTheJournal ==
    \A p \in Producers : ppc[p] = "exited" /\ faults = 0 => verdict[p] = terminal

AbortedHasCause == terminal = "aborted" => cancelReq \/ sigterm = "early"

\* The verdict is one and has its cause. Without failed calls `juggler run` exits with
\* the outcome the journal has, its own or the one that beat it (finish's relay); and a
\* run is recorded as aborted only if a holder cancelled it or the unit was stopped
\* before its deadline (AgentVerdict and the wall-clock override).
OneVerdict == ReportsTheJournal /\ AbortedHasCause

\* While a live producer holds the job lock, only its own finish settles the
\* job: neither the reaper nor the hook takes its outcome away.
HolderWrites ==
    terminal' # terminal /\ jobLock # None =>
        ppc[jobLock] = "done" /\ ppc'[jobLock] # "done"
OutcomeStands == [][faults' = 0 /\ ppc[Main] # "refused" => HolderWrites]_vars

\* A job that was ever locked is settled, even if its hook never manages to
\* (the reaper is the hook's backstop).
LockedIsSettled == everLocked ~> terminal # None
=============================================================================

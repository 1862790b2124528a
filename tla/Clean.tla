------------------------------- MODULE Clean --------------------------------
(***************************************************************************)
(* `juggler clean --act` (Clean, clean.go) on this run, and the route      *)
(* entry of `juggler decide --run-key` (AppendRunLedgerEntry, ledger.go).  *)
(***************************************************************************)
EXTENDS Teardown

-----------------------------------------------------------------------------
(* The pending-run sweep.  The age is measured against the listing's clock *)
(* (mem[c].at), both when the run is listed and again under the lock.      *)

Overdue(at) == at - run.since >= OlderThan /\ at >= run.since

StartClean(c) ==
    /\ run.phase = "pending"
    /\ Overdue(now)
    /\ Start(c, [NoRequest EXCEPT !.verb = "clean"], "clean.lock", [Blank EXCEPT !.at = now])

\* Mutant of StillOverdue: the age guard is not checked again.
StillPending(c) == run.phase = "pending"

\* The record is loaded again: a retry may have resumed or refreshed it.
StillOverdue(c) == run.phase = "pending" /\ Overdue(mem[c].at)

CleanEnter(c) ==
    /\ At(c, "clean.lock")
    /\ lock = None
    /\ IF StillOverdue(c)
       THEN /\ lock' = c
            /\ pc' = [pc EXCEPT ![c] = IF run.room THEN "acct.affil" ELSE "acct.revoke"]
            /\ mem' = [mem EXCEPT ![c].cur = Root]
            /\ UNCHANGED undo
       ELSE Return(c, "done")
    /\ UNCHANGED <<req, store, outside, faults, clocks>>

\* Mutant of Tombstone: the record is deleted.
Deleted == NoRun

\* The tombstone, once the root is gone, and before the ledger says so.
Tombstone == [run EXCEPT !.phase = "reaped"]

RootReaped(c) == Root \in mem[c].gone

CleanTomb(c) ==
    /\ At(c, "clean.tomb")
    /\ IF ~RootReaped(c)
       THEN Goto(c, "clean.entry") /\ UNCHANGED <<run, faults>>
       ELSE \E k \in Write :
               /\ Outcome(k)
               /\ IF k = "ok" THEN run' = Tombstone /\ Goto(c, "clean.entry")
                  ELSE UNCHANGED run /\ Return(c, "failed")
    /\ UNCHANGED <<req, ledger, child, files, outside, clocks>>

\* The teardown entry, past the guard that closes a pending run's ledger.
CleanEntry(c) ==
    /\ At(c, "clean.entry")
    /\ \E k \in Write :
          /\ Outcome(k)
          /\ ledger' = IF k = "ok" THEN [ledger EXCEPT !.gone = @ \cup mem[c].gone]
                       ELSE ledger
          /\ Return(c, IF k = "ok" /\ RootReaped(c) THEN "done" ELSE "failed")
    /\ UNCHANGED <<req, run, child, files, outside, clocks>>

-----------------------------------------------------------------------------
(* The resolved-run sweep (--resolved) takes no lock: it lists the child   *)
(* records and removes the files of each child whose job is terminal.  The *)
(* retention age is the operator's and may be zero.                        *)

StartSweep(c) ==
    /\ run.resolved # None
    /\ Start(c, [NoRequest EXCEPT !.verb = "sweep"], "sweep.child", [Blank EXCEPT !.todo = Recorded])

\* Mutant of Sweepable: any child that got a job.
AnyChild(p) == job[p] # "none"

\* stillRunning: an unreadable journal counts as running.
Sweepable(p) == job[p] \in Terminal

SweepChild(c) ==
    /\ At(c, "sweep.child")
    /\ \E p \in mem[c].todo :
          \E k \in {"ok", "refused"} :
             LET m == [mem[c] EXCEPT !.todo = @ \ {p}] IN
             /\ Outcome(k)
             /\ IF k = "ok" /\ Sweepable(p)
                THEN Remember(c, "sweep.files", [m EXCEPT !.cur = p])
                ELSE Remember(c, "sweep.child", m)
    /\ UNCHANGED <<req, store, outside, clocks>>

\* One file may fail to go; the rest still do.
SweepFiles(c) ==
    LET p == mem[c].cur  b == req[p].brief IN
    /\ At(c, "sweep.files")
    /\ \E k \in Write :
          /\ Outcome(k)
          /\ files' = [files EXCEPT !.brief = @ \ {b}, !.moxy = @ \ {b},
                                    !.traffic = IF k = "ok" THEN @ \ {p} ELSE @]
    /\ Goto(c, "sweep.child")
    /\ UNCHANGED <<req, run, ledger, child, outside, clocks>>

SweepEnd(c) ==
    /\ At(c, "sweep.child")
    /\ mem[c].todo = {}
    /\ Return(c, "done")
    /\ UNCHANGED <<req, store, outside, faults, clocks>>

-----------------------------------------------------------------------------
(* A route entry: refused unless the run is open and its ledger is too.    *)

StartDecide(c) ==
    /\ run.phase # "none"
    /\ Start(c, [NoRequest EXCEPT !.verb = "decide"], "decide.lock", Blank)

LedgerOpen == run.phase = "open" /\ ledger.resolved = None /\ run.resolved = None

Decide(c) ==
    /\ At(c, "decide.lock")
    /\ lock = None
    /\ IF ~LedgerOpen THEN Return(c, "failed") /\ UNCHANGED <<ledger, faults>>
       ELSE \E k \in Write :
               /\ Outcome(k)
               /\ ledger' = IF k = "ok" THEN [ledger EXCEPT !.routes = @ + 1] ELSE ledger
               /\ Return(c, IF k = "ok" THEN "done" ELSE "failed")
    /\ UNCHANGED <<req, run, child, files, outside, clocks>>

CleanStep(c) ==
    \/ CleanEnter(c) \/ CleanTomb(c)  \/ CleanEntry(c)
    \/ SweepChild(c) \/ SweepFiles(c) \/ SweepEnd(c)
    \/ Decide(c)
=============================================================================

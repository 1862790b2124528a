------------------------------ MODULE Resolve -------------------------------
(***************************************************************************)
(* `juggler resolve` (Resolve, resolve.go): the canary line, the stop of   *)
(* the live children, the ledger's resolution, the run job's terminal      *)
(* record, the exit wake, the record and the teardown of the accounts.     *)
(* The run record is found by its job BEFORE the lock is taken and is not  *)
(* read again under it: mem[c].run is that copy.                           *)
(***************************************************************************)
EXTENDS Teardown

StartResolve(c, verdict, keep, canary) ==
    /\ run.job # None
    /\ Start(c, [verb |-> "resolve", brief |-> None, verdict |-> verdict,
                 keep |-> keep, canary |-> canary],
             "res.lock", [Blank EXCEPT !.run = run])

ResolveEnter(c) ==
    /\ At(c, "res.lock")
    /\ Acquire(c)
    /\ pc' = [pc EXCEPT ![c] = IF mem[c].run.resolved # None THEN "res.tear"
                               ELSE IF req[c].canary THEN "res.canary"
                               ELSE "res.ledger"]
    /\ UNCHANGED <<undo, mem, req, store, outside, faults, clocks>>

\* postCanaryOnce: not again once the marker is there.  A failed post, as of
\* a root that is gone already, only makes the note not ok.
ResolveCanary(c) ==
    /\ At(c, "res.canary")
    /\ IF files.canary THEN Goto(c, "res.ledger") /\ UNCHANGED <<sent, faults>>
       ELSE IF Root \notin acct THEN Goto(c, "res.note") /\ UNCHANGED <<sent, faults>>
       ELSE \E k \in Reply :
               /\ Outcome(k)
               /\ sent' = IF Took(k) THEN [sent EXCEPT !.canary = @ + 1] ELSE sent
               /\ Goto(c, IF k = "ok" THEN "res.mark" ELSE "res.note")
    /\ UNCHANGED <<req, store, acct, muc, stanza, job, unit, cancelled, clocks>>

ResolveMark(c) ==
    /\ At(c, "res.mark")
    /\ \E k \in Write :
          /\ Outcome(k)
          /\ IF k = "ok"
             THEN files' = [files EXCEPT !.canary = TRUE] /\ Goto(c, "res.note")
             ELSE UNCHANGED files /\ Return(c, "failed")
    /\ UNCHANGED <<req, run, ledger, child, outside, clocks>>

\* The note is ok if this call has just written the marker.
ResolveNote(c) ==
    /\ At(c, "res.note")
    /\ \E k \in Write :
          /\ Outcome(k)
          /\ IF k = "ok"
             THEN /\ ledger' = IF files.canary THEN [ledger EXCEPT !.canary = @ + 1] ELSE ledger
                  /\ Goto(c, "res.ledger")
             ELSE UNCHANGED ledger /\ Return(c, "failed")
    /\ UNCHANGED <<req, run, child, files, outside, clocks>>

\* Mutant of ResolveLoad: the gate is the wrong way round.
ResolveLoadSwapped(c) ==
    /\ At(c, "res.ledger")
    /\ Goto(c, IF ledger.resolved = None THEN "res.persist" ELSE "res.stop")
    /\ UNCHANGED <<req, store, outside, faults, clocks>>

\* The ledger's resolved field decides whether an earlier resolve got this far.
ResolveLoad(c) ==
    /\ At(c, "res.ledger")
    /\ Goto(c, IF ledger.resolved = None THEN "res.stop" ELSE "res.persist")
    /\ UNCHANGED <<req, store, outside, faults, clocks>>

\* stopLiveChildren, first half: a cancel for every child still running.  A
\* failed cancel is not an error (requestStop drops it).
ResolveStop(c) ==
    /\ At(c, "res.stop")
    /\ \E k \in {"ok", "refused"} :
          /\ Outcome(k)
          /\ cancelled' = IF k = "ok"
                          THEN cancelled \cup {p \in Recorded : job[p] = "running"}
                          ELSE cancelled
    /\ Goto(c, "res.wait")
    /\ UNCHANGED <<req, store, acct, muc, stanza, sent, job, unit, clocks>>

\* Second half: every child has its grace, then the journal is believed.  The
\* entries, the fallback entry and the resolution reach the disk together.
ResolveWait(c) ==
    /\ At(c, "res.wait")
    /\ \E k \in Write :
          /\ Outcome(k)
          /\ IF k = "ok"
             THEN /\ ledger' = [ledger EXCEPT !.resolved = req[c].verdict,
                                              !.fallbacks = @ + 1]
                  /\ Goto(c, "res.done")
             ELSE UNCHANGED ledger /\ Return(c, "failed")
    /\ UNCHANGED <<req, run, child, files, outside, clocks>>

\* A ledger resolved already is written back as it was loaded.
ResolvePersist(c) ==
    /\ At(c, "res.persist")
    /\ \E k \in Write :
          /\ Outcome(k)
          /\ IF k = "ok" THEN Goto(c, "res.done") ELSE Return(c, "failed")
    /\ UNCHANGED <<req, store, outside, clocks>>

\* Mutant of Resolution: each call's own --state.
OwnVerdict(c) == req[c].verdict

\* What every later step of the resolve reports: the ledger's resolution.
Resolution(c) == ledger.resolved

\* ringmaster done on the run job, with the ledger's resolution: first write
\* wins, an existing terminal record stays.
ResolveDone(c) ==
    LET j == mem[c].run.job IN
    /\ At(c, "res.done")
    /\ \E k \in Reply :
          /\ Outcome(k)
          /\ job' = IF Took(k) /\ job[j] = "running"
                    THEN [job EXCEPT ![j] = Resolution(c)] ELSE job
    /\ Goto(c, "res.read")
    /\ UNCHANGED <<req, store, acct, muc, stanza, sent, unit, cancelled, clocks>>

\* The journal is read back whatever Done said.
ResolveRead(c) ==
    /\ At(c, "res.read")
    /\ \E k \in {"ok", "refused"} :
          /\ Outcome(k)
          /\ IF k = "ok" /\ job[mem[c].run.job] \in Terminal
             THEN Goto(c, "res.wake") ELSE Return(c, "failed")
    /\ UNCHANGED <<req, store, outside, clocks>>

\* Mutant of Woken: the marker is not consulted.
NotWoken == FALSE

\* sendExitWakes' marker.
Woken == files.wake

\* sendExitWakes to the issuer, unless the marker is there.
ResolveWake(c) ==
    /\ At(c, "res.wake")
    /\ IF Woken THEN Goto(c, "res.save") /\ UNCHANGED <<sent, faults>>
       ELSE \E k \in Reply :
               /\ Outcome(k)
               /\ sent' = IF Took(k) THEN [sent EXCEPT !.wake = @ + 1] ELSE sent
               /\ IF k = "ok" THEN Goto(c, "res.wmark") ELSE Return(c, "failed")
    /\ UNCHANGED <<req, store, acct, muc, stanza, job, unit, cancelled, clocks>>

ResolveWakeMark(c) ==
    /\ At(c, "res.wmark")
    /\ \E k \in Write :
          /\ Outcome(k)
          /\ IF k = "ok"
             THEN files' = [files EXCEPT !.wake = TRUE] /\ Goto(c, "res.save")
             ELSE UNCHANGED files /\ Return(c, "failed")
    /\ UNCHANGED <<req, run, ledger, child, outside, clocks>>

\* The copy read before the lock is what is written back.
ResolveSave(c) ==
    LET resolved == [mem[c].run EXCEPT !.resolved = Resolution(c)] IN
    /\ At(c, "res.save")
    /\ \E k \in Write :
          /\ Outcome(k)
          /\ IF k = "ok"
             THEN run' = resolved /\ Remember(c, "res.tear", [mem[c] EXCEPT !.run = resolved])
             ELSE UNCHANGED run /\ Return(c, "failed")
    /\ UNCHANGED <<req, ledger, child, files, outside, clocks>>

\* finishTeardown, and the start of teardownAccounts: accounts with an ok
\* entry in the ledger are skipped.
ResolveTear(c) ==
    /\ At(c, "res.tear")
    /\ IF req[c].keep \/ mem[c].run.tornDown THEN Return(c, "done")
       ELSE Remember(c, "res.child", [mem[c] EXCEPT !.todo = Recorded \ ledger.gone])
    /\ UNCHANGED <<req, store, outside, faults, clocks>>

\* Mutant of Deletable: a running child is deleted too.
AnyJob(p) == job[p] # "none"

\* A child whose journal is unreadable or whose job still runs is kept.
Deletable(p) == job[p] \in Terminal

ResolveChild(c) ==
    /\ At(c, "res.child")
    /\ \E p \in mem[c].todo :
          LET m == [mem[c] EXCEPT !.todo = @ \ {p}] IN
          \E k \in {"ok", "refused"} :
             /\ Outcome(k)
             /\ IF k = "ok" /\ Deletable(p) THEN TakeUp(c, p, m, mem[c].run.room)
                ELSE Remember(c, "res.child", m)
    /\ UNCHANGED <<req, store, outside, clocks>>

\* Mutant of ChildrenGone: the children were tried, gone or not.
ChildrenTried(c) == mem[c].todo = {}

\* The root comes last, and only when every child account is gone.
ChildrenGone(c) == Recorded \subseteq ledger.gone \cup mem[c].gone

ResolveRoot(c) ==
    /\ At(c, "res.child")
    /\ mem[c].todo = {}
    /\ IF Root \notin ledger.gone /\ ChildrenGone(c)
       THEN TakeUp(c, Root, mem[c], mem[c].run.room)
       ELSE Goto(c, "res.entries")
    /\ UNCHANGED <<req, store, outside, faults, clocks>>

\* Mutant of Owed: the root's account is forgotten.
OwedByChildren == Recorded

\* The principals whose accounts must go before the run is torn down.
Owed == Recorded \cup {Root}

\* With every account gone already there is no entry to append.
ResolveEntries(c) ==
    /\ At(c, "res.entries")
    /\ IF Owed \subseteq ledger.gone
       THEN Goto(c, "res.torn") /\ UNCHANGED <<ledger, faults>>
       ELSE \E k \in Write :
               /\ Outcome(k)
               /\ IF k = "ok"
                  THEN /\ ledger' = [ledger EXCEPT !.gone = @ \cup mem[c].gone]
                       /\ Goto(c, "res.torn")
                  ELSE UNCHANGED ledger /\ Return(c, "failed")
    /\ UNCHANGED <<req, run, child, files, outside, clocks>>

ResolveTorn(c) ==
    /\ At(c, "res.torn")
    /\ \E k \in Write :
          /\ Outcome(k)
          /\ IF k = "ok"
             THEN /\ run' = [mem[c].run EXCEPT !.tornDown = Owed \subseteq ledger.gone]
                  /\ Return(c, "done")
             ELSE UNCHANGED run /\ Return(c, "failed")
    /\ UNCHANGED <<req, ledger, child, files, outside, clocks>>

ResolveStep(c) ==
    \/ ResolveEnter(c) \/ ResolveCanary(c)  \/ ResolveMark(c) \/ ResolveNote(c)
    \/ ResolveLoad(c)  \/ ResolveStop(c)    \/ ResolveWait(c) \/ ResolvePersist(c)
    \/ ResolveDone(c)  \/ ResolveRead(c)    \/ ResolveWake(c) \/ ResolveWakeMark(c)
    \/ ResolveSave(c)  \/ ResolveTear(c)    \/ ResolveChild(c) \/ ResolveRoot(c)
    \/ ResolveEntries(c) \/ ResolveTorn(c)
=============================================================================

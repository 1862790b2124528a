------------------------------- MODULE NewRun -------------------------------
(***************************************************************************)
(* `juggler spawn --new-run` (NewRun, spawn.go): one run key is given a    *)
(* root account, a room, an input stanza, a run job and a record.  A       *)
(* failure after the mint keeps the account, undoes the rest and saves a   *)
(* pending record, which the same call resumes.                            *)
(***************************************************************************)
EXTENDS RunState

\* What a fresh or resumed attempt does when it finds this record, under the
\* lock: a reaped key is refused, a complete run is returned as it is.
Resumable == run.phase \in {"none", "pending"}

StartNew(c) ==
    Start(c, [NoRequest EXCEPT !.verb = "new"], "new.lock", Blank)

\* The lock, the load of the prior record and, on a retry, the fresh
\* PendingSince saved before anything can fail.
NewEnter(c) ==
    /\ At(c, "new.lock")
    /\ lock = None
    /\ \/ /\ ~Resumable
          /\ Return(c, "done")
          /\ UNCHANGED <<run, faults>>
       \/ /\ run.phase = "none"
          /\ Acquire(c)
          /\ pc' = [pc EXCEPT ![c] = "new.ready"]
          /\ UNCHANGED <<undo, mem, run, faults>>
       \/ /\ run.phase = "pending"
          /\ \E k \in Write :
                /\ Outcome(k)
                /\ IF k = "ok"
                   THEN /\ run' = [run EXCEPT !.since = now]
                        /\ Acquire(c)
                        /\ pc' = [pc EXCEPT ![c] = "new.ready"]
                        /\ UNCHANGED <<undo, mem>>
                   ELSE Return(c, "failed") /\ UNCHANGED run
    /\ UNCHANGED <<req, ledger, child, files, outside, clocks>>

\* CheckSystemdReady: a plain error, nothing to undo, nothing saved.
NewReady(c) ==
    /\ At(c, "new.ready")
    /\ \E k \in {"ok", "refused"} :
          /\ Outcome(k)
          /\ IF k = "ok" THEN Goto(c, "new.mint") ELSE Return(c, "failed")
    /\ UNCHANGED <<req, store, outside, clocks>>

\* The root's mint: a failure is a plain error too.
NewMint(c) ==
    /\ At(c, "new.mint")
    /\ \E k \in Reply :
          /\ Outcome(k)
          /\ IF Took(k) THEN Mint(Root) ELSE UNCHANGED <<acct, files>>
          /\ IF k = "ok" THEN Goto(c, IF OwnRoom THEN "new.room" ELSE "new.post")
             ELSE Return(c, "failed")
    /\ UNCHANGED <<req, run, ledger, child, muc, stanza, sent, job, unit,
                   cancelled, clocks>>

\* CreateRoom as the root, idempotent; nothing undoes it.
NewRoom(c) ==
    /\ At(c, "new.room")
    /\ \E k \in Reply :
          /\ Outcome(k)
          /\ muc' = IF Took(k) THEN [made |-> TRUE, members |-> muc.members \cup {Root}]
                    ELSE muc
          /\ IF k = "ok" THEN Remember(c, "new.post", [mem[c] EXCEPT !.room = TRUE])
             ELSE Goto(c, "unwind")
    /\ UNCHANGED <<req, store, acct, stanza, sent, job, unit, cancelled, clocks>>

\* The run input, posted as the room's root stanza.
NewPost(c) ==
    /\ At(c, "new.post")
    /\ \E k \in Reply :
          /\ Outcome(k)
          /\ stanza' = IF Took(k) THEN [stanza EXCEPT ![c] = "posted"] ELSE stanza
          /\ IF k = "ok" THEN Push(c, "new.job", "withdraw") ELSE Goto(c, "unwind")
    /\ UNCHANGED <<req, store, acct, muc, sent, job, unit, cancelled, clocks>>

\* The run job on the issuer's channel.
NewJob(c) ==
    /\ At(c, "new.job")
    /\ \E k \in Reply :
          /\ Outcome(k)
          /\ IF Took(k) THEN StartJob(c) ELSE UNCHANGED job
          /\ IF k = "ok" THEN Push(c, "new.mirror", "failjob") ELSE Goto(c, "unwind")
    /\ UNCHANGED <<req, store, acct, muc, stanza, sent, unit, cancelled, clocks>>

\* mirrorHolder: the issuer's handle, a progress record on the job.
NewMirror(c) ==
    /\ At(c, "new.mirror")
    /\ \E k \in Reply :
          /\ Outcome(k)
          /\ Goto(c, IF k = "ok" THEN "new.save" ELSE "unwind")
    /\ UNCHANGED <<req, store, outside, clocks>>

\* Mutant of OpenRecord: room_created is not set.
RoomlessRecord(c) == [NoRun EXCEPT !.phase = "open", !.job = c]

OpenRecord(c) == [NoRun EXCEPT !.phase = "open", !.job = c, !.room = mem[c].room]

\* Mutant of PendingRecord: the failure path leaves no record.
LostRecord(c) == NoRun

PendingRecord(c) ==
    [NoRun EXCEPT !.phase = "pending", !.since = now, !.room = mem[c].room]

NewSave(c) ==
    /\ At(c, "new.save")
    /\ \E k \in Write :
          /\ Outcome(k)
          /\ IF k = "ok" THEN run' = OpenRecord(c) /\ Return(c, "done")
             ELSE UNCHANGED run /\ Goto(c, "unwind")
    /\ UNCHANGED <<req, ledger, child, files, outside, clocks>>

\* failed()'s last act, after the unwind.  When even this save fails the
\* error says so ("dirty"): the root stays with no record of this attempt.
NewPend(c) ==
    /\ At(c, "new.pend")
    /\ \E k \in Write :
          /\ Outcome(k)
          /\ IF k = "ok"
             THEN /\ run' = PendingRecord(c)
                  /\ Return(c, IF mem[c].dirty THEN "dirty" ELSE "failed")
             ELSE UNCHANGED run /\ Return(c, "dirty")
    /\ UNCHANGED <<req, ledger, child, files, outside, clocks>>

NewRunStep(c) ==
    \/ NewEnter(c)  \/ NewReady(c)  \/ NewMint(c) \/ NewRoom(c) \/ NewPost(c)
    \/ NewJob(c)    \/ NewMirror(c) \/ NewSave(c) \/ NewPend(c)
=============================================================================

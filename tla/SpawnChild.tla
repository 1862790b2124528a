----------------------------- MODULE SpawnChild -----------------------------
(***************************************************************************)
(* `juggler spawn --brief` (SpawnChild, spawn.go): one agent is minted,    *)
(* admitted, briefed, recorded and launched, all under the run lock; every *)
(* step pushes its compensation, and any failure unwinds them.  A brief    *)
(* digest with a child record already is returned unchanged.               *)
(***************************************************************************)
EXTENDS RunState

\* RunRecord.CheckOpen.
CheckOpen == run.phase = "open" /\ run.resolved = None

\* Mutant of Spawned: the idempotency check is dropped.
NeverSpawned(c) == FALSE

\* LoadChild of the brief's digest.
Spawned(c) == child[req[c].brief] # None

\* findSpawnRun reads the record before the lock; only its existence is used
\* then, as it is loaded again under the lock.
StartSpawn(c, b) ==
    /\ run.phase # "none"
    /\ Start(c, [NoRequest EXCEPT !.verb = "spawn", !.brief = b], "spawn.lock", Blank)

SpawnEnter(c) ==
    /\ At(c, "spawn.lock")
    /\ lock = None
    /\ IF ~CheckOpen THEN Return(c, "failed")
       ELSE IF Spawned(c) THEN Return(c, "done")
       ELSE /\ Acquire(c)
            /\ pc' = [pc EXCEPT ![c] = "spawn.ready"]
            /\ UNCHANGED <<undo, mem>>
    /\ UNCHANGED <<req, store, outside, faults, clocks>>

Refusal == ledger' = [ledger EXCEPT !.refusals = @ + 1]

\* CheckSystemdReady: the refusal is noted in the run ledger.
SpawnReady(c) ==
    /\ At(c, "spawn.ready")
    /\ \E k \in {"ok", "refused"} :
          /\ Outcome(k)
          /\ IF k = "ok" THEN Goto(c, "spawn.narrow") /\ UNCHANGED ledger
             ELSE Refusal /\ Return(c, "failed")
    /\ UNCHANGED <<req, run, child, files, outside, clocks>>

\* DeriveAgentMoxyfile and checkBriefNarrows: the two moxyfiles are staged,
\* with their removal pushed first, then compared.  A brief that widens is
\* noted in the ledger; a check that cannot run is a failure.
SpawnNarrow(c) ==
    /\ At(c, "spawn.narrow")
    /\ \E k \in {"ok", "refused", "disk"} :
          /\ Outcome(k)
          /\ files' = IF k = "disk" THEN files
                      ELSE [files EXCEPT !.moxy = @ \cup {req[c].brief}]
          /\ IF k = "refused" THEN Refusal ELSE UNCHANGED ledger
          /\ Push(c, IF k = "ok" THEN "spawn.mint" ELSE "unwind", "unmoxy")
    /\ UNCHANGED <<req, run, child, outside, clocks>>

SpawnMint(c) ==
    /\ At(c, "spawn.mint")
    /\ \E k \in Reply :
          /\ Outcome(k)
          /\ IF Took(k) THEN Mint(c) ELSE UNCHANGED <<acct, files>>
          /\ IF k = "ok"
             THEN Push(c, IF run.room THEN "spawn.affil" ELSE "spawn.stage", "revoke")
             ELSE Goto(c, "unwind")
    /\ UNCHANGED <<req, run, ledger, child, muc, stanza, sent, job, unit,
                   cancelled, clocks>>

\* The root admits the child to a room juggler made.
SpawnAffil(c) ==
    /\ At(c, "spawn.affil")
    /\ \E k \in Reply :
          /\ Outcome(k)
          /\ muc' = IF Took(k) THEN [muc EXCEPT !.members = @ \cup {c}] ELSE muc
          /\ IF k = "ok" THEN Push(c, "spawn.stage", "unaffil") ELSE Goto(c, "unwind")
    /\ UNCHANGED <<req, store, acct, stanza, sent, job, unit, cancelled, clocks>>

SpawnStage(c) ==
    /\ At(c, "spawn.stage")
    /\ \E k \in Write :
          /\ Outcome(k)
          /\ IF k = "ok"
             THEN /\ files' = [files EXCEPT !.brief = @ \cup {req[c].brief}]
                  /\ Push(c, "spawn.job", "unstage")
             ELSE UNCHANGED files /\ Goto(c, "unwind")
    /\ UNCHANGED <<req, run, ledger, child, outside, clocks>>

SpawnJob(c) ==
    /\ At(c, "spawn.job")
    /\ \E k \in Reply :
          /\ Outcome(k)
          /\ IF Took(k) THEN StartJob(c) ELSE UNCHANGED job
          /\ IF k = "ok" THEN Push(c, "spawn.mirror", "failjob") ELSE Goto(c, "unwind")
    /\ UNCHANGED <<req, store, acct, muc, stanza, sent, unit, cancelled, clocks>>

SpawnMirror(c) ==
    /\ At(c, "spawn.mirror")
    /\ \E k \in Reply :
          /\ Outcome(k)
          /\ Goto(c, IF k = "ok" THEN "spawn.post" ELSE "unwind")
    /\ UNCHANGED <<req, store, outside, clocks>>

\* The brief, dropped into the room as the run root.
SpawnPost(c) ==
    /\ At(c, "spawn.post")
    /\ \E k \in Reply :
          /\ Outcome(k)
          /\ stanza' = IF Took(k) THEN [stanza EXCEPT ![c] = "posted"] ELSE stanza
          /\ IF k = "ok" THEN Push(c, "spawn.save", "withdraw") ELSE Goto(c, "unwind")
    /\ UNCHANGED <<req, store, acct, muc, sent, job, unit, cancelled, clocks>>

SpawnSave(c) ==
    /\ At(c, "spawn.save")
    /\ \E k \in Write :
          /\ Outcome(k)
          /\ IF k = "ok"
             THEN /\ child' = [child EXCEPT ![req[c].brief] = c]
                  /\ Push(c, "spawn.launch", "unsave")
             ELSE UNCHANGED child /\ Goto(c, "unwind")
    /\ UNCHANGED <<req, run, ledger, files, outside, clocks>>

\* systemd-run: the agent starts, and opens its traffic file.
SpawnLaunch(c) ==
    /\ At(c, "spawn.launch")
    /\ \E k \in Reply :
          /\ Outcome(k)
          /\ IF Took(k)
             THEN /\ unit' = [unit EXCEPT ![c] = "active"]
                  /\ files' = [files EXCEPT !.traffic = @ \cup {c}]
             ELSE UNCHANGED <<unit, files>>
          /\ IF k = "ok" THEN Return(c, "done") ELSE Goto(c, "unwind")
    /\ UNCHANGED <<req, run, ledger, child, acct, muc, stanza, sent, job,
                   cancelled, clocks>>

SpawnStep(c) ==
    \/ SpawnEnter(c) \/ SpawnReady(c)  \/ SpawnNarrow(c) \/ SpawnMint(c)
    \/ SpawnAffil(c) \/ SpawnStage(c)  \/ SpawnJob(c)    \/ SpawnMirror(c)
    \/ SpawnPost(c)  \/ SpawnSave(c)   \/ SpawnLaunch(c)
=============================================================================

------------------------------ MODULE RunState ------------------------------
(***************************************************************************)
(* The state shared by every juggler verb that touches one run: the run's  *)
(* files under $XDG_STATE_HOME/juggler (internal/charlie/jugglerrun/       *)
(* store.go), what those verbs create outside it (troupe accounts, rooms   *)
(* and stanzas, ringmaster jobs, systemd units), and the control state of  *)
(* each invocation.                                                        *)
(*                                                                         *)
(* One run key is modelled.  A "call" is one invocation of the juggler     *)
(* binary, a process of its own; whatever a call mints (an account, a job, *)
(* a stanza, a unit) is named by the call, as each call makes at most one  *)
(* of each.  The run's root principal is derived from the run key, so it   *)
(* is one constant, Root, however often it is minted.                      *)
(*                                                                         *)
(* Every external command and every file write is a step of its own, so a  *)
(* crash, an agent or a lock-free call may come between any two.  A step   *)
(* may fail: a command is "refused" (no effect) or its reply is "lost"     *)
(* (it took effect, the caller sees an error); a file write fails "disk"   *)
(* without effect, since writeFileAtomic renames a finished file.          *)
(***************************************************************************)
EXTENDS Naturals, Sequences, FiniteSets

CONSTANTS
    Calls,        \* juggler invocations
    Briefs,       \* brief digests
    None,         \* no call, no principal, no verdict
    Root,         \* the run's root principal
    OwnRoom,      \* BOOLEAN: --room-domain (juggler makes the room) or --room
    Faults,       \* the failures injected: a subset of FaultKinds
    MaxFaults,    \* at most this many failed steps
    MaxCrashes,   \* at most this many killed calls
    MaxTime,      \* the clock's bound
    OlderThan     \* clean's --older-than

FaultKinds == {"refused", "lost", "disk"}
Verdicts   == {"succeeded", "failed"}

ASSUME CallsAssumption  == None \notin Calls \cup Verdicts /\ Root \notin Calls /\ Root # None
ASSUME OptionAssumption == OwnRoom \in BOOLEAN /\ Faults \subseteq FaultKinds
ASSUME BoundAssumption  == {MaxFaults, MaxCrashes, MaxTime, OlderThan} \subseteq Nat

VARIABLES
    lock,       \* the run lock's holder, a call or None
    pc,         \* where each call is
    req,        \* what each call was asked: [verb, brief, verdict, keep, canary]
    undo,       \* each call's undo stack, newest first
    mem,        \* what each call remembers between its steps
    run,        \* the run record on disk
    ledger,     \* the run ledger on disk
    child,      \* brief digest -> the call whose child record is on disk
    files,      \* the other files: [pw, brief, moxy, traffic, canary, wake]
    acct,       \* the troupe accounts that exist
    muc,        \* the run's room: [made, members]
    stanza,     \* call -> the run input or brief it posted
    sent,       \* [canary, wake]: how often each was delivered
    job,        \* call -> the state of the ringmaster job it started
    unit,       \* call -> the systemd unit it launched
    cancelled,  \* the jobs a cancel was requested for
    faults,     \* failures so far
    crashes,    \* crashes so far
    now         \* the clock

store   == <<run, ledger, child, files>>
outside == <<acct, muc, stanza, sent, job, unit, cancelled>>
clocks  == <<crashes, now>>
vars    == <<lock, pc, req, undo, mem, store, outside, faults, clocks>>

-----------------------------------------------------------------------------
Principals == Calls \cup {Root}
Terminal   == {"succeeded", "failed", "aborted", "interrupted"}

\* The zero RunRecord: no file.  `since` is PendingSince, `room` RoomCreated.
NoRun == [phase |-> "none", room |-> FALSE, job |-> None, since |-> 0,
          resolved |-> None, tornDown |-> FALSE]

\* `gone` is the principals with an ok teardown entry; `routes`, `refusals`
\* and `fallbacks` count the entries of those tools, `canary` the ok notes.
NoLedger == [resolved |-> None, fallbacks |-> 0, gone |-> {}, routes |-> 0,
             refusals |-> 0, canary |-> 0]

NoRequest == [verb |-> "none", brief |-> None, verdict |-> None,
              keep |-> FALSE, canary |-> FALSE]

\* `run` is the record a call read before its lock, `at` its listing time,
\* `room` whether it made the room, `cur`/`todo`/`gone` its walk over the
\* accounts, `dirty` whether an undo step failed.
Blank == [run |-> NoRun, at |-> 0, room |-> FALSE, cur |-> None, todo |-> {},
          gone |-> {}, dirty |-> FALSE]

\* The principals of the child records, one per job and per account.
Recorded == {child[b] : b \in Briefs} \ {None}

Init ==
    /\ lock = None
    /\ pc = [c \in Calls |-> "idle"]
    /\ req = [c \in Calls |-> NoRequest]
    /\ undo = [c \in Calls |-> <<>>]
    /\ mem = [c \in Calls |-> Blank]
    /\ run = NoRun
    /\ ledger = NoLedger
    /\ child = [b \in Briefs |-> None]
    /\ files = [pw |-> {}, brief |-> {}, moxy |-> {}, traffic |-> {},
                canary |-> FALSE, wake |-> FALSE]
    /\ acct = {}
    /\ muc = [made |-> FALSE, members |-> {}]
    /\ stanza = [c \in Calls |-> "none"]
    /\ sent = [canary |-> 0, wake |-> 0]
    /\ job = [c \in Calls |-> "none"]
    /\ unit = [c \in Calls |-> "none"]
    /\ cancelled = {}
    /\ faults = 0
    /\ crashes = 0
    /\ now = 0

-----------------------------------------------------------------------------
(* Control: each of these four determines lock, pc, undo and mem.          *)

Outcomes == {"done", "failed", "dirty", "crashed"}
Ended(c) == pc[c] \in Outcomes
Active(c) == pc[c] # "idle" /\ ~Ended(c)
At(c, s) == pc[c] = s

Goto(c, s) ==
    /\ pc' = [pc EXCEPT ![c] = s]
    /\ UNCHANGED <<lock, undo, mem>>

\* Mutant of Push: the step is pushed onto a copy of the stack.
PushCopy(c, s, u) == Goto(c, s)

\* Go on, with one more compensation on the undo stack.
Push(c, s, u) ==
    /\ pc' = [pc EXCEPT ![c] = s]
    /\ undo' = [undo EXCEPT ![c] = <<u>> \o @]
    /\ UNCHANGED <<lock, mem>>

Remember(c, s, m) ==
    /\ pc' = [pc EXCEPT ![c] = s]
    /\ mem' = [mem EXCEPT ![c] = m]
    /\ UNCHANGED <<lock, undo>>

\* The call returns: its deferred unlock runs and its memory is gone.
Return(c, outcome) ==
    /\ pc' = [pc EXCEPT ![c] = outcome]
    /\ lock' = IF lock = c THEN None ELSE lock
    /\ undo' = [undo EXCEPT ![c] = <<>>]
    /\ mem' = [mem EXCEPT ![c] = Blank]

\* The flock on the run's .lock file.
Acquire(c) == lock = None /\ lock' = c

-----------------------------------------------------------------------------
(* Failures.  A step picks its outcome k and is charged for a bad one.     *)

Reply == {"ok", "refused", "lost"}
Write == {"ok", "disk"}

Outcome(k) ==
    \/ k = "ok" /\ UNCHANGED faults
    \/ k \in Faults /\ faults < MaxFaults /\ faults' = faults + 1

\* The step took effect (a lost reply is an effect the caller never hears of).
Took(k) == k \in {"ok", "lost"}

-----------------------------------------------------------------------------
(* A call is started with a request, and may be killed at any step: its    *)
(* flock dies with it, and nothing it meant to undo is undone.             *)

Start(c, r, s, m) ==
    /\ At(c, "idle")
    /\ req' = [req EXCEPT ![c] = r]
    /\ pc' = [pc EXCEPT ![c] = s]
    /\ mem' = [mem EXCEPT ![c] = m]
    /\ UNCHANGED <<lock, undo, store, outside, faults, clocks>>

Crash(c) ==
    /\ Active(c)
    /\ crashes < MaxCrashes
    /\ crashes' = crashes + 1
    /\ Return(c, "crashed")
    /\ UNCHANGED <<req, store, outside, faults, now>>

Tick ==
    /\ now < MaxTime
    /\ now' = now + 1
    /\ UNCHANGED <<lock, pc, req, undo, mem, store, outside, faults, crashes>>

-----------------------------------------------------------------------------
(* undoStack.unwind: newest first, a failed compensation is noted and the  *)
(* rest still run.  "failjob" is failJobUndo: Done refuses a job that is   *)
(* already terminal.                                                       *)

FileUndo == {"unmoxy", "unstage", "unsave"}

\* Mutant of Rest: the loop does not move on.
Whole(c) == undo[c]

Rest(c) == Tail(undo[c])

UndoEffect(c, u) ==
    LET b == req[c].brief IN
    /\ stanza' = IF u = "withdraw" THEN [stanza EXCEPT ![c] = "withdrawn"] ELSE stanza
    /\ job' = IF u = "failjob" /\ job[c] = "running"
              THEN [job EXCEPT ![c] = "failed"] ELSE job
    /\ acct' = IF u = "revoke" THEN acct \ {c} ELSE acct
    /\ muc' = IF u = "unaffil" THEN [muc EXCEPT !.members = @ \ {c}] ELSE muc
    /\ files' = IF u = "unstage" THEN [files EXCEPT !.brief = @ \ {b}]
                ELSE IF u = "unmoxy" THEN [files EXCEPT !.moxy = @ \ {b}] ELSE files
    /\ child' = IF u = "unsave" THEN [child EXCEPT ![b] = None] ELSE child

Unwind(c) ==
    /\ At(c, "unwind")
    /\ undo[c] # <<>>
    /\ LET u == Head(undo[c]) IN
       \E k \in IF u \in FileUndo THEN Write ELSE Reply :
          /\ Outcome(k)
          /\ IF Took(k) THEN UndoEffect(c, u)
             ELSE UNCHANGED <<stanza, job, acct, muc, files, child>>
          /\ undo' = [undo EXCEPT ![c] = Rest(c)]
          /\ mem' = [mem EXCEPT ![c].dirty =
                        @ \/ k # "ok" \/ (u = "failjob" /\ job[c] # "running")]
    /\ UNCHANGED <<lock, pc, req, run, ledger, sent, unit, cancelled, clocks>>

\* NewRun goes on to save a pending record; SpawnChild just reports.
Unwound(c) ==
    /\ At(c, "unwind")
    /\ undo[c] = <<>>
    /\ IF req[c].verb = "new" THEN Goto(c, "new.pend")
       ELSE Return(c, IF mem[c].dirty THEN "dirty" ELSE "failed")
    /\ UNCHANGED <<req, store, outside, faults, clocks>>

-----------------------------------------------------------------------------
(* Effects of the external commands.                                       *)

\* troupe mint: the account, and its password file.
Mint(p) ==
    /\ acct' = acct \cup {p}
    /\ files' = [files EXCEPT !.pw = @ \cup {p}]

\* ringmaster start: c's job.
StartJob(c) == job' = [job EXCEPT ![c] = "running"]
=============================================================================

---------------------------- MODULE PromptCounts ----------------------------
(* The permission counters of clown-hook-toolcost: hooks of one session, run concurrently, keep the *)
(* prompts that await their outcome in one locked file, which the turn's end takes and removes and   *)
(* another session's hook may sweep.                                                                *)
EXTENDS Naturals, FiniteSets, Sequences, SequencesExt, FiniteSetsExt

CONSTANTS ToolCalls,            \* hashes of a tool call
          HookRuns,         \* runs of the hook at a time
          MaxReopen, MaxPending,
          MaxPrompts, MaxFired \* bounds: prompts, and hooks fired

ASSUME PromptBounds == IsFiniteSet(HookRuns) /\ MaxPending \in Nat \ {0} /\ MaxPrompts \in Nat

VARIABLES named,             \* the inode the state file's name names, or none
          content,          \* the pending prompts an inode holds
          age,              \* of the named file: its last write
          hook,             \* each run
          asked,            \* the call of each prompt so far
          fired,            \* hooks fired
          settled,          \* how often each prompt was counted approved or declined
          lost,             \* prompts given up: a late lock, a kill, the bound on pending ones
          sweeper, sweptUs  \* the other session's sweep, and whether it removed this file

promptVars == <<named, content, age, hook, asked, fired, settled, lost, sweeper, sweptUs>>

NoName == 0
Inodes == 1..Cardinality(HookRuns) + 1
Prompts == 1..MaxPrompts

IdleHook == [at |-> "idle", kind |-> "end", call |-> "", prompt |-> 0, ino |-> NoName, tries |-> 0, st |-> <<>>,
             out |-> {}]
HookIs(h, f) == hook' = [hook EXCEPT ![h] = f]

\* flock: a run holds its file's lock from the lock to the close.
Locked(i) == \E h \in HookRuns : hook[h].ino = i /\ hook[h].at \in {"check", "apply", "write", "remove"}

\* An inode is free when nothing names it and no run has it open.
FreeInode == Min({i \in Inodes : i # named /\ \A h \in HookRuns : hook[h].ino # i})

HookKept == UNCHANGED <<sweeper, sweptUs>>

-------------------------------- (* Handle *) --------------------------------
\* A prompt, a call that ran, or the end of the turn.
HandleEvent(h) ==
    /\ hook[h].at = "idle" /\ fired < MaxFired
    /\ fired' = fired + 1
    /\ \/ \E c \in ToolCalls :
             /\ Len(asked) < MaxPrompts
             /\ asked' = Append(asked, c)
             /\ HookIs(h, [IdleHook EXCEPT !.at = "open", !.kind = "ask", !.call = c, !.prompt = Len(asked) + 1])
       \/ \E c \in ToolCalls : HookIs(h, [IdleHook EXCEPT !.at = "open", !.kind = "ran", !.call = c]) /\ UNCHANGED asked
       \/ HookIs(h, [IdleHook EXCEPT !.at = "open"]) /\ UNCHANGED asked
    /\ UNCHANGED <<named, content, age, settled, lost>> /\ HookKept

\* A hook that cannot keep the state gives up; its prompt will have no outcome.
GivesUp(h) ==
    /\ HookIs(h, IdleHook)
    /\ lost' = IF hook[h].kind = "ask" THEN lost \cup {hook[h].prompt} ELSE lost

\* lockState opens the name, which only a prompt creates; without a file nothing is pending. The dir
\* or the file may also fail to open.
OpensState(h) ==
    /\ hook[h].at = "open"
    /\ \/ /\ named # NoName
          /\ HookIs(h, [hook[h] EXCEPT !.at = "lock", !.ino = named])
          /\ UNCHANGED <<named, content, age, lost>>
       \/ /\ named = NoName /\ hook[h].kind = "ask"
          /\ named' = FreeInode /\ age' = "new"
          /\ content' = [content EXCEPT ![FreeInode] = <<>>]
          /\ HookIs(h, [hook[h] EXCEPT !.at = "lock", !.ino = FreeInode])
          /\ UNCHANGED lost
       \/ GivesUp(h) /\ UNCHANGED <<named, content, age>>
    /\ UNCHANGED <<asked, fired, settled>> /\ HookKept

\* flockUntil: the lock, or the shared deadline while another run holds it.
LocksState(h) ==
    /\ hook[h].at = "lock"
    /\ \/ ~Locked(hook[h].ino) /\ HookIs(h, [hook[h] EXCEPT !.at = "check"]) /\ UNCHANGED lost
       \/ Locked(hook[h].ino) /\ GivesUp(h)
    /\ UNCHANGED <<named, content, age, asked, fired, settled>> /\ HookKept

\* A mutant: the file is used without asking whether the name still names it.
AnyFile(h) == hook[h].ino # NoName

\* SameFile.
StillNamed(h) == named = hook[h].ino

ChecksName(h) ==
    /\ hook[h].at = "check"
    /\ \/ StillNamed(h) /\ HookIs(h, [hook[h] EXCEPT !.at = "apply"]) /\ UNCHANGED lost
       \/ /\ ~StillNamed(h) /\ hook[h].tries + 1 < MaxReopen
          /\ HookIs(h, [hook[h] EXCEPT !.at = "open", !.ino = NoName, !.tries = @ + 1])
          /\ UNCHANGED lost
       \/ ~StillNamed(h) /\ hook[h].tries + 1 = MaxReopen /\ GivesUp(h)
    /\ UNCHANGED <<named, content, age, asked, fired, settled>> /\ HookKept

\* update truncates before it writes.
Rewrites(h, st, out) ==
    /\ content' = [content EXCEPT ![hook[h].ino] = <<>>]
    /\ age' = IF named = hook[h].ino THEN "new" ELSE age
    /\ HookIs(h, [hook[h] EXCEPT !.at = "write", !.st = st, !.out = out])

AppliesAsk(h) ==
    LET all == Append(content[hook[h].ino], hook[h].prompt)
        kept == SubSeq(all, Max({1, Len(all) - MaxPending + 1}), Len(all))
    IN /\ hook[h].kind = "ask"
       /\ Rewrites(h, kept, {})
       /\ lost' = lost \cup (ToSet(all) \ ToSet(kept))

\* The first pending request of the same call ran; an auto-allowed call has none.
AppliesRan(h) ==
    LET st == content[hook[h].ino]
        mine == {i \in 1..Len(st) : asked[st[i]] = hook[h].call}
    IN /\ hook[h].kind = "ran"
       /\ \/ mine # {} /\ Rewrites(h, RemoveAt(st, Min(mine)), {st[Min(mine)]})
          \/ mine = {} /\ HookIs(h, IdleHook) /\ UNCHANGED <<content, age>>
       /\ UNCHANGED lost

\* take: all that is pending is declined, and the file goes, under the lock.
AppliesEnd(h) ==
    /\ hook[h].kind = "end"
    /\ HookIs(h, [hook[h] EXCEPT !.at = "remove", !.out = ToSet(content[hook[h].ino])])
    /\ UNCHANGED <<content, age, lost>>

Applies(h) ==
    /\ hook[h].at = "apply"
    /\ AppliesAsk(h) \/ AppliesRan(h) \/ AppliesEnd(h)
    /\ UNCHANGED <<named, asked, fired, settled>> /\ HookKept

Writes(h) ==
    /\ hook[h].at = "write"
    /\ content' = [content EXCEPT ![hook[h].ino] = hook[h].st]
    /\ HookIs(h, [hook[h] EXCEPT !.at = "send", !.ino = NoName, !.st = <<>>])
    /\ UNCHANGED <<named, age, asked, fired, settled, lost>> /\ HookKept

\* Remove removes what the name names by then.
Removes(h) ==
    /\ hook[h].at = "remove"
    /\ named' = NoName /\ age' = "new"
    /\ HookIs(h, [hook[h] EXCEPT !.at = "send", !.ino = NoName])
    /\ UNCHANGED <<content, asked, fired, settled, lost>> /\ HookKept

Counts(h) ==
    /\ hook[h].at = "send"
    /\ settled' = [p \in Prompts |-> IF p \in hook[h].out THEN settled[p] + 1 ELSE settled[p]]
    /\ HookIs(h, IdleHook)
    /\ UNCHANGED <<named, content, age, asked, fired, lost>> /\ HookKept

\* The harness's timeout: the kernel closes the file. In the middle of a write all of it is lost.
HookKilled(h) ==
    /\ hook[h].at # "idle"
    /\ lost' = lost \cup (IF hook[h].at = "write" THEN ToSet(hook[h].st) ELSE {})
                    \cup (IF hook[h].at \in {"write", "send"} THEN hook[h].out ELSE {})
                    \cup (IF hook[h].kind = "ask" /\ hook[h].at # "send" THEN {hook[h].prompt} ELSE {})
    /\ HookIs(h, IdleHook)
    /\ UNCHANGED <<named, content, age, asked, fired, settled>> /\ HookKept

------------------------------ (* sweepStale *) ------------------------------
SweepKept == UNCHANGED <<content, hook, asked, fired, settled, lost>>

\* A day, or a week, without a write.
Ages ==
    /\ named # NoName /\ age # "old"
    /\ age' = IF age = "new" THEN "stale" ELSE "old"
    /\ UNCHANGED <<named, sweeper, sweptUs>> /\ SweepKept

SweepStats ==
    /\ sweeper = "idle" /\ named # NoName /\ age # "new"
    /\ sweeper' = IF age = "stale" THEN "load" ELSE "remove"
    /\ UNCHANGED <<named, age, sweptUs>> /\ SweepKept

\* loadStateIn takes no lock: a file still holding a request stays; one that is gone, or torn, is empty.
SweepLoads ==
    /\ sweeper = "load"
    /\ sweeper' = IF named # NoName /\ content[named] # <<>> THEN "idle" ELSE "remove"
    /\ UNCHANGED <<named, age, sweptUs>> /\ SweepKept

SweepRemoves ==
    /\ sweeper = "remove"
    /\ named' = NoName /\ age' = "new" /\ sweeper' = "idle"
    /\ sweptUs' = (sweptUs \/ named # NoName)
    /\ SweepKept

PromptInit ==
    /\ named = NoName /\ age = "new"
    /\ content = [i \in Inodes |-> <<>>]
    /\ hook = [h \in HookRuns |-> IdleHook]
    /\ asked = <<>> /\ fired = 0
    /\ settled = [p \in Prompts |-> 0]
    /\ lost = {}
    /\ sweeper = "idle" /\ sweptUs = FALSE

PromptNext ==
    \/ \E h \in HookRuns : HandleEvent(h) \/ OpensState(h) \/ LocksState(h) \/ ChecksName(h) \/ Applies(h) \/ Writes(h)
                           \/ Removes(h) \/ Counts(h) \/ HookKilled(h)
    \/ Ages \/ SweepStats \/ SweepLoads \/ SweepRemoves

-----------------------------------------------------------------------------
Pending == IF named = NoName THEN {} ELSE ToSet(content[named])
PromptsOf(h) ==
    ToSet(hook[h].st) \cup hook[h].out \cup
    (IF hook[h].kind = "ask" /\ hook[h].at \notin {"idle", "send"} THEN {hook[h].prompt} ELSE {})
WithOutcome == {p \in Prompts : settled[p] > 0}

\* Hooks of parallel calls, the turn's end and another session's sweep share one file: a prompt is
\* counted approved or declined at most once, and unless the sweep removed this session's file, every
\* prompt is pending in the file the name names, carried by a run, settled, or given up for a reason,
\* and one that is settled or given up is pending nowhere.
PromptsSettled ==
    LET open == Pending \cup UNION {PromptsOf(h) : h \in HookRuns}
    IN /\ \A p \in Prompts : settled[p] <= 1
       /\ ~sweptUs => /\ 1..Len(asked) = open \cup WithOutcome \cup lost
                      /\ open \cap (WithOutcome \cup lost) = {}
                      /\ WithOutcome \cap lost = {}
=============================================================================

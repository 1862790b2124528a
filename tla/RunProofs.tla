------------------------------ MODULE RunProofs -------------------------------
(***************************************************************************)
(* What is proved of the run lifecycle for every set of calls and briefs,  *)
(* every choice of failing steps and any number of failures and crashes:   *)
(* its types, what the teardown's entries and torn_down mean, that a run   *)
(* is resolved once, the order of the accounts, that a reaped root stays   *)
(* away, and that nothing is taken back.                                   *)
(***************************************************************************)
EXTENDS RunProperties, TLAPS

-----------------------------------------------------------------------------
(* Where a call is, by what it has under the run lock.                     *)

NewHeld   == {"new.ready", "new.mint", "new.room", "new.post", "new.job", "new.mirror", "new.save",
              "new.pend"}
SpawnHeld == {"spawn.ready", "spawn.narrow", "spawn.mint", "spawn.affil", "spawn.stage", "spawn.job",
              "spawn.mirror", "spawn.post", "spawn.save", "spawn.launch"}
ResHeld   == {"res.canary", "res.mark", "res.note", "res.ledger", "res.stop", "res.wait",
              "res.persist", "res.done", "res.read", "res.wake", "res.wmark", "res.save",
              "res.tear", "res.child", "res.entries", "res.torn"}
AcctHeld  == {"acct.affil", "acct.revoke", "acct.unlink"}
CleanHeld == {"clean.tomb", "clean.entry"}
Held      == NewHeld \cup SpawnHeld \cup ResHeld \cup AcctHeld \cup CleanHeld \cup {"unwind"}
Waiting   == {"new.lock", "spawn.lock", "res.lock", "clean.lock", "decide.lock"}
Sweeping  == {"sweep.child", "sweep.files"}
PCs       == {"idle"} \cup Outcomes \cup Held \cup Waiting \cup Sweeping

Opening(c)   == pc[c] \in NewHeld \/ (pc[c] = "unwind" /\ req[c].verb = "new")
Spawning(c)  == pc[c] \in SpawnHeld \/ (pc[c] = "unwind" /\ req[c].verb = "spawn")
Resolving(c) == pc[c] \in ResHeld \/ (pc[c] \in AcctHeld /\ req[c].verb = "resolve")
Cleaning(c)  == pc[c] \in CleanHeld \/ (pc[c] \in AcctHeld /\ req[c].verb = "clean")

\* A resolve that has its resolution on the run record.
TearingDown(c) ==
    \/ pc[c] \in {"res.tear", "res.child", "res.entries", "res.torn"}
    \/ pc[c] \in AcctHeld /\ req[c].verb = "resolve"

-----------------------------------------------------------------------------
(* The inductive invariant.  What one call may rely on is an operator of   *)
(* the call: Known, wherever it is, and Holding, while it has the lock.    *)

RunRecords == [phase : PhaseSet, room : BOOLEAN, job : Calls \cup {None}, since : 0..MaxTime,
               resolved : Verdicts \cup {None}, tornDown : BOOLEAN]

Requests == [verb : {"none", "new", "spawn", "resolve", "clean", "sweep", "decide"},
             brief : Briefs \cup {None}, verdict : Verdicts \cup {None},
             keep : BOOLEAN, canary : BOOLEAN]

Memories == [run : RunRecords, at : 0..MaxTime, room : BOOLEAN, cur : Principals \cup {None},
             todo : SUBSET Calls, gone : SUBSET Principals, dirty : BOOLEAN]

Types == /\ TypeOK
         /\ pc \in [Calls -> PCs]
         /\ req \in [Calls -> Requests]
         /\ mem \in [Calls -> Memories]

\* A call is where its verb goes.
Role(c) ==
    /\ pc[c] \in {"new.lock"} \cup NewHeld => req[c].verb = "new"
    /\ pc[c] \in {"spawn.lock"} \cup SpawnHeld => req[c].verb = "spawn"
    /\ pc[c] \in {"res.lock"} \cup ResHeld => req[c].verb = "resolve"
    /\ pc[c] \in {"clean.lock"} \cup CleanHeld => req[c].verb = "clean"
    /\ pc[c] \in AcctHeld => req[c].verb \in {"resolve", "clean"}
    /\ pc[c] = "unwind" => req[c].verb \in {"new", "spawn"}
    /\ pc[c] = "idle" => req[c].verb = "none"
    /\ req[c].verb = "spawn" => req[c].brief \in Briefs
    /\ req[c].verb = "resolve" => req[c].verdict \in Verdicts

\* Only a spawn that went all the way has a unit, and a call has no job before it starts one.
Started(c) ==
    /\ unit[c] # "none" => req[c].verb = "spawn" /\ pc[c] \in Outcomes \cup {"unwind"}
    /\ pc[c] \in {"idle", "new.lock", "new.ready", "new.mint", "new.room", "new.post", "new.job",
                  "spawn.lock", "spawn.ready", "spawn.narrow", "spawn.mint", "spawn.affil",
                  "spawn.stage", "spawn.job"} => job[c] = "none"

\* The copy of the record that a resolve read before its lock is old in one way only.
Copy(c) ==
    Resolving(c) \/ pc[c] = "res.lock" =>
        /\ run.phase = "open"
        /\ mem[c].run.phase = "open" /\ mem[c].run.job = run.job /\ mem[c].run.room = run.room
        /\ mem[c].run.resolved \in {None, run.resolved}
        /\ mem[c].run.tornDown => mem[c].run.resolved # None /\ Owed \subseteq ledger.gone

\* A sweep reads the child records when they can no longer change.
Swept(c) ==
    pc[c] \in Sweeping =>
        /\ run.resolved # None
        /\ mem[c].todo \subseteq Recorded
        /\ pc[c] = "sweep.files" => mem[c].cur \in Recorded /\ job[mem[c].cur] \in Terminal

\* An agent is admitted before it is launched.
Member(c) ==
    /\ OwnRoom /\ job[c] \notin Terminal
    /\ \/ pc[c] \in {"spawn.stage", "spawn.job", "spawn.mirror", "spawn.post", "spawn.save", "spawn.launch"}
       \/ pc[c] = "done" /\ unit[c] = "active"
    => c \in muc.members

Known(c) == /\ Role(c) /\ Started(c) /\ Copy(c) /\ Swept(c) /\ Member(c)
            /\ pc[c] = "new.lock" => ~mem[c].room

\* A --new-run: the root is minted, the room is made if it is juggler's.
NewHolds(c) ==
    Opening(c) =>
        /\ run.phase \in {"none", "pending"}
        /\ pc[c] \notin {"new.ready", "new.mint"} => Root \in acct
        /\ pc[c] \in {"new.ready", "new.mint"} => ~mem[c].room
        /\ pc[c] = "new.room" => OwnRoom
        /\ pc[c] \in {"new.post", "new.job", "new.mirror", "new.save"} => mem[c].room = OwnRoom
        /\ pc[c] \in {"new.mirror", "new.save"} => job[c] = "running"

\* A spawn: its run is open, and its brief's record is its own or nobody's.
SpawnHolds(c) ==
    Spawning(c) => /\ run.phase = "open" /\ run.resolved = None
                   /\ child[req[c].brief] \in {None, c}
                   /\ pc[c] # "unwind" /\ pc[c] # "spawn.launch" => child[req[c].brief] = None

\* A resolve: how far the ledger, the job, the markers and the record are.
ResolveHolds(c) ==
    /\ pc[c] \in {"res.stop", "res.wait"} => ledger.resolved = None
    /\ pc[c] \in {"res.persist", "res.done", "res.read", "res.wake", "res.wmark", "res.save"} =>
          ledger.resolved # None
    /\ pc[c] \in {"res.wake", "res.wmark", "res.save"} => job[run.job] = ledger.resolved
    /\ pc[c] = "res.mark" => ~files.canary
    /\ pc[c] = "res.wmark" => ~files.wake /\ sent.wake > 0
    /\ pc[c] = "res.save" => files.wake
    /\ TearingDown(c) => run.resolved # None /\ mem[c].run.resolved = run.resolved

\* What is gone is gone, for a child only after its job.
IsGone(p) == p \notin acct /\ (p \in Calls => job[p] \in Terminal)

\* A teardown: whose account is in hand, and what it has found gone.
AccountHolds(c) ==
    /\ \A p \in mem[c].gone : IsGone(p) /\ (Resolving(c) \/ Cleaning(c))
    /\ pc[c] \in AcctHeld =>
          /\ mem[c].cur \in Principals
          /\ mem[c].cur \in Calls => job[mem[c].cur] \in Terminal
          /\ req[c].verb = "clean" => mem[c].cur = Root
          /\ req[c].verb = "resolve" /\ mem[c].cur = Root => Recorded \subseteq ledger.gone \cup mem[c].gone
    /\ pc[c] = "acct.unlink" => mem[c].cur \notin acct

\* A clean: the record is pending until the tombstone.
CleanHolds(c) ==
    Cleaning(c) => /\ run.phase = "pending" \/ (pc[c] = "clean.entry" /\ run.phase = "reaped")
                   /\ pc[c] = "clean.entry" /\ Root \in mem[c].gone => run.phase = "reaped"
                   /\ mem[c].gone \subseteq {Root}

Holding(c) == /\ NewHolds(c) /\ SpawnHolds(c) /\ ResolveHolds(c) /\ AccountHolds(c) /\ CleanHolds(c)

\* Whoever is past its lock step and has not returned holds the lock.
Locks == \A c \in Calls : pc[c] \in Held <=> lock = c

\* The run record: what each phase has.
Record ==
    /\ run.phase # "open" => /\ run.job = None /\ run.resolved = None /\ ~run.tornDown
                             /\ ledger.resolved = None
                             /\ \A b \in Briefs : child[b] = None
    /\ run.phase = "open" => run.job # None /\ run.room = OwnRoom
    /\ run.tornDown => run.resolved # None

\* The run's job ends as the ledger says.
RunJob ==
    run.job # None =>
        /\ req[run.job].verb = "new" /\ pc[run.job] = "done"
        /\ job[run.job] = "running" \/ (ledger.resolved # None /\ job[run.job] = ledger.resolved)

\* A brief's record is of a spawn of that brief.
Records ==
    \A b \in Briefs : child[b] # None => req[child[b]].verb = "spawn" /\ req[child[b]].brief = b

\* The root is the last to go, and what is recorded gone is gone.
Tears ==
    /\ acct \subseteq files.pw
    /\ \A p \in ledger.gone : IsGone(p)
    /\ Root \in ledger.gone => run.phase = "reaped" \/ run.resolved # None
    /\ run.phase = "open" /\ run.resolved = None => Root \in acct
    /\ run.phase = "reaped" => Root \notin acct
    /\ RootLast
    /\ run.tornDown => Owed \subseteq ledger.gone

\* The markers follow the posts.
Posts ==
    /\ PostedOnce
    /\ ~files.canary /\ (\A c \in Calls : pc[c] # "res.mark") => sent.canary <= faults + crashes
    /\ ~files.wake /\ (\A c \in Calls : pc[c] # "res.wmark") => sent.wake <= faults + crashes
    /\ files.wake => sent.wake > 0

\* A root that no record tells of is in the hands of a --new-run, or its mint was lost.
RootKnown ==
    crashes = 0 /\ (\A c \in Calls : pc[c] # "dirty") /\ run.phase = "none" =>
        /\ muc.made => \E c \in Calls : Opening(c) /\ pc[c] \notin {"new.ready", "new.mint", "new.room"}
        /\ Root \in acct => \/ \E c \in Calls : Opening(c) /\ pc[c] \notin {"new.ready", "new.mint"}
                            \/ ~muc.made /\ faults > 0

Shared == Record /\ RunJob /\ OneResolution /\ Records /\ Tears

Inv == /\ Types /\ Locks /\ Shared /\ Posts /\ RootKnown
       /\ \A c \in Calls : Known(c) /\ Holding(c)

-----------------------------------------------------------------------------
(* What a step of one call leaves to the others.                           *)

USE CallsAssumption, OptionAssumption, VerbAssumption

\* A step of x: the others stay where they are, a job ends once, an open run stays
\* open, a resolution, an entry of the ledger and a member other than x stay.
Grows(x) ==
    /\ \A d \in Calls : d # x => /\ pc'[d] = pc[d] /\ mem'[d] = mem[d]
                                 /\ req'[d] = req[d] /\ unit'[d] = unit[d]
                                 /\ job'[d] = job[d] \/ (job[d] = "running" /\ job'[d] \in Terminal)
                                 /\ d \in muc.members /\ job[d] \notin Terminal => d \in muc'.members
    /\ job[x] \in Terminal => job'[x] = job[x]
    /\ pc[x] # "idle" => req'[x] = req[x]
    /\ run.phase = "open" => run'.phase = "open" /\ run'.job = run.job /\ run'.room = run.room
    /\ run.resolved # None => run'.resolved = run.resolved /\ child' = child
    /\ ledger.gone \subseteq ledger'.gone

\* The recorded principals are calls.
LEMMA RecordedCalls == ASSUME Inv PROVE Recorded \subseteq Calls
  BY DEF Inv, Types, TypeOK, Recorded

\* What the others know of the run stays true (a resolve's copy of the record, the
\* records a sweep listed, the membership of an agent at work).
LEMMA OthersKnow ==
    ASSUME Inv, NEW x \in Calls, Grows(x), NEW d \in Calls, d # x
    PROVE  Known(d)'
<1> Known(d) /\ Record
  BY DEF Inv, Shared
<1>1. /\ pc'[d] = pc[d] /\ mem'[d] = mem[d] /\ req'[d] = req[d] /\ unit'[d] = unit[d]
      /\ job'[d] = job[d] \/ (job[d] = "running" /\ job'[d] \in Terminal)
      /\ \A p \in Calls : job[p] \in Terminal => job'[p] = job[p]
  BY DEF Grows, Terminal
<1>2. Role(d)' /\ (pc'[d] = "new.lock" => ~mem'[d].room)
  BY <1>1 DEF Known, Role
<1>3. Started(d)'
  BY <1>1 DEF Known, Started
<1>4. Copy(d)'
  <2> SUFFICES ASSUME Resolving(d) \/ pc[d] = "res.lock" PROVE Copy(d)'
    BY <1>1 DEF Copy, Resolving
  <2>1. /\ run'.phase = "open" /\ run'.job = run.job /\ run'.room = run.room
        /\ run.resolved # None => run'.resolved = run.resolved /\ Owed' = Owed
        /\ ledger.gone \subseteq ledger'.gone
    BY DEF Known, Copy, Grows, Owed, Recorded
  <2> QED
    BY <1>1, <2>1 DEF Known, Copy
<1>5. Swept(d)'
  <2> SUFFICES ASSUME pc[d] \in Sweeping PROVE Swept(d)'
    BY <1>1 DEF Swept
  <2>1. run'.resolved = run.resolved /\ run.resolved # None /\ Recorded' = Recorded
    BY DEF Known, Swept, Grows, Recorded
  <2> QED
    BY <1>1, <2>1, RecordedCalls DEF Known, Swept
<1>6. Member(d)'
  <2>1. d \in muc.members /\ job[d] \notin Terminal => d \in muc'.members
    BY DEF Grows
  <2> QED
    BY <1>1, <2>1 DEF Known, Member
<1> QED
  BY <1>2, <1>3, <1>4, <1>5, <1>6 DEF Known

\* A call without the lock holds nothing that a step of another can take away.
LEMMA OthersHold ==
    ASSUME Inv, NEW x \in Calls, Grows(x), NEW d \in Calls, d # x, pc[d] \notin Held
    PROVE  Holding(d)'
<1> Holding(d)
  BY DEF Inv
<1>1. pc'[d] = pc[d] /\ mem'[d] = mem[d] /\ pc[d] \notin Held
  BY DEF Grows
<1>2. ~Opening(d)' /\ ~Spawning(d)' /\ ~Resolving(d)' /\ ~Cleaning(d)' /\ ~TearingDown(d)'
  BY <1>1 DEF Opening, Spawning, Resolving, Cleaning, TearingDown, Held, NewHeld, SpawnHeld, ResHeld,
     AcctHeld, CleanHeld
<1>3. mem[d].gone = {}
  BY <1>1 DEF Holding, AccountHolds, Resolving, Cleaning, Held, ResHeld, AcctHeld, CleanHeld
<1>4. NewHolds(d)' /\ SpawnHolds(d)' /\ CleanHolds(d)'
  BY <1>2 DEF NewHolds, SpawnHolds, CleanHolds
<1>5. ResolveHolds(d)'
  BY <1>1, <1>2 DEF ResolveHolds, Held, ResHeld
<1>6. AccountHolds(d)'
  BY <1>1, <1>3 DEF AccountHolds, Held, AcctHeld
<1> QED
  BY <1>4, <1>5, <1>6 DEF Holding

\* A step that leaves the store and the accounts alone takes nothing from the holder of
\* the lock either.
LEMMA HolderKeeps ==
    ASSUME Inv, NEW x \in Calls, Grows(x), UNCHANGED <<run, child, acct, sent>>,
           ledger'.resolved = ledger.resolved, ledger'.gone = ledger.gone,
           files'.canary = files.canary, files'.wake = files.wake,
           NEW d \in Calls, d # x, job'[d] = job[d]
    PROVE  Holding(d)'
<1> Holding(d)
  BY DEF Inv
<1>1. /\ pc'[d] = pc[d] /\ mem'[d] = mem[d] /\ req'[d] = req[d]
      /\ job'[d] = job[d] \/ (job[d] = "running" /\ job'[d] \in Terminal)
      /\ \A p \in Calls : job[p] \in Terminal => job'[p] = job[p]
  BY DEF Grows, Terminal
<1>2. /\ Opening(d)' = Opening(d) /\ Spawning(d)' = Spawning(d) /\ Resolving(d)' = Resolving(d)
      /\ Cleaning(d)' = Cleaning(d) /\ TearingDown(d)' = TearingDown(d)
  BY <1>1 DEF Opening, Spawning, Resolving, Cleaning, TearingDown
<1>3. \A p \in Principals : IsGone(p) => IsGone(p)'
  BY <1>1 DEF IsGone
<1>4. NewHolds(d)'
  <2> SUFFICES ASSUME Opening(d) PROVE NewHolds(d)'
    BY <1>2 DEF NewHolds
  <2> QED
    BY <1>1, <1>2 DEF Holding, NewHolds
<1>5. SpawnHolds(d)' /\ CleanHolds(d)'
  BY <1>1, <1>2 DEF Holding, SpawnHolds, CleanHolds
<1>6. ResolveHolds(d)'
  <2>1. ledger.resolved # None /\ job[run.job] = ledger.resolved => job'[run.job] = ledger.resolved
    BY <1>1 DEF Inv, Types, TypeOK, Verdicts, Terminal, Shared, Record, PhaseSet
  <2> QED
    BY <1>1, <1>2, <2>1 DEF Holding, ResolveHolds
<1>7. AccountHolds(d)'
  <2>1. mem[d].gone \subseteq Principals /\ Recorded' = Recorded
    BY DEF Inv, Types, Memories, Recorded
  <2> QED
    BY <1>1, <1>2, <1>3, <2>1 DEF Holding, AccountHolds
<1> QED
  BY <1>4, <1>5, <1>6, <1>7 DEF Holding

\* Whoever acts with the lock, or takes it, is the only one past its lock step.
LEMMA Alone ==
    ASSUME Inv, NEW x \in Calls, pc[x] \in Held \/ lock = None, NEW d \in Calls, d # x
    PROVE  pc[d] \notin Held
  BY CallsAssumption DEF Inv, Locks

\* The shared part looks at the store, the accounts, the jobs and the wake only.
LEMMA SharedKept ==
    ASSUME Inv, NEW x \in Calls, Grows(x), UNCHANGED <<run, child, acct>>,
           ledger'.resolved = ledger.resolved, ledger'.gone = ledger.gone, files'.pw = files.pw, files'.wake = files.wake,
           sent.wake > 0 => sent'.wake > 0,
           \A d \in Calls : d # x => job'[d] = job[d],
           run.job = x => pc'[x] = pc[x] /\ job'[x] = job[x]
    PROVE  Shared'
<1> USE DEF Inv, Shared
<1>1. \A d \in Calls : job[d] \in Terminal => job'[d] = job[d]
  BY DEF Grows
<1>2. Record' /\ Records'
  <2>1. Record'
    BY DEF Record
  <2>2. ASSUME NEW b \in Briefs, child[b] # None PROVE req'[child[b]] = req[child[b]]
    <3>1. child[b] \in Calls /\ req[child[b]].verb = "spawn"
      BY <2>2 DEF Types, TypeOK, Records
    <3>2. pc[child[b]] # "idle"
      BY <3>1 DEF Known, Role
    <3> QED
      BY <3>1, <3>2 DEF Grows
  <2> QED
    BY <2>1, <2>2 DEF Records
<1>3. run.job # None => run.job \in Calls /\ pc[run.job] = "done" /\ req[run.job].verb = "new"
  BY DEF Types, TypeOK, RunJob
<1>4. RunJob'
  BY <1>3 DEF RunJob, Grows
<1>5. OneResolution'
  <2>1. run.resolved # None => job[run.job] = run.resolved /\ run.resolved \in Verdicts /\ run.job # None
    BY DEF OneResolution, Types, TypeOK, Record
  <2> QED
    BY <2>1, <1>1, <1>3 DEF OneResolution, Verdicts, Terminal, Types, TypeOK
<1>6. Tears'
  BY <1>1 DEF Tears, IsGone, RootLast, Owed, Recorded, Types, TypeOK
<1> QED
  BY <1>2, <1>4, <1>5, <1>6

\* The posts and their markers, in a step that is not between the two.
LEMMA PostsKept ==
    ASSUME Inv, NEW x \in Calls, Grows(x), pc[x] \notin {"res.mark", "res.wmark"}, sent' = sent,
           files'.canary = files.canary, files'.wake = files.wake,
           faults' \in Nat, crashes' \in Nat, faults' >= faults, crashes' >= crashes
    PROVE  Posts'
<1>1. /\ (\A c \in Calls : pc'[c] # "res.mark") => \A c \in Calls : pc[c] # "res.mark"
      /\ (\A c \in Calls : pc'[c] # "res.wmark") => \A c \in Calls : pc[c] # "res.wmark"
  BY DEF Grows
<1>2. sent.canary \in Nat /\ sent.wake \in Nat /\ faults \in Nat /\ crashes \in Nat
  BY DEF Inv, Types, TypeOK
<1> QED
  BY <1>1, <1>2 DEF Inv, Posts, PostedOnce

\* A root nobody knows of, in a step that is not of a --new-run at work.
LEMMA RootStill ==
    ASSUME Inv, NEW x \in Calls, Grows(x), ~Opening(x), run'.phase = run.phase,
           muc'.made = muc.made, Root \in acct' => Root \in acct,
           faults' \in Nat, crashes' \in Nat, faults' >= faults, crashes' >= crashes,
           pc[x] = "dirty" => pc'[x] = "dirty"
    PROVE  RootKnown'
<1> SUFFICES ASSUME crashes' = 0, \A c \in Calls : pc'[c] # "dirty", run'.phase = "none"
             PROVE  /\ muc'.made => \E c \in Calls : Opening(c)' /\ pc'[c] \notin {"new.ready", "new.mint", "new.room"}
                    /\ Root \in acct' => \/ \E c \in Calls : Opening(c)' /\ pc'[c] \notin {"new.ready", "new.mint"}
                                         \/ ~muc'.made /\ faults' > 0
  BY DEF RootKnown
<1>1. crashes = 0 /\ faults \in Nat /\ \A c \in Calls : pc[c] # "dirty"
  BY DEF Inv, Types, TypeOK, Grows
<1>2. \A c \in Calls : Opening(c) => Opening(c)' /\ pc'[c] = pc[c]
  BY DEF Grows, Opening
<1> QED
  BY <1>1, <1>2 DEF Inv, RootKnown

-----------------------------------------------------------------------------
(* Three kinds of steps.                                                   *)

\* A step of the call that has the lock, or takes it: the others keep what they know.
LEMMA HolderStep ==
    ASSUME Inv, NEW x \in Calls, Grows(x), pc[x] \in Held \/ lock = None,
           Types', Locks', Shared', Posts', RootKnown', Known(x)', Holding(x)'
    PROVE  Inv'
<1>1. ASSUME NEW d \in Calls, d # x PROVE Known(d)' /\ Holding(d)'
  BY <1>1, Alone, OthersKnow, OthersHold
<1> QED
  BY <1>1 DEF Inv

\* What a step leaves alone that moves one call and nothing on the disk or outside.
Still == /\ UNCHANGED <<run, child, acct, sent>> /\ muc'.made = muc.made
         /\ ledger'.resolved = ledger.resolved /\ ledger'.gone = ledger.gone
         /\ files'.pw = files.pw /\ files'.canary = files.canary /\ files'.wake = files.wake
         /\ faults' \in Nat /\ crashes' \in Nat /\ faults' >= faults /\ crashes' >= crashes

\* The holder of the lock goes on, or returns.
LEMMA HolderMoves ==
    ASSUME Inv, NEW x \in Calls, Grows(x), Still, job' = job, pc[x] \in Held \/ lock = None,
           pc[x] \notin Outcomes \cup {"res.mark", "res.wmark"},
           ~Opening(x), Types', Locks', Known(x)', Holding(x)'
    PROVE  Inv'
<1>1. run.job # x
  BY DEF Inv, Shared, RunJob, Outcomes, Types, TypeOK
<1>2. Shared'
  BY <1>1, SharedKept DEF Still
<1>3. Posts'
  BY PostsKept DEF Still
<1>4. RootKnown'
  BY RootStill DEF Still, Outcomes
<1> QED
  BY <1>2, <1>3, <1>4, HolderStep

\* A step without the lock: of an agent, of a sweep, of a call that starts or is refused.
LEMMA FreeStep ==
    ASSUME Inv, NEW x \in Calls, Grows(x), Still, pc[x] \notin Held, pc'[x] \notin Held,
           lock' = lock, mem'[x].gone = {}, pc[x] \in Outcomes => pc'[x] = pc[x],
           \A d \in Calls : d # x => job'[d] = job[d], req[x].verb = "new" => job'[x] = job[x],
           Types', Known(x)'
    PROVE  Inv'
<1>1. run.job = x => pc'[x] = pc[x] /\ job'[x] = job[x]
  BY CallsAssumption DEF Inv, Shared, RunJob, Outcomes
<1>2. Shared'
  BY <1>1, SharedKept DEF Still
<1>3. Locks'
  BY DEF Inv, Locks, Grows
<1>4. Posts' /\ RootKnown'
  <2>1. ~Opening(x) /\ pc[x] \notin {"res.mark", "res.wmark"}
    BY DEF Opening, Held, NewHeld, ResHeld
  <2>2. Posts'
    BY <2>1, PostsKept DEF Still
  <2>3. RootKnown'
    BY <2>1, RootStill DEF Still, Outcomes
  <2> QED
    BY <2>2, <2>3
<1>5. Holding(x)'
  <2>1. ~Opening(x)' /\ ~Spawning(x)' /\ ~Cleaning(x)' /\ ~TearingDown(x)'
    BY DEF Opening, Spawning, Cleaning, TearingDown, Held, NewHeld, SpawnHeld, ResHeld, AcctHeld, CleanHeld
  <2>2. ResolveHolds(x)' /\ AccountHolds(x)'
    BY <2>1 DEF ResolveHolds, AccountHolds, Held, ResHeld, AcctHeld
  <2> QED
    BY <2>1, <2>2 DEF Holding, NewHolds, SpawnHolds, CleanHolds
<1>6. ASSUME NEW d \in Calls, d # x PROVE Known(d)' /\ Holding(d)'
  BY <1>6, OthersKnow, HolderKeeps DEF Still
<1> QED
  BY <1>2, <1>3, <1>4, <1>5, <1>6 DEF Inv

-----------------------------------------------------------------------------
(* The four ways to go on, and what a step that may fail is charged.       *)

\* A call moved, and no other.
Moved(x) == /\ pc' \in [Calls -> PCs] /\ mem' \in [Calls -> Memories]
            /\ DOMAIN undo' = Calls /\ lock' \in Calls \cup {None}
            /\ \A d \in Calls : d # x => pc'[d] = pc[d] /\ mem'[d] = mem[d]

\* The zero memory is a memory: a call that returns forgets everything.
LEMMA BlankIsMemory == Blank \in Memories
  BY BoundAssumption DEF Blank, Memories, NoRun, RunRecords, PhaseSet, Principals

\* Goto changes pc only.
LEMMA GotoMoves ==
    ASSUME Types, NEW x \in Calls, NEW s \in PCs, Goto(x, s)
    PROVE  Moved(x) /\ pc'[x] = s /\ mem' = mem /\ lock' = lock
  BY DEF Types, TypeOK, Goto, Moved

\* Push changes pc and the undo stack.
LEMMA PushMoves ==
    ASSUME Types, NEW x \in Calls, NEW s \in PCs, NEW u, Push(x, s, u)
    PROVE  Moved(x) /\ pc'[x] = s /\ mem' = mem /\ lock' = lock
  BY DEF Types, TypeOK, Push, Moved

\* Remember changes pc and the memory.
LEMMA RememberMoves ==
    ASSUME Types, NEW x \in Calls, NEW s \in PCs, NEW m \in Memories, Remember(x, s, m)
    PROVE  Moved(x) /\ pc'[x] = s /\ mem'[x] = m /\ lock' = lock
  BY DEF Types, TypeOK, Remember, Moved

\* Return gives the lock back and forgets.
LEMMA ReturnMoves ==
    ASSUME Types, NEW x \in Calls, NEW s \in Outcomes, Return(x, s)
    PROVE  Moved(x) /\ pc'[x] = s /\ mem'[x] = Blank /\ lock' = IF lock = x THEN None ELSE lock
  BY BlankIsMemory DEF Types, TypeOK, Return, Moved, PCs

\* Outcome charges at most one failure, and a good outcome none.
LEMMA OutcomeCharges ==
    ASSUME Types, NEW k, Outcome(k)
    PROVE  /\ faults' \in 0..MaxFaults /\ faults' >= faults
           /\ k = "ok" => faults' = faults
           /\ k # "ok" => faults' = faults + 1
  BY BoundAssumption, OptionAssumption DEF Types, TypeOK, Outcome, FaultKinds

\* The lock in a step of its holder that goes on, of its holder that returns, of a call
\* that takes it.
LEMMA LockKept ==
    ASSUME Inv, NEW x \in Calls, Moved(x),
           \/ pc[x] \in Held /\ pc'[x] \in Held /\ lock' = lock
           \/ pc[x] \in Held /\ pc'[x] \notin Held /\ lock' = IF lock = x THEN None ELSE lock
           \/ lock = None /\ pc'[x] \in Held /\ lock' = x
           \/ lock = None /\ pc'[x] \notin Held /\ lock' = IF lock = x THEN None ELSE lock
    PROVE  Locks'
  BY CallsAssumption DEF Inv, Locks, Moved

\* What a call that has ended knows and holds: nothing.
LEMMA EndKnows ==
    ASSUME Inv, NEW x \in Calls, pc[x] \notin Outcomes \cup {"idle"}, pc'[x] \in Outcomes, mem'[x] = Blank,
           req'[x] = req[x], unit'[x] = unit[x], pc'[x] = "done" => unit[x] = "none"
    PROVE  Known(x)' /\ Holding(x)'
<1> USE DEF Inv
<1>1. pc'[x] \notin Held /\ pc'[x] \notin Waiting /\ pc'[x] \notin Sweeping /\ pc'[x] # "unwind" /\ pc'[x] # "idle"
  BY DEF Held, NewHeld, SpawnHeld, ResHeld, AcctHeld, CleanHeld, Waiting, Sweeping, Outcomes
<1>2. ~Opening(x)' /\ ~Spawning(x)' /\ ~Cleaning(x)' /\ ~TearingDown(x)' /\ ~Resolving(x)'
  BY <1>1 DEF Opening, Spawning, Cleaning, TearingDown, Resolving, Held, NewHeld, SpawnHeld, ResHeld,
     AcctHeld, CleanHeld
<1>3. Known(x)'
  <2>1. Role(x)'
    BY <1>1 DEF Known, Role, Held, Outcomes
  <2>2. Started(x)' /\ pc'[x] # "new.lock"
    BY DEF Known, Started, Outcomes
  <2>3. Copy(x)' /\ Swept(x)'
    BY <1>1, <1>2 DEF Copy, Swept, Waiting
  <2>4. Member(x)'
    BY DEF Known, Started, Member, Outcomes
  <2> QED
    BY <2>1, <2>2, <2>3, <2>4 DEF Known
<1>4. ResolveHolds(x)' /\ AccountHolds(x)'
  BY <1>1, <1>2 DEF ResolveHolds, AccountHolds, Held, ResHeld, AcctHeld, Blank
<1> QED
  BY <1>2, <1>3, <1>4 DEF Holding, NewHolds, SpawnHolds, CleanHolds

\* The holder returns, having changed nothing on the disk or outside that others look at.
LEMMA HolderReturns ==
    ASSUME Inv, NEW x \in Calls, pc[x] \in Held \/ lock = None,
           pc[x] \notin Outcomes \cup {"idle", "res.mark", "res.wmark"}, ~Opening(x),
           NEW o \in Outcomes, o = "done" => unit[x] = "none", Return(x, o),
           Still, Types', Grows(x), job' = job, unit' = unit
    PROVE  Inv'
<1> USE DEF Inv
<1>1. /\ Moved(x) /\ pc'[x] = o /\ mem'[x] = Blank /\ lock' = IF lock = x THEN None ELSE lock
  BY ReturnMoves
<1>2. o \notin Held
  BY DEF Held, NewHeld, SpawnHeld, ResHeld, AcctHeld, CleanHeld, Outcomes
<1>3. Locks'
  BY <1>1, <1>2, LockKept
<1>4. Known(x)' /\ Holding(x)'
  BY <1>1, EndKnows DEF Grows
<1> QED
  BY <1>3, <1>4, HolderMoves

-----------------------------------------------------------------------------
(* Steps without the run lock: starts, agents, sweeps, the clock.          *)

\* A call is started: it waits for the lock, or walks the records it lists.
LEMMA StartKeeps ==
    ASSUME Inv, NEW x \in Calls, NEW r \in Requests, NEW s \in Waiting \cup Sweeping, NEW m \in Memories,
           Start(x, r, s, m), m.gone = {}, s = "new.lock" => ~m.room,
           s = "new.lock" => r.verb = "new", s = "res.lock" => r.verb = "resolve" /\ r.verdict \in Verdicts,
           s = "spawn.lock" => r.verb = "spawn" /\ r.brief \in Briefs,
           s = "clean.lock" => r.verb = "clean", s # "spawn.lock" => r.verb # "spawn",
           s # "res.lock" => r.verb # "resolve",
           s = "res.lock" => m.run = run /\ run.job # None,
           s \in Sweeping => run.resolved # None /\ m.todo = Recorded /\ s = "sweep.child"
    PROVE  Inv'
<1> USE DEF Inv, Start, At, store, outside, clocks
<1>1. /\ pc[x] = "idle" /\ s \in PCs /\ s \notin Held /\ s \notin Outcomes \cup {"unwind", "idle"}
      /\ pc' = [pc EXCEPT ![x] = s] /\ mem' = [mem EXCEPT ![x] = m] /\ req' = [req EXCEPT ![x] = r]
  BY DEF PCs, Waiting, Sweeping, Held, NewHeld, SpawnHeld, ResHeld, AcctHeld, CleanHeld, Outcomes
<1>2. /\ pc'[x] = s /\ mem'[x] = m /\ req'[x] = r /\ pc[x] \notin Held
  BY <1>1 DEF Types, Held, NewHeld, SpawnHeld, ResHeld, AcctHeld, CleanHeld
<1>3. Grows(x)
  BY <1>1 DEF Grows, Types
<1>4. Still
  BY BoundAssumption DEF Still, Types, TypeOK
<1>5. Types'
  BY <1>1 DEF Types, TypeOK
<1>6. Known(x)'
  <2>1. Role(x)'
    BY <1>2 DEF Role, Waiting, Sweeping, Held, NewHeld, SpawnHeld, ResHeld, AcctHeld, CleanHeld
  <2>2. unit[x] = "none" /\ job[x] = "none"
    BY <1>1 DEF Known, Started, Outcomes
  <2>3. Started(x)' /\ Member(x)'
    BY <1>1, <1>2, <2>2 DEF Started, Member, Waiting, Sweeping, Outcomes, Types, TypeOK
  <2>4. Copy(x)'
    <3> SUFFICES ASSUME s = "res.lock" PROVE Copy(x)'
      BY <1>1, <1>2 DEF Copy, Resolving, Held
    <3>1. run.phase = "open" /\ (run.tornDown => run.resolved # None /\ Owed \subseteq ledger.gone)
      BY DEF Shared, Record, Tears
    <3> QED
      BY <1>2, <3>1 DEF Copy, Owed, Recorded
  <2>5. Swept(x)'
    BY <1>2 DEF Swept, Recorded
  <2> QED
    BY <1>2, <2>1, <2>3, <2>4, <2>5 DEF Known
<1> QED
  BY <1>1, <1>2, <1>3, <1>4, <1>5, <1>6, FreeStep DEF Outcomes

\* Every verb's start is one of those.
LEMMA StartStepKeeps == ASSUME Inv, NEW x \in Calls, StartStep(x) PROVE Inv'
<1> USE BlankIsMemory DEF Waiting, Sweeping
<1>1. \A b \in Briefs \cup {None}, v \in {"none", "new", "clean", "sweep", "decide", "spawn"} :
         [NoRequest EXCEPT !.verb = v, !.brief = b] \in Requests
  BY DEF NoRequest, Requests
<1>2. \A v \in {"none", "new", "clean", "sweep", "decide", "spawn"} :
         [NoRequest EXCEPT !.verb = v] \in Requests
  BY DEF NoRequest, Requests
<1>3. Blank.gone = {} /\ ~Blank.room
  BY DEF Blank
<1>4. CASE StartNew(x)
  BY <1>2, <1>3, <1>4, StartKeeps DEF StartNew, NoRequest
<1>5. ASSUME NEW b \in Briefs, StartSpawn(x, b) PROVE Inv'
  <2> DEFINE r == [NoRequest EXCEPT !.verb = "spawn", !.brief = b]
  <2>1. r \in Requests /\ r.verb = "spawn" /\ r.brief = b
    BY <1>1 DEF NoRequest
  <2>2. Start(x, r, "spawn.lock", Blank)
    BY <1>5 DEF StartSpawn
  <2> HIDE DEF r
  <2> QED
    BY <2>1, <2>2, <1>3, StartKeeps
<1>6. ASSUME NEW v \in Asked, NEW keep \in Keeping, NEW canary \in Canaries, StartResolve(x, v, keep, canary)
      PROVE  Inv'
  <2>1. [Blank EXCEPT !.run = run] \in Memories
    BY DEF Memories, Inv, Types, TypeOK, RunRecords
  <2>2. [verb |-> "resolve", brief |-> None, verdict |-> v, keep |-> keep, canary |-> canary] \in Requests
    BY DEF Requests
  <2> QED
    BY <1>6, <2>1, <2>2, <1>3, StartKeeps DEF StartResolve, Blank
<1>7. CASE StartClean(x)
  <2>1. [Blank EXCEPT !.at = now] \in Memories
    BY DEF Memories, Inv, Types, TypeOK
  <2> QED
    BY <1>2, <1>3, <1>7, <2>1, StartKeeps DEF StartClean, NoRequest, Blank
<1>8. CASE StartSweep(x)
  <2>1. [Blank EXCEPT !.todo = Recorded] \in Memories
    BY RecordedCalls DEF Memories
  <2> QED
    BY <1>2, <1>3, <1>8, <2>1, StartKeeps DEF StartSweep, NoRequest, Blank
<1>9. CASE StartDecide(x)
  BY <1>2, <1>3, <1>9, StartKeeps DEF StartDecide, NoRequest
<1> QED
  BY <1>4, <1>5, <1>6, <1>7, <1>8, <1>9 DEF StartStep

\* An agent writes its terminal record, its unit dies, the exit hook settles its job.
LEMMA AgentKeeps == ASSUME Inv, NEW x \in Calls, AgentStep(x) PROVE Inv'
<1> USE DEF Inv
<1>1. /\ UNCHANGED <<lock, pc, req, undo, mem, run, ledger, child, files, acct, muc, stanza, sent,
                     cancelled, faults, crashes, now>>
      /\ unit[x] # "none"
      /\ \/ unit' = unit /\ job[x] = "running" /\ \E s \in Terminal : job' = [job EXCEPT ![x] = s]
         \/ job' = job /\ unit' = [unit EXCEPT ![x] = "stopped"]
  <2>1. CASE AgentFinish(x)
    <3>1. job' = [job EXCEPT ![x] = IF x \in cancelled THEN "aborted" ELSE "succeeded"]
      BY <2>1 DEF AgentFinish
    <3>2. (IF x \in cancelled THEN "aborted" ELSE "succeeded") \in Terminal
      BY DEF Terminal
    <3> QED
      BY <2>1, <3>1, <3>2 DEF AgentFinish, store, clocks
  <2>2. CASE AgentStop(x)
    BY <2>2 DEF AgentStop, store, clocks
  <2>3. CASE HookSettle(x)
    <3>1. job' = [job EXCEPT ![x] = "interrupted"] /\ "interrupted" \in Terminal
      BY <2>3 DEF HookSettle, Terminal
    <3> QED
      BY <2>3, <3>1 DEF HookSettle, store, clocks
  <2> QED
    BY <2>1, <2>2, <2>3 DEF AgentStep
<1>2. req[x].verb = "spawn" /\ pc[x] \in Outcomes \cup {"unwind"}
  BY <1>1 DEF Known, Started
<1>3. Grows(x)
  BY <1>1 DEF Grows, Types, TypeOK, Terminal
<1>4. Types'
  BY <1>1 DEF Types, TypeOK
<1>5. Known(x)'
  <2>1. Role(x)' /\ Copy(x)' /\ Swept(x)'
    BY <1>1, <1>2 DEF Known, Role, Copy, Swept, Resolving, Sweeping, Outcomes, ResHeld, AcctHeld
  <2>2. Started(x)' /\ Member(x)'
    BY <1>1, <1>2 DEF Known, Started, Member, Outcomes, Types, TypeOK, Terminal
  <2> QED
    BY <1>1, <2>1, <2>2 DEF Known
<1>6. Still /\ \A d \in Calls : d # x => job'[d] = job[d]
  BY <1>1, BoundAssumption DEF Still, Types, TypeOK
<1>7. CASE pc[x] \notin Held
  <2>1. mem'[x].gone = {}
    BY <1>1, <1>7 DEF Holding, AccountHolds, Resolving, Cleaning, Held
  <2> QED
    BY <1>1, <1>2, <1>3, <1>4, <1>5, <1>6, <1>7, <2>1, FreeStep
<1>8. CASE pc[x] = "unwind"
  <2>1. Locks'
    BY <1>1 DEF Locks
  <2>2. run.job # x
    BY <1>2 DEF Shared, RunJob
  <2>3. Shared'
    BY <1>1, <1>3, <1>6, <2>2, SharedKept DEF Still
  <2>4. Posts' /\ RootKnown'
    BY <1>2, <1>3, <1>6, <1>8, PostsKept, RootStill DEF Still, Opening, NewHeld
  <2>5. Holding(x)'
    BY <1>1, <1>2, <1>8 DEF Holding, NewHolds, SpawnHolds, ResolveHolds, AccountHolds, CleanHolds,
       Opening, Spawning, Resolving, Cleaning, TearingDown, NewHeld, SpawnHeld, ResHeld, AcctHeld, CleanHeld
  <2> QED
    BY <1>3, <1>4, <1>5, <1>8, <2>1, <2>3, <2>4, <2>5, HolderStep DEF Held
<1> QED
  BY <1>2, <1>7, <1>8 DEF Held, NewHeld, SpawnHeld, ResHeld, AcctHeld, CleanHeld, Outcomes

\* A sweep takes up a terminal child, removes its files, ends.
LEMMA SweepKeeps ==
    ASSUME Inv, NEW x \in Calls, SweepChild(x) \/ SweepFiles(x) \/ SweepEnd(x)
    PROVE  Inv'
<1> USE DEF Inv, store, outside, clocks, At
<1>1. pc[x] \in Sweeping /\ pc[x] \notin Held \cup Outcomes \cup {"idle", "new.lock"} /\ lock # x
  <2>1. pc[x] \in Sweeping
    BY DEF SweepChild, SweepFiles, SweepEnd, Sweeping
  <2>2. pc[x] \notin Held \cup Outcomes \cup {"idle", "new.lock"}
    BY <2>1 DEF Sweeping, Held, NewHeld, SpawnHeld, ResHeld, AcctHeld, CleanHeld, Outcomes
  <2> QED
    BY <2>1, <2>2 DEF Locks
<1>2. mem[x] \in Memories /\ mem[x].gone = {} /\ Blank.gone = {}
  BY <1>1 DEF Types, Holding, AccountHolds, Resolving, Cleaning, Held, Blank
<1>3. /\ Moved(x) /\ lock' = lock /\ mem'[x].gone = {}
      /\ \/ pc'[x] = "sweep.child" /\ mem'[x].todo \subseteq mem[x].todo
         \/ /\ pc'[x] = "sweep.files" /\ mem'[x].todo \subseteq mem[x].todo
            /\ mem'[x].cur \in mem[x].todo /\ job[mem'[x].cur] \in Terminal
         \/ pc'[x] = "done" /\ mem'[x] = Blank
  <2>1. CASE SweepChild(x)
    <3>1. PICK p \in mem[x].todo, k \in {"ok", "refused"} :
             LET m == [mem[x] EXCEPT !.todo = @ \ {p}] IN
             IF k = "ok" /\ Sweepable(p) THEN Remember(x, "sweep.files", [m EXCEPT !.cur = p])
             ELSE Remember(x, "sweep.child", m)
      BY <2>1 DEF SweepChild
    <3> DEFINE m == [mem[x] EXCEPT !.todo = @ \ {p}]
    <3>2. p \in Calls
      BY <1>2, <3>1 DEF Memories
    <3>3. /\ m \in Memories /\ m.gone = {} /\ m.todo \subseteq mem[x].todo
          /\ [m EXCEPT !.cur = p] \in Memories /\ [m EXCEPT !.cur = p].gone = {}
          /\ [m EXCEPT !.cur = p].todo \subseteq mem[x].todo /\ [m EXCEPT !.cur = p].cur = p
      BY <1>2, <3>2 DEF Memories, Principals
    <3>4. CASE k = "ok" /\ Sweepable(p)
      <4> DEFINE mp == [m EXCEPT !.cur = p]
      <4>1. Remember(x, "sweep.files", mp) /\ "sweep.files" \in PCs
        BY <3>1, <3>4 DEF PCs, Sweeping
      <4>2. Moved(x) /\ pc'[x] = "sweep.files" /\ mem'[x] = mp /\ lock' = lock
        <5> HIDE DEF m, mp
        <5> QED
          BY <3>3, <4>1, RememberMoves DEF mp
      <4> QED
        BY <3>1, <3>3, <3>4, <4>2 DEF Sweepable
    <3>5. CASE ~(k = "ok" /\ Sweepable(p))
      <4>1. Remember(x, "sweep.child", m) /\ "sweep.child" \in PCs
        BY <3>1, <3>5 DEF PCs, Sweeping
      <4> HIDE DEF m
      <4>2. Moved(x) /\ pc'[x] = "sweep.child" /\ mem'[x] = m /\ lock' = lock
        BY <3>3, <4>1, RememberMoves
      <4> QED
        BY <3>3, <4>2
    <3> QED
      BY <3>4, <3>5
  <2>2. CASE SweepFiles(x)
    BY <1>2, <2>2, GotoMoves DEF SweepFiles, PCs, Sweeping
  <2>3. CASE SweepEnd(x)
    BY <1>1, <1>2, <2>3, ReturnMoves DEF SweepEnd, Outcomes
  <2> QED
    BY <2>1, <2>2, <2>3
<1>4. /\ UNCHANGED <<req, run, ledger, child, outside, clocks>>
      /\ faults' \in 0..MaxFaults /\ faults' >= faults
      /\ files' \in [pw : SUBSET Principals, brief : SUBSET Briefs, moxy : SUBSET Briefs,
                     traffic : SUBSET Calls, canary : BOOLEAN, wake : BOOLEAN]
      /\ files'.pw = files.pw /\ files'.canary = files.canary /\ files'.wake = files.wake
  <2>1. CASE SweepChild(x)
    BY <2>1, OutcomeCharges DEF SweepChild, Types, TypeOK
  <2>2. CASE SweepFiles(x)
    <3>1. PICK k \in Write : /\ Outcome(k)
                              /\ files' = [files EXCEPT !.brief = @ \ {req[mem[x].cur].brief},
                                                       !.moxy = @ \ {req[mem[x].cur].brief},
                                                       !.traffic = IF k = "ok" THEN @ \ {mem[x].cur} ELSE @]
      BY <2>2 DEF SweepFiles
    <3>2. faults' \in 0..MaxFaults /\ faults' >= faults
      BY <3>1, OutcomeCharges
    <3>3. files \in [pw : SUBSET Principals, brief : SUBSET Briefs, moxy : SUBSET Briefs,
                     traffic : SUBSET Calls, canary : BOOLEAN, wake : BOOLEAN]
      BY DEF Types, TypeOK
    <3> QED
      BY <2>2, <3>1, <3>2, <3>3 DEF SweepFiles
  <2>3. CASE SweepEnd(x)
    BY <2>3, BoundAssumption DEF SweepEnd, Types, TypeOK
  <2> QED
    BY <2>1, <2>2, <2>3
<1>5. Types' /\ Still /\ Grows(x)
  BY <1>3, <1>4, BoundAssumption DEF Types, TypeOK, Still, Grows, Moved
<1>6. Known(x)'
  <2>1. Role(x)' /\ Started(x)' /\ Member(x)'
    <3>1. unit[x] = "none"
      BY <1>1 DEF Known, Started, Held
    <3> QED
      BY <1>3, <1>4, <3>1 DEF Known, Role, Started, Member, Outcomes, Held, NewHeld, SpawnHeld, ResHeld, AcctHeld, CleanHeld
  <2>2. Copy(x)'
    BY <1>3 DEF Copy, Resolving, ResHeld, AcctHeld
  <2>3. Swept(x)'
    BY <1>1, <1>3, <1>4 DEF Known, Swept, Recorded, Sweeping
  <2> QED
    BY <1>3, <2>1, <2>2, <2>3 DEF Known
<1>7. pc'[x] \notin Held
  BY <1>3 DEF Held, NewHeld, SpawnHeld, ResHeld, AcctHeld, CleanHeld
<1> QED
  BY <1>1, <1>3, <1>4, <1>5, <1>6, <1>7, FreeStep

\* A call is killed: its lock is freed and nothing else changes.
LEMMA CrashKeeps == ASSUME Inv, NEW x \in Calls, Crash(x) PROVE Inv'
<1> USE DEF Inv, Crash, store, outside
<1>1. /\ Moved(x) /\ pc'[x] = "crashed" /\ mem'[x] = Blank /\ lock' = IF lock = x THEN None ELSE lock
  BY ReturnMoves DEF Outcomes
<1>2. pc[x] \notin Outcomes \cup {"idle"}
  BY DEF Active, Ended
<1>3. Grows(x) /\ Types'
  BY <1>1, BoundAssumption DEF Grows, Types, TypeOK, Moved
<1>4. Locks'
  BY <1>1, CallsAssumption DEF Locks, Moved, Held, NewHeld, SpawnHeld, ResHeld, AcctHeld, CleanHeld
<1>5. Shared'
  <2>1. run.job # x
    BY <1>2, CallsAssumption DEF Shared, RunJob, Outcomes
  <2> QED
    BY <1>3, <2>1, SharedKept
<1>6. Posts'
  <2>1. sent.canary \in Nat /\ sent.wake \in Nat /\ faults \in Nat /\ crashes \in Nat /\ crashes' = crashes + 1
    BY DEF Types, TypeOK
  <2> QED
    BY <2>1 DEF Posts, PostedOnce
<1>7. RootKnown'
  BY DEF RootKnown, Types, TypeOK
<1>8. Known(x)' /\ Holding(x)'
  BY <1>1, <1>2, EndKnows DEF Outcomes
<1>9. ASSUME NEW d \in Calls, d # x PROVE Known(d)' /\ Holding(d)'
  BY <1>3, <1>9, OthersKnow, HolderKeeps
<1> QED
  BY <1>3, <1>4, <1>5, <1>6, <1>7, <1>8, <1>9

\* The clock, and a system at rest, change nothing that Inv looks at.
LEMMA IdleKeeps == ASSUME Inv, Tick \/ UNCHANGED vars PROVE Inv'
<1> USE DEF Inv, store, outside, clocks
<1>1. /\ UNCHANGED <<lock, pc, req, undo, mem, run, ledger, child, files, acct, muc, stanza, sent, job,
                     unit, cancelled, faults, crashes>>
      /\ now' \in 0..MaxTime
  BY BoundAssumption DEF Tick, vars, Types, TypeOK
<1>2. Types' /\ Locks' /\ Shared'
  BY <1>1 DEF Types, TypeOK, Locks, Shared, Record, RunJob, OneResolution, Records, Tears, IsGone, RootLast,
     Owed, Recorded
<1>3. Posts' /\ RootKnown'
  BY <1>1 DEF Posts, PostedOnce, RootKnown, Opening
<1>4. ASSUME NEW c \in Calls PROVE Known(c)' /\ Holding(c)'
  BY <1>1 DEF Known, Role, Started, Copy, Swept, Member, Holding, NewHolds, SpawnHolds, ResolveHolds,
     AccountHolds, CleanHolds, Opening, Spawning, Resolving, Cleaning, TearingDown, IsGone, Owed, Recorded
<1> QED
  BY <1>2, <1>3, <1>4

-----------------------------------------------------------------------------
(* A resolve, from its lock to its return.                                 *)

\* A step that changes neither the disk nor anything outside.
LEMMA ControlOnly ==
    ASSUME Inv, NEW x \in Calls, Moved(x), UNCHANGED <<req, store, outside, clocks>>,
           faults' \in 0..MaxFaults, faults' >= faults
    PROVE  Types' /\ Grows(x) /\ Still /\ job' = job /\ unit' = unit
<1> USE DEF store, outside, clocks
<1>1. Types'
  BY DEF Inv, Types, TypeOK, Moved
<1>2. Grows(x)
  BY DEF Grows, Moved
<1>3. Still
  BY BoundAssumption DEF Inv, Types, TypeOK, Still
<1> QED
  BY <1>1, <1>2, <1>3

\* What a resolve at work knows, and that the other verbs' parts are not about it.
LEMMA ResolveAt ==
    ASSUME Inv, NEW x \in Calls, Resolving(x)
    PROVE  /\ req[x].verb = "resolve" /\ req[x].verdict \in Verdicts /\ unit[x] = "none"
           /\ pc[x] \in Held /\ lock = x /\ pc[x] \notin Outcomes \cup {"idle"} /\ ~Opening(x)
           /\ run.job \in Calls /\ run.job # x /\ Copy(x) /\ Holding(x) /\ mem[x] \in Memories
<1>1. pc[x] \in Held /\ pc[x] \notin Outcomes \cup {"idle", "unwind"}
  BY DEF Resolving, Held, ResHeld, AcctHeld, Outcomes
<1>2. req[x].verb = "resolve" /\ Known(x)
  BY DEF Inv, Known, Role, Resolving
<1>3. run.phase = "open" /\ run.job \in Calls /\ pc[run.job] = "done"
  BY <1>2 DEF Known, Copy, Inv, Shared, Record, RunJob, Types, TypeOK
<1>4. pc[x] # "done" /\ ~Opening(x)
  BY <1>1 DEF Outcomes, Opening, Resolving, NewHeld, ResHeld, AcctHeld
<1> QED
  BY <1>1, <1>2, <1>3, <1>4 DEF Known, Role, Started, Inv, Locks, Types

\* A resolve that goes on still knows what it knew, but for its copy of the record.
LEMMA ResolveKnows ==
    ASSUME Inv, NEW x \in Calls, req'[x] = req[x], req[x].verb = "resolve", unit'[x] = unit[x],
           Role(x), Started(x), Resolving(x)', Copy(x)'
    PROVE  Known(x)'
<1>1. Role(x)'
  BY DEF Role, Resolving, NewHeld, SpawnHeld, ResHeld, AcctHeld, CleanHeld
<1>2. Started(x)' /\ Swept(x)' /\ Member(x)' /\ pc'[x] # "new.lock"
  BY DEF Started, Swept, Member, Resolving, ResHeld, AcctHeld, Sweeping, Outcomes
<1> QED
  BY <1>1, <1>2 DEF Known

\* A resolve holds nothing of the other verbs.
LEMMA ResolveHoldsIt ==
    ASSUME NEW x \in Calls, req'[x].verb = "resolve", Resolving(x)', ResolveHolds(x)', AccountHolds(x)'
    PROVE  Holding(x)'
<1>1. ~Opening(x)' /\ ~Spawning(x)' /\ ~Cleaning(x)'
  BY DEF Opening, Spawning, Cleaning, Resolving, NewHeld, SpawnHeld, CleanHeld, ResHeld, AcctHeld
<1> QED
  BY <1>1 DEF Holding, NewHolds, SpawnHolds, CleanHolds

\* A step between two positions of a resolve.
LEMMA ResolveWorks ==
    ASSUME Inv, NEW x \in Calls, Resolving(x), Moved(x), lock' = lock, unit' = unit, Types', Grows(x),
           Shared', Posts', Resolving(x)', Copy(x)', ResolveHolds(x)', AccountHolds(x)'
    PROVE  Inv'
<1>1. req'[x] = req[x] /\ run'.phase = "open"
  BY ResolveAt DEF Grows, Copy
<1>2. Known(x)' /\ Holding(x)'
  BY <1>1, ResolveAt, ResolveKnows, ResolveHoldsIt DEF Inv, Known
<1>3. Locks'
  <2>1. pc'[x] \in Held
    BY DEF Resolving, Held, ResHeld, AcctHeld
  <2> QED
    BY <2>1, LockKept, ResolveAt
<1>4. RootKnown'
  BY <1>1 DEF RootKnown
<1> QED
  BY <1>2, <1>3, <1>4, HolderStep, ResolveAt

\* The last step of a resolve.
LEMMA ResolveEnds ==
    ASSUME Inv, NEW x \in Calls, Resolving(x), NEW o \in {"done", "failed"}, Return(x, o), unit' = unit,
           Types', Grows(x), Shared', Posts'
    PROVE  Inv'
<1>1. /\ Moved(x) /\ pc'[x] = o /\ o \in Outcomes /\ mem'[x] = Blank
      /\ lock' = IF lock = x THEN None ELSE lock
  BY ReturnMoves DEF Inv, Outcomes
<1>2. req'[x] = req[x] /\ run'.phase = "open"
  BY ResolveAt DEF Grows, Copy
<1>3. Known(x)' /\ Holding(x)'
  BY <1>1, <1>2, ResolveAt, EndKnows
<1>4. Locks'
  <2>1. o \notin Held
    BY DEF Held, NewHeld, SpawnHeld, ResHeld, AcctHeld, CleanHeld
  <2> QED
    BY <1>1, <2>1, LockKept, ResolveAt
<1>5. RootKnown'
  BY <1>2 DEF RootKnown
<1> QED
  BY <1>3, <1>4, <1>5, HolderStep, ResolveAt

\* A step between two positions that leaves the record and the accounts alone.
LEMMA ResolveGoes ==
    ASSUME Inv, NEW x \in Calls, Resolving(x), pc[x] \notin {"res.mark", "res.wmark"}, Moved(x), lock' = lock,
           Types', Grows(x), Still, job' = job, unit' = unit,
           Resolving(x)', mem'[x].run = mem[x].run, ResolveHolds(x)', AccountHolds(x)'
    PROVE  Inv'
<1>1. Copy(x)'
  BY ResolveAt DEF Copy, Still, Owed, Recorded
<1>2. Shared'
  BY ResolveAt, SharedKept DEF Still
<1>3. Posts'
  BY PostsKept DEF Still
<1> QED
  BY <1>1, <1>2, <1>3, ResolveWorks

\* A resolve that fails, or has nothing left to do.
LEMMA ResolveReturns ==
    ASSUME Inv, NEW x \in Calls, Resolving(x), pc[x] \notin {"res.mark", "res.wmark"},
           NEW o \in {"done", "failed"}, Return(x, o), UNCHANGED <<req, store, outside, clocks>>,
           faults' \in 0..MaxFaults, faults' >= faults
    PROVE  Inv'
<1>1. Moved(x) /\ o \in Outcomes
  BY ReturnMoves DEF Inv, Outcomes
<1> QED
  BY <1>1, ControlOnly, ResolveAt, HolderReturns

\* What a resolve has in its memory between its steps, when no account is in hand.
LEMMA NoAccount ==
    ASSUME Inv, NEW x \in Calls, Resolving(x), pc'[x] \notin AcctHeld, mem'[x].gone = mem[x].gone, Resolving(x)',
           acct' = acct, \A p \in Calls : job[p] \in Terminal => job'[p] = job[p]
    PROVE  AccountHolds(x)'
<1>1. Holding(x) /\ mem[x] \in Memories
  BY DEF Inv, Types
<1> QED
  BY <1>1 DEF Holding, AccountHolds, AcctHeld, IsGone, Memories, Principals

\* The lock is taken; what to do first depends on the copy of the record and the options.
LEMMA ResolveEnterStep == ASSUME Inv, NEW x \in Calls, ResolveEnter(x) PROVE Inv'
<1> USE DEF Inv
<1> DEFINE s == IF mem[x].run.resolved # None THEN "res.tear"
                ELSE IF req[x].canary THEN "res.canary" ELSE "res.ledger"
<1>1. /\ pc[x] = "res.lock" /\ lock = None /\ lock' = x /\ pc' = [pc EXCEPT ![x] = s]
      /\ UNCHANGED <<undo, mem, req, store, outside, faults, clocks>>
  BY DEF ResolveEnter, At, Acquire
<1>2. s \in PCs /\ s \in ResHeld /\ s \in {"res.tear", "res.canary", "res.ledger"}
  BY DEF PCs, Held, ResHeld
<1>3. pc'[x] = s /\ Moved(x)
  BY <1>1, <1>2 DEF Moved, Types, TypeOK
<1>4. Types' /\ Grows(x) /\ Still /\ job' = job /\ unit' = unit
  BY <1>1, <1>3, BoundAssumption, ControlOnly DEF Types, TypeOK
<1>5. Known(x) /\ Copy(x) /\ Role(x) /\ Started(x) /\ req[x].verb = "resolve" /\ mem[x].gone = {}
  BY <1>1 DEF Known, Role, Holding, AccountHolds, Resolving, Cleaning, ResHeld, AcctHeld, CleanHeld
<1>6. Resolving(x)'
  BY <1>2, <1>3 DEF Resolving
<1>7. Copy(x)'
  BY <1>1, <1>5 DEF Copy, store, Owed, Recorded
<1>8. Known(x)'
  BY <1>1, <1>4, <1>5, <1>6, <1>7, ResolveKnows
<1>9. ResolveHolds(x)' /\ AccountHolds(x)'
  <2>1. s = "res.tear" => run.resolved # None /\ mem[x].run.resolved = run.resolved
    BY <1>1, <1>5 DEF Copy
  <2> QED
    BY <1>1, <1>2, <1>3, <1>5, <2>1 DEF ResolveHolds, AccountHolds, TearingDown, AcctHeld, store
<1>10. Holding(x)'
  BY <1>1, <1>5, <1>6, <1>9, ResolveHoldsIt
<1>11. Locks'
  BY <1>1, <1>2, <1>3, LockKept DEF Held
<1> QED
  BY <1>1, <1>4, <1>8, <1>10, <1>11, HolderMoves DEF Outcomes, Opening, NewHeld

\* The ledger's resolution decides where to go on.
LEMMA ResolveLoadStep == ASSUME Inv, NEW x \in Calls, ResolveLoad(x) PROVE Inv'
<1> USE DEF Inv
<1> DEFINE s == IF ledger.resolved = None THEN "res.stop" ELSE "res.persist"
<1>1. pc[x] = "res.ledger" /\ Goto(x, s) /\ UNCHANGED <<req, store, outside, faults, clocks>>
  BY DEF ResolveLoad, At
<1>2. s \in PCs /\ s \in ResHeld /\ s \in {"res.stop", "res.persist"}
  BY DEF PCs, Held, ResHeld
<1>3. Moved(x) /\ pc'[x] = s /\ mem' = mem /\ lock' = lock
  BY <1>1, <1>2, GotoMoves
<1>4. Resolving(x) /\ Resolving(x)'
  BY <1>1, <1>2, <1>3 DEF Resolving, ResHeld
<1>5. ResolveHolds(x)'
  BY <1>1, <1>2, <1>3 DEF ResolveHolds, TearingDown, AcctHeld, store
<1>6. AccountHolds(x)'
  BY <1>1, <1>2, <1>3, <1>4, NoAccount DEF AcctHeld, outside
<1> QED
  BY <1>1, <1>3, <1>4, <1>5, <1>6, BoundAssumption, ControlOnly, ResolveGoes DEF Types, TypeOK

\* The canary is posted at most once more than its marker says, or a step has failed.
LEMMA ResolveCanaryStep == ASSUME Inv, NEW x \in Calls, ResolveCanary(x) PROVE Inv'
<1> USE DEF Inv
<1>1. /\ pc[x] = "res.canary"
      /\ UNCHANGED <<req, store, acct, muc, stanza, job, unit, cancelled, clocks>>
  BY DEF ResolveCanary, At
<1>2. /\ Resolving(x) /\ "res.ledger" \in PCs /\ "res.note" \in PCs /\ "res.mark" \in PCs
      /\ Blank \in Memories
  BY <1>1, BlankIsMemory DEF Resolving, ResHeld, PCs, Held
<1>3. \/ Goto(x, "res.ledger") /\ UNCHANGED <<sent, faults>>
      \/ Goto(x, "res.note") /\ UNCHANGED <<sent, faults>>
      \/ /\ ~files.canary
         /\ \E k \in Reply : /\ Outcome(k)
                             /\ sent' = IF Took(k) THEN [sent EXCEPT !.canary = @ + 1] ELSE sent
                             /\ Goto(x, IF k = "ok" THEN "res.mark" ELSE "res.note")
  BY DEF ResolveCanary
<1>4. CASE \/ Goto(x, "res.ledger") /\ UNCHANGED <<sent, faults>>
           \/ Goto(x, "res.note") /\ UNCHANGED <<sent, faults>>
  <2>1. Moved(x) /\ pc'[x] \in {"res.ledger", "res.note"} /\ mem' = mem /\ lock' = lock
    BY <1>2, <1>4, GotoMoves
  <2>2. Types' /\ Grows(x) /\ Still /\ job' = job /\ unit' = unit
    BY <1>1, <1>4, <2>1, ControlOnly, BoundAssumption DEF outside, Types, TypeOK
  <2>3. Resolving(x)' /\ ResolveHolds(x)'
    BY <2>1 DEF Resolving, ResHeld, ResolveHolds, TearingDown, AcctHeld
  <2>4. AccountHolds(x)'
    BY <1>1, <1>2, <2>1, <2>3, NoAccount DEF AcctHeld
  <2> QED
    BY <1>1, <1>2, <2>1, <2>2, <2>3, <2>4, ResolveGoes
<1>5. ASSUME ~files.canary, NEW k \in Reply, Outcome(k),
             sent' = IF Took(k) THEN [sent EXCEPT !.canary = @ + 1] ELSE sent,
             Goto(x, IF k = "ok" THEN "res.mark" ELSE "res.note")
      PROVE  Inv'
  <2>1. /\ Moved(x) /\ mem' = mem /\ lock' = lock
        /\ pc'[x] = IF k = "ok" THEN "res.mark" ELSE "res.note"
    BY <1>2, <1>5, GotoMoves
  <2>2. faults' \in 0..MaxFaults /\ (k = "ok" => faults' = faults) /\ (k # "ok" => faults' = faults + 1)
    BY <1>5, OutcomeCharges
  <2>3. /\ sent \in [canary : Nat, wake : Nat] /\ faults \in Nat /\ crashes \in Nat
        /\ sent' \in [canary : Nat, wake : Nat] /\ sent'.wake = sent.wake
        /\ sent'.canary = IF k = "refused" THEN sent.canary ELSE sent.canary + 1
    BY <1>5 DEF Types, TypeOK, Took, Reply
  <2>4. Types' /\ Grows(x)
    BY <1>1, <2>1, <2>2, <2>3 DEF Types, TypeOK, Grows, Moved, store, clocks
  <2>5. Resolving(x)' /\ ResolveHolds(x)'
    BY <1>1, <1>5, <2>1 DEF Resolving, ResHeld, ResolveHolds, TearingDown, AcctHeld, store
  <2>6. AccountHolds(x)'
    BY <1>1, <1>2, <2>1, <2>5, NoAccount DEF AcctHeld
  <2>7. Copy(x)'
    BY <1>1, <1>2, <2>1, ResolveAt DEF Copy, store, Owed, Recorded
  <2>8. Shared'
    BY <1>1, <1>2, <2>3, <2>4, ResolveAt, SharedKept DEF store
  <2>9. Posts'
    <3>1. \A c \in Calls : pc[c] # "res.mark"
      BY <1>1, <1>2, Alone, ResolveAt DEF Held, ResHeld
    <3>2. (\A c \in Calls : pc'[c] # "res.wmark") => \A c \in Calls : pc[c] # "res.wmark"
      BY <1>1, <2>1 DEF Moved
    <3>3. k = "ok" => pc'[x] = "res.mark"
      BY <2>1
    <3> QED
      BY <1>1, <1>5, <2>2, <2>3, <3>1, <3>2, <3>3 DEF Posts, PostedOnce, store, clocks, Reply
  <2> QED
    BY <1>1, <1>2, <2>1, <2>4, <2>5, <2>6, <2>7, <2>8, <2>9, ResolveWorks DEF Moved
<1> QED
  BY <1>3, <1>4, <1>5

\* The canary's marker, or a return that was charged for its failure.
LEMMA ResolveMarkStep == ASSUME Inv, NEW x \in Calls, ResolveMark(x) PROVE Inv'
<1> USE DEF Inv
<1>1. PICK k \in Write : /\ Outcome(k)
                         /\ IF k = "ok" THEN files' = [files EXCEPT !.canary = TRUE] /\ Goto(x, "res.note")
                            ELSE UNCHANGED files /\ Return(x, "failed")
  BY DEF ResolveMark
<1>2. pc[x] = "res.mark" /\ UNCHANGED <<req, run, ledger, child, outside, clocks>>
  BY DEF ResolveMark, At
<1>3. Resolving(x) /\ "res.note" \in PCs /\ "failed" \in Outcomes
  BY <1>2 DEF Resolving, ResHeld, PCs, Held, Outcomes
<1>4. /\ Moved(x)
      /\ k = "ok" => pc'[x] = "res.note" /\ mem'[x] = mem[x] /\ lock' = lock
      /\ k # "ok" => pc'[x] = "failed" /\ mem'[x] = Blank /\ lock' = IF lock = x THEN None ELSE lock
  BY <1>1, <1>3, GotoMoves, ReturnMoves
<1>5. faults' \in 0..MaxFaults /\ (k = "ok" => faults' = faults) /\ (k # "ok" => faults' = faults + 1)
  BY <1>1, OutcomeCharges
<1>6. /\ files' \in [pw : SUBSET Principals, brief : SUBSET Briefs, moxy : SUBSET Briefs,
                     traffic : SUBSET Calls, canary : BOOLEAN, wake : BOOLEAN]
      /\ files'.pw = files.pw /\ files'.wake = files.wake
      /\ k = "ok" => files'.canary = TRUE
      /\ k # "ok" => files' = files
  <2>1. files \in [pw : SUBSET Principals, brief : SUBSET Briefs, moxy : SUBSET Briefs,
                   traffic : SUBSET Calls, canary : BOOLEAN, wake : BOOLEAN]
    BY DEF Types, TypeOK
  <2>2. CASE k = "ok"
    BY <1>1, <2>1, <2>2
  <2>3. CASE k # "ok"
    BY <1>1, <2>1, <2>3
  <2> QED
    BY <2>2, <2>3
<1>7. Types' /\ Grows(x)
  BY <1>2, <1>4, <1>5, <1>6 DEF Types, TypeOK, Grows, Moved, outside, clocks
<1>8. Shared'
  BY <1>2, <1>3, <1>6, <1>7, ResolveAt, SharedKept DEF outside
<1>9. Posts'
  <2>1. (\A c \in Calls : pc'[c] # "res.wmark") => \A c \in Calls : pc[c] # "res.wmark"
    BY <1>2, <1>4 DEF Moved
  <2>2. sent.canary \in Nat /\ sent.wake \in Nat /\ faults \in Nat /\ crashes \in Nat
    BY DEF Types, TypeOK
  <2> QED
    BY <1>2, <1>5, <1>6, <2>1, <2>2 DEF Posts, PostedOnce, outside, clocks
<1>10. CASE k = "ok"
  <2>1. Resolving(x)' /\ ResolveHolds(x)'
    BY <1>4, <1>10 DEF Resolving, ResHeld, ResolveHolds, TearingDown, AcctHeld
  <2>2. Copy(x)'
    BY <1>2, <1>3, <1>4, <1>10, ResolveAt DEF Copy, Owed, Recorded
  <2>3. AccountHolds(x)'
    BY <1>2, <1>3, <1>4, <1>10, <2>1, NoAccount DEF AcctHeld, outside
  <2> QED
    BY <1>2, <1>3, <1>4, <1>7, <1>8, <1>9, <1>10, <2>1, <2>2, <2>3, ResolveWorks DEF outside
<1>11. CASE k # "ok"
  BY <1>1, <1>2, <1>3, <1>7, <1>8, <1>9, <1>11, ResolveEnds DEF outside
<1> QED
  BY <1>10, <1>11

\* The canary's note: no more than a line of the ledger.
LEMMA ResolveNoteStep == ASSUME Inv, NEW x \in Calls, ResolveNote(x) PROVE Inv'
<1> USE DEF Inv
<1>1. PICK k \in Write :
         /\ Outcome(k)
         /\ IF k = "ok" THEN /\ ledger' = IF files.canary THEN [ledger EXCEPT !.canary = @ + 1] ELSE ledger
                             /\ Goto(x, "res.ledger")
            ELSE UNCHANGED ledger /\ Return(x, "failed")
  BY DEF ResolveNote
<1>2. pc[x] = "res.note" /\ UNCHANGED <<req, run, child, files, outside, clocks>>
  BY DEF ResolveNote, At
<1>3. Resolving(x) /\ "res.ledger" \in PCs /\ faults' \in 0..MaxFaults /\ faults' >= faults
  BY <1>1, <1>2, OutcomeCharges DEF Resolving, ResHeld, PCs, Held
<1>4. CASE k = "ok"
  <2>1. Moved(x) /\ pc'[x] = "res.ledger" /\ mem' = mem /\ lock' = lock
    BY <1>1, <1>3, <1>4, GotoMoves
  <2>2. /\ ledger' \in [resolved : Verdicts \cup {None}, fallbacks : Nat, gone : SUBSET Principals,
                        routes : Nat, refusals : Nat, canary : Nat]
        /\ ledger'.resolved = ledger.resolved /\ ledger'.gone = ledger.gone
    BY <1>1, <1>4 DEF Types, TypeOK
  <2>3. Types' /\ Grows(x) /\ Still /\ job' = job /\ unit' = unit
    BY <1>2, <1>3, <2>1, <2>2, BoundAssumption DEF Types, TypeOK, Grows, Still, Moved, outside, clocks
  <2>4. Resolving(x)' /\ ResolveHolds(x)'
    BY <2>1 DEF Resolving, ResHeld, ResolveHolds, TearingDown, AcctHeld
  <2>5. AccountHolds(x)'
    BY <1>2, <1>3, <2>1, <2>4, NoAccount DEF AcctHeld, outside
  <2> QED
    BY <1>2, <1>3, <2>1, <2>3, <2>4, <2>5, ResolveGoes
<1>5. CASE k # "ok"
  BY <1>1, <1>2, <1>3, <1>5, ResolveReturns DEF store
<1> QED
  BY <1>4, <1>5

\* The cancels are asked for; nobody waits for them here.
LEMMA ResolveStopStep == ASSUME Inv, NEW x \in Calls, ResolveStop(x) PROVE Inv'
<1> USE DEF Inv
<1>1. PICK k \in {"ok", "refused"} :
         /\ Outcome(k)
         /\ cancelled' = IF k = "ok" THEN cancelled \cup {p \in Recorded : job[p] = "running"} ELSE cancelled
  BY DEF ResolveStop
<1>2. /\ pc[x] = "res.stop" /\ Goto(x, "res.wait")
      /\ UNCHANGED <<req, store, acct, muc, stanza, sent, job, unit, clocks>>
  BY DEF ResolveStop, At
<1>3. /\ Resolving(x) /\ "res.wait" \in PCs /\ faults' \in 0..MaxFaults /\ faults' >= faults
      /\ cancelled' \subseteq Calls
  BY <1>1, <1>2, OutcomeCharges, RecordedCalls DEF Resolving, ResHeld, PCs, Held, Types, TypeOK
<1>4. Moved(x) /\ pc'[x] = "res.wait" /\ mem' = mem /\ lock' = lock
  BY <1>2, <1>3, GotoMoves
<1>5. Types' /\ Grows(x) /\ Still
  BY <1>2, <1>3, <1>4, BoundAssumption DEF Types, TypeOK, Grows, Still, Moved, store, clocks
<1>6. Resolving(x)' /\ ResolveHolds(x)'
  BY <1>2, <1>3, <1>4, ResolveAt DEF Resolving, ResHeld, Holding, ResolveHolds, TearingDown, AcctHeld, store
<1>7. AccountHolds(x)'
  BY <1>2, <1>3, <1>4, <1>6, NoAccount DEF AcctHeld
<1> QED
  BY <1>2, <1>3, <1>4, <1>5, <1>6, <1>7, ResolveGoes

\* The ledger is resolved, by the only resolve that finds it not so.
LEMMA ResolveWaitStep == ASSUME Inv, NEW x \in Calls, ResolveWait(x) PROVE Inv'
<1> USE DEF Inv
<1>1. PICK k \in Write :
         /\ Outcome(k)
         /\ IF k = "ok" THEN /\ ledger' = [ledger EXCEPT !.resolved = req[x].verdict, !.fallbacks = @ + 1]
                             /\ Goto(x, "res.done")
            ELSE UNCHANGED ledger /\ Return(x, "failed")
  BY DEF ResolveWait
<1>2. pc[x] = "res.wait" /\ UNCHANGED <<req, run, child, files, outside, clocks>>
  BY DEF ResolveWait, At
<1>3. Resolving(x) /\ "res.done" \in PCs /\ faults' \in 0..MaxFaults /\ faults' >= faults
  BY <1>1, <1>2, OutcomeCharges DEF Resolving, ResHeld, PCs, Held
<1>4. CASE k = "ok"
  <2>1. Moved(x) /\ pc'[x] = "res.done" /\ mem' = mem /\ lock' = lock
    BY <1>1, <1>3, <1>4, GotoMoves
  <2>2. /\ ledger' \in [resolved : Verdicts \cup {None}, fallbacks : Nat, gone : SUBSET Principals,
                        routes : Nat, refusals : Nat, canary : Nat]
        /\ ledger'.resolved = req[x].verdict /\ ledger'.gone = ledger.gone
        /\ ledger.resolved = None /\ ledger'.resolved # None
    <3>1. ledger.resolved = None
      BY <1>2, <1>3, ResolveAt DEF Holding, ResolveHolds
    <3>2. req[x].verdict \in Verdicts /\ req[x].verdict # None
      BY <1>3, ResolveAt, CallsAssumption
    <3>3. ledger' = [ledger EXCEPT !.resolved = req[x].verdict, !.fallbacks = @ + 1]
      BY <1>1, <1>4
    <3>4. ledger \in [resolved : Verdicts \cup {None}, fallbacks : Nat, gone : SUBSET Principals,
                      routes : Nat, refusals : Nat, canary : Nat]
      BY DEF Types, TypeOK
    <3>5. ledger'.resolved = req[x].verdict /\ ledger'.gone = ledger.gone
      BY <3>3, <3>4
    <3>6. /\ ledger.fallbacks + 1 \in Nat /\ ledger.gone \in SUBSET Principals
          /\ ledger.routes \in Nat /\ ledger.refusals \in Nat /\ ledger.canary \in Nat
      BY <3>4
    <3>7. ledger' = [resolved |-> req[x].verdict, fallbacks |-> ledger.fallbacks + 1, gone |-> ledger.gone,
                     routes |-> ledger.routes, refusals |-> ledger.refusals, canary |-> ledger.canary]
      BY <3>3, <3>4
    <3> QED
      BY <3>1, <3>2, <3>5, <3>6, <3>7
  <2>3. Types' /\ Grows(x)
    BY <1>2, <1>3, <2>1, <2>2, BoundAssumption DEF Types, TypeOK, Grows, Moved, outside, clocks
  <2>4. Shared'
    <3>1. run.resolved = None /\ run.phase = "open" /\ run.job # None
      BY <1>3, <2>2, ResolveAt DEF Shared, OneResolution, Copy, Record
    <3>2. job[run.job] = "running"
      BY <2>2, <3>1 DEF Shared, RunJob
    <3> QED
      BY <1>2, <2>1, <2>2, <3>1, <3>2, ResolveAt, <1>3 DEF Shared, Record, RunJob, OneResolution, Records, Tears,
         IsGone, RootLast, Owed, Recorded, outside, Moved
  <2>5. Posts'
    BY <1>2, <1>3, <2>3, PostsKept, BoundAssumption DEF outside, clocks, Types, TypeOK
  <2>6. Resolving(x)' /\ ResolveHolds(x)'
    BY <2>1, <2>2 DEF Resolving, ResHeld, ResolveHolds, TearingDown, AcctHeld
  <2>7. Copy(x)'
    BY <1>2, <1>3, <2>1, <2>2, ResolveAt DEF Copy, Owed, Recorded
  <2>8. AccountHolds(x)'
    BY <1>2, <1>3, <2>1, <2>6, NoAccount DEF AcctHeld, outside
  <2> QED
    BY <1>2, <1>3, <2>1, <2>3, <2>4, <2>5, <2>6, <2>7, <2>8, ResolveWorks DEF outside
<1>5. CASE k # "ok"
  BY <1>1, <1>2, <1>3, <1>5, ResolveReturns DEF store
<1> QED
  BY <1>4, <1>5

\* A ledger that was resolved already is written back as it is.
LEMMA ResolvePersistStep == ASSUME Inv, NEW x \in Calls, ResolvePersist(x) PROVE Inv'
<1> USE DEF Inv
<1>1. PICK k \in Write : Outcome(k) /\ IF k = "ok" THEN Goto(x, "res.done") ELSE Return(x, "failed")
  BY DEF ResolvePersist
<1>2. pc[x] = "res.persist" /\ UNCHANGED <<req, store, outside, clocks>>
  BY DEF ResolvePersist, At
<1>3. Resolving(x) /\ "res.done" \in PCs /\ faults' \in 0..MaxFaults /\ faults' >= faults
  BY <1>1, <1>2, OutcomeCharges DEF Resolving, ResHeld, PCs, Held
<1>4. CASE k = "ok"
  <2>1. Moved(x) /\ pc'[x] = "res.done" /\ mem' = mem /\ lock' = lock
    BY <1>1, <1>3, <1>4, GotoMoves
  <2>2. Resolving(x)' /\ ResolveHolds(x)'
    BY <1>2, <1>3, <2>1, ResolveAt DEF Resolving, ResHeld, Holding, ResolveHolds, TearingDown, AcctHeld, store
  <2>3. AccountHolds(x)'
    BY <1>2, <1>3, <2>1, <2>2, NoAccount DEF AcctHeld, outside
  <2> QED
    BY <1>2, <1>3, <2>1, <2>2, <2>3, ControlOnly, ResolveGoes
<1>5. CASE k # "ok"
  BY <1>1, <1>2, <1>3, <1>5, ResolveReturns
<1> QED
  BY <1>4, <1>5

\* The run job is ended with the ledger's resolution, unless it has ended.
LEMMA ResolveDoneStep == ASSUME Inv, NEW x \in Calls, ResolveDone(x) PROVE Inv'
<1> USE DEF Inv
<1>1. /\ pc[x] = "res.done" /\ Goto(x, "res.read")
      /\ UNCHANGED <<req, store, acct, muc, stanza, sent, unit, cancelled, clocks>>
  BY DEF ResolveDone, At
<1>2. /\ Resolving(x) /\ "res.read" \in PCs
      /\ \E k \in Reply : Outcome(k)
  BY <1>1 DEF Resolving, ResHeld, PCs, Held, ResolveDone
<1>3. /\ faults' \in 0..MaxFaults /\ faults' >= faults
      /\ run.job \in Calls /\ run.job # x /\ mem[x].run.job = run.job /\ ledger.resolved # None
      /\ ledger.resolved \in Verdicts /\ run.phase = "open"
  BY <1>1, <1>2, OutcomeCharges, ResolveAt DEF Copy, Holding, ResolveHolds, Types, TypeOK
<1>4. \/ job' = job
      \/ job[run.job] = "running" /\ job' = [job EXCEPT ![run.job] = ledger.resolved]
  BY <1>3 DEF ResolveDone, Resolution
<1>5. ledger.resolved \in Terminal
  BY <1>3 DEF Verdicts, Terminal
<1>6. Moved(x) /\ pc'[x] = "res.read" /\ mem' = mem /\ lock' = lock
  BY <1>1, <1>2, GotoMoves
<1>7. /\ job' \in [Calls -> {"none", "running"} \cup Terminal]
      /\ \A d \in Calls : job'[d] = job[d] \/ (job[d] = "running" /\ job'[d] \in Terminal)
      /\ \A d \in Calls : job[d] \in Terminal => job'[d] = job[d]
      /\ job'[x] = job[x]
      /\ job'[run.job] = ledger.resolved \/ job' = job
  BY <1>3, <1>4, <1>5 DEF Types, TypeOK, Terminal
<1>8. Types' /\ Grows(x)
  BY <1>1, <1>3, <1>6, <1>7, BoundAssumption DEF Types, TypeOK, Grows, Moved, store, clocks
<1>9. Shared'
  <2>1. Record' /\ Records' /\ RunJob'
    BY <1>1, <1>3, <1>6, <1>7 DEF Shared, Record, Records, RunJob, store, Moved
  <2>2. OneResolution'
    BY <1>1, <1>3, <1>4, <1>5, <1>7 DEF Shared, OneResolution, store, Terminal
  <2>3. Tears'
    BY <1>1, <1>7 DEF Shared, Tears, IsGone, RootLast, Owed, Recorded, store
  <2> QED
    BY <2>1, <2>2, <2>3 DEF Shared
<1>10. Posts'
  BY <1>1, <1>3, <1>8, PostsKept, BoundAssumption DEF store, clocks, Types, TypeOK
<1>11. Resolving(x)' /\ ResolveHolds(x)'
  BY <1>1, <1>3, <1>6 DEF store, Resolving, ResHeld, ResolveHolds, TearingDown, AcctHeld
<1>12. Copy(x)' /\ AccountHolds(x)'
  BY <1>1, <1>2, <1>6, <1>7, <1>11, ResolveAt, NoAccount DEF Copy, Owed, Recorded, AcctHeld, store
<1> QED
  BY <1>1, <1>2, <1>6, <1>8, <1>9, <1>10, <1>11, <1>12, ResolveWorks

\* The journal is believed: a run job that has ended has ended as the ledger says.
LEMMA ResolveReadStep == ASSUME Inv, NEW x \in Calls, ResolveRead(x) PROVE Inv'
<1> USE DEF Inv
<1>1. PICK k \in {"ok", "refused"} :
         Outcome(k) /\ IF k = "ok" /\ job[mem[x].run.job] \in Terminal THEN Goto(x, "res.wake")
                       ELSE Return(x, "failed")
  BY DEF ResolveRead
<1>2. pc[x] = "res.read" /\ UNCHANGED <<req, store, outside, clocks>>
  BY DEF ResolveRead, At
<1>3. Resolving(x) /\ "res.wake" \in PCs /\ faults' \in 0..MaxFaults /\ faults' >= faults
  BY <1>1, <1>2, OutcomeCharges DEF Resolving, ResHeld, PCs, Held
<1>4. CASE k = "ok" /\ job[mem[x].run.job] \in Terminal
  <2>1. Moved(x) /\ pc'[x] = "res.wake" /\ mem' = mem /\ lock' = lock
    BY <1>1, <1>3, <1>4, GotoMoves
  <2>2. job[run.job] = ledger.resolved /\ ledger.resolved # None
    <3>1. job[run.job] # "running" /\ run.job # None
      BY <1>3, <1>4, ResolveAt, CallsAssumption DEF Copy, Terminal
    <3> QED
      BY <3>1 DEF Shared, RunJob
  <2>3. Resolving(x)' /\ ResolveHolds(x)'
    BY <1>2, <2>1, <2>2 DEF Resolving, ResHeld, ResolveHolds, TearingDown, AcctHeld, store, outside
  <2>4. AccountHolds(x)'
    BY <1>2, <1>3, <2>1, <2>3, NoAccount DEF AcctHeld, outside
  <2> QED
    BY <1>2, <1>3, <2>1, <2>3, <2>4, ControlOnly, ResolveGoes
<1>5. CASE ~(k = "ok" /\ job[mem[x].run.job] \in Terminal)
  BY <1>1, <1>2, <1>3, <1>5, ResolveReturns
<1> QED
  BY <1>4, <1>5

\* The wake is sent at most once more than its marker says, or a step has failed.
LEMMA ResolveWakeStep == ASSUME Inv, NEW x \in Calls, ResolveWake(x) PROVE Inv'
<1> USE DEF Inv
<1>1. /\ pc[x] = "res.wake"
      /\ UNCHANGED <<req, store, acct, muc, stanza, job, unit, cancelled, clocks>>
  BY DEF ResolveWake, At
<1>2. /\ Resolving(x) /\ "res.save" \in PCs /\ "res.wmark" \in PCs
      /\ ledger.resolved # None /\ job[run.job] = ledger.resolved
  <2>1. Resolving(x) /\ "res.save" \in PCs /\ "res.wmark" \in PCs
    BY <1>1 DEF Resolving, ResHeld, PCs, Held
  <2> QED
    BY <1>1, <2>1, ResolveAt DEF Holding, ResolveHolds
<1>3. CASE files.wake
  <2>1. Goto(x, "res.save") /\ UNCHANGED <<sent, faults>>
    BY <1>3 DEF ResolveWake, Woken
  <2>2. Moved(x) /\ pc'[x] = "res.save" /\ mem' = mem /\ lock' = lock
    BY <1>2, <2>1, GotoMoves
  <2>3. Types' /\ Grows(x) /\ Still /\ job' = job /\ unit' = unit
    BY <1>1, <2>1, <2>2, ControlOnly, BoundAssumption DEF outside, Types, TypeOK
  <2>4. Resolving(x)' /\ ResolveHolds(x)'
    BY <1>1, <1>2, <1>3, <2>2 DEF Resolving, ResHeld, ResolveHolds, TearingDown, AcctHeld, store
  <2>5. AccountHolds(x)'
    BY <1>1, <1>2, <2>2, <2>4, NoAccount DEF AcctHeld
  <2> QED
    BY <1>1, <1>2, <2>2, <2>3, <2>4, <2>5, ResolveGoes
<1>4. CASE ~files.wake
  <2>1. PICK k \in Reply : /\ Outcome(k)
                           /\ sent' = IF Took(k) THEN [sent EXCEPT !.wake = @ + 1] ELSE sent
                           /\ IF k = "ok" THEN Goto(x, "res.wmark") ELSE Return(x, "failed")
    BY <1>4 DEF ResolveWake, Woken
  <2>2. faults' \in 0..MaxFaults /\ (k = "ok" => faults' = faults) /\ (k # "ok" => faults' = faults + 1)
    BY <2>1, OutcomeCharges
  <2>3. /\ sent \in [canary : Nat, wake : Nat] /\ faults \in Nat /\ crashes \in Nat
        /\ sent' \in [canary : Nat, wake : Nat] /\ sent'.canary = sent.canary
        /\ sent'.wake = IF k = "refused" THEN sent.wake ELSE sent.wake + 1
    BY <2>1 DEF Types, TypeOK, Took, Reply
  <2>4. "failed" \in Outcomes
    BY DEF Outcomes
  <2>5. /\ Moved(x)
        /\ k = "ok" => pc'[x] = "res.wmark" /\ mem'[x] = mem[x] /\ lock' = lock
        /\ k # "ok" => pc'[x] = "failed"
    BY <1>2, <2>1, <2>4, GotoMoves, ReturnMoves
  <2>6. Types' /\ Grows(x)
    BY <1>1, <2>2, <2>3, <2>5 DEF Types, TypeOK, Grows, Moved, store, clocks
  <2>7. Shared'
    BY <1>1, <1>2, <2>3, <2>6, ResolveAt, SharedKept DEF store
  <2>8. Posts'
    <3>1. \A c \in Calls : pc[c] # "res.wmark"
      BY <1>1, <1>2, Alone, ResolveAt DEF Held, ResHeld
    <3>2. (\A c \in Calls : pc'[c] # "res.mark") => \A c \in Calls : pc[c] # "res.mark"
      BY <1>1, <2>5 DEF Moved
    <3>3. k = "ok" => pc'[x] = "res.wmark"
      BY <2>5
    <3> QED
      BY <1>1, <1>4, <2>2, <2>3, <3>1, <3>2, <3>3 DEF Posts, PostedOnce, store, clocks, Reply
  <2>9. CASE k = "ok"
    <3>1. sent'.wake > 0
      BY <2>3, <2>9
    <3>2. Resolving(x)'
      BY <2>5, <2>9 DEF Resolving, ResHeld
    <3>3. ResolveHolds(x)'
      <4>1. /\ pc'[x] = "res.wmark" /\ ~files'.wake
            /\ ledger'.resolved # None /\ job'[run'.job] = ledger'.resolved
        BY <1>1, <1>2, <1>4, <2>5, <2>9 DEF store
      <4> QED
        BY <3>1, <4>1 DEF ResolveHolds, TearingDown, AcctHeld
    <3>4. Copy(x)' /\ AccountHolds(x)'
      BY <1>1, <1>2, <2>5, <2>9, <3>2, ResolveAt, NoAccount DEF Copy, Owed, Recorded, AcctHeld, store
    <3> QED
      BY <1>1, <1>2, <2>5, <2>6, <2>7, <2>8, <2>9, <3>2, <3>3, <3>4, ResolveWorks
  <2>10. CASE k # "ok"
    BY <1>1, <1>2, <2>1, <2>6, <2>7, <2>8, <2>10, ResolveEnds
  <2> QED
    BY <2>9, <2>10
<1> QED
  BY <1>3, <1>4

\* The wake's marker, or a return that was charged for its failure.
LEMMA ResolveWakeMarkStep == ASSUME Inv, NEW x \in Calls, ResolveWakeMark(x) PROVE Inv'
<1> USE DEF Inv
<1>1. PICK k \in Write : /\ Outcome(k)
                         /\ IF k = "ok" THEN files' = [files EXCEPT !.wake = TRUE] /\ Goto(x, "res.save")
                            ELSE UNCHANGED files /\ Return(x, "failed")
  BY DEF ResolveWakeMark
<1>2. pc[x] = "res.wmark" /\ UNCHANGED <<req, run, ledger, child, outside, clocks>>
  BY DEF ResolveWakeMark, At
<1>3. Resolving(x) /\ "res.save" \in PCs /\ "failed" \in Outcomes
  BY <1>2 DEF Resolving, ResHeld, PCs, Held, Outcomes
<1>4. /\ Moved(x)
      /\ k = "ok" => pc'[x] = "res.save" /\ mem'[x] = mem[x] /\ lock' = lock
      /\ k # "ok" => pc'[x] = "failed"
  BY <1>1, <1>3, GotoMoves, ReturnMoves
<1>5. faults' \in 0..MaxFaults /\ (k = "ok" => faults' = faults) /\ (k # "ok" => faults' = faults + 1)
  BY <1>1, OutcomeCharges
<1>6. /\ files' \in [pw : SUBSET Principals, brief : SUBSET Briefs, moxy : SUBSET Briefs,
                     traffic : SUBSET Calls, canary : BOOLEAN, wake : BOOLEAN]
      /\ files'.pw = files.pw /\ files'.canary = files.canary
      /\ k = "ok" => files'.wake = TRUE
      /\ k # "ok" => files' = files
  <2>1. files \in [pw : SUBSET Principals, brief : SUBSET Briefs, moxy : SUBSET Briefs,
                   traffic : SUBSET Calls, canary : BOOLEAN, wake : BOOLEAN]
    BY DEF Types, TypeOK
  <2>2. CASE k = "ok"
    BY <1>1, <2>1, <2>2
  <2>3. CASE k # "ok"
    BY <1>1, <2>1, <2>3
  <2> QED
    BY <2>2, <2>3
<1>7. Types' /\ Grows(x)
  BY <1>2, <1>4, <1>5, <1>6 DEF Types, TypeOK, Grows, Moved, outside, clocks
<1>8. ~files.wake /\ sent.wake > 0 /\ ledger.resolved # None /\ job[run.job] = ledger.resolved
  BY <1>2, <1>3, ResolveAt DEF Holding, ResolveHolds
<1>9. run.resolved = None
  BY <1>8 DEF Shared, OneResolution
<1>10. Shared'
  <2>1. Record' /\ Records' /\ RunJob' /\ OneResolution'
    BY <1>2, <1>3, <1>4, <1>9, ResolveAt DEF Shared, Record, Records, RunJob, OneResolution, outside, Moved
  <2>2. Tears'
    BY <1>2, <1>6 DEF Shared, Tears, IsGone, RootLast, Owed, Recorded, outside
  <2> QED
    BY <2>1, <2>2 DEF Shared
<1>11. Posts'
  <2>1. (\A c \in Calls : pc'[c] # "res.mark") => \A c \in Calls : pc[c] # "res.mark"
    BY <1>2, <1>4 DEF Moved
  <2>2. sent.canary \in Nat /\ sent.wake \in Nat /\ faults \in Nat /\ crashes \in Nat
    BY DEF Types, TypeOK
  <2> QED
    BY <1>2, <1>5, <1>6, <1>8, <2>1, <2>2 DEF Posts, PostedOnce, outside, clocks
<1>12. CASE k = "ok"
  <2>1. Resolving(x)' /\ ResolveHolds(x)'
    BY <1>2, <1>4, <1>6, <1>8, <1>12 DEF Resolving, ResHeld, ResolveHolds, TearingDown, AcctHeld, outside
  <2>2. Copy(x)' /\ AccountHolds(x)'
    BY <1>2, <1>3, <1>4, <1>12, <2>1, ResolveAt, NoAccount DEF Copy, Owed, Recorded, AcctHeld, outside
  <2> QED
    BY <1>2, <1>3, <1>4, <1>7, <1>10, <1>11, <1>12, <2>1, <2>2, ResolveWorks DEF outside
<1>13. CASE k # "ok"
  BY <1>1, <1>2, <1>3, <1>7, <1>10, <1>11, <1>13, ResolveEnds DEF outside
<1> QED
  BY <1>12, <1>13

\* The copy of the record goes back to the disk, with the ledger's resolution.
LEMMA ResolveSaveStep == ASSUME Inv, NEW x \in Calls, ResolveSave(x) PROVE Inv'
<1> USE DEF Inv
<1> DEFINE resolved == [mem[x].run EXCEPT !.resolved = ledger.resolved]
<1> DEFINE m == [mem[x] EXCEPT !.run = resolved]
<1>1. PICK k \in Write : /\ Outcome(k)
                         /\ IF k = "ok" THEN run' = resolved /\ Remember(x, "res.tear", m)
                            ELSE UNCHANGED run /\ Return(x, "failed")
  BY DEF ResolveSave, Resolution
<1>2. pc[x] = "res.save" /\ UNCHANGED <<req, ledger, child, files, outside, clocks>>
  BY DEF ResolveSave, At
<1>3. Resolving(x) /\ "res.tear" \in PCs /\ faults' \in 0..MaxFaults /\ faults' >= faults
  BY <1>1, <1>2, OutcomeCharges DEF Resolving, ResHeld, PCs, Held
<1>4. CASE k = "ok"
  <2>1. /\ mem[x] \in Memories /\ ledger.resolved # None /\ job[run.job] = ledger.resolved /\ files.wake
        /\ ledger.resolved \in Verdicts \cup {None}
    BY <1>2, <1>3, ResolveAt DEF Holding, ResolveHolds, Types, TypeOK
  <2>2. Copy(x) /\ run.phase = "open"
    BY <1>3, ResolveAt DEF Copy
  <2>3. /\ resolved \in RunRecords /\ resolved.phase = "open" /\ resolved.job = run.job /\ resolved.room = run.room
        /\ resolved.resolved = ledger.resolved /\ (resolved.tornDown => Owed \subseteq ledger.gone)
    BY <1>3, <2>1, <2>2 DEF Memories, RunRecords, Copy
  <2>4. m \in Memories /\ m.run = resolved /\ m.gone = mem[x].gone
    BY <2>1, <2>3 DEF Memories
  <2> HIDE DEF resolved, m
  <2>5. Moved(x) /\ pc'[x] = "res.tear" /\ mem'[x] = m /\ lock' = lock /\ run' = resolved
    BY <1>1, <1>3, <1>4, <2>4, RememberMoves
  <2>6. run.resolved # None => run.resolved = ledger.resolved
    BY DEF Shared, OneResolution
  <2>7. Types' /\ Grows(x)
    BY <1>2, <1>3, <2>2, <2>3, <2>5, <2>6, BoundAssumption DEF Types, TypeOK, Grows, RunRecords, Moved, outside, clocks
  <2>8. Shared'
    <3>1. run.job # x /\ run.job # None /\ run.room = OwnRoom /\ sent.wake > 0
      BY <1>3, <2>1, <2>2, ResolveAt, CallsAssumption DEF Shared, Record, Posts
    <3>2. Record' /\ Records'
      BY <1>2, <2>1, <2>2, <2>3, <2>5, <3>1 DEF Shared, Record, Records
    <3>4. RunJob' /\ OneResolution'
      BY <1>2, <2>1, <2>3, <2>5, <3>1 DEF Shared, Record, RunJob, OneResolution, Types, TypeOK, outside, Moved
    <3>3. Tears'
      BY <1>2, <2>1, <2>3, <2>5 DEF Shared, Tears, IsGone, RootLast, Owed, Recorded, outside
    <3> QED
      BY <3>2, <3>3, <3>4 DEF Shared
  <2>9. Posts'
    BY <1>2, <1>3, <2>7, PostsKept, BoundAssumption DEF outside, clocks, Types, TypeOK
  <2>10. Resolving(x)' /\ ResolveHolds(x)'
    BY <2>1, <2>3, <2>4, <2>5 DEF Resolving, ResHeld, ResolveHolds, TearingDown, AcctHeld
  <2>11. Copy(x)' /\ AccountHolds(x)'
    <3>1. AccountHolds(x)'
      BY <1>2, <1>3, <2>4, <2>5, <2>10, NoAccount DEF AcctHeld, outside
    <3>2. Owed' = Owed
      BY <1>2 DEF Owed, Recorded
    <3>3. Copy(x)'
      BY <1>2, <2>1, <2>3, <2>4, <2>5, <3>2 DEF Copy
    <3> QED
      BY <3>1, <3>3
  <2> QED
    BY <1>2, <1>3, <2>5, <2>7, <2>8, <2>9, <2>10, <2>11, ResolveWorks DEF outside
<1>5. CASE k # "ok"
  BY <1>1, <1>2, <1>3, <1>5, ResolveReturns DEF store
<1> QED
  BY <1>4, <1>5

-----------------------------------------------------------------------------
(* The teardown of the accounts, by a resolve.                             *)

\* Tearing down, a resolve finds its copy of the record resolved.
LEMMA TearingAt ==
    ASSUME Inv, NEW x \in Calls, TearingDown(x)
    PROVE  /\ Resolving(x) /\ run.resolved # None /\ mem[x].run.resolved = run.resolved
           /\ pc[x] \notin {"res.mark", "res.wmark"}
<1>1. Resolving(x)
  BY DEF TearingDown, Resolving, ResHeld
<1>2. run.resolved # None /\ mem[x].run.resolved = run.resolved
  BY <1>1, ResolveAt DEF Holding, ResolveHolds
<1> QED
  BY <1>1, <1>2 DEF TearingDown, AcctHeld

\* Taking up an account, on the way to drop its affiliation or to revoke it.
LEMMA TakeUpMoves ==
    ASSUME Types, NEW x \in Calls, NEW p \in Principals, NEW m \in Memories, NEW r, TakeUp(x, p, m, r)
    PROVE  /\ Moved(x) /\ pc'[x] \in {"acct.affil", "acct.revoke"} /\ lock' = lock
           /\ mem'[x].run = m.run /\ mem'[x].gone = m.gone /\ mem'[x].cur = p
<1> DEFINE mp == [m EXCEPT !.cur = p]
<1> DEFINE s == IF r THEN "acct.affil" ELSE "acct.revoke"
<1>1. mp \in Memories /\ mp.run = m.run /\ mp.gone = m.gone /\ mp.cur = p
  BY DEF Memories
<1>2. s \in PCs /\ s \in {"acct.affil", "acct.revoke"} /\ Remember(x, s, mp)
  BY DEF TakeUp, PCs, Held, AcctHeld
<1> HIDE DEF mp, s
<1> QED
  BY <1>1, <1>2, RememberMoves

\* The teardown starts: what it owes is what the ledger does not have.
LEMMA ResolveTearStep == ASSUME Inv, NEW x \in Calls, ResolveTear(x) PROVE Inv'
<1> USE DEF Inv
<1> DEFINE m == [mem[x] EXCEPT !.todo = Recorded \ ledger.gone]
<1>1. /\ pc[x] = "res.tear" /\ UNCHANGED <<req, store, outside, faults, clocks>>
      /\ Return(x, "done") \/ Remember(x, "res.child", m)
  BY DEF ResolveTear, At
<1>2. /\ TearingDown(x) /\ "res.child" \in PCs
      /\ faults' \in 0..MaxFaults /\ faults' >= faults
  BY <1>1, BoundAssumption DEF TearingDown, ResHeld, PCs, Held, Types, TypeOK
<1>3. m \in Memories /\ m.run = mem[x].run /\ m.gone = mem[x].gone
  BY RecordedCalls DEF Types, Memories
<1> HIDE DEF m
<1>4. CASE Return(x, "done")
  BY <1>1, <1>2, <1>4, TearingAt, ResolveReturns
<1>5. CASE Remember(x, "res.child", m)
  <2>1. Moved(x) /\ pc'[x] = "res.child" /\ mem'[x] = m /\ lock' = lock
    BY <1>2, <1>3, <1>5, RememberMoves
  <2>2. Resolving(x)' /\ ResolveHolds(x)'
    BY <1>1, <1>2, <1>3, <2>1, TearingAt DEF Resolving, ResHeld, ResolveHolds, TearingDown, store
  <2>3. AccountHolds(x)'
    BY <1>1, <1>2, <1>3, <2>1, <2>2, TearingAt, NoAccount DEF AcctHeld, outside
  <2> QED
    BY <1>1, <1>2, <1>3, <2>1, <2>2, <2>3, TearingAt, ControlOnly, ResolveGoes
<1> QED
  BY <1>1, <1>4, <1>5

\* One account is taken up, with what the next steps may rely on.
LEMMA ResolveTakes ==
    ASSUME Inv, NEW x \in Calls, TearingDown(x), NEW p \in Principals, NEW m \in Memories, NEW r,
           TakeUp(x, p, m, r), m.run = mem[x].run, m.gone = mem[x].gone,
           p \in Calls => job[p] \in Terminal, p = Root => Recorded \subseteq ledger.gone \cup mem[x].gone,
           UNCHANGED <<req, store, outside, clocks>>, faults' \in 0..MaxFaults, faults' >= faults
    PROVE  Inv'
<1> USE DEF Inv
<1>1. /\ Moved(x) /\ pc'[x] \in {"acct.affil", "acct.revoke"} /\ lock' = lock
      /\ mem'[x].run = mem[x].run /\ mem'[x].gone = mem[x].gone /\ mem'[x].cur = p
  BY TakeUpMoves
<1>2. req[x].verb = "resolve" /\ req' = req /\ Holding(x) /\ mem[x] \in Memories
  BY TearingAt, ResolveAt
<1>3. Resolving(x)' /\ ResolveHolds(x)'
  BY <1>1, <1>2, TearingAt DEF Resolving, ResolveHolds, AcctHeld, store
<1>4. AccountHolds(x)'
  <2>1. \A q \in mem'[x].gone : IsGone(q)'
    BY <1>1, <1>2 DEF Holding, AccountHolds, IsGone, outside
  <2> QED
    BY <1>1, <1>2, <1>3, <2>1 DEF AccountHolds, AcctHeld, Recorded, store, outside
<1> QED
  BY <1>1, <1>3, <1>4, TearingAt, ControlOnly, ResolveGoes

\* A child is taken up only if its job has ended.
LEMMA ResolveChildStep == ASSUME Inv, NEW x \in Calls, ResolveChild(x) PROVE Inv'
<1> USE DEF Inv
<1>1. pc[x] = "res.child" /\ UNCHANGED <<req, store, outside, clocks>>
  BY DEF ResolveChild, At
<1>2. PICK p \in mem[x].todo, k \in {"ok", "refused"} :
         LET m == [mem[x] EXCEPT !.todo = @ \ {p}] IN
         /\ Outcome(k)
         /\ IF k = "ok" /\ Deletable(p) THEN TakeUp(x, p, m, mem[x].run.room) ELSE Remember(x, "res.child", m)
  BY DEF ResolveChild
<1> DEFINE m == [mem[x] EXCEPT !.todo = @ \ {p}]
<1>3. /\ TearingDown(x) /\ "res.child" \in PCs /\ faults' \in 0..MaxFaults /\ faults' >= faults
  BY <1>1, <1>2, OutcomeCharges DEF TearingDown, PCs, Held, ResHeld
<1>4. m \in Memories /\ m.run = mem[x].run /\ m.gone = mem[x].gone /\ p \in Calls
  BY <1>2 DEF Types, Memories
<1>5. CASE k = "ok" /\ Deletable(p)
  <2>1. TakeUp(x, p, m, mem[x].run.room)
    BY <1>2, <1>5
  <2>2. p \in Principals /\ p # Root /\ job[p] \in Terminal
    BY <1>4, <1>5, CallsAssumption DEF Principals, Deletable
  <2> HIDE DEF m
  <2> QED
    BY <1>1, <1>3, <1>4, <2>1, <2>2, ResolveTakes
<1>6. CASE ~(k = "ok" /\ Deletable(p))
  <2>1. Remember(x, "res.child", m)
    BY <1>2, <1>6
  <2> HIDE DEF m
  <2>2. Moved(x) /\ pc'[x] = "res.child" /\ mem'[x] = m /\ lock' = lock
    BY <1>3, <1>4, <2>1, RememberMoves
  <2>3. Resolving(x)' /\ ResolveHolds(x)'
    BY <1>1, <1>3, <1>4, <2>2, TearingAt DEF Resolving, ResHeld, ResolveHolds, TearingDown, store
  <2>4. AccountHolds(x)'
    BY <1>1, <1>3, <1>4, <2>2, <2>3, TearingAt, NoAccount DEF AcctHeld, outside
  <2> QED
    BY <1>1, <1>3, <1>4, <2>2, <2>3, <2>4, TearingAt, ControlOnly, ResolveGoes
<1> QED
  BY <1>5, <1>6

\* The root is taken up when every recorded child is gone.
LEMMA ResolveRootStep == ASSUME Inv, NEW x \in Calls, ResolveRoot(x) PROVE Inv'
<1> USE DEF Inv
<1>1. /\ pc[x] = "res.child" /\ UNCHANGED <<req, store, outside, faults, clocks>>
      /\ IF Root \notin ledger.gone /\ ChildrenGone(x) THEN TakeUp(x, Root, mem[x], mem[x].run.room)
         ELSE Goto(x, "res.entries")
  BY DEF ResolveRoot, At
<1>2. /\ TearingDown(x) /\ "res.entries" \in PCs /\ mem[x] \in Memories /\ Root \in Principals /\ Root \notin Calls
      /\ faults' \in 0..MaxFaults /\ faults' >= faults
  BY <1>1, BoundAssumption, CallsAssumption DEF TearingDown, ResHeld, PCs, Held, Types, TypeOK, Principals
<1>3. CASE Root \notin ledger.gone /\ ChildrenGone(x)
  BY <1>1, <1>2, <1>3, ResolveTakes DEF ChildrenGone
<1>4. CASE ~(Root \notin ledger.gone /\ ChildrenGone(x))
  <2>1. Moved(x) /\ pc'[x] = "res.entries" /\ mem' = mem /\ lock' = lock
    BY <1>1, <1>2, <1>4, GotoMoves
  <2>2. Resolving(x)' /\ ResolveHolds(x)'
    BY <1>1, <1>2, <2>1, TearingAt DEF Resolving, ResHeld, ResolveHolds, TearingDown, store
  <2>3. AccountHolds(x)'
    BY <1>1, <1>2, <2>1, <2>2, TearingAt, NoAccount DEF AcctHeld, outside
  <2> QED
    BY <1>1, <1>2, <2>1, <2>2, <2>3, TearingAt, ControlOnly, ResolveGoes
<1> QED
  BY <1>3, <1>4

\* The entries are appended: only of what this call has found gone.
LEMMA ResolveEntriesStep == ASSUME Inv, NEW x \in Calls, ResolveEntries(x) PROVE Inv'
<1> USE DEF Inv
<1>1. pc[x] = "res.entries" /\ UNCHANGED <<req, run, child, files, outside, clocks>>
  BY DEF ResolveEntries, At
<1>2. TearingDown(x) /\ "res.torn" \in PCs
  BY <1>1 DEF TearingDown, PCs, Held, ResHeld
<1>3. \/ Goto(x, "res.torn") /\ UNCHANGED <<ledger, faults>>
      \/ \E k \in Write : Outcome(k) /\ Goto(x, "res.torn")
                          /\ ledger' = [ledger EXCEPT !.gone = @ \cup mem[x].gone]
      \/ \E k \in Write : Outcome(k) /\ UNCHANGED ledger /\ Return(x, "failed")
  BY DEF ResolveEntries
<1>4. faults' \in 0..MaxFaults /\ faults' >= faults
  BY <1>3, OutcomeCharges, BoundAssumption DEF Types, TypeOK
<1>5. CASE UNCHANGED ledger /\ Return(x, "failed")
  BY <1>1, <1>2, <1>4, <1>5, TearingAt, ResolveReturns DEF store
<1>6. CASE Goto(x, "res.torn") /\ (ledger' = ledger \/ ledger' = [ledger EXCEPT !.gone = @ \cup mem[x].gone])
  <2>1. Moved(x) /\ pc'[x] = "res.torn" /\ mem' = mem /\ lock' = lock
    BY <1>2, <1>6, GotoMoves
  <2>2. /\ mem[x].gone \subseteq Principals /\ \A p \in mem[x].gone : IsGone(p)
    BY <1>2, TearingAt, ResolveAt DEF Holding, AccountHolds, Memories
  <2>3. /\ ledger' \in [resolved : Verdicts \cup {None}, fallbacks : Nat, gone : SUBSET Principals,
                        routes : Nat, refusals : Nat, canary : Nat]
        /\ ledger'.resolved = ledger.resolved /\ ledger.gone \subseteq ledger'.gone
        /\ ledger'.gone \subseteq ledger.gone \cup mem[x].gone
    BY <1>6, <2>2 DEF Types, TypeOK
  <2>4. Types' /\ Grows(x)
    BY <1>1, <1>4, <2>1, <2>3, BoundAssumption DEF Types, TypeOK, Grows, Moved, outside, clocks
  <2>5. Shared'
    <3>1. run.job # x /\ run.job \in Calls
      BY <1>2, TearingAt, ResolveAt
    <3>2. Record' /\ Records' /\ RunJob' /\ OneResolution'
      BY <1>1, <2>1, <2>3, <3>1 DEF Shared, Record, RunJob, OneResolution, Records, outside, Moved
    <3>3. Tears'
      <4>1. \A p \in ledger'.gone : IsGone(p)'
        BY <1>1, <2>2, <2>3 DEF Shared, Tears, IsGone, outside
      <4> QED
        BY <1>1, <1>2, <2>3, <4>1, TearingAt DEF Shared, Tears, RootLast, Owed, Recorded, outside
    <3> QED
      BY <3>2, <3>3 DEF Shared
  <2>6. Posts'
    BY <1>1, <1>2, <1>4, <2>4, TearingAt, PostsKept, BoundAssumption DEF outside, clocks, Types, TypeOK
  <2>7. Resolving(x)' /\ ResolveHolds(x)'
    BY <1>1, <1>2, <2>1, TearingAt DEF Resolving, ResHeld, ResolveHolds, TearingDown
  <2>8. Copy(x)' /\ AccountHolds(x)'
    BY <1>1, <1>2, <2>1, <2>3, <2>7, TearingAt, ResolveAt, NoAccount DEF Copy, Owed, Recorded, AcctHeld, outside
  <2> QED
    BY <1>1, <1>2, <2>1, <2>4, <2>5, <2>6, <2>7, <2>8, TearingAt, ResolveWorks DEF outside
<1> QED
  BY <1>3, <1>5, <1>6

\* torn_down is written when every account owed has its entry.
LEMMA ResolveTornStep == ASSUME Inv, NEW x \in Calls, ResolveTorn(x) PROVE Inv'
<1> USE DEF Inv
<1> DEFINE torn == [mem[x].run EXCEPT !.tornDown = Owed \subseteq ledger.gone]
<1>1. PICK k \in Write : /\ Outcome(k)
                         /\ IF k = "ok" THEN run' = torn /\ Return(x, "done")
                            ELSE UNCHANGED run /\ Return(x, "failed")
  BY DEF ResolveTorn
<1>2. pc[x] = "res.torn" /\ UNCHANGED <<req, ledger, child, files, outside, clocks>>
  BY DEF ResolveTorn, At
<1>3. TearingDown(x) /\ faults' \in 0..MaxFaults /\ faults' >= faults
  BY <1>1, <1>2, OutcomeCharges DEF TearingDown, ResHeld
<1>4. CASE k = "ok"
  <2>1. mem[x] \in Memories /\ run.resolved # None /\ mem[x].run.resolved = run.resolved /\ Copy(x) /\ Resolving(x)
    BY <1>3, TearingAt, ResolveAt
  <2>2. /\ torn \in RunRecords /\ torn.phase = "open" /\ torn.job = run.job /\ torn.room = run.room
        /\ torn.resolved = run.resolved /\ (torn.tornDown => Owed \subseteq ledger.gone)
    <3>1. mem[x].run \in RunRecords /\ (Owed \subseteq ledger.gone) \in BOOLEAN
      BY <2>1 DEF Memories
    <3>2. torn \in RunRecords
      BY <3>1 DEF RunRecords
    <3> QED
      BY <2>1, <3>1, <3>2 DEF RunRecords, Copy
  <2> HIDE DEF torn
  <2>3. Moved(x) /\ pc'[x] = "done" /\ run' = torn
    BY <1>1, <1>4, ReturnMoves DEF Outcomes
  <2>4. Types' /\ Grows(x)
    BY <1>2, <1>3, <2>2, <2>3, BoundAssumption DEF Types, TypeOK, Grows, RunRecords, Moved, outside, clocks
  <2>5. Shared'
    <3>1. run.job # x /\ run.job # None /\ run.phase = "open" /\ run.room = OwnRoom
      BY <2>1, ResolveAt, CallsAssumption DEF Shared, Record, Copy
    <3>2. Record' /\ Records'
      BY <1>2, <2>1, <2>2, <2>3, <3>1 DEF Shared, Record, Records
    <3>3. RunJob' /\ OneResolution'
      BY <1>2, <2>1, <2>2, <2>3, <3>1 DEF Shared, RunJob, OneResolution, Types, TypeOK, outside, Moved
    <3>4. Tears'
      BY <1>2, <2>1, <2>2, <2>3 DEF Shared, Tears, IsGone, RootLast, Owed, Recorded, outside
    <3> QED
      BY <3>2, <3>3, <3>4 DEF Shared
  <2>6. Posts'
    BY <1>2, <1>3, <2>4, PostsKept, BoundAssumption DEF outside, clocks, Types, TypeOK
  <2> QED
    BY <1>1, <1>2, <1>4, <2>1, <2>4, <2>5, <2>6, ResolveEnds DEF outside
<1>5. CASE k # "ok"
  BY <1>1, <1>2, <1>3, <1>5, TearingAt, ResolveReturns DEF store
<1> QED
  BY <1>4, <1>5

-----------------------------------------------------------------------------
(* The accounts, in the hands of a resolve or of a clean.                  *)

\* What a clean at work knows: the run is pending or reaped, and has no children.
LEMMA CleanAt ==
    ASSUME Inv, NEW x \in Calls, Cleaning(x)
    PROVE  /\ req[x].verb = "clean" /\ unit[x] = "none" /\ pc[x] \in Held /\ lock = x
           /\ pc[x] \notin Outcomes \cup {"idle", "res.mark", "res.wmark"} /\ ~Opening(x)
           /\ run.phase \in {"pending", "reaped"} /\ run.job = None /\ run.resolved = None /\ Recorded = {}
           /\ Role(x) /\ Started(x) /\ Holding(x) /\ mem[x] \in Memories
<1>1. /\ pc[x] \in Held /\ pc[x] \notin Outcomes \cup {"idle", "unwind", "res.mark", "res.wmark"}
      /\ pc[x] \notin NewHeld
  BY DEF Cleaning, Held, CleanHeld, AcctHeld, Outcomes, NewHeld
<1>2. req[x].verb = "clean" /\ Known(x) /\ Role(x) /\ Started(x) /\ Holding(x)
  BY DEF Inv, Known, Role, Cleaning
<1>3. run.phase \in {"pending", "reaped"}
  BY <1>2 DEF Holding, CleanHolds
<1>4. run.job = None /\ run.resolved = None /\ Recorded = {}
  BY <1>3 DEF Inv, Shared, Record, Recorded
<1> QED
  BY <1>1, <1>2, <1>3, <1>4 DEF Started, Opening, Inv, Locks, Types

\* A step between two positions of a clean.
LEMMA CleanWorks ==
    ASSUME Inv, NEW x \in Calls, Cleaning(x), Moved(x), lock' = lock, unit' = unit, Types', Grows(x),
           Shared', Posts', Cleaning(x)', CleanHolds(x)', AccountHolds(x)'
    PROVE  Inv'
<1>1. req'[x] = req[x] /\ run'.phase # "none"
  BY CleanAt DEF Grows, CleanHolds
<1>2. ~Opening(x)' /\ ~Spawning(x)' /\ ~Resolving(x)' /\ pc'[x] \notin Waiting \cup Sweeping \cup Outcomes
  BY <1>1, CleanAt DEF Opening, Spawning, Cleaning, Resolving, NewHeld, SpawnHeld, CleanHeld, ResHeld, AcctHeld,
     Waiting, Sweeping, Outcomes
<1>3. Known(x)'
  <2>1. Role(x)'
    BY <1>1, <1>2, CleanAt DEF Role, Cleaning, CleanHeld, NewHeld, SpawnHeld, ResHeld, AcctHeld
  <2>2. Started(x)' /\ Member(x)' /\ Swept(x)' /\ pc'[x] # "new.lock" /\ Copy(x)'
    BY <1>1, <1>2, CleanAt DEF Started, Member, Swept, Copy, Cleaning, CleanHeld, AcctHeld, Waiting, Outcomes
  <2> QED
    BY <2>1, <2>2 DEF Known
<1>4. Holding(x)'
  <2>1. ResolveHolds(x)'
    BY <1>1, CleanAt DEF ResolveHolds, TearingDown, Cleaning, CleanHeld, AcctHeld
  <2> QED
    BY <1>2, <2>1 DEF Holding, NewHolds, SpawnHolds
<1>5. Locks'
  <2>1. pc'[x] \in Held
    BY DEF Cleaning, Held, CleanHeld, AcctHeld
  <2> QED
    BY <2>1, LockKept, CleanAt
<1>6. RootKnown'
  BY <1>1 DEF RootKnown
<1> QED
  BY <1>3, <1>4, <1>5, <1>6, HolderStep, CleanAt

\* Whose account is in hand: of a child whose job has ended, or of the root, then alone.
LEMMA AccountInHand ==
    ASSUME Inv, NEW x \in Calls, pc[x] \in AcctHeld
    PROVE  /\ mem[x].cur \in Principals /\ (mem[x].cur \in Calls => job[mem[x].cur] \in Terminal)
           /\ mem[x].cur = Root => \A p \in Recorded : IsGone(p)
           /\ ~(run.phase = "open" /\ run.resolved = None)
           /\ run.phase # "none" /\ run.job # x /\ lock = x /\ mem[x] \in Memories
           /\ Cleaning(x) => mem[x].cur = Root
           /\ (Resolving(x) /\ TearingDown(x)) \/ Cleaning(x)
           /\ \A p \in mem[x].gone : IsGone(p)
<1>1. (Resolving(x) /\ TearingDown(x)) \/ Cleaning(x)
  BY DEF Inv, Known, Role, Resolving, TearingDown, Cleaning
<1>2. Holding(x) /\ mem[x] \in Memories /\ \A p \in ledger.gone : IsGone(p)
  BY DEF Inv, Types, Shared, Tears
<1>3. CASE Resolving(x) /\ TearingDown(x)
  <2>1. req[x].verb = "resolve" /\ run.resolved # None /\ run.job # x /\ run.phase = "open" /\ lock = x
    BY <1>3, ResolveAt, TearingAt DEF Copy
  <2> QED
    BY <1>1, <1>2, <1>3, <2>1 DEF Holding, AccountHolds, Cleaning, CleanHeld, AcctHeld
<1>4. CASE Cleaning(x)
  <2>1. req[x].verb = "clean" /\ run.resolved = None /\ run.phase \in {"pending", "reaped"} /\ run.job = None
        /\ Recorded = {} /\ lock = x
    BY <1>4, CleanAt
  <2> QED
    BY <1>1, <1>2, <1>4, <2>1, CallsAssumption DEF Holding, AccountHolds
<1> QED
  BY <1>1, <1>3, <1>4

\* A step with an account in hand, of either verb.
LEMMA AccountWorks ==
    ASSUME Inv, NEW x \in Calls, pc[x] \in AcctHeld, Moved(x), lock' = lock, UNCHANGED <<req, run, ledger, child, unit>>,
           Types', Grows(x), Shared', Posts', mem'[x].run = mem[x].run,
           mem'[x].gone \subseteq mem[x].gone \cup {mem[x].cur}, \A p \in mem'[x].gone : IsGone(p)',
           \/ pc'[x] \in {"acct.revoke", "acct.unlink"} /\ mem'[x] = mem[x] /\ job' = job
              /\ (pc'[x] = "acct.unlink" => mem[x].cur \notin acct')
           \/ pc'[x] = After(x)
    PROVE  Inv'
<1>1. Holding(x) /\ Recorded' = Recorded
  BY DEF Inv, Recorded
<1>2. CASE Resolving(x) /\ TearingDown(x)
  <2>1. req[x].verb = "resolve" /\ Copy(x) /\ run.resolved # None /\ mem[x].run.resolved = run.resolved
    BY <1>2, ResolveAt, TearingAt
  <2>2. pc'[x] \in {"acct.revoke", "acct.unlink", "res.entries", "res.child"}
    BY <2>1 DEF After
  <2>3. Resolving(x)' /\ ResolveHolds(x)' /\ Copy(x)'
    BY <2>1, <2>2, <1>1 DEF Resolving, ResHeld, AcctHeld, ResolveHolds, TearingDown, Copy, Owed
  <2>4. AccountHolds(x)'
    BY <1>1, <2>1, <2>2, <2>3, AccountInHand DEF Holding, AccountHolds, AcctHeld, After
  <2> QED
    BY <1>2, <2>3, <2>4, ResolveWorks
<1>3. CASE Cleaning(x)
  <2>1. req[x].verb = "clean" /\ mem[x].cur = Root
    BY <1>3, CleanAt, AccountInHand
  <2>2. pc'[x] \in {"acct.revoke", "acct.unlink", "clean.tomb"}
    BY <2>1 DEF After
  <2>3. Cleaning(x)' /\ CleanHolds(x)'
    BY <1>1, <1>3, <2>1, <2>2 DEF Holding, CleanHolds, Cleaning, CleanHeld, AcctHeld
  <2>4. AccountHolds(x)'
    BY <1>1, <2>1, <2>2, <2>3, AccountInHand DEF Holding, AccountHolds, AcctHeld, After
  <2> QED
    BY <1>3, <2>3, <2>4, CleanWorks
<1> QED
  BY <1>2, <1>3, AccountInHand

\* The account is dropped from the room: a member that goes has no job at work.
LEMMA DropAffiliationStep == ASSUME Inv, NEW x \in Calls, DropAffiliation(x) PROVE Inv'
<1> USE DEF Inv
<1>1. /\ pc[x] = "acct.affil" /\ Goto(x, "acct.revoke")
      /\ UNCHANGED <<req, store, acct, stanza, sent, job, unit, cancelled, clocks>>
  BY DEF DropAffiliation, At
<1>2. PICK k \in Reply : /\ Outcome(k)
                         /\ muc' = IF Took(k) THEN [muc EXCEPT !.members = @ \ {mem[x].cur}] ELSE muc
  BY DEF DropAffiliation
<1>3. pc[x] \in AcctHeld /\ "acct.revoke" \in PCs /\ faults' \in 0..MaxFaults /\ faults' >= faults
  BY <1>1, <1>2, OutcomeCharges DEF AcctHeld, PCs, Held
<1>4. Moved(x) /\ pc'[x] = "acct.revoke" /\ mem' = mem /\ lock' = lock
  BY <1>1, <1>3, GotoMoves
<1>5. /\ muc' \in [made : BOOLEAN, members : SUBSET Principals]
      /\ muc.members \ {mem[x].cur} \subseteq muc'.members
  <2>1. muc \in [made : BOOLEAN, members : SUBSET Principals]
    BY DEF Types, TypeOK
  <2> QED
    BY <1>2, <2>1
<1>6. Types' /\ Grows(x)
  <2>1. \A d \in Calls : d \in muc.members /\ job[d] \notin Terminal => d \in muc'.members
    BY <1>3, <1>5, AccountInHand
  <2> QED
    BY <1>1, <1>3, <1>4, <1>5, <2>1 DEF Types, TypeOK, Grows, Moved, store, clocks
<1>7. Shared' /\ Posts'
  <2>1. Shared'
    BY <1>1, <1>3, <1>6, AccountInHand, SharedKept DEF store
  <2>2. Posts'
    BY <1>1, <1>3, <1>6, PostsKept, BoundAssumption DEF store, clocks, Types, TypeOK
  <2> QED
    BY <2>1, <2>2
<1>8. \A p \in mem'[x].gone : IsGone(p)'
  BY <1>1, <1>3, <1>4, AccountInHand DEF IsGone
<1> QED
  BY <1>1, <1>3, <1>4, <1>6, <1>7, <1>8, AccountWorks DEF store

\* An account goes: a child's, whose job has ended, or the root's, which is the last.
LEMMA AccountGoes ==
    ASSUME Inv, NEW x \in Calls, pc[x] \in AcctHeld, UNCHANGED <<run, ledger, child, job, sent>>,
           acct' \in {acct, acct \ {mem[x].cur}}, acct' \subseteq files'.pw, files'.wake = files.wake,
           req' = req, Moved(x)
    PROVE  Shared'
<1> USE DEF Inv
<1>1. run.job # x /\ ~(run.phase = "open" /\ run.resolved = None)
      /\ (mem[x].cur = Root => \A p \in Recorded : IsGone(p))
  BY AccountInHand
<1>2. Record' /\ Records' /\ RunJob' /\ OneResolution'
  <2>1. run.job # None => run.job \in Calls
    BY DEF Types, TypeOK
  <2> QED
    BY <1>1, <2>1 DEF Shared, Record, Records, RunJob, OneResolution, Moved
<1>3. Tears'
  <2>1. Recorded' = Recorded /\ acct' \subseteq acct
    BY DEF Recorded
  <2>2. Root \notin acct' => Recorded \cap acct' = {}
    <3>1. CASE Root \notin acct
      BY <2>1, <3>1 DEF Shared, Tears, RootLast
    <3>2. CASE Root \in acct /\ Root \notin acct'
      BY <1>1, <2>1, <3>2 DEF IsGone
    <3> QED
      BY <3>1, <3>2
  <2> QED
    BY <1>1, <2>1, <2>2 DEF Shared, Tears, RootLast, IsGone, Owed
<1> QED
  BY <1>2, <1>3 DEF Shared

\* The account in hand is done with: found gone, or kept.
LEMMA AccountDone ==
    ASSUME Types, NEW x \in Calls, mem[x].cur \in Principals
    PROVE  /\ Gone(x) => /\ Moved(x) /\ pc'[x] = After(x) /\ lock' = lock /\ mem'[x].run = mem[x].run
                         /\ mem'[x].gone = mem[x].gone \cup {mem[x].cur}
           /\ Kept(x) => Moved(x) /\ pc'[x] = After(x) /\ lock' = lock /\ mem' = mem
<1> DEFINE m == [mem[x] EXCEPT !.gone = @ \cup {mem[x].cur}]
<1>1. m \in Memories /\ m.run = mem[x].run /\ m.gone = mem[x].gone \cup {mem[x].cur}
  BY DEF Types, Memories
<1>2. After(x) \in PCs
  BY DEF After, PCs, Held, ResHeld, CleanHeld
<1>3. Gone(x) => Remember(x, After(x), m)
  BY DEF Gone
<1> HIDE DEF m
<1> QED
  BY <1>1, <1>2, <1>3, RememberMoves, GotoMoves DEF Kept

\* The account is revoked, found gone, or kept.
LEMMA RevokeAccountStep == ASSUME Inv, NEW x \in Calls, RevokeAccount(x) PROVE Inv'
<1> USE DEF Inv
<1>1. /\ pc[x] = "acct.revoke" /\ pc[x] \in AcctHeld /\ "acct.unlink" \in PCs
      /\ UNCHANGED <<req, store, muc, stanza, sent, job, unit, cancelled, clocks>>
  BY DEF RevokeAccount, At, AcctHeld, PCs, Held
<1>2. /\ mem[x].cur \in Principals /\ (mem[x].cur \in Calls => job[mem[x].cur] \in Terminal)
      /\ mem[x] \in Memories /\ \A p \in mem[x].gone : IsGone(p)
  BY <1>1, AccountInHand
<1>3. \/ mem[x].cur \notin files.pw /\ Gone(x) /\ UNCHANGED <<acct, faults>>
      \/ \E k \in Reply : /\ Outcome(k)
                          /\ acct' = IF Took(k) THEN acct \ {mem[x].cur} ELSE acct
                          /\ IF k = "ok" THEN Goto(x, "acct.unlink") ELSE Kept(x)
  BY DEF RevokeAccount
<1>4. /\ acct' \in {acct, acct \ {mem[x].cur}} /\ faults' \in 0..MaxFaults /\ faults' >= faults
      /\ \/ mem[x].cur \notin files.pw /\ Gone(x)
         \/ mem[x].cur \notin acct' /\ Goto(x, "acct.unlink")
         \/ Kept(x)
  BY <1>3, OutcomeCharges, BoundAssumption DEF Types, TypeOK, Took
<1>5. acct \subseteq files.pw /\ files' = files
  BY <1>1 DEF Shared, Tears, store
<1>6. /\ Moved(x) /\ lock' = lock /\ mem'[x].run = mem[x].run
      /\ \/ /\ pc'[x] = After(x) /\ mem'[x].gone = mem[x].gone \cup {mem[x].cur} /\ mem[x].cur \notin files.pw
         \/ pc'[x] = "acct.unlink" /\ mem[x].cur \notin acct' /\ mem'[x] = mem[x]
         \/ pc'[x] = After(x) /\ mem'[x] = mem[x]
  BY <1>1, <1>2, <1>4, AccountDone, GotoMoves
<1>7. Types' /\ Grows(x)
  BY <1>1, <1>4, <1>6 DEF Types, TypeOK, Grows, Moved, store, clocks
<1>8. Shared'
  BY <1>1, <1>4, <1>5, <1>6, AccountGoes DEF store
<1>9. Posts'
  BY <1>1, <1>4, <1>7, PostsKept, BoundAssumption DEF store, clocks, Types, TypeOK
<1>10. /\ mem'[x].gone \subseteq mem[x].gone \cup {mem[x].cur} /\ \A p \in mem'[x].gone : IsGone(p)'
  BY <1>1, <1>2, <1>4, <1>5, <1>6 DEF IsGone
<1> QED
  BY <1>1, <1>4, <1>6, <1>7, <1>8, <1>9, <1>10, AccountWorks DEF store

\* The password file goes last.
LEMMA UnlinkPasswordStep == ASSUME Inv, NEW x \in Calls, UnlinkPassword(x) PROVE Inv'
<1> USE DEF Inv
<1>1. /\ pc[x] = "acct.unlink" /\ pc[x] \in AcctHeld
      /\ UNCHANGED <<req, run, ledger, child, outside, clocks>>
  BY DEF UnlinkPassword, At, AcctHeld
<1>2. PICK k \in Write : /\ Outcome(k)
                         /\ IF k = "ok" THEN files' = [files EXCEPT !.pw = @ \ {mem[x].cur}] /\ Gone(x)
                            ELSE UNCHANGED files /\ Kept(x)
  BY DEF UnlinkPassword
<1>3. /\ mem[x].cur \in Principals /\ (mem[x].cur \in Calls => job[mem[x].cur] \in Terminal)
      /\ mem[x] \in Memories /\ (\A p \in mem[x].gone : IsGone(p)) /\ mem[x].cur \notin acct
  BY <1>1, AccountInHand DEF Holding, AccountHolds
<1>4. faults' \in 0..MaxFaults /\ faults' >= faults
  BY <1>2, OutcomeCharges
<1>5. /\ files' \in [pw : SUBSET Principals, brief : SUBSET Briefs, moxy : SUBSET Briefs,
                     traffic : SUBSET Calls, canary : BOOLEAN, wake : BOOLEAN]
      /\ files'.pw \in {files.pw, files.pw \ {mem[x].cur}}
      /\ files'.canary = files.canary /\ files'.wake = files.wake
  <2>1. files \in [pw : SUBSET Principals, brief : SUBSET Briefs, moxy : SUBSET Briefs,
                   traffic : SUBSET Calls, canary : BOOLEAN, wake : BOOLEAN]
    BY DEF Types, TypeOK
  <2> QED
    BY <1>2, <2>1
<1>6. /\ Moved(x) /\ lock' = lock /\ mem'[x].run = mem[x].run /\ pc'[x] = After(x)
      /\ mem'[x].gone \subseteq mem[x].gone \cup {mem[x].cur}
  BY <1>2, <1>3, AccountDone
<1>7. Types' /\ Grows(x)
  BY <1>1, <1>4, <1>5, <1>6 DEF Types, TypeOK, Grows, Moved, outside, clocks
<1>8. Shared'
  <2>1. acct' = acct /\ acct \subseteq files'.pw
    BY <1>1, <1>3, <1>5 DEF Shared, Tears, outside
  <2> QED
    BY <1>1, <1>5, <1>6, <2>1, AccountGoes DEF outside
<1>9. Posts'
  BY <1>1, <1>4, <1>5, <1>7, PostsKept, BoundAssumption DEF outside, clocks, Types, TypeOK
<1>10. \A p \in mem'[x].gone : IsGone(p)'
  BY <1>1, <1>3, <1>6 DEF IsGone, outside
<1> QED
  BY <1>1, <1>6, <1>7, <1>8, <1>9, <1>10, AccountWorks DEF outside

-----------------------------------------------------------------------------
(* The pending-run sweep, and a route entry.                               *)

\* The last step of a clean.
LEMMA CleanEnds ==
    ASSUME Inv, NEW x \in Calls, Cleaning(x), NEW o \in {"done", "failed"}, Return(x, o), unit' = unit,
           Types', Grows(x), Shared', Posts', run'.phase # "none"
    PROVE  Inv'
<1>1. /\ Moved(x) /\ pc'[x] = o /\ o \in Outcomes /\ mem'[x] = Blank
      /\ lock' = IF lock = x THEN None ELSE lock
  BY ReturnMoves DEF Inv, Outcomes
<1>2. Known(x)' /\ Holding(x)'
  BY <1>1, CleanAt, EndKnows DEF Grows
<1>3. Locks'
  <2>1. o \notin Held
    BY DEF Held, NewHeld, SpawnHeld, ResHeld, AcctHeld, CleanHeld
  <2> QED
    BY <1>1, <2>1, LockKept, CleanAt
<1>4. RootKnown'
  BY DEF RootKnown
<1> QED
  BY <1>2, <1>3, <1>4, HolderStep, CleanAt

\* The record is read again under the lock: only a run still pending is taken up.
LEMMA CleanEnterStep == ASSUME Inv, NEW x \in Calls, CleanEnter(x) PROVE Inv'
<1> USE DEF Inv
<1> DEFINE s == IF run.room THEN "acct.affil" ELSE "acct.revoke"
<1>1. /\ pc[x] = "clean.lock" /\ lock = None /\ UNCHANGED <<req, store, outside, faults, clocks>>
      /\ IF StillOverdue(x)
         THEN /\ lock' = x /\ pc' = [pc EXCEPT ![x] = s] /\ mem' = [mem EXCEPT ![x].cur = Root]
              /\ UNCHANGED undo
         ELSE Return(x, "done")
  BY DEF CleanEnter, At
<1>2. /\ Role(x) /\ Started(x) /\ req[x].verb = "clean" /\ mem[x].gone = {} /\ unit[x] = "none"
      /\ faults' \in 0..MaxFaults /\ faults' >= faults
  BY <1>1, BoundAssumption DEF Known, Role, Started, Holding, AccountHolds, Resolving, Cleaning, ResHeld, AcctHeld,
     CleanHeld, Outcomes, Types, TypeOK
<1>3. CASE StillOverdue(x)
  <2>1. s \in PCs /\ s \in Held /\ s \in {"acct.affil", "acct.revoke"} /\ run.phase = "pending"
    BY <1>3 DEF PCs, Held, AcctHeld, StillOverdue
  <2>2. mem[x] \in Memories /\ Root \in Principals /\ Root \notin Calls
    BY CallsAssumption DEF Types, Principals
  <2> DEFINE m == [mem[x] EXCEPT !.cur = Root]
  <2>3. mem' = [mem EXCEPT ![x] = m] /\ m \in Memories /\ m.cur = Root /\ m.gone = {}
    BY <1>1, <1>2, <1>3, <2>2 DEF Types, Memories
  <2> HIDE DEF m
  <2>4. Moved(x) /\ pc'[x] = s /\ mem'[x].cur = Root /\ mem'[x].gone = {} /\ lock' = x
    <3>1. pc' = [pc EXCEPT ![x] = s] /\ lock' = x /\ undo' = undo
      BY <1>1, <1>3
    <3> HIDE DEF s
    <3> QED
      BY <2>1, <2>3, <3>1 DEF Moved, Types, TypeOK
  <2>5. Types' /\ Grows(x) /\ Still /\ job' = job /\ unit' = unit
    BY <1>1, <1>2, <2>4, ControlOnly
  <2> HIDE DEF s
  <2>6. Known(x)'
    BY <1>1, <1>2, <2>1, <2>4, <2>5 DEF Known, Role, Started, Copy, Swept, Member, Resolving, Sweeping, Outcomes,
       NewHeld, SpawnHeld, ResHeld, AcctHeld, CleanHeld
  <2>7. Holding(x)'
    <3>1. /\ ~Opening(x)' /\ ~Spawning(x)' /\ ~TearingDown(x)' /\ ~Resolving(x)' /\ Cleaning(x)'
      BY <1>1, <1>2, <2>1, <2>4 DEF Opening, Spawning, TearingDown, Resolving, Cleaning, NewHeld, SpawnHeld,
         ResHeld, AcctHeld, CleanHeld
    <3>2. ResolveHolds(x)' /\ NewHolds(x)' /\ SpawnHolds(x)'
      BY <2>1, <2>4, <3>1 DEF ResolveHolds, NewHolds, SpawnHolds
    <3>3. CleanHolds(x)' /\ AccountHolds(x)'
      BY <1>1, <1>2, <2>1, <2>2, <2>4 DEF CleanHolds, AccountHolds, store
    <3> QED
      BY <3>2, <3>3 DEF Holding
  <2>8. Locks'
    BY <1>1, <2>1, <2>4, LockKept
  <2> QED
    BY <1>1, <2>5, <2>6, <2>7, <2>8, HolderMoves DEF Outcomes, Opening, NewHeld
<1>4. CASE ~StillOverdue(x)
  <2>1. Return(x, "done") /\ "done" \in Outcomes
    BY <1>1, <1>4 DEF Outcomes
  <2>2. Types' /\ Grows(x) /\ Still /\ job' = job /\ unit' = unit
    BY <1>1, <1>2, <2>1, ReturnMoves, ControlOnly
  <2> QED
    BY <1>1, <1>2, <2>1, <2>2, HolderReturns DEF Outcomes, Opening, NewHeld
<1> QED
  BY <1>3, <1>4

\* The tombstone comes after the root and before the ledger's entry.
LEMMA CleanTombStep == ASSUME Inv, NEW x \in Calls, CleanTomb(x) PROVE Inv'
<1> USE DEF Inv
<1>1. /\ pc[x] = "clean.tomb" /\ UNCHANGED <<req, ledger, child, files, outside, clocks>>
      /\ IF ~RootReaped(x) THEN Goto(x, "clean.entry") /\ UNCHANGED <<run, faults>>
         ELSE \E k \in Write : /\ Outcome(k)
                               /\ IF k = "ok" THEN run' = Tombstone /\ Goto(x, "clean.entry")
                                  ELSE UNCHANGED run /\ Return(x, "failed")
  BY DEF CleanTomb, At
<1>2. /\ Cleaning(x) /\ "clean.entry" \in PCs /\ "failed" \in Outcomes
      /\ faults' \in 0..MaxFaults /\ faults' >= faults
  BY <1>1, OutcomeCharges, BoundAssumption DEF Cleaning, CleanHeld, PCs, Held, Outcomes, Types, TypeOK
<1>3. /\ \A p \in mem[x].gone : IsGone(p)
      /\ mem[x].gone \subseteq {Root} /\ run.phase = "pending" /\ run \in RunRecords /\ run.job = None
  BY <1>1, <1>2, CleanAt DEF Holding, CleanHolds, AccountHolds, Types, TypeOK, RunRecords
<1>4. /\ run' \in RunRecords /\ run'.phase \in {"pending", "reaped"}
      /\ run'.job = run.job /\ run'.resolved = run.resolved /\ run'.tornDown = run.tornDown
      /\ run'.phase = "reaped" => Root \in mem[x].gone
  <2>1. Tombstone \in RunRecords /\ Tombstone.phase = "reaped" /\ Tombstone.job = run.job
        /\ Tombstone.resolved = run.resolved /\ Tombstone.tornDown = run.tornDown
    BY <1>3 DEF Tombstone, RunRecords, PhaseSet
  <2> QED
    BY <1>1, <1>3, <2>1 DEF RootReaped
<1>5. Moved(x)
  BY <1>1, <1>2, GotoMoves, ReturnMoves
<1>6. Types' /\ Grows(x)
  BY <1>1, <1>2, <1>3, <1>4, <1>5, CleanAt DEF Types, TypeOK, Grows, RunRecords, Moved, outside, clocks
<1>7. Shared'
  <2>1. Record' /\ Records' /\ RunJob' /\ OneResolution'
    BY <1>1, <1>2, <1>3, <1>4, CleanAt DEF Shared, Record, Records, RunJob, OneResolution
  <2>2. Tears'
    BY <1>1, <1>2, <1>3, <1>4, CleanAt DEF Shared, Tears, IsGone, RootLast, Owed, Recorded, outside
  <2> QED
    BY <2>1, <2>2 DEF Shared
<1>8. Posts'
  BY <1>1, <1>2, <1>6, PostsKept, BoundAssumption DEF outside, clocks, Types, TypeOK
<1>9. CASE Goto(x, "clean.entry") /\ (run'.phase = "reaped" \/ ~RootReaped(x))
  <2>1. pc'[x] = "clean.entry" /\ mem' = mem /\ lock' = lock
    BY <1>2, <1>9, GotoMoves
  <2>2. Cleaning(x)' /\ CleanHolds(x)' /\ AccountHolds(x)'
    BY <1>1, <1>2, <1>3, <1>4, <1>9, <2>1, CleanAt DEF Cleaning, CleanHeld, CleanHolds, AccountHolds, AcctHeld,
       IsGone, RootReaped, outside
  <2> QED
    BY <1>1, <1>2, <1>5, <1>6, <1>7, <1>8, <2>1, <2>2, CleanWorks DEF outside
<1>10. CASE Return(x, "failed")
  BY <1>1, <1>2, <1>4, <1>6, <1>7, <1>8, <1>10, CleanEnds DEF outside
<1>11. (Goto(x, "clean.entry") /\ (run'.phase = "reaped" \/ ~RootReaped(x))) \/ Return(x, "failed")
  <2>1. Tombstone.phase = "reaped"
    BY <1>3 DEF Tombstone, RunRecords
  <2> QED
    BY <1>1, <2>1
<1> QED
  BY <1>9, <1>10, <1>11

\* The entry follows the tombstone.
LEMMA CleanEntryStep == ASSUME Inv, NEW x \in Calls, CleanEntry(x) PROVE Inv'
<1> USE DEF Inv
<1>1. pc[x] = "clean.entry" /\ UNCHANGED <<req, run, child, files, outside, clocks>>
  BY DEF CleanEntry, At
<1>2. PICK k \in Write :
         /\ Outcome(k)
         /\ ledger' = IF k = "ok" THEN [ledger EXCEPT !.gone = @ \cup mem[x].gone] ELSE ledger
         /\ Return(x, IF k = "ok" /\ RootReaped(x) THEN "done" ELSE "failed")
  BY DEF CleanEntry
<1> DEFINE o == IF k = "ok" /\ RootReaped(x) THEN "done" ELSE "failed"
<1>3. Cleaning(x) /\ faults' \in 0..MaxFaults /\ faults' >= faults /\ o \in {"done", "failed"} /\ o \in Outcomes
  BY <1>1, <1>2, OutcomeCharges DEF Cleaning, CleanHeld, Outcomes
<1>4. /\ mem[x].gone \subseteq Principals /\ \A p \in mem[x].gone : IsGone(p)
      /\ Root \in mem[x].gone => run.phase = "reaped"
      /\ run.phase \in {"pending", "reaped"}
  BY <1>1, <1>3, CleanAt DEF Holding, CleanHolds, AccountHolds, Memories
<1>5. /\ ledger' \in [resolved : Verdicts \cup {None}, fallbacks : Nat, gone : SUBSET Principals,
                      routes : Nat, refusals : Nat, canary : Nat]
      /\ ledger'.resolved = ledger.resolved /\ ledger.gone \subseteq ledger'.gone
      /\ ledger'.gone \subseteq ledger.gone \cup mem[x].gone
  BY <1>2, <1>4 DEF Types, TypeOK
<1>6. Return(x, o) /\ Moved(x)
  BY <1>2, <1>3, ReturnMoves
<1> HIDE DEF o
<1>7. Types' /\ Grows(x)
  BY <1>1, <1>3, <1>5, <1>6 DEF Types, TypeOK, Grows, Moved, outside, clocks
<1>8. Shared'
  <2>1. Record' /\ Records' /\ RunJob' /\ OneResolution'
    BY <1>1, <1>3, <1>5, CleanAt DEF Shared, Record, Records, RunJob, OneResolution
  <2>2. Tears'
    <3>1. \A p \in ledger'.gone : IsGone(p)'
      BY <1>1, <1>4, <1>5 DEF Shared, Tears, IsGone, outside
    <3> QED
      BY <1>1, <1>4, <1>5, <3>1 DEF Shared, Tears, RootLast, Owed, Recorded, outside
  <2> QED
    BY <2>1, <2>2 DEF Shared
<1>9. Posts'
  BY <1>1, <1>3, <1>7, PostsKept, BoundAssumption DEF outside, clocks, Types, TypeOK
<1> QED
  BY <1>1, <1>3, <1>4, <1>6, <1>7, <1>8, <1>9, CleanEnds DEF outside

\* A route entry, under the lock of an open run.
LEMMA DecideStep == ASSUME Inv, NEW x \in Calls, Decide(x) PROVE Inv'
<1> USE DEF Inv
<1>1. pc[x] = "decide.lock" /\ lock = None /\ UNCHANGED <<req, run, child, files, outside, clocks>>
  BY DEF Decide, At
<1>2. /\ faults' \in 0..MaxFaults /\ faults' >= faults
      /\ ledger' = ledger \/ ledger' = [ledger EXCEPT !.routes = @ + 1]
      /\ Return(x, "done") \/ Return(x, "failed")
  BY OutcomeCharges, BoundAssumption DEF Decide, Types, TypeOK
<1>3. /\ ledger' \in [resolved : Verdicts \cup {None}, fallbacks : Nat, gone : SUBSET Principals,
                      routes : Nat, refusals : Nat, canary : Nat]
      /\ ledger'.resolved = ledger.resolved /\ ledger'.gone = ledger.gone
  BY <1>2 DEF Types, TypeOK
<1>4. PICK o \in {"done", "failed"} : Return(x, o)
  BY <1>2
<1>5. o \in Outcomes /\ Moved(x) /\ unit[x] = "none"
  BY <1>1, <1>4, ReturnMoves DEF Outcomes, Known, Started
<1>6. Types' /\ Grows(x) /\ Still
  BY <1>1, <1>2, <1>3, <1>5, BoundAssumption DEF Types, TypeOK, Grows, Still, Moved, outside, clocks
<1> QED
  BY <1>1, <1>4, <1>5, <1>6, HolderReturns DEF Outcomes, Opening, NewHeld, outside

-----------------------------------------------------------------------------
(* A spawn, from its lock to its launch or its undo.                       *)

\* What a spawn at work knows: its run is open, and its root is there.
LEMMA SpawnAt ==
    ASSUME Inv, NEW x \in Calls, Spawning(x)
    PROVE  /\ req[x].verb = "spawn" /\ req[x].brief \in Briefs /\ pc[x] \in Held /\ lock = x
           /\ pc[x] \notin Outcomes \cup {"idle", "res.mark", "res.wmark"} /\ ~Opening(x)
           /\ run.phase = "open" /\ run.resolved = None /\ ~run.tornDown
           /\ run.job \in Calls /\ run.job # x /\ req[run.job].verb = "new" /\ Root \in acct
           /\ mem[x] \in Memories /\ mem[x].gone = {} /\ Holding(x) /\ Known(x)
           /\ pc[x] # "unwind" => unit[x] = "none"
<1>1. /\ pc[x] \in Held /\ pc[x] \notin Outcomes \cup {"idle", "res.mark", "res.wmark"}
      /\ pc[x] \notin NewHeld \cup ResHeld \cup AcctHeld \cup CleanHeld
  BY DEF Spawning, Held, SpawnHeld, NewHeld, ResHeld, AcctHeld, CleanHeld, Outcomes
<1>2. /\ req[x].verb = "spawn" /\ req[x].brief \in Briefs /\ Known(x) /\ Holding(x)
      /\ pc[x] # "unwind" => unit[x] = "none"
  BY <1>1 DEF Inv, Known, Role, Started, Spawning
<1>3. run.phase = "open" /\ run.resolved = None
  BY <1>2 DEF Holding, SpawnHolds
<1>4. /\ ~run.tornDown /\ run.job \in Calls /\ req[run.job].verb = "new" /\ pc[run.job] = "done" /\ Root \in acct
  BY <1>3, CallsAssumption DEF Inv, Shared, Record, RunJob, Tears, Types, TypeOK
<1>5. mem[x].gone = {} /\ mem[x] \in Memories /\ ~Opening(x) /\ lock = x
  BY <1>1, <1>2 DEF Holding, AccountHolds, Resolving, Cleaning, Opening, Inv, Locks, Types
<1> QED
  BY <1>1, <1>2, <1>3, <1>4, <1>5 DEF Outcomes

\* What a spawn does to its own account and record leaves the shared part in order.
LEMMA SpawnShared ==
    ASSUME Inv, NEW x \in Calls, Spawning(x), Grows(x), run' = run,
           ledger'.resolved = ledger.resolved, ledger'.gone = ledger.gone,
           \A d \in Calls : d # x => job'[d] = job[d],
           acct' \subseteq acct \cup {x}, acct \subseteq acct' \cup {x}, acct' \subseteq files'.pw,
           x \in acct' => x \in acct \/ job[x] \notin Terminal,
           \A b \in Briefs : child'[b] \in {child[b], None} \/ (b = req[x].brief /\ child'[b] = x)
    PROVE  Shared'
<1> USE SpawnAt DEF Inv, Shared
<1>1. req'[x] = req[x] /\ \A d \in Calls : d # x => req'[d] = req[d] /\ pc'[d] = pc[d]
  BY DEF Grows
<1>2. Record' /\ OneResolution'
  BY CallsAssumption DEF Record, OneResolution
<1>3. RunJob'
  BY <1>1 DEF RunJob
<1>4. Records'
  <2>1. ASSUME NEW b \in Briefs, child'[b] # None
        PROVE  req'[child'[b]].verb = "spawn" /\ req'[child'[b]].brief = b
    <3>1. CASE child'[b] = child[b]
      BY <1>1, <2>1, <3>1 DEF Records, Types, TypeOK
    <3>2. CASE b = req[x].brief /\ child'[b] = x
      BY <1>1, <3>2
    <3> QED
      BY <2>1, <3>1, <3>2
  <2> QED
    BY <2>1 DEF Records
<1>5. Tears'
  <2>1. Root \in acct' /\ Root # x
    BY CallsAssumption
  <2>2. ASSUME NEW p \in ledger.gone PROVE IsGone(p)'
    <3>1. IsGone(p)
      BY <2>2 DEF Tears
    <3>2. p \in Calls => job'[p] \in Terminal
      BY <3>1 DEF IsGone, Grows
    <3>3. p \notin acct'
      BY <3>1 DEF IsGone
    <3> QED
      BY <3>2, <3>3 DEF IsGone
  <2> QED
    BY <2>1, <2>2 DEF Tears, RootLast
<1> QED
  BY <1>2, <1>3, <1>4, <1>5

\* A step between two positions of a spawn.
LEMMA SpawnWorks ==
    ASSUME Inv, NEW x \in Calls, Spawning(x), Moved(x), lock' = lock, Types', Grows(x),
           Shared', Posts', run' = run, mem'[x].gone = {}, Spawning(x)', Started(x)', Member(x)',
           child'[req[x].brief] \in {None, x},
           pc'[x] \notin {"unwind", "spawn.launch"} => child'[req[x].brief] = None
    PROVE  Inv'
<1>1. req'[x] = req[x]
  BY SpawnAt DEF Grows
<1>2. /\ pc'[x] \in Held /\ pc'[x] \notin {"idle", "new.lock"}
      /\ pc'[x] \notin NewHeld \cup ResHeld \cup AcctHeld \cup CleanHeld \cup Sweeping \cup Waiting
  BY DEF Spawning, Held, SpawnHeld, NewHeld, ResHeld, AcctHeld, CleanHeld, Sweeping, Waiting
<1>3. ~Opening(x)' /\ ~Resolving(x)' /\ ~Cleaning(x)' /\ ~TearingDown(x)'
  BY <1>1, <1>2, SpawnAt DEF Opening, Resolving, Cleaning, TearingDown, ResHeld
<1>4. Known(x)'
  <2>1. Role(x)'
    BY <1>1, <1>2, SpawnAt DEF Role, Waiting
  <2>2. Copy(x)' /\ Swept(x)'
    BY <1>2, <1>3 DEF Copy, Swept, Waiting
  <2> QED
    BY <1>2, <2>1, <2>2 DEF Known
<1>5. Holding(x)'
  <2>1. SpawnHolds(x)'
    BY <1>1, SpawnAt DEF SpawnHolds
  <2>2. ResolveHolds(x)' /\ AccountHolds(x)'
    BY <1>2, <1>3 DEF ResolveHolds, AccountHolds, ResHeld, AcctHeld
  <2> QED
    BY <1>3, <2>1, <2>2 DEF Holding, NewHolds, CleanHolds
<1>6. Locks'
  BY <1>2, LockKept, SpawnAt
<1>7. RootKnown'
  BY SpawnAt DEF RootKnown
<1> QED
  BY <1>4, <1>5, <1>6, <1>7, HolderStep, SpawnAt

\* A step of a spawn that moves nothing others look at, but perhaps its own job, files,
\* stanza or unit.
LEMMA SpawnGoes ==
    ASSUME Inv, NEW x \in Calls, Spawning(x), Moved(x), lock' = lock, mem' = mem, Types', Grows(x), Still,
           \A d \in Calls : d # x => job'[d] = job[d],
           Spawning(x)', Started(x)', Member(x)',
           \/ pc[x] # "unwind" /\ (pc[x] = "spawn.launch" => pc'[x] = "unwind")
           \/ pc'[x] = "unwind"
    PROVE  Inv'
<1>1. Shared'
  BY SpawnShared, SpawnAt DEF Still, Inv, Shared, Tears
<1>2. Posts'
  BY PostsKept, SpawnAt DEF Still
<1> QED
  BY <1>1, <1>2, SpawnWorks, SpawnAt DEF Still, Holding, SpawnHolds

\* A spawn that is admitted or has not come that far: membership is kept.
LEMMA MemberStays ==
    ASSUME Inv, NEW x \in Calls, Spawning(x), muc' = muc, Grows(x), pc'[x] \notin Outcomes,
           pc[x] \in {"spawn.stage", "spawn.job", "spawn.mirror", "spawn.post", "spawn.save", "spawn.launch"}
             \/ pc'[x] \in {"spawn.ready", "spawn.narrow", "spawn.mint", "spawn.affil", "unwind"}
    PROVE  Member(x)'
<1>1. Known(x) /\ Member(x) /\ (job[x] \in Terminal => job'[x] \in Terminal)
  BY SpawnAt DEF Known, Grows
<1> QED
  BY <1>1 DEF Member, Outcomes

\* The lock is taken when the run is open and nobody has the brief.
LEMMA SpawnEnterStep == ASSUME Inv, NEW x \in Calls, SpawnEnter(x) PROVE Inv'
<1> USE DEF Inv
<1>1. /\ pc[x] = "spawn.lock" /\ lock = None /\ UNCHANGED <<req, store, outside, faults, clocks>>
      /\ \/ Return(x, "failed") \/ Return(x, "done")
         \/ /\ CheckOpen /\ ~Spawned(x) /\ lock' = x /\ pc' = [pc EXCEPT ![x] = "spawn.ready"]
            /\ UNCHANGED <<undo, mem>>
  BY DEF SpawnEnter, At, Acquire
<1>2. /\ Role(x) /\ Started(x) /\ req[x].verb = "spawn" /\ req[x].brief \in Briefs /\ unit[x] = "none"
      /\ faults' \in 0..MaxFaults /\ faults' >= faults /\ job[x] = "none" /\ mem[x].gone = {}
  BY <1>1, BoundAssumption DEF Known, Role, Started, Types, TypeOK, Outcomes, Holding, AccountHolds, Resolving,
     Cleaning, ResHeld, AcctHeld, CleanHeld
<1>3. ASSUME NEW o \in {"failed", "done"}, Return(x, o) PROVE Inv'
  <2>1. o \in Outcomes
    BY DEF Outcomes
  <2>2. Types' /\ Grows(x) /\ Still /\ job' = job /\ unit' = unit
    BY <1>1, <1>2, <1>3, <2>1, ReturnMoves, ControlOnly
  <2> QED
    BY <1>1, <1>2, <1>3, <2>1, <2>2, HolderReturns DEF Outcomes, Opening, NewHeld
<1>4. CASE /\ CheckOpen /\ ~Spawned(x) /\ lock' = x /\ pc' = [pc EXCEPT ![x] = "spawn.ready"]
           /\ UNCHANGED <<undo, mem>>
  <2>1. Moved(x) /\ pc'[x] = "spawn.ready" /\ "spawn.ready" \in Held
    BY <1>4 DEF Moved, Types, TypeOK, PCs, Held, SpawnHeld
  <2>2. Types' /\ Grows(x) /\ Still /\ job' = job /\ unit' = unit
    BY <1>1, <1>2, <2>1, ControlOnly
  <2>3. Known(x)'
    BY <1>1, <1>2, <2>1, <2>2 DEF Known, Role, Started, Copy, Swept, Member, Resolving, Sweeping, Outcomes,
       NewHeld, SpawnHeld, ResHeld, AcctHeld, CleanHeld
  <2>4. Holding(x)'
    <3>1. /\ ~Opening(x)' /\ ~TearingDown(x)' /\ ~Resolving(x)' /\ ~Cleaning(x)'
      BY <2>1 DEF Opening, TearingDown, Resolving, Cleaning, NewHeld, ResHeld, AcctHeld, CleanHeld
    <3>2. SpawnHolds(x)'
      BY <1>1, <1>2, <1>4, <2>1 DEF SpawnHolds, CheckOpen, Spawned, store
    <3>3. AccountHolds(x)' /\ ResolveHolds(x)'
      BY <1>2, <1>4, <2>1, <3>1 DEF AccountHolds, AcctHeld, ResolveHolds
    <3> QED
      BY <3>1, <3>2, <3>3 DEF Holding, NewHolds, CleanHolds
  <2>5. Locks'
    BY <1>1, <1>4, <2>1, LockKept
  <2> QED
    BY <1>1, <2>2, <2>3, <2>4, <2>5, HolderMoves DEF Outcomes, Opening, NewHeld
<1> QED
  BY <1>1, <1>3, <1>4

\* A refusal is noted in the ledger, under no heading the run's record looks at.
LEMMA RefusalIsNoted ==
    ASSUME Types, ledger' = ledger \/ Refusal
    PROVE  /\ ledger' \in [resolved : Verdicts \cup {None}, fallbacks : Nat, gone : SUBSET Principals,
                           routes : Nat, refusals : Nat, canary : Nat]
           /\ ledger'.resolved = ledger.resolved /\ ledger'.gone = ledger.gone
  BY DEF Types, TypeOK, Refusal

\* The host is asked; a refusal is noted and nothing else has happened.
LEMMA SpawnReadyStep == ASSUME Inv, NEW x \in Calls, SpawnReady(x) PROVE Inv'
<1> USE DEF Inv
<1>1. pc[x] = "spawn.ready" /\ UNCHANGED <<req, run, child, files, outside, clocks>>
  BY DEF SpawnReady, At
<1>2. PICK k \in {"ok", "refused"} :
         /\ Outcome(k)
         /\ IF k = "ok" THEN Goto(x, "spawn.narrow") /\ UNCHANGED ledger ELSE Refusal /\ Return(x, "failed")
  BY DEF SpawnReady
<1>3. /\ faults' \in 0..MaxFaults /\ faults' >= faults /\ Spawning(x) /\ job[x] = "none"
      /\ "spawn.narrow" \in PCs /\ "failed" \in Outcomes
  BY <1>1, <1>2, OutcomeCharges DEF Spawning, SpawnHeld, PCs, Held, Outcomes, Known, Started
<1>4. Moved(x)
  BY <1>2, <1>3, GotoMoves, ReturnMoves
<1>5. /\ ledger' \in [resolved : Verdicts \cup {None}, fallbacks : Nat, gone : SUBSET Principals,
                      routes : Nat, refusals : Nat, canary : Nat]
      /\ ledger'.resolved = ledger.resolved /\ ledger'.gone = ledger.gone
  BY <1>2, RefusalIsNoted
<1>6. Types' /\ Grows(x) /\ Still
  BY <1>1, <1>3, <1>4, <1>5, BoundAssumption DEF Types, TypeOK, Grows, Still, Moved, outside, clocks
<1>7. CASE k = "ok"
  <2>1. pc'[x] = "spawn.narrow" /\ mem' = mem /\ lock' = lock
    BY <1>2, <1>3, <1>7, GotoMoves
  <2>2. Spawning(x)' /\ Started(x)' /\ Member(x)'
    BY <1>1, <1>3, <1>6, <2>1, SpawnAt DEF Spawning, SpawnHeld, Started, Member, outside
  <2> QED
    BY <1>1, <1>3, <1>4, <1>6, <2>1, <2>2, SpawnGoes DEF outside
<1>8. CASE k # "ok"
  <2>1. Return(x, "failed")
    BY <1>2, <1>8
  <2> QED
    BY <1>1, <1>3, <1>6, <2>1, SpawnAt, HolderReturns DEF outside
<1> QED
  BY <1>7, <1>8

\* The moxyfiles are staged, and compared.
LEMMA SpawnNarrowStep == ASSUME Inv, NEW x \in Calls, SpawnNarrow(x) PROVE Inv'
<1> USE DEF Inv
<1>1. pc[x] = "spawn.narrow" /\ UNCHANGED <<req, run, child, outside, clocks>>
  BY DEF SpawnNarrow, At
<1>2. PICK k \in {"ok", "refused", "disk"} :
         /\ Outcome(k)
         /\ files' = IF k = "disk" THEN files ELSE [files EXCEPT !.moxy = @ \cup {req[x].brief}]
         /\ IF k = "refused" THEN Refusal ELSE UNCHANGED ledger
         /\ Push(x, IF k = "ok" THEN "spawn.mint" ELSE "unwind", "unmoxy")
  BY DEF SpawnNarrow
<1> DEFINE s == IF k = "ok" THEN "spawn.mint" ELSE "unwind"
<1>3. /\ faults' \in 0..MaxFaults /\ faults' >= faults /\ Spawning(x) /\ job[x] = "none"
      /\ s \in PCs /\ s \in {"spawn.mint", "unwind"}
  BY <1>1, <1>2, OutcomeCharges DEF Spawning, SpawnHeld, PCs, Held, Known, Started
<1>4. Moved(x) /\ pc'[x] = s /\ mem' = mem /\ lock' = lock
  BY <1>2, <1>3, PushMoves
<1> HIDE DEF s
<1>5. /\ ledger' \in [resolved : Verdicts \cup {None}, fallbacks : Nat, gone : SUBSET Principals,
                      routes : Nat, refusals : Nat, canary : Nat]
      /\ ledger'.resolved = ledger.resolved /\ ledger'.gone = ledger.gone
  BY <1>2, RefusalIsNoted
<1>6. /\ files' \in [pw : SUBSET Principals, brief : SUBSET Briefs, moxy : SUBSET Briefs,
                     traffic : SUBSET Calls, canary : BOOLEAN, wake : BOOLEAN]
      /\ files'.pw = files.pw /\ files'.canary = files.canary /\ files'.wake = files.wake
  BY <1>2, <1>3, SpawnAt DEF Types, TypeOK
<1>7. Types' /\ Grows(x) /\ Still
  BY <1>1, <1>3, <1>4, <1>5, <1>6, BoundAssumption DEF Types, TypeOK, Grows, Still, Moved, outside, clocks
<1>8. Spawning(x)' /\ Started(x)' /\ Member(x)'
  BY <1>1, <1>3, <1>4, <1>7, SpawnAt DEF Spawning, SpawnHeld, Started, Member, outside
<1> QED
  BY <1>1, <1>3, <1>4, <1>7, <1>8, SpawnGoes DEF outside

\* The account: it exists before anything is recorded of it.
LEMMA SpawnMintStep == ASSUME Inv, NEW x \in Calls, SpawnMint(x) PROVE Inv'
<1> USE DEF Inv
<1>1. /\ pc[x] = "spawn.mint"
      /\ UNCHANGED <<req, run, ledger, child, muc, stanza, sent, job, unit, cancelled, clocks>>
  BY DEF SpawnMint, At
<1>2. PICK k \in Reply :
         /\ Outcome(k)
         /\ IF Took(k) THEN Mint(x) ELSE UNCHANGED <<acct, files>>
         /\ IF k = "ok" THEN Push(x, IF run.room THEN "spawn.affil" ELSE "spawn.stage", "revoke")
            ELSE Goto(x, "unwind")
  BY DEF SpawnMint
<1> DEFINE s == IF k # "ok" THEN "unwind" ELSE IF run.room THEN "spawn.affil" ELSE "spawn.stage"
<1>3. /\ faults' \in 0..MaxFaults /\ faults' >= faults /\ Spawning(x) /\ job[x] = "none"
      /\ s \in PCs /\ s \in {"spawn.affil", "spawn.stage", "unwind"} /\ run.room = OwnRoom
      /\ s = "spawn.stage" => ~run.room
  BY <1>1, <1>2, OutcomeCharges, SpawnAt DEF Spawning, SpawnHeld, PCs, Held, Known, Started, Shared, Record
<1>4. Moved(x) /\ pc'[x] = s /\ mem' = mem /\ lock' = lock
  BY <1>2, <1>3, GotoMoves, PushMoves
<1> HIDE DEF s
<1>5. /\ files' \in [pw : SUBSET Principals, brief : SUBSET Briefs, moxy : SUBSET Briefs,
                     traffic : SUBSET Calls, canary : BOOLEAN, wake : BOOLEAN]
      /\ files.pw \subseteq files'.pw /\ files'.canary = files.canary /\ files'.wake = files.wake
      /\ acct \subseteq acct' /\ acct' \subseteq acct \cup {x} /\ (x \in acct' => x \in acct \/ x \in files'.pw)
  BY <1>2, <1>3 DEF Types, TypeOK, Mint, Principals
<1>6. Types' /\ Grows(x)
  BY <1>1, <1>3, <1>4, <1>5 DEF Types, TypeOK, Grows, Moved, clocks, Principals
<1>7. Spawning(x)' /\ Started(x)' /\ Member(x)'
  BY <1>1, <1>3, <1>4, <1>6, SpawnAt DEF Spawning, SpawnHeld, Started, Member
<1>8. Shared'
  <2>1. acct' \subseteq files'.pw /\ job[x] \notin Terminal
    BY <1>3, <1>5 DEF Shared, Tears, Terminal
  <2> QED
    BY <1>1, <1>3, <1>5, <1>6, <2>1, SpawnShared
<1>9. Posts'
  BY <1>1, <1>3, <1>5, <1>6, PostsKept, SpawnAt, BoundAssumption DEF clocks, Types, TypeOK
<1> QED
  BY <1>1, <1>3, <1>4, <1>6, <1>7, <1>8, <1>9, SpawnWorks, SpawnAt DEF Holding, SpawnHolds

\* The membership: before anything is staged.
LEMMA SpawnAffilStep == ASSUME Inv, NEW x \in Calls, SpawnAffil(x) PROVE Inv'
<1> USE DEF Inv
<1>1. pc[x] = "spawn.affil" /\ UNCHANGED <<req, store, acct, stanza, sent, job, unit, cancelled, clocks>>
  BY DEF SpawnAffil, At
<1>2. PICK k \in Reply :
         /\ Outcome(k)
         /\ muc' = IF Took(k) THEN [muc EXCEPT !.members = @ \cup {x}] ELSE muc
         /\ IF k = "ok" THEN Push(x, "spawn.stage", "unaffil") ELSE Goto(x, "unwind")
  BY DEF SpawnAffil
<1> DEFINE s == IF k = "ok" THEN "spawn.stage" ELSE "unwind"
<1>3. /\ faults' \in 0..MaxFaults /\ faults' >= faults /\ Spawning(x) /\ job[x] = "none"
      /\ s \in PCs /\ s \in {"spawn.stage", "unwind"} /\ (s = "spawn.stage" => Took(k))
  BY <1>1, <1>2, OutcomeCharges, SpawnAt DEF Spawning, SpawnHeld, PCs, Held, Known, Started, Took
<1>4. Moved(x) /\ pc'[x] = s /\ mem' = mem /\ lock' = lock
  BY <1>2, <1>3, GotoMoves, PushMoves
<1> HIDE DEF s
<1>5. /\ muc' \in [made : BOOLEAN, members : SUBSET Principals] /\ muc'.made = muc.made
      /\ muc.members \subseteq muc'.members /\ (s = "spawn.stage" => x \in muc'.members)
  BY <1>2, <1>3 DEF Types, TypeOK, Principals
<1>6. Types' /\ Grows(x) /\ Still
  BY <1>1, <1>3, <1>4, <1>5, BoundAssumption DEF Types, TypeOK, Grows, Still, Moved, store, clocks
<1>7. Spawning(x)' /\ Started(x)' /\ Member(x)'
  BY <1>1, <1>3, <1>4, <1>5, <1>6, SpawnAt DEF Spawning, SpawnHeld, Started, Member
<1> QED
  BY <1>1, <1>3, <1>4, <1>6, <1>7, SpawnGoes DEF store

\* The brief is staged.
LEMMA SpawnStageStep == ASSUME Inv, NEW x \in Calls, SpawnStage(x) PROVE Inv'
<1> USE DEF Inv
<1>1. pc[x] = "spawn.stage" /\ UNCHANGED <<req, run, ledger, child, outside, clocks>>
  BY DEF SpawnStage, At
<1>2. PICK k \in Write :
         /\ Outcome(k)
         /\ IF k = "ok" THEN /\ files' = [files EXCEPT !.brief = @ \cup {req[x].brief}]
                             /\ Push(x, "spawn.job", "unstage")
            ELSE UNCHANGED files /\ Goto(x, "unwind")
  BY DEF SpawnStage
<1> DEFINE s == IF k = "ok" THEN "spawn.job" ELSE "unwind"
<1>3. /\ faults' \in 0..MaxFaults /\ faults' >= faults /\ Spawning(x) /\ job[x] = "none"
      /\ s \in PCs /\ s \in {"spawn.job", "unwind"}
  BY <1>1, <1>2, OutcomeCharges DEF Spawning, SpawnHeld, PCs, Held, Known, Started
<1>4. Moved(x) /\ pc'[x] = s /\ mem' = mem /\ lock' = lock
  BY <1>2, <1>3, GotoMoves, PushMoves
<1> HIDE DEF s
<1>5. /\ files' \in [pw : SUBSET Principals, brief : SUBSET Briefs, moxy : SUBSET Briefs,
                     traffic : SUBSET Calls, canary : BOOLEAN, wake : BOOLEAN]
      /\ files'.pw = files.pw /\ files'.canary = files.canary /\ files'.wake = files.wake
  BY <1>2, <1>3, SpawnAt DEF Types, TypeOK
<1>6. Types' /\ Grows(x) /\ Still
  BY <1>1, <1>3, <1>4, <1>5, BoundAssumption DEF Types, TypeOK, Grows, Still, Moved, outside, clocks
<1>7. Spawning(x)' /\ Started(x)' /\ Member(x)'
  BY <1>1, <1>3, <1>4, <1>6, SpawnAt, MemberStays DEF Spawning, SpawnHeld, Started, Outcomes, outside
<1> QED
  BY <1>1, <1>3, <1>4, <1>6, <1>7, SpawnGoes DEF outside

\* The job is started.
LEMMA SpawnJobStep == ASSUME Inv, NEW x \in Calls, SpawnJob(x) PROVE Inv'
<1> USE DEF Inv
<1>1. pc[x] = "spawn.job" /\ UNCHANGED <<req, store, acct, muc, stanza, sent, unit, cancelled, clocks>>
  BY DEF SpawnJob, At
<1>2. PICK k \in Reply :
         /\ Outcome(k)
         /\ IF Took(k) THEN StartJob(x) ELSE UNCHANGED job
         /\ IF k = "ok" THEN Push(x, "spawn.mirror", "failjob") ELSE Goto(x, "unwind")
  BY DEF SpawnJob
<1> DEFINE s == IF k = "ok" THEN "spawn.mirror" ELSE "unwind"
<1>3. /\ faults' \in 0..MaxFaults /\ faults' >= faults /\ Spawning(x) /\ job[x] = "none"
      /\ s \in PCs /\ s \in {"spawn.mirror", "unwind"}
  BY <1>1, <1>2, OutcomeCharges DEF Spawning, SpawnHeld, PCs, Held, Known, Started
<1>4. Moved(x) /\ pc'[x] = s /\ mem' = mem /\ lock' = lock
  BY <1>2, <1>3, GotoMoves, PushMoves
<1> HIDE DEF s
<1>5. /\ job' \in [Calls -> {"none", "running"} \cup Terminal]
      /\ \A d \in Calls : d # x => job'[d] = job[d]
  BY <1>2 DEF Types, TypeOK, StartJob
<1>6. Types' /\ Grows(x) /\ Still
  BY <1>1, <1>3, <1>4, <1>5, BoundAssumption DEF Types, TypeOK, Grows, Still, Moved, store, clocks, Terminal
<1>7. Spawning(x)' /\ Started(x)' /\ Member(x)'
  BY <1>1, <1>3, <1>4, <1>6, SpawnAt, MemberStays DEF Spawning, SpawnHeld, Started, Outcomes
<1> QED
  BY <1>1, <1>3, <1>4, <1>5, <1>6, <1>7, SpawnGoes

\* The issuer's handle, noted on the job.
LEMMA SpawnMirrorStep == ASSUME Inv, NEW x \in Calls, SpawnMirror(x) PROVE Inv'
<1> USE DEF Inv
<1>1. pc[x] = "spawn.mirror" /\ UNCHANGED <<req, store, outside, clocks>>
  BY DEF SpawnMirror, At
<1>2. PICK k \in Reply : Outcome(k) /\ Goto(x, IF k = "ok" THEN "spawn.post" ELSE "unwind")
  BY DEF SpawnMirror
<1> DEFINE s == IF k = "ok" THEN "spawn.post" ELSE "unwind"
<1>3. /\ faults' \in 0..MaxFaults /\ faults' >= faults /\ Spawning(x) /\ s \in PCs /\ s \in {"spawn.post", "unwind"}
  BY <1>1, <1>2, OutcomeCharges DEF Spawning, SpawnHeld, PCs, Held
<1>4. Moved(x) /\ pc'[x] = s /\ mem' = mem /\ lock' = lock
  BY <1>2, <1>3, GotoMoves
<1> HIDE DEF s
<1>5. Types' /\ Grows(x) /\ Still /\ job' = job /\ unit' = unit
  BY <1>1, <1>3, <1>4, ControlOnly
<1>6. Spawning(x)' /\ Started(x)' /\ Member(x)'
  BY <1>1, <1>3, <1>4, <1>5, SpawnAt, MemberStays DEF Spawning, SpawnHeld, Started, Outcomes, outside
<1> QED
  BY <1>1, <1>3, <1>4, <1>5, <1>6, SpawnGoes

\* The brief is dropped into the room.
LEMMA SpawnPostStep == ASSUME Inv, NEW x \in Calls, SpawnPost(x) PROVE Inv'
<1> USE DEF Inv
<1>1. pc[x] = "spawn.post" /\ UNCHANGED <<req, store, acct, muc, sent, job, unit, cancelled, clocks>>
  BY DEF SpawnPost, At
<1>2. PICK k \in Reply :
         /\ Outcome(k)
         /\ stanza' = IF Took(k) THEN [stanza EXCEPT ![x] = "posted"] ELSE stanza
         /\ IF k = "ok" THEN Push(x, "spawn.save", "withdraw") ELSE Goto(x, "unwind")
  BY DEF SpawnPost
<1> DEFINE s == IF k = "ok" THEN "spawn.save" ELSE "unwind"
<1>3. /\ faults' \in 0..MaxFaults /\ faults' >= faults /\ Spawning(x) /\ s \in PCs /\ s \in {"spawn.save", "unwind"}
  BY <1>1, <1>2, OutcomeCharges DEF Spawning, SpawnHeld, PCs, Held
<1>4. Moved(x) /\ pc'[x] = s /\ mem' = mem /\ lock' = lock
  BY <1>2, <1>3, GotoMoves, PushMoves
<1> HIDE DEF s
<1>5. stanza' \in [Calls -> {"none", "posted", "withdrawn"}]
  BY <1>2 DEF Types, TypeOK
<1>6. Types' /\ Grows(x) /\ Still
  BY <1>1, <1>3, <1>4, <1>5, BoundAssumption DEF Types, TypeOK, Grows, Still, Moved, store, clocks
<1>7. Spawning(x)' /\ Started(x)' /\ Member(x)'
  BY <1>1, <1>3, <1>4, <1>6, SpawnAt, MemberStays DEF Spawning, SpawnHeld, Started, Outcomes
<1> QED
  BY <1>1, <1>3, <1>4, <1>6, <1>7, SpawnGoes

\* The record is saved before the launch, under a brief nobody else has.
LEMMA SpawnSaveStep == ASSUME Inv, NEW x \in Calls, SpawnSave(x) PROVE Inv'
<1> USE DEF Inv
<1>1. pc[x] = "spawn.save" /\ UNCHANGED <<req, run, ledger, files, outside, clocks>>
  BY DEF SpawnSave, At
<1>2. PICK k \in Write :
         /\ Outcome(k)
         /\ IF k = "ok" THEN /\ child' = [child EXCEPT ![req[x].brief] = x]
                             /\ Push(x, "spawn.launch", "unsave")
            ELSE UNCHANGED child /\ Goto(x, "unwind")
  BY DEF SpawnSave
<1> DEFINE s == IF k = "ok" THEN "spawn.launch" ELSE "unwind"
<1>3. /\ faults' \in 0..MaxFaults /\ faults' >= faults /\ Spawning(x) /\ s \in PCs /\ s \in {"spawn.launch", "unwind"}
  BY <1>1, <1>2, OutcomeCharges DEF Spawning, SpawnHeld, PCs, Held
<1>4. Moved(x) /\ pc'[x] = s /\ mem' = mem /\ lock' = lock
  BY <1>2, <1>3, GotoMoves, PushMoves
<1> HIDE DEF s
<1>5. /\ child' \in [Briefs -> Calls \cup {None}]
      /\ \A b \in Briefs : child'[b] \in {child[b], None} \/ (b = req[x].brief /\ child'[b] = x)
      /\ child'[req[x].brief] \in {None, x}
  BY <1>1, <1>2, <1>3, SpawnAt DEF Types, TypeOK, Holding, SpawnHolds
<1>6. Types' /\ Grows(x)
  BY <1>1, <1>3, <1>4, <1>5, SpawnAt DEF Types, TypeOK, Grows, Moved, outside, clocks
<1>7. Spawning(x)' /\ Started(x)' /\ Member(x)'
  BY <1>1, <1>3, <1>4, <1>6, SpawnAt, MemberStays DEF Spawning, SpawnHeld, Started, Outcomes, outside
<1>8. Shared'
  BY <1>1, <1>3, <1>5, <1>6, SpawnShared DEF outside, Shared, Tears
<1>9. Posts'
  BY <1>1, <1>3, <1>6, PostsKept, SpawnAt, BoundAssumption DEF clocks, outside, Types, TypeOK
<1> QED
  BY <1>1, <1>3, <1>4, <1>5, <1>6, <1>7, <1>8, <1>9, SpawnWorks, SpawnAt

\* The launch is the last step: from here on the agent is on its own.
LEMMA SpawnLaunchStep == ASSUME Inv, NEW x \in Calls, SpawnLaunch(x) PROVE Inv'
<1> USE DEF Inv
<1>1. /\ pc[x] = "spawn.launch"
      /\ UNCHANGED <<req, run, ledger, child, acct, muc, stanza, sent, job, cancelled, clocks>>
  BY DEF SpawnLaunch, At
<1>2. PICK k \in Reply :
         /\ Outcome(k)
         /\ IF Took(k) THEN /\ unit' = [unit EXCEPT ![x] = "active"]
                            /\ files' = [files EXCEPT !.traffic = @ \cup {x}]
            ELSE UNCHANGED <<unit, files>>
         /\ IF k = "ok" THEN Return(x, "done") ELSE Goto(x, "unwind")
  BY DEF SpawnLaunch
<1>3. /\ faults' \in 0..MaxFaults /\ faults' >= faults /\ Spawning(x) /\ "unwind" \in PCs /\ "done" \in Outcomes
  BY <1>1, <1>2, OutcomeCharges DEF Spawning, SpawnHeld, PCs, Held, Outcomes
<1>4. Moved(x)
  BY <1>2, <1>3, GotoMoves, ReturnMoves
<1>5. /\ files' \in [pw : SUBSET Principals, brief : SUBSET Briefs, moxy : SUBSET Briefs,
                     traffic : SUBSET Calls, canary : BOOLEAN, wake : BOOLEAN]
      /\ files'.pw = files.pw /\ files'.canary = files.canary /\ files'.wake = files.wake
      /\ unit' \in [Calls -> {"none", "active", "stopped"}]
      /\ \A d \in Calls : d # x => unit'[d] = unit[d]
  BY <1>2 DEF Types, TypeOK
<1>6. Types' /\ Grows(x) /\ Still
  BY <1>1, <1>3, <1>4, <1>5, BoundAssumption DEF Types, TypeOK, Grows, Still, Moved, clocks
<1>7. CASE k = "ok"
  <2>1. pc'[x] = "done" /\ mem'[x] = Blank /\ lock' = IF lock = x THEN None ELSE lock
    BY <1>2, <1>3, <1>7, ReturnMoves
  <2>2. Known(x)'
    <3>1. Member(x)'
      BY <1>1, <1>3, SpawnAt DEF Known, Member
    <3>2. Role(x)' /\ Started(x)' /\ Copy(x)' /\ Swept(x)'
      BY <1>1, <1>3, <2>1, SpawnAt DEF Role, Started, Copy, Swept, Resolving, Sweeping, Outcomes,
         NewHeld, SpawnHeld, ResHeld, AcctHeld, CleanHeld
    <3> QED
      BY <2>1, <3>1, <3>2 DEF Known
  <2>3. "done" \notin Held
    BY DEF Held, NewHeld, SpawnHeld, ResHeld, AcctHeld, CleanHeld
  <2>4. Locks'
    BY <1>3, <1>4, <2>1, <2>3, LockKept, SpawnAt
  <2>5. Holding(x)'
    BY <2>1 DEF Holding, NewHolds, SpawnHolds, ResolveHolds, AccountHolds, CleanHolds, Opening, Spawning,
       TearingDown, Cleaning, NewHeld, SpawnHeld, AcctHeld, CleanHeld, Blank
  <2> QED
    BY <1>1, <1>3, <1>6, <2>2, <2>4, <2>5, HolderMoves, SpawnAt
<1>8. CASE k # "ok"
  <2>1. pc'[x] = "unwind" /\ mem' = mem /\ lock' = lock
    BY <1>2, <1>3, <1>8, GotoMoves
  <2>2. Spawning(x)' /\ Started(x)' /\ Member(x)'
    BY <1>1, <2>1, <1>3, <1>6, SpawnAt, MemberStays DEF Spawning, SpawnHeld, Started, Outcomes
  <2> QED
    BY <1>1, <1>3, <1>4, <1>6, <2>1, <2>2, SpawnGoes
<1> QED
  BY <1>7, <1>8

-----------------------------------------------------------------------------
(* The undo, of a spawn or of a --new-run.                                 *)

\* What one compensation does, whichever it is: it touches the call's own.
LEMMA UndoTouches ==
    ASSUME Types, NEW x \in Calls, NEW u,
           UndoEffect(x, u) \/ UNCHANGED <<stanza, job, acct, muc, files, child>>
    PROVE  /\ stanza' \in [Calls -> {"none", "posted", "withdrawn"}]
           /\ job' \in [Calls -> {"none", "running"} \cup Terminal]
           /\ \A d \in Calls : d # x => job'[d] = job[d]
           /\ job'[x] = job[x] \/ (job[x] = "running" /\ job'[x] \in Terminal)
           /\ acct' \subseteq acct /\ acct \subseteq acct' \cup {x}
           /\ muc' \in [made : BOOLEAN, members : SUBSET Principals] /\ muc'.made = muc.made
           /\ muc.members \subseteq muc'.members \cup {x}
           /\ files' \in [pw : SUBSET Principals, brief : SUBSET Briefs, moxy : SUBSET Briefs,
                          traffic : SUBSET Calls, canary : BOOLEAN, wake : BOOLEAN]
           /\ files'.pw = files.pw /\ files'.canary = files.canary /\ files'.wake = files.wake
           /\ child' \in [Briefs -> Calls \cup {None}]
           /\ \A b \in Briefs : child'[b] = child[b] \/ (b = req[x].brief /\ child'[b] = None)
<1>1. CASE UNCHANGED <<stanza, job, acct, muc, files, child>>
  BY <1>1 DEF Types, TypeOK
<1>2. CASE UndoEffect(x, u)
  <2> USE <1>2 DEF UndoEffect, Types, TypeOK
  <2>1. /\ stanza' \in [Calls -> {"none", "posted", "withdrawn"}]
        /\ acct' \subseteq acct /\ acct \subseteq acct' \cup {x}
    OBVIOUS
  <2>2. /\ job' \in [Calls -> {"none", "running"} \cup Terminal]
        /\ \A d \in Calls : d # x => job'[d] = job[d]
        /\ job'[x] = job[x] \/ (job[x] = "running" /\ job'[x] \in Terminal)
    BY DEF Terminal
  <2>3. /\ muc' \in [made : BOOLEAN, members : SUBSET Principals] /\ muc'.made = muc.made
        /\ muc.members \subseteq muc'.members \cup {x}
    OBVIOUS
  <2>4. /\ files' \in [pw : SUBSET Principals, brief : SUBSET Briefs, moxy : SUBSET Briefs,
                          traffic : SUBSET Calls, canary : BOOLEAN, wake : BOOLEAN]
        /\ files'.pw = files.pw /\ files'.canary = files.canary /\ files'.wake = files.wake
    OBVIOUS
  <2>5. /\ child' \in [Briefs -> Calls \cup {None}]
        /\ \A b \in Briefs : child'[b] = child[b] \/ (b = req[x].brief /\ child'[b] = None)
    OBVIOUS
  <2> QED
    BY <2>1, <2>2, <2>3, <2>4, <2>5
<1> QED
  BY <1>1, <1>2

-----------------------------------------------------------------------------
(* A --new-run, from its lock to its record or its undo.                   *)

\* What a --new-run at work knows: nothing of the run is on the disk but perhaps a
\* pending record.
LEMMA NewAt ==
    ASSUME Inv, NEW x \in Calls, Opening(x)
    PROVE  /\ req[x].verb = "new" /\ unit[x] = "none" /\ pc[x] \in Held /\ lock = x
           /\ pc[x] \notin Outcomes \cup {"idle", "res.mark", "res.wmark"}
           /\ run.phase \in {"none", "pending"}
           /\ pc[x] \notin {"new.ready", "new.mint"} => Root \in acct
           /\ mem[x] \in Memories /\ mem[x].gone = {} /\ Role(x) /\ Started(x) /\ NewHolds(x)
<1>1. /\ pc[x] \in Held /\ pc[x] \notin Outcomes \cup {"idle", "res.mark", "res.wmark"}
      /\ pc[x] \notin ResHeld \cup AcctHeld \cup CleanHeld
  BY DEF Opening, Held, NewHeld, ResHeld, AcctHeld, CleanHeld, Outcomes
<1>2. req[x].verb = "new" /\ Known(x) /\ Holding(x) /\ Role(x) /\ Started(x) /\ NewHolds(x)
  BY <1>1 DEF Inv, Known, Role, Opening, Holding
<1>3. unit[x] = "none"
  BY <1>2 DEF Started
<1>4. mem[x].gone = {} /\ mem[x] \in Memories /\ lock = x
  BY <1>1, <1>2 DEF Holding, AccountHolds, Resolving, Cleaning, Inv, Locks, Types
<1> QED
  BY <1>1, <1>2, <1>3, <1>4 DEF NewHolds

\* Before there is a run there is a root at most, and a --new-run may make it.
LEMMA NewShared ==
    ASSUME Inv, NEW x \in Calls, Grows(x), run.phase \in {"none", "pending"},
           run' = run \/ (/\ run'.phase = "pending" /\ run'.job = None /\ run'.resolved = None
                          /\ ~run'.tornDown),
           ledger'.resolved = ledger.resolved, ledger'.gone = ledger.gone,
           acct' \subseteq acct \cup {Root}, acct' \subseteq files'.pw,
           \A b \in Briefs : child'[b] \in {child[b], None}
    PROVE  Shared'
<1> USE DEF Inv, Shared
<1>1. /\ run.job = None /\ run.resolved = None /\ ~run.tornDown /\ ledger.resolved = None
      /\ \A b \in Briefs : child[b] = None
  BY DEF Record
<1>2. run'.phase \in {"none", "pending"} /\ run'.job = None /\ run'.resolved = None /\ ~run'.tornDown
  BY <1>1
<1>3. Record' /\ RunJob' /\ OneResolution' /\ Records'
  BY <1>1, <1>2 DEF Record, RunJob, OneResolution, Records
<1>4. Tears'
  <2>1. Root \notin ledger.gone
    BY <1>1 DEF Tears
  <2>2. ASSUME NEW p \in ledger.gone PROVE IsGone(p)'
    <3>1. IsGone(p)
      BY <2>2 DEF Tears
    <3>2. p \in Calls => job'[p] \in Terminal
      BY <3>1 DEF IsGone, Grows
    <3>3. p \notin acct'
      BY <2>1, <3>1 DEF IsGone
    <3> QED
      BY <3>2, <3>3 DEF IsGone
  <2>3. RootLast'
    BY <1>1 DEF RootLast, Recorded
  <2> QED
    BY <1>2, <2>1, <2>2, <2>3 DEF Tears
<1> QED
  BY <1>3, <1>4

\* Before the mint there is no room, and a root only where a mint's answer was lost.
LEMMA RootUnclaimed ==
    ASSUME Inv, NEW x \in Calls, pc[x] \in {"new.ready", "new.mint"},
           crashes = 0, \A c \in Calls : pc[c] # "dirty", run.phase = "none"
    PROVE  ~muc.made /\ (Root \in acct => faults > 0)
<1>1. pc[x] \in Held
  BY DEF Held, NewHeld
<1>2. \A c \in Calls : c # x => pc[c] \notin Held
  BY <1>1, Alone
<1>3. \A c \in Calls : Opening(c) => c = x
  BY <1>2 DEF Opening, Held
<1> QED
  BY <1>3 DEF Inv, RootKnown

\* A step between two positions of a --new-run.
LEMMA NewWorks ==
    ASSUME Inv, NEW x \in Calls, Opening(x), Moved(x), lock' = lock, Types', Grows(x), Shared', Posts',
           run'.phase = run.phase, mem'[x].gone = {}, Opening(x)', Started(x)', NewHolds(x)',
           crashes' = crashes,
           \/ pc'[x] \notin {"new.ready", "new.mint", "new.room"}
           \/ pc[x] = "new.ready" /\ pc'[x] = "new.mint" /\ muc' = muc /\ acct' = acct /\ faults' = faults
           \/ pc[x] = "new.mint" /\ pc'[x] = "new.room" /\ muc' = muc
    PROVE  Inv'
<1>1. req'[x] = req[x]
  BY NewAt DEF Grows
<1>2. /\ pc'[x] \in Held /\ pc'[x] \notin {"idle", "new.lock"}
      /\ pc'[x] \notin SpawnHeld \cup ResHeld \cup AcctHeld \cup CleanHeld \cup Sweeping \cup Waiting \cup Outcomes
  BY DEF Opening, Held, SpawnHeld, NewHeld, ResHeld, AcctHeld, CleanHeld, Sweeping, Waiting, Outcomes
<1>3. ~Spawning(x)' /\ ~Resolving(x)' /\ ~Cleaning(x)' /\ ~TearingDown(x)'
  BY <1>1, <1>2, NewAt DEF Spawning, Resolving, Cleaning, TearingDown, ResHeld
<1>4. Known(x)'
  <2>1. Role(x)'
    BY <1>1, <1>2, NewAt DEF Role, Waiting
  <2>2. Copy(x)' /\ Swept(x)' /\ Member(x)'
    BY <1>2, <1>3 DEF Copy, Swept, Member, Waiting, SpawnHeld, Outcomes
  <2> QED
    BY <1>2, <2>1, <2>2 DEF Known
<1>5. Holding(x)'
  <2>1. ResolveHolds(x)' /\ AccountHolds(x)'
    BY <1>2, <1>3 DEF ResolveHolds, AccountHolds, ResHeld, AcctHeld
  <2> QED
    BY <1>3, <2>1 DEF Holding, SpawnHolds, CleanHolds
<1>6. Locks'
  BY <1>2, LockKept, NewAt
<1>7. RootKnown'
  <2>1. CASE pc'[x] \notin {"new.ready", "new.mint", "new.room"}
    BY <2>1 DEF RootKnown
  <2> SUFFICES ASSUME pc[x] \in {"new.ready", "new.mint"}, muc' = muc,
                      \/ pc[x] = "new.ready" /\ acct' = acct /\ faults' = faults
                      \/ pc'[x] = "new.room",
                      crashes' = 0, \A c \in Calls : pc'[c] # "dirty", run'.phase = "none"
               PROVE  /\ ~muc'.made
                      /\ Root \in acct' => \/ \E c \in Calls : Opening(c)' /\ pc'[c] \notin {"new.ready", "new.mint"}
                                           \/ ~muc'.made /\ faults' > 0
    BY <2>1 DEF RootKnown
  <2>2. \A c \in Calls : pc[c] # "dirty"
    BY DEF Moved
  <2> QED
    BY <2>2, RootUnclaimed
<1> QED
  BY <1>4, <1>5, <1>6, <1>7, HolderStep, NewAt

\* The last step of a --new-run.
LEMMA NewEnds ==
    ASSUME Inv, NEW x \in Calls, Opening(x), NEW o \in Outcomes, Return(x, o), unit' = unit,
           Types', Grows(x), Shared', Posts', RootKnown'
    PROVE  Inv'
<1>1. /\ Moved(x) /\ pc'[x] = o /\ mem'[x] = Blank /\ lock' = IF lock = x THEN None ELSE lock
  BY ReturnMoves DEF Inv
<1>2. Known(x)' /\ Holding(x)'
  BY <1>1, NewAt, EndKnows DEF Grows
<1>3. Locks'
  <2>1. o \notin Held
    BY DEF Held, NewHeld, SpawnHeld, ResHeld, AcctHeld, CleanHeld, Outcomes
  <2> QED
    BY <1>1, <2>1, LockKept, NewAt
<1> QED
  BY <1>2, <1>3, HolderStep, NewAt

\* A step between two positions that leaves the record and the accounts alone.
LEMMA NewGoes ==
    ASSUME Inv, NEW x \in Calls, Opening(x), Moved(x), lock' = lock, Types', Grows(x),
           UNCHANGED <<run, ledger, child, files, acct, sent, crashes, unit>>,
           faults' \in 0..MaxFaults, faults' >= faults,
           mem'[x].gone = {}, Opening(x)', Started(x)', NewHolds(x)',
           \/ pc'[x] \notin {"new.ready", "new.mint", "new.room"}
           \/ pc[x] = "new.ready" /\ pc'[x] = "new.mint" /\ muc' = muc /\ faults' = faults
    PROVE  Inv'
<1>1. Shared'
  BY NewShared, NewAt DEF Inv, Shared, Tears
<1>2. Posts'
  BY PostsKept, NewAt, BoundAssumption DEF Inv, Types, TypeOK
<1> QED
  BY <1>1, <1>2, NewWorks

\* The lock, and a retry's fresh date on the pending record.
LEMMA NewEnterStep == ASSUME Inv, NEW x \in Calls, NewEnter(x) PROVE Inv'
<1> USE DEF Inv
<1>1. /\ pc[x] = "new.lock" /\ lock = None /\ UNCHANGED <<req, ledger, child, files, outside, clocks>>
      /\ \/ /\ Return(x, "done") \/ Return(x, "failed")
            /\ run' = run
         \/ /\ lock' = x /\ pc' = [pc EXCEPT ![x] = "new.ready"] /\ UNCHANGED <<undo, mem>>
            /\ \/ run.phase = "none" /\ run' = run
               \/ run.phase = "pending" /\ run' = [run EXCEPT !.since = now]
  BY DEF NewEnter, At, Acquire
<1>2. /\ Role(x) /\ Started(x) /\ req[x].verb = "new" /\ unit[x] = "none" /\ job[x] = "none"
      /\ mem[x].gone = {} /\ ~mem[x].room
  BY <1>1 DEF Known, Role, Started, Outcomes, Holding, AccountHolds, Resolving, Cleaning, ResHeld, AcctHeld, CleanHeld
<1>3. faults' \in 0..MaxFaults /\ faults' >= faults
  <2>1. \A k : Outcome(k) => faults' \in 0..MaxFaults /\ faults' >= faults
    BY OutcomeCharges
  <2> QED
    BY <2>1, BoundAssumption DEF NewEnter, Types, TypeOK
<1>4. ASSUME NEW o \in {"failed", "done"}, Return(x, o), run' = run PROVE Inv'
  <2>1. o \in Outcomes
    BY DEF Outcomes
  <2>2. Types' /\ Grows(x) /\ Still /\ job' = job /\ unit' = unit
    BY <1>1, <1>3, <1>4, <2>1, ReturnMoves, ControlOnly DEF store
  <2> QED
    BY <1>1, <1>2, <1>4, <2>1, <2>2, HolderReturns DEF Outcomes, Opening, NewHeld
<1>5. CASE /\ lock' = x /\ pc' = [pc EXCEPT ![x] = "new.ready"] /\ UNCHANGED <<undo, mem>>
           /\ \/ run.phase = "none" /\ run' = run
              \/ run.phase = "pending" /\ run' = [run EXCEPT !.since = now]
  <2>1. Moved(x) /\ pc'[x] = "new.ready" /\ "new.ready" \in Held /\ mem' = mem
    BY <1>5 DEF Moved, Types, TypeOK, PCs, Held, NewHeld
  <2>2. /\ run' \in RunRecords /\ run'.phase = run.phase /\ run'.phase \in {"none", "pending"}
        /\ run' = run \/ (/\ run'.phase = "pending" /\ run'.job = None /\ run'.resolved = None
                          /\ ~run'.tornDown)
    BY <1>5 DEF Types, TypeOK, RunRecords, Shared, Record
  <2>3. Types' /\ Grows(x)
    BY <1>1, <1>3, <2>1, <2>2 DEF Types, TypeOK, Grows, Moved, RunRecords, Shared, Record, outside, clocks
  <2>4. Shared'
    BY <1>1, <2>2, <2>3, NewShared DEF outside, Shared, Tears
  <2>5. Posts'
    BY <1>1, <1>3, <2>3, PostsKept, BoundAssumption DEF outside, clocks, Types, TypeOK
  <2>6. RootKnown'
    BY <1>1, <1>3, <2>2, <2>3, RootStill, BoundAssumption DEF Opening, NewHeld, outside, clocks, Types, TypeOK
  <2>7. Known(x)'
    BY <1>1, <1>2, <2>1 DEF Known, Role, Started, Copy, Swept, Member, Resolving, Sweeping, Outcomes,
       NewHeld, SpawnHeld, ResHeld, AcctHeld, CleanHeld, outside
  <2>8. Holding(x)'
    <3>1. /\ ~Spawning(x)' /\ ~TearingDown(x)' /\ ~Resolving(x)' /\ ~Cleaning(x)'
      BY <2>1 DEF Spawning, TearingDown, Resolving, Cleaning, SpawnHeld, ResHeld, AcctHeld, CleanHeld
    <3>2. NewHolds(x)'
      BY <1>2, <2>1, <2>2 DEF NewHolds
    <3>3. AccountHolds(x)' /\ ResolveHolds(x)'
      BY <1>2, <2>1, <3>1 DEF AccountHolds, AcctHeld, ResolveHolds
    <3> QED
      BY <3>1, <3>2, <3>3 DEF Holding, SpawnHolds, CleanHolds
  <2>9. Locks'
    BY <1>1, <1>5, <2>1, LockKept
  <2> QED
    BY <1>1, <2>3, <2>4, <2>5, <2>6, <2>7, <2>8, <2>9, HolderStep
<1> QED
  BY <1>1, <1>4, <1>5

\* The host is asked first.
LEMMA NewReadyStep == ASSUME Inv, NEW x \in Calls, NewReady(x) PROVE Inv'
<1> USE DEF Inv
<1>1. pc[x] = "new.ready" /\ UNCHANGED <<req, store, outside, clocks>>
  BY DEF NewReady, At
<1>2. PICK k \in {"ok", "refused"} :
         Outcome(k) /\ IF k = "ok" THEN Goto(x, "new.mint") ELSE Return(x, "failed")
  BY DEF NewReady
<1>3. /\ faults' \in 0..MaxFaults /\ faults' >= faults /\ Opening(x) /\ "new.mint" \in PCs /\ "failed" \in Outcomes
      /\ k = "ok" => faults' = faults
  BY <1>1, <1>2, OutcomeCharges DEF Opening, NewHeld, PCs, Held, Outcomes
<1>4. Moved(x)
  BY <1>2, <1>3, GotoMoves, ReturnMoves
<1>5. Types' /\ Grows(x) /\ Still /\ job' = job /\ unit' = unit
  BY <1>1, <1>3, <1>4, ControlOnly
<1>6. CASE k = "ok"
  <2>1. pc'[x] = "new.mint" /\ mem' = mem /\ lock' = lock
    BY <1>2, <1>3, <1>6, GotoMoves
  <2>2. Opening(x)' /\ Started(x)' /\ NewHolds(x)'
    BY <1>1, <1>3, <1>5, <2>1, NewAt DEF Opening, NewHeld, Started, NewHolds, store, outside
  <2> QED
    BY <1>1, <1>3, <1>4, <1>5, <1>6, <2>1, <2>2, NewGoes, NewAt DEF store, outside, clocks
<1>7. CASE k # "ok"
  <2>1. Return(x, "failed") /\ pc'[x] = "failed"
    BY <1>2, <1>3, <1>7, ReturnMoves
  <2>2. Shared' /\ Posts'
    BY <1>1, <1>3, <1>5, NewShared, PostsKept, NewAt, BoundAssumption DEF Shared, Tears, store, outside, clocks,
       Types, TypeOK
  <2>3. RootKnown'
    <3> SUFFICES ASSUME crashes = 0, \A c \in Calls : pc[c] # "dirty", run.phase = "none"
                 PROVE  ~muc'.made /\ (Root \in acct' => faults' > 0)
      BY <1>1, <1>4, <2>1 DEF RootKnown, store, outside, clocks, Moved
    <3> QED
      BY <1>1, <1>3, RootUnclaimed DEF outside, Types, TypeOK
  <2> QED
    BY <1>3, <1>5, <2>1, <2>2, <2>3, NewEnds
<1> QED
  BY <1>6, <1>7

\* The root's mint: its answer may be lost, and then nobody knows of the root.
LEMMA NewMintStep == ASSUME Inv, NEW x \in Calls, NewMint(x) PROVE Inv'
<1> USE DEF Inv
<1>1. /\ pc[x] = "new.mint"
      /\ UNCHANGED <<req, run, ledger, child, muc, stanza, sent, job, unit, cancelled, clocks>>
  BY DEF NewMint, At
<1>2. PICK k \in Reply :
         /\ Outcome(k)
         /\ IF Took(k) THEN Mint(Root) ELSE UNCHANGED <<acct, files>>
         /\ IF k = "ok" THEN Goto(x, IF OwnRoom THEN "new.room" ELSE "new.post") ELSE Return(x, "failed")
  BY DEF NewMint
<1> DEFINE s == IF OwnRoom THEN "new.room" ELSE "new.post"
<1>3. /\ faults' \in 0..MaxFaults /\ faults' >= faults /\ (k # "ok" => faults' = faults + 1)
      /\ Opening(x) /\ s \in PCs /\ "failed" \in Outcomes
      /\ s = "new.room" => OwnRoom
      /\ s = "new.post" => ~OwnRoom
      /\ s \in {"new.room", "new.post"} /\ job[x] = "none"
  BY <1>1, <1>2, OutcomeCharges DEF Opening, NewHeld, PCs, Held, Outcomes, Known, Started
<1>4. Moved(x)
  BY <1>2, <1>3, GotoMoves, ReturnMoves
<1>5. /\ files' \in [pw : SUBSET Principals, brief : SUBSET Briefs, moxy : SUBSET Briefs,
                     traffic : SUBSET Calls, canary : BOOLEAN, wake : BOOLEAN]
      /\ files.pw \subseteq files'.pw /\ files'.canary = files.canary /\ files'.wake = files.wake
      /\ acct \subseteq acct' /\ acct' \subseteq acct \cup {Root} /\ (Root \in acct' => Root \in acct \/ Root \in files'.pw)
      /\ k = "ok" => Root \in acct'
  BY <1>2, <1>3 DEF Types, TypeOK, Mint, Principals, Took
<1>6. Types' /\ Grows(x)
  BY <1>1, <1>3, <1>4, <1>5 DEF Types, TypeOK, Grows, Moved, clocks, Principals
<1>7. Shared'
  <2>1. acct' \subseteq files'.pw
    BY <1>5 DEF Shared, Tears
  <2> QED
    BY <1>1, <1>3, <1>5, <1>6, <2>1, NewShared, NewAt
<1>8. Posts'
  BY <1>1, <1>3, <1>5, <1>6, PostsKept, NewAt, BoundAssumption DEF clocks, Types, TypeOK
<1>9. CASE k = "ok"
  <2>1. pc'[x] = s /\ mem' = mem /\ lock' = lock
    BY <1>2, <1>3, <1>9, GotoMoves
  <2> HIDE DEF s
  <2>2. Opening(x)' /\ Started(x)'
    BY <1>1, <1>3, <1>6, <2>1, NewAt DEF Opening, NewHeld, Started
  <2>3. NewHolds(x)'
    <3>1. ~mem[x].room /\ mem[x].room \in BOOLEAN /\ OwnRoom \in BOOLEAN
      BY <1>1, <1>3, NewAt, OptionAssumption DEF NewHolds, Memories
    <3>2. run'.phase \in {"none", "pending"} /\ Root \in acct'
      BY <1>1, <1>3, <1>5, <1>9, NewAt
    <3>3. s = "new.post" => mem[x].room = OwnRoom
      BY <1>3, <3>1
    <3> QED
      BY <1>3, <2>1, <3>2, <3>3 DEF NewHolds
  <2> QED
    BY <1>1, <1>3, <1>4, <1>6, <1>7, <1>8, <2>1, <2>2, <2>3, NewWorks, NewAt DEF clocks
<1>10. CASE k # "ok"
  <2>1. Return(x, "failed") /\ pc'[x] = "failed"
    BY <1>2, <1>3, <1>10, ReturnMoves
  <2>2. RootKnown'
    <3> SUFFICES ASSUME crashes = 0, \A c \in Calls : pc[c] # "dirty", run.phase = "none"
                 PROVE  ~muc'.made /\ (Root \in acct' => faults' > 0)
      BY <1>1, <1>4, <2>1 DEF RootKnown, clocks, Moved
    <3> QED
      BY <1>1, <1>3, <1>10, RootUnclaimed DEF Types, TypeOK
  <2> QED
    BY <1>1, <1>3, <1>6, <1>7, <1>8, <2>1, <2>2, NewEnds
<1> QED
  BY <1>9, <1>10

\* The room, made as the root.
LEMMA NewRoomStep == ASSUME Inv, NEW x \in Calls, NewRoom(x) PROVE Inv'
<1> USE DEF Inv
<1>1. pc[x] = "new.room" /\ UNCHANGED <<req, store, acct, stanza, sent, job, unit, cancelled, clocks>>
  BY DEF NewRoom, At
<1>2. PICK k \in Reply :
         /\ Outcome(k)
         /\ muc' = IF Took(k) THEN [made |-> TRUE, members |-> muc.members \cup {Root}] ELSE muc
         /\ IF k = "ok" THEN Remember(x, "new.post", [mem[x] EXCEPT !.room = TRUE]) ELSE Goto(x, "unwind")
  BY DEF NewRoom
<1> DEFINE m == [mem[x] EXCEPT !.room = TRUE]
<1>3. /\ faults' \in 0..MaxFaults /\ faults' >= faults /\ Opening(x) /\ "new.post" \in PCs /\ "unwind" \in PCs
      /\ job[x] = "none" /\ OwnRoom
  BY <1>1, <1>2, OutcomeCharges, NewAt DEF Opening, NewHeld, PCs, Held, Known, Started, NewHolds
<1>4. m \in Memories /\ m.gone = {} /\ m.room
  BY <1>3, NewAt, ZenonT(40) DEF Memories
<1> HIDE DEF m
<1>5. Moved(x) /\ lock' = lock /\ (\/ pc'[x] = "new.post" /\ mem'[x] = m
                                   \/ pc'[x] = "unwind" /\ mem' = mem)
  BY <1>2, <1>3, <1>4, GotoMoves, RememberMoves DEF m
<1>6. muc' \in [made : BOOLEAN, members : SUBSET Principals] /\ muc.members \subseteq muc'.members
  BY <1>2 DEF Types, TypeOK, Principals
<1>7. Types' /\ Grows(x)
  BY <1>1, <1>3, <1>5, <1>6 DEF Types, TypeOK, Grows, Moved, store, clocks
<1>8. Opening(x)' /\ Started(x)'
  BY <1>1, <1>3, <1>5, <1>7, NewAt DEF Opening, NewHeld, Started, Grows
<1>9. NewHolds(x)'
  <2>1. run'.phase \in {"none", "pending"} /\ Root \in acct'
    BY <1>1, <1>3, NewAt DEF store
  <2>2. m.room = OwnRoom
    BY <1>3, <1>4, OptionAssumption DEF Memories
  <2> QED
    BY <1>5, <2>1, <2>2 DEF NewHolds
<1> QED
  BY <1>1, <1>3, <1>4, <1>5, <1>7, <1>8, <1>9, NewGoes, NewAt DEF store, clocks

\* What a --new-run has once it has its room goes with it.
LEMMA NewHoldsOn ==
    ASSUME Inv, NEW x \in Calls, Opening(x), mem'[x].room = mem[x].room, acct' = acct, run'.phase = run.phase,
           \/ pc[x] \notin {"new.ready", "new.mint"} /\ pc'[x] = "unwind"
           \/ pc[x] = "new.post" /\ pc'[x] = "new.job"
           \/ pc[x] = "new.job" /\ pc'[x] = "new.mirror" /\ job'[x] = "running"
           \/ pc[x] = "new.mirror" /\ pc'[x] = "new.save" /\ job'[x] = job[x]
    PROVE  NewHolds(x)'
<1>1. run.phase \in {"none", "pending"} /\ NewHolds(x) /\ (pc[x] \notin {"new.ready", "new.mint"} => Root \in acct)
  BY NewAt
<1> QED
  BY <1>1 DEF NewHolds, Opening

\* The run input is posted.
LEMMA NewPostStep == ASSUME Inv, NEW x \in Calls, NewPost(x) PROVE Inv'
<1> USE DEF Inv
<1>1. pc[x] = "new.post" /\ UNCHANGED <<req, store, acct, muc, sent, job, unit, cancelled, clocks>>
  BY DEF NewPost, At
<1>2. PICK k \in Reply :
         /\ Outcome(k)
         /\ stanza' = IF Took(k) THEN [stanza EXCEPT ![x] = "posted"] ELSE stanza
         /\ IF k = "ok" THEN Push(x, "new.job", "withdraw") ELSE Goto(x, "unwind")
  BY DEF NewPost
<1> DEFINE s == IF k = "ok" THEN "new.job" ELSE "unwind"
<1>3. /\ faults' \in 0..MaxFaults /\ faults' >= faults /\ Opening(x) /\ s \in PCs /\ s \in {"new.job", "unwind"}
      /\ job[x] = "none"
  BY <1>1, <1>2, OutcomeCharges DEF Opening, NewHeld, PCs, Held, Known, Started
<1>4. Moved(x) /\ pc'[x] = s /\ mem' = mem /\ lock' = lock
  BY <1>2, <1>3, GotoMoves, PushMoves
<1> HIDE DEF s
<1>5. stanza' \in [Calls -> {"none", "posted", "withdrawn"}]
  BY <1>2 DEF Types, TypeOK
<1>6. Types' /\ Grows(x)
  BY <1>1, <1>3, <1>4, <1>5 DEF Types, TypeOK, Grows, Moved, store, clocks
<1>7. Opening(x)' /\ Started(x)' /\ NewHolds(x)'
  BY <1>1, <1>3, <1>4, <1>6, NewAt, NewHoldsOn DEF Opening, NewHeld, Started, Grows, store
<1> QED
  BY <1>1, <1>3, <1>4, <1>6, <1>7, NewGoes, NewAt DEF store, clocks

\* The run's job.
LEMMA NewJobStep == ASSUME Inv, NEW x \in Calls, NewJob(x) PROVE Inv'
<1> USE DEF Inv
<1>1. pc[x] = "new.job" /\ UNCHANGED <<req, store, acct, muc, stanza, sent, unit, cancelled, clocks>>
  BY DEF NewJob, At
<1>2. PICK k \in Reply :
         /\ Outcome(k)
         /\ IF Took(k) THEN StartJob(x) ELSE UNCHANGED job
         /\ IF k = "ok" THEN Push(x, "new.mirror", "failjob") ELSE Goto(x, "unwind")
  BY DEF NewJob
<1> DEFINE s == IF k = "ok" THEN "new.mirror" ELSE "unwind"
<1>3. /\ faults' \in 0..MaxFaults /\ faults' >= faults /\ Opening(x) /\ s \in PCs /\ s \in {"new.mirror", "unwind"}
      /\ job[x] = "none" /\ (s = "new.mirror" => Took(k))
  BY <1>1, <1>2, OutcomeCharges DEF Opening, NewHeld, PCs, Held, Known, Started, Took
<1>4. Moved(x) /\ pc'[x] = s /\ mem' = mem /\ lock' = lock
  BY <1>2, <1>3, GotoMoves, PushMoves
<1> HIDE DEF s
<1>5. /\ job' \in [Calls -> {"none", "running"} \cup Terminal]
      /\ \A d \in Calls : d # x => job'[d] = job[d]
      /\ s = "new.mirror" => job'[x] = "running"
  BY <1>2, <1>3 DEF Types, TypeOK, StartJob
<1>6. Types' /\ Grows(x)
  BY <1>1, <1>3, <1>4, <1>5 DEF Types, TypeOK, Grows, Moved, store, clocks, Terminal
<1>7. Opening(x)' /\ Started(x)' /\ NewHolds(x)'
  BY <1>1, <1>3, <1>4, <1>5, <1>6, NewAt, NewHoldsOn DEF Opening, NewHeld, Started, Grows, store
<1> QED
  BY <1>1, <1>3, <1>4, <1>6, <1>7, NewGoes, NewAt DEF store, clocks

\* The issuer's handle, noted on the run's job.
LEMMA NewMirrorStep == ASSUME Inv, NEW x \in Calls, NewMirror(x) PROVE Inv'
<1> USE DEF Inv
<1>1. pc[x] = "new.mirror" /\ UNCHANGED <<req, store, outside, clocks>>
  BY DEF NewMirror, At
<1>2. PICK k \in Reply : Outcome(k) /\ Goto(x, IF k = "ok" THEN "new.save" ELSE "unwind")
  BY DEF NewMirror
<1> DEFINE s == IF k = "ok" THEN "new.save" ELSE "unwind"
<1>3. /\ faults' \in 0..MaxFaults /\ faults' >= faults /\ Opening(x) /\ s \in PCs /\ s \in {"new.save", "unwind"}
  BY <1>1, <1>2, OutcomeCharges DEF Opening, NewHeld, PCs, Held
<1>4. Moved(x) /\ pc'[x] = s /\ mem' = mem /\ lock' = lock
  BY <1>2, <1>3, GotoMoves
<1> HIDE DEF s
<1>5. Types' /\ Grows(x) /\ Still /\ job' = job /\ unit' = unit
  BY <1>1, <1>3, <1>4, ControlOnly
<1>6. Opening(x)' /\ Started(x)' /\ NewHolds(x)'
  BY <1>1, <1>3, <1>4, <1>5, NewAt, NewHoldsOn DEF Opening, NewHeld, Started, Grows, store, outside
<1> QED
  BY <1>1, <1>3, <1>4, <1>5, <1>6, NewGoes, NewAt DEF store, outside, clocks

\* The record opens the run, with the root and the job it names already there.
LEMMA NewSaveStep == ASSUME Inv, NEW x \in Calls, NewSave(x) PROVE Inv'
<1> USE DEF Inv
<1>1. pc[x] = "new.save" /\ UNCHANGED <<req, ledger, child, files, outside, clocks>>
  BY DEF NewSave, At
<1>2. PICK k \in Write :
         /\ Outcome(k)
         /\ IF k = "ok" THEN run' = OpenRecord(x) /\ Return(x, "done") ELSE UNCHANGED run /\ Goto(x, "unwind")
  BY DEF NewSave
<1>3. /\ faults' \in 0..MaxFaults /\ faults' >= faults /\ Opening(x) /\ "unwind" \in PCs /\ "done" \in Outcomes
  BY <1>1, <1>2, OutcomeCharges DEF Opening, NewHeld, PCs, Held, Outcomes
<1>4. /\ run.phase \in {"none", "pending"} /\ req[x].verb = "new" /\ Root \in acct /\ mem[x].room = OwnRoom
      /\ job[x] = "running" /\ run.job = None /\ run.resolved = None /\ ledger.resolved = None
      /\ \A b \in Briefs : child[b] = None
  BY <1>1, <1>3, NewAt DEF NewHolds, Shared, Record
<1>5. Moved(x)
  BY <1>2, <1>3, GotoMoves, ReturnMoves
<1>6. CASE k = "ok"
  <2>1. pc'[x] = "done" /\ Return(x, "done") /\ run' = OpenRecord(x)
    BY <1>2, <1>3, <1>6, ReturnMoves
  <2>2. /\ run' \in RunRecords /\ run'.phase = "open" /\ run'.job = x /\ run'.room = OwnRoom
        /\ run'.resolved = None /\ ~run'.tornDown
    <3>1. run' = [phase |-> "open", room |-> OwnRoom, job |-> x, since |-> 0, resolved |-> None, tornDown |-> FALSE]
      BY <1>4, <2>1 DEF OpenRecord, NoRun
    <3> QED
      BY <3>1, OptionAssumption, BoundAssumption DEF RunRecords, PhaseSet
  <2>3. Types' /\ Grows(x)
    BY <1>1, <1>3, <1>4, <1>5, <2>2 DEF Types, TypeOK, Grows, Moved, RunRecords, outside, clocks
  <2>4. Shared'
    <3>1. Record' /\ RunJob'
      BY <1>1, <1>4, <2>1, <2>2, CallsAssumption DEF Record, RunJob, outside
    <3>2. OneResolution' /\ Records'
      BY <1>1, <1>4, <2>2 DEF OneResolution, Records
    <3>3. Tears'
      BY <1>1, <1>4, <2>2 DEF Shared, Tears, IsGone, RootLast, Recorded, outside
    <3> QED
      BY <3>1, <3>2, <3>3 DEF Shared
  <2>5. Posts'
    BY <1>1, <1>3, <2>3, PostsKept, NewAt, BoundAssumption DEF outside, clocks, Types, TypeOK
  <2>6. RootKnown'
    BY <2>2 DEF RootKnown
  <2> QED
    BY <1>1, <1>3, <2>1, <2>3, <2>4, <2>5, <2>6, NewEnds DEF outside
<1>7. CASE k # "ok"
  <2>1. pc'[x] = "unwind" /\ mem' = mem /\ lock' = lock /\ run' = run
    BY <1>2, <1>3, <1>7, GotoMoves
  <2>2. Types' /\ Grows(x) /\ Still /\ job' = job /\ unit' = unit
    BY <1>1, <1>3, <1>5, <2>1, ControlOnly DEF store
  <2>3. Opening(x)' /\ Started(x)' /\ NewHolds(x)'
    BY <1>1, <1>3, <2>1, <2>2, NewAt, NewHoldsOn DEF Opening, NewHeld, Started, Grows, outside
  <2> QED
    BY <1>1, <1>3, <1>5, <2>1, <2>2, <2>3, NewGoes, NewAt DEF outside, clocks
<1> QED
  BY <1>6, <1>7

\* A failed --new-run leaves a pending record, or says that it could not.
LEMMA NewPendStep == ASSUME Inv, NEW x \in Calls, NewPend(x) PROVE Inv'
<1> USE DEF Inv
<1>1. pc[x] = "new.pend" /\ UNCHANGED <<req, ledger, child, files, outside, clocks>>
  BY DEF NewPend, At
<1>2. PICK k \in Write :
         /\ Outcome(k)
         /\ IF k = "ok" THEN /\ run' = PendingRecord(x)
                             /\ Return(x, IF mem[x].dirty THEN "dirty" ELSE "failed")
            ELSE UNCHANGED run /\ Return(x, "dirty")
  BY DEF NewPend
<1>3. PICK o \in {"dirty", "failed"} : Return(x, o) /\ (run' = PendingRecord(x) \/ (run' = run /\ o = "dirty"))
  BY <1>2
<1>4. /\ faults' \in 0..MaxFaults /\ faults' >= faults /\ Opening(x) /\ o \in Outcomes
  BY <1>1, <1>2, OutcomeCharges DEF Opening, NewHeld, Outcomes
<1>5. Moved(x) /\ pc'[x] = o
  BY <1>3, <1>4, ReturnMoves
<1>6. run.phase \in {"none", "pending"} /\ mem[x] \in Memories /\ run.job = None /\ run.resolved = None
  BY <1>4, NewAt DEF Shared, Record
<1>7. /\ run' \in RunRecords
      /\ run' = run \/ (/\ run'.phase = "pending" /\ run'.job = None /\ run'.resolved = None
                        /\ ~run'.tornDown)
      /\ run' = run => o = "dirty" \/ run.phase = "pending"
  <2>1. CASE run' = run /\ o = "dirty"
    BY <2>1 DEF Types, TypeOK, RunRecords
  <2>2. CASE run' = PendingRecord(x)
    <3>1. PendingRecord(x) \in RunRecords /\ PendingRecord(x).phase = "pending" /\ PendingRecord(x).job = None
          /\ PendingRecord(x).resolved = None /\ ~PendingRecord(x).tornDown
      BY <1>6 DEF PendingRecord, NoRun, RunRecords, PhaseSet, Memories, Types, TypeOK
    <3> QED
      BY <2>2, <3>1
  <2> QED
    BY <1>3, <2>1, <2>2
<1>8. Types' /\ Grows(x)
  BY <1>1, <1>4, <1>5, <1>6, <1>7 DEF Types, TypeOK, Grows, Moved, RunRecords, outside, clocks
<1>9. Shared' /\ Posts'
  BY <1>1, <1>4, <1>6, <1>7, <1>8, NewShared, PostsKept, NewAt, BoundAssumption DEF Shared, Tears, outside, clocks,
     Types, TypeOK
<1>10. RootKnown'
  BY <1>5, <1>7 DEF RootKnown
<1> QED
  BY <1>1, <1>3, <1>4, <1>8, <1>9, <1>10, NewEnds DEF outside

-----------------------------------------------------------------------------
(* The undo of either verb, step by step, and its end.                     *)

\* One compensation: the call's own is taken back, or the failure noted.
LEMMA UnwindStep == ASSUME Inv, NEW x \in Calls, Unwind(x) PROVE Inv'
<1> USE DEF Inv
<1>1. /\ pc[x] = "unwind" /\ UNCHANGED <<lock, pc, req, run, ledger, sent, unit, cancelled, clocks>>
  BY DEF Unwind, At
<1>2. PICK k : /\ Outcome(k)
               /\ \/ UndoEffect(x, Head(undo[x]))
                  \/ UNCHANGED <<stanza, job, acct, muc, files, child>>
               /\ undo' = [undo EXCEPT ![x] = Rest(x)]
               /\ mem' = [mem EXCEPT ![x].dirty =
                             @ \/ k # "ok" \/ (Head(undo[x]) = "failjob" /\ job[x] # "running")]
  BY DEF Unwind
<1>3. faults' \in 0..MaxFaults /\ faults' >= faults
  BY <1>2, OutcomeCharges
<1> DEFINE e == mem[x].dirty \/ k # "ok" \/ (Head(undo[x]) = "failjob" /\ job[x] # "running")
           m == [mem[x] EXCEPT !.dirty = e]
<1>4. m \in Memories /\ m.gone = mem[x].gone /\ m.room = mem[x].room /\ mem' = [mem EXCEPT ![x] = m]
  <2>1. mem' = [mem EXCEPT ![x] = m]
    BY <1>2
  <2>2. e \in BOOLEAN
    OBVIOUS
  <2>3. ASSUME NEW b \in BOOLEAN
        PROVE  /\ [mem[x] EXCEPT !.dirty = b] \in Memories
               /\ [mem[x] EXCEPT !.dirty = b].gone = mem[x].gone
               /\ [mem[x] EXCEPT !.dirty = b].room = mem[x].room
    BY DEF Types, Memories
  <2> QED
    BY <2>1, <2>2, <2>3
<1> HIDE DEF m
<1>5. Moved(x) /\ mem'[x] = m /\ pc' = pc
  BY <1>1, <1>2, <1>4 DEF Moved, Types, TypeOK
<1>6. /\ stanza' \in [Calls -> {"none", "posted", "withdrawn"}]
      /\ job' \in [Calls -> {"none", "running"} \cup Terminal]
      /\ \A d \in Calls : d # x => job'[d] = job[d]
      /\ job'[x] = job[x] \/ (job[x] = "running" /\ job'[x] \in Terminal)
      /\ acct' \subseteq acct /\ acct \subseteq acct' \cup {x}
      /\ muc' \in [made : BOOLEAN, members : SUBSET Principals] /\ muc'.made = muc.made
      /\ muc.members \subseteq muc'.members \cup {x}
      /\ files' \in [pw : SUBSET Principals, brief : SUBSET Briefs, moxy : SUBSET Briefs,
                     traffic : SUBSET Calls, canary : BOOLEAN, wake : BOOLEAN]
      /\ files'.pw = files.pw /\ files'.canary = files.canary /\ files'.wake = files.wake
      /\ child' \in [Briefs -> Calls \cup {None}]
      /\ \A b \in Briefs : child'[b] = child[b] \/ (b = req[x].brief /\ child'[b] = None)
  BY <1>2, UndoTouches
<1>7. Opening(x) \/ Spawning(x)
  BY <1>1 DEF Opening, Spawning, Known, Role
<1>8. run.resolved = None
  BY <1>7, NewAt, SpawnAt DEF Shared, Record
<1>9. Types'
  BY <1>1, <1>3, <1>5, <1>6 DEF Types, TypeOK, Moved, clocks
<1>10. Grows(x)
  BY <1>1, <1>5, <1>6, <1>8 DEF Grows, Moved, Types, TypeOK, Terminal
<1>11. acct' \subseteq files'.pw
  BY <1>6 DEF Shared, Tears
<1>12. Posts'
  BY <1>1, <1>3, <1>6, <1>10, PostsKept, BoundAssumption DEF clocks, Types, TypeOK
<1>13. Started(x)'
  BY <1>1, <1>5, <1>7, NewAt, SpawnAt DEF Started, Known
<1>14. CASE Opening(x)
  <2>1. Opening(x)'
    BY <1>1, <1>5, <1>14 DEF Opening
  <2>2. NewHolds(x)'
    BY <1>1, <1>5, <1>6, <1>14, NewAt, CallsAssumption DEF NewHolds
  <2>3. Shared'
    BY <1>1, <1>6, <1>10, <1>11, <1>14, NewAt, NewShared
  <2> QED
    BY <1>1, <1>4, <1>5, <1>9, <1>10, <1>12, <1>13, <1>14, <2>1, <2>2, <2>3, NewWorks, NewAt DEF clocks
<1>15. CASE Spawning(x)
  <2>1. Spawning(x)'
    BY <1>1, <1>5, <1>15 DEF Spawning
  <2>2. Shared'
    BY <1>1, <1>6, <1>10, <1>11, <1>15, SpawnShared
  <2>3. Member(x)'
    BY <1>1, <1>5 DEF Member
  <2>4. child'[req[x].brief] \in {None, x}
    BY <1>6, <1>15, SpawnAt DEF Holding, SpawnHolds
  <2> QED
    BY <1>1, <1>4, <1>5, <1>9, <1>10, <1>12, <1>13, <1>15, <2>1, <2>2, <2>3, <2>4, SpawnWorks, SpawnAt
<1> QED
  BY <1>7, <1>14, <1>15

\* Nothing is left to undo: a --new-run goes on to its pending record, a spawn reports.
LEMMA UnwoundStep == ASSUME Inv, NEW x \in Calls, Unwound(x) PROVE Inv'
<1> USE DEF Inv
<1>1. /\ pc[x] = "unwind" /\ UNCHANGED <<req, store, outside, faults, clocks>>
      /\ IF req[x].verb = "new" THEN Goto(x, "new.pend")
         ELSE Return(x, IF mem[x].dirty THEN "dirty" ELSE "failed")
  BY DEF Unwound, At
<1>2. faults' \in 0..MaxFaults /\ faults' >= faults
  BY <1>1, BoundAssumption DEF Types, TypeOK
<1>3. CASE req[x].verb = "new"
  <2>1. Opening(x) /\ "new.pend" \in PCs
    BY <1>1, <1>3 DEF Opening, PCs, Held, NewHeld
  <2>2. Moved(x) /\ pc'[x] = "new.pend" /\ mem' = mem /\ lock' = lock
    BY <1>1, <1>3, <2>1, GotoMoves
  <2>3. Types' /\ Grows(x) /\ Still /\ job' = job /\ unit' = unit
    BY <1>1, <1>2, <2>2, ControlOnly
  <2>4. Opening(x)' /\ Started(x)' /\ NewHolds(x)'
    BY <1>1, <1>3, <2>1, <2>2, <2>3, NewAt DEF Opening, NewHeld, Started, Grows, NewHolds, store, outside
  <2> QED
    BY <1>1, <1>2, <2>1, <2>2, <2>3, <2>4, NewGoes, NewAt DEF store, outside, clocks
<1>4. CASE req[x].verb # "new"
  <2>1. Spawning(x)
    BY <1>1, <1>4 DEF Spawning, Known, Role
  <2>2. PICK o \in {"dirty", "failed"} : Return(x, o)
    BY <1>1, <1>4
  <2>3. o \in Outcomes /\ Moved(x)
    BY <2>2, ReturnMoves DEF Outcomes
  <2>4. Types' /\ Grows(x) /\ Still /\ job' = job /\ unit' = unit
    BY <1>1, <1>2, <2>3, ControlOnly
  <2> QED
    BY <1>1, <2>1, <2>2, <2>3, <2>4, SpawnAt, HolderReturns
<1> QED
  BY <1>3, <1>4

-----------------------------------------------------------------------------
(* The invariant, and what it says.                                        *)

\* Nothing has been started and nothing exists.
LEMMA InitInv == Init => Inv
<1> SUFFICES ASSUME Init PROVE Inv
  OBVIOUS
<1>1. /\ NoRun \in RunRecords /\ NoRequest \in Requests /\ Blank \in Memories
      /\ NoRun.phase = "none" /\ NoRun.job = None /\ NoRun.resolved = None /\ ~NoRun.tornDown
      /\ NoLedger.resolved = None /\ NoLedger.gone = {} /\ NoRequest.verb = "none" /\ Blank.gone = {} /\ ~Blank.room
  BY BlankIsMemory, BoundAssumption DEF NoRun, RunRecords, PhaseSet, NoRequest, Requests, NoLedger, Blank
<1>2. Types
  <2>1. TypeOK
    BY <1>1, BoundAssumption DEF Init, TypeOK, RunRecords, NoLedger, PhaseSet
  <2>2. pc \in [Calls -> PCs] /\ req \in [Calls -> Requests] /\ mem \in [Calls -> Memories]
    BY <1>1 DEF Init, PCs
  <2> QED
    BY <2>1, <2>2 DEF Types
<1>3. Recorded = {}
  BY DEF Init, Recorded
<1>4. Shared
  BY <1>1, <1>3 DEF Init, Shared, Record, RunJob, OneResolution, Records, Tears, RootLast
<1>5. Posts /\ RootKnown
  BY <1>1 DEF Init, Posts, PostedOnce, RootKnown
<1>6. ASSUME NEW c \in Calls PROVE pc[c] = "idle" /\ mem[c] = Blank /\ req[c] = NoRequest /\ unit[c] = "none"
                                   /\ job[c] = "none" /\ lock # c
  BY CallsAssumption DEF Init
<1>7. "idle" \notin Held \cup Waiting \cup Sweeping \cup Outcomes
  BY DEF Held, NewHeld, SpawnHeld, ResHeld, AcctHeld, CleanHeld, Waiting, Sweeping, Outcomes
<1>8. Locks
  BY <1>6, <1>7 DEF Locks
<1>9. ASSUME NEW c \in Calls PROVE Known(c) /\ Holding(c)
  <2>1. ~Opening(c) /\ ~Spawning(c) /\ ~Resolving(c) /\ ~Cleaning(c) /\ ~TearingDown(c)
    BY <1>6, <1>7 DEF Opening, Spawning, Resolving, Cleaning, TearingDown, Held
  <2>2. Role(c)
    BY <1>1, <1>6, <1>7 DEF Role, Held
  <2>3. Started(c) /\ Copy(c) /\ Swept(c) /\ Member(c)
    BY <1>6, <1>7, <2>1 DEF Started, Copy, Swept, Member, Waiting
  <2>4. ResolveHolds(c) /\ AccountHolds(c)
    BY <1>1, <1>6, <1>7, <2>1 DEF ResolveHolds, AccountHolds, Held
  <2> QED
    BY <1>6, <2>1, <2>2, <2>3, <2>4 DEF Known, Holding, NewHolds, SpawnHolds, CleanHolds
<1> QED
  BY <1>2, <1>4, <1>5, <1>8, <1>9 DEF Inv

\* Every step of every verb keeps it.
LEMMA CallKeeps == ASSUME Inv, NEW x \in Calls, CallStep(x) PROVE Inv'
<1>1. CASE NewRunStep(x)
  BY <1>1, NewEnterStep, NewReadyStep, NewMintStep, NewRoomStep, NewPostStep, NewJobStep, NewMirrorStep,
     NewSaveStep, NewPendStep DEF NewRunStep
<1>2. CASE SpawnStep(x)
  BY <1>2, SpawnEnterStep, SpawnReadyStep, SpawnNarrowStep, SpawnMintStep, SpawnAffilStep, SpawnStageStep,
     SpawnJobStep, SpawnMirrorStep, SpawnPostStep, SpawnSaveStep, SpawnLaunchStep DEF SpawnStep
<1>3. CASE ResolveStep(x)
  BY <1>3, ResolveEnterStep, ResolveCanaryStep, ResolveMarkStep, ResolveNoteStep, ResolveLoadStep,
     ResolveStopStep, ResolveWaitStep, ResolvePersistStep, ResolveDoneStep, ResolveReadStep, ResolveWakeStep,
     ResolveWakeMarkStep, ResolveSaveStep, ResolveTearStep, ResolveChildStep, ResolveRootStep,
     ResolveEntriesStep, ResolveTornStep DEF ResolveStep
<1>4. CASE TeardownStep(x)
  BY <1>4, DropAffiliationStep, RevokeAccountStep, UnlinkPasswordStep DEF TeardownStep
<1>5. CASE CleanStep(x)
  BY <1>5, CleanEnterStep, CleanTombStep, CleanEntryStep, SweepKeeps, DecideStep DEF CleanStep
<1>6. CASE Unwind(x) \/ Unwound(x)
  BY <1>6, UnwindStep, UnwoundStep
<1> QED
  BY <1>1, <1>2, <1>3, <1>4, <1>5, <1>6 DEF CallStep

\* And so does every step of the system.
LEMMA NextInv == Inv /\ [Next]_vars => Inv'
<1> SUFFICES ASSUME Inv, [Next]_vars PROVE Inv'
  OBVIOUS
<1>1. ASSUME NEW x \in Calls, StartStep(x) \/ CallStep(x) \/ AgentStep(x) \/ Crash(x) PROVE Inv'
  BY <1>1, StartStepKeeps, CallKeeps, AgentKeeps, CrashKeeps
<1>2. CASE Tick \/ UNCHANGED vars
  BY <1>2, IdleKeeps
<1>3. CASE Quiet
  BY <1>3, <1>2 DEF Quiet
<1> QED
  BY <1>1, <1>2, <1>3 DEF Next

\* The invariant of the run lifecycle, whatever fails and whoever is killed.
THEOREM InvHolds == Spec => []Inv
  BY InitInv, NextInv, PTL DEF Spec

\* The types: every variable the verbs share, with their counters' bounds.
THEOREM TypesHold == Spec => []TypeOK
<1>1. Inv => TypeOK
  BY DEF Inv, Types
<1> QED
  BY <1>1, InvHolds, PTL

\* What a teardown records is true: an ok entry means no account (so that the retry that
\* skips it leaks nothing), torn_down means that no account of the run is left and that
\* no recorded agent is at work (teardownAccounts, finishTeardown).
THEOREM TeardownIsTruthful == Spec => []TeardownTruthful
<1>1. Inv => TeardownTruthful
  <2> SUFFICES ASSUME Inv PROVE TeardownTruthful
    OBVIOUS
  <2>1. \A p \in ledger.gone : IsGone(p)
    BY DEF Inv, Shared, Tears
  <2>2. run.tornDown => Owed \subseteq ledger.gone
    BY DEF Inv, Shared, Tears
  <2> QED
    BY <2>1, <2>2, RecordedCalls DEF TeardownTruthful, LedgerTruthful, TornDownMeansGone, Owed, IsGone
<1> QED
  BY <1>1, InvHolds, PTL

\* The root goes last, an existing root has a record (unless a mint's answer was lost or
\* a call was killed or said it left something), an agent at work is in its room.
THEOREM AccountsStayInOrder == Spec => []AccountsInOrder
<1>1. Inv => AccountsInOrder
  <2> SUFFICES ASSUME Inv PROVE AccountsInOrder
    OBVIOUS
  <2>1. RootLast
    BY DEF Inv, Shared, Tears
  <2>2. AgentIsMember
    <3> SUFFICES ASSUME NEW p \in Recorded, OwnRoom, pc[p] = "done", unit[p] = "active", job[p] = "running"
                 PROVE  p \in muc.members
      BY DEF AgentIsMember
    <3>1. p \in Calls /\ Member(p) /\ job[p] \notin Terminal
      BY RecordedCalls DEF Inv, Known, Terminal
    <3> QED
      BY <3>1 DEF Member
  <2>3. RootIsRecorded
    <3> SUFFICES ASSUME Idle, crashes = 0, Root \in acct, \A c \in Calls : pc[c] # "dirty"
                 PROVE  run.phase \in {"pending", "open"} \/ MintLost
      BY DEF RootIsRecorded
    <3>1. \A c \in Calls : ~Opening(c)
      BY DEF Idle, Active, Ended, Opening, Outcomes, NewHeld
    <3>2. run.phase # "reaped" /\ run.phase \in PhaseSet
      BY DEF Inv, Shared, Tears, Types, TypeOK
    <3>3. run.phase = "none" => ~muc.made /\ faults > 0
      BY <3>1 DEF Inv, RootKnown
    <3> QED
      BY <3>2, <3>3 DEF PhaseSet, MintLost
  <2> QED
    BY <2>1, <2>2, <2>3 DEF AccountsInOrder
<1> QED
  BY <1>1, InvHolds, PTL

\* The record, the ledger and the run job tell one resolution, the wake went first, and
\* what is posted twice was paid for by a failure or a kill (postCanaryOnce, sendExitWakes).
THEOREM ResolvedOnceHolds == Spec => []ResolvedOnce
<1>1. Inv => ResolvedOnce
  BY DEF Inv, Shared, Posts, ResolvedOnce
<1> QED
  BY <1>1, InvHolds, PTL

\* The root of a reaped run key is never minted again (cleanPendingRun's tombstone).
THEOREM RootStaysReaped == Spec => []ReapedForGood
<1>1. Inv => ReapedForGood
  BY DEF Inv, Shared, Tears, ReapedForGood
<1> QED
  BY <1>1, InvHolds, PTL

-----------------------------------------------------------------------------
(* What a step may never take back.                                        *)

\* A step that deletes no account, no file of an agent and nothing from the ledger.
Adds == /\ acct \subseteq acct'
        /\ files.brief \subseteq files'.brief /\ files.moxy \subseteq files'.moxy
        /\ files.traffic \subseteq files'.traffic
        /\ ledger'.resolved = ledger.resolved /\ ledger'.fallbacks = ledger.fallbacks
        /\ ledger'.routes = ledger.routes

\* Such a step takes nothing back.
LEMMA AddsIsEnough == ASSUME Types, Adds PROVE AgentKeepsAccount /\ LiveFilesKept /\ ResolutionKept
  BY DEF Adds, AgentKeepsAccount, LiveFilesKept, ResolutionKept

\* The steps of a --new-run and of a spawn only add.
LEMMA SpawnsAdd == ASSUME Types, NEW x \in Calls, NewRunStep(x) \/ SpawnStep(x) PROVE Adds
<1> USE DEF Types, TypeOK, store, outside, clocks
<1>1. CASE NewRunStep(x)
  <2>1. acct \subseteq acct' /\ ledger' = ledger /\ (files' = files \/ Mint(Root))
    BY <1>1 DEF NewRunStep, NewEnter, NewReady, NewMint, NewRoom, NewPost, NewJob, NewMirror, NewSave, NewPend, Mint
  <2> QED
    BY <2>1 DEF Adds, Mint
<1>2. CASE SpawnNarrow(x)
  <2>1. acct' = acct
    BY <1>2 DEF SpawnNarrow
  <2>2. files' = files \/ files' = [files EXCEPT !.moxy = @ \cup {req[x].brief}]
    BY <1>2 DEF SpawnNarrow
  <2>3. ledger' = ledger \/ Refusal
    BY <1>2 DEF SpawnNarrow
  <2> QED
    BY <2>1, <2>2, <2>3 DEF Adds, Refusal
<1>3. CASE SpawnStage(x) \/ SpawnLaunch(x) \/ SpawnReady(x)
  <2>1. acct' = acct
    BY <1>3 DEF SpawnStage, SpawnLaunch, SpawnReady
  <2>2. \/ files' = files \/ files' = [files EXCEPT !.brief = @ \cup {req[x].brief}]
        \/ files' = [files EXCEPT !.traffic = @ \cup {x}]
    BY <1>3 DEF SpawnStage, SpawnLaunch, SpawnReady
  <2>3. ledger' = ledger \/ Refusal
    BY <1>3 DEF SpawnStage, SpawnLaunch, SpawnReady
  <2> QED
    BY <2>1, <2>2, <2>3 DEF Adds, Refusal
<1>4. CASE SpawnMint(x)
  BY <1>4 DEF SpawnMint, Adds, Mint
<1>5. CASE SpawnEnter(x) \/ SpawnAffil(x) \/ SpawnJob(x) \/ SpawnMirror(x) \/ SpawnPost(x) \/ SpawnSave(x)
  BY <1>5 DEF SpawnEnter, SpawnAffil, SpawnJob, SpawnMirror, SpawnPost, SpawnSave, Adds
<1> QED
  BY <1>1, <1>2, <1>3, <1>4, <1>5 DEF SpawnStep

\* A resolve only adds, but for the ledger's resolution, which it writes where there is none.
LEMMA ResolvesTakeNothing ==
    ASSUME Inv, NEW x \in Calls, ResolveStep(x)
    PROVE  AgentKeepsAccount /\ LiveFilesKept /\ ResolutionKept
<1> USE DEF Types, TypeOK, store, outside, clocks
<1> Types
  BY DEF Inv
<1>1. CASE ResolveMark(x) \/ ResolveWakeMark(x)
  <2>1. acct' = acct /\ ledger' = ledger
    BY <1>1 DEF ResolveMark, ResolveWakeMark
  <2>2. \/ files' = files \/ files' = [files EXCEPT !.canary = TRUE] \/ files' = [files EXCEPT !.wake = TRUE]
    BY <1>1 DEF ResolveMark, ResolveWakeMark
  <2>3. Adds
    BY <2>1, <2>2 DEF Adds
  <2> QED
    BY <2>3, AddsIsEnough
<1>2. CASE ResolveNote(x) \/ ResolveEntries(x)
  <2>1. acct' = acct /\ files' = files
    BY <1>2 DEF ResolveNote, ResolveEntries
  <2>2. \/ ledger' = ledger \/ ledger' = [ledger EXCEPT !.canary = @ + 1]
        \/ ledger' = [ledger EXCEPT !.gone = @ \cup mem[x].gone]
    BY <1>2 DEF ResolveNote, ResolveEntries
  <2>3. Adds
    BY <2>1, <2>2 DEF Adds
  <2> QED
    BY <2>3, AddsIsEnough
<1>3. CASE ResolveWait(x)
  <2>1. acct' = acct /\ files' = files /\ pc[x] = "res.wait"
    BY <1>3 DEF ResolveWait, At
  <2>2. ledger.resolved = None
    BY <2>1 DEF Inv, Holding, ResolveHolds
  <2> QED
    BY <2>1, <2>2 DEF AgentKeepsAccount, LiveFilesKept, ResolutionKept
<1>4. CASE \/ ResolveEnter(x) \/ ResolveCanary(x) \/ ResolveLoad(x) \/ ResolveStop(x) \/ ResolvePersist(x)
           \/ ResolveDone(x) \/ ResolveRead(x) \/ ResolveWake(x) \/ ResolveSave(x) \/ ResolveTear(x)
           \/ ResolveChild(x) \/ ResolveRoot(x) \/ ResolveTorn(x)
  <2>1. acct' = acct /\ files' = files /\ ledger' = ledger
    BY <1>4 DEF ResolveEnter, ResolveCanary, ResolveLoad, ResolveStop, ResolvePersist, ResolveDone, ResolveRead,
       ResolveWake, ResolveSave, ResolveTear, ResolveChild, ResolveRoot, ResolveTorn
  <2> QED
    BY <2>1, AddsIsEnough DEF Adds
<1> QED
  BY <1>1, <1>2, <1>3, <1>4 DEF ResolveStep

\* The account in hand is of a child whose job has ended, or the root's.
LEMMA TeardownsTakeNothing ==
    ASSUME Inv, NEW x \in Calls, TeardownStep(x)
    PROVE  AgentKeepsAccount /\ LiveFilesKept /\ ResolutionKept
<1> USE DEF Types, TypeOK, store, outside, clocks
<1> Types
  BY DEF Inv
<1>1. CASE DropAffiliation(x)
  BY <1>1, AddsIsEnough DEF DropAffiliation, Adds
<1>2. CASE UnlinkPassword(x)
  <2>1. acct' = acct /\ ledger' = ledger /\ (files' = files \/ files' = [files EXCEPT !.pw = @ \ {mem[x].cur}])
    BY <1>2 DEF UnlinkPassword
  <2> QED
    BY <2>1, AddsIsEnough DEF Adds
<1>3. CASE RevokeAccount(x)
  <2>1. pc[x] \in AcctHeld /\ files' = files /\ ledger' = ledger /\ acct \ acct' \subseteq {mem[x].cur}
    BY <1>3 DEF RevokeAccount, At, AcctHeld
  <2>2. mem[x].cur \in Calls => job[mem[x].cur] \in Terminal
    BY <2>1, AccountInHand
  <2> QED
    BY <2>1, <2>2 DEF AgentKeepsAccount, LiveFilesKept, ResolutionKept
<1> QED
  BY <1>1, <1>2, <1>3 DEF TeardownStep

\* A clean only adds; a route entry is for an open ledger; the sweep takes the files of
\* a child whose job has ended, and a brief has one child.
LEMMA CleansTakeNothing ==
    ASSUME Inv, NEW x \in Calls, CleanStep(x)
    PROVE  AgentKeepsAccount /\ LiveFilesKept /\ ResolutionKept
<1> USE DEF Types, TypeOK, store, outside, clocks
<1> Types
  BY DEF Inv
<1>1. CASE CleanEnter(x) \/ CleanTomb(x) \/ SweepChild(x) \/ SweepEnd(x)
  BY <1>1, AddsIsEnough DEF CleanEnter, CleanTomb, SweepChild, SweepEnd, Adds
<1>2. CASE CleanEntry(x)
  <2>1. acct' = acct /\ files' = files /\ (ledger' = ledger \/ ledger' = [ledger EXCEPT !.gone = @ \cup mem[x].gone])
    BY <1>2 DEF CleanEntry
  <2> QED
    BY <2>1, AddsIsEnough DEF Adds
<1>3. CASE Decide(x)
  <2>1. acct' = acct /\ files' = files /\ (ledger' = ledger \/ LedgerOpen)
    BY <1>3 DEF Decide
  <2> QED
    BY <2>1 DEF AgentKeepsAccount, LiveFilesKept, ResolutionKept, LedgerOpen
<1>4. CASE SweepFiles(x)
  <2> DEFINE p == mem[x].cur
  <2>1. /\ pc[x] = "sweep.files" /\ acct' = acct /\ ledger' = ledger
        /\ files.brief \ {req[p].brief} \subseteq files'.brief
        /\ files.moxy \ {req[p].brief} \subseteq files'.moxy
        /\ files.traffic \ {p} \subseteq files'.traffic
    BY <1>4 DEF SweepFiles, At
  <2>2. p \in Recorded /\ job[p] \in Terminal
    BY <2>1 DEF Inv, Known, Swept, Sweeping
  <2>3. PICK b \in Briefs : child[b] = p /\ req[p].brief = b
    BY <2>2 DEF Recorded, Inv, Shared, Records
  <2>4. ASSUME NEW a \in Briefs, child[a] # None, job[child[a]] = "running"
        PROVE  a # req[p].brief /\ child[a] # p
    BY <2>2, <2>3, <2>4 DEF Terminal
  <2> HIDE DEF p
  <2> QED
    BY <2>1, <2>4 DEF AgentKeepsAccount, LiveFilesKept, ResolutionKept
<1> QED
  BY <1>1, <1>2, <1>3, <1>4 DEF CleanStep

\* An undo takes back what its own call made, and that call has no agent at work.
LEMMA UndosTakeNothing ==
    ASSUME Inv, NEW x \in Calls, Unwind(x)
    PROVE  AgentKeepsAccount /\ LiveFilesKept /\ ResolutionKept
<1> Types
  BY DEF Inv
<1>1. /\ pc[x] = "unwind" /\ ledger' = ledger
      /\ \/ UndoEffect(x, Head(undo[x]))
         \/ UNCHANGED <<stanza, job, acct, muc, files, child>>
  BY DEF Unwind, At
<1>2. /\ acct \subseteq acct' \cup {x}
      /\ files.brief \ {req[x].brief} \subseteq files'.brief
      /\ files.moxy \ {req[x].brief} \subseteq files'.moxy
      /\ files.traffic \subseteq files'.traffic
  BY <1>1 DEF UndoEffect, Types, TypeOK
<1>3. Opening(x) \/ Spawning(x)
  BY <1>1 DEF Opening, Spawning, Inv, Known, Role
<1>4. ASSUME NEW a \in Briefs, child[a] # None, pc[child[a]] = "done" PROVE a # req[x].brief
  <2>1. CASE Opening(x)
    BY <1>4, <2>1, NewAt DEF Inv, Shared, Record
  <2>2. CASE Spawning(x)
    BY <1>1, <1>4, <2>2, SpawnAt DEF Holding, SpawnHolds
  <2> QED
    BY <1>3, <2>1, <2>2
<1> QED
  BY <1>1, <1>2, <1>4 DEF AgentKeepsAccount, LiveFilesKept, ResolutionKept

\* No step takes anything back: from an agent at work neither its account nor its files,
\* from a resolved ledger nothing (stopLiveChildren, teardownChild, stillRunning,
\* AppendRunLedgerEntry).
THEOREM NothingIsTakenBack == Spec => NothingTakenBack
<1>1. Inv /\ [Next]_vars => [AgentKeepsAccount /\ LiveFilesKept /\ ResolutionKept]_vars
  <2> SUFFICES ASSUME Inv, Next PROVE AgentKeepsAccount /\ LiveFilesKept /\ ResolutionKept
    OBVIOUS
  <2> Types
    BY DEF Inv
  <2>1. ASSUME NEW x \in Calls, CallStep(x) PROVE AgentKeepsAccount /\ LiveFilesKept /\ ResolutionKept
    <3>1. CASE Unwound(x)
      BY <3>1, AddsIsEnough DEF Unwound, Adds, store, outside
    <3>2. CASE NewRunStep(x) \/ SpawnStep(x)
      BY <3>2, SpawnsAdd, AddsIsEnough
    <3> QED
      BY <2>1, <3>1, <3>2, ResolvesTakeNothing, TeardownsTakeNothing, CleansTakeNothing, UndosTakeNothing
         DEF CallStep
  <2>2. ASSUME NEW x \in Calls, StartStep(x) PROVE Adds
    BY <2>2 DEF StartStep, StartNew, StartSpawn, StartResolve, StartClean, StartSweep, StartDecide, Start, Adds,
       store, outside
  <2>3. ASSUME NEW x \in Calls, AgentStep(x) \/ Crash(x) PROVE Adds
    BY <2>3 DEF AgentStep, AgentFinish, AgentStop, HookSettle, Crash, Adds, store, outside
  <2>4. CASE Tick \/ Quiet
    BY <2>4, AddsIsEnough DEF Tick, Quiet, vars, Adds, store, outside
  <2> QED
    BY <2>1, <2>2, <2>3, <2>4, AddsIsEnough DEF Next
<1> QED
  BY <1>1, InvHolds, PTL DEF Spec, NothingTakenBack

-----------------------------------------------------------------------------
(* What a spawn owes while it is at work, when no answer is lost: whatever *)
(* it made is on its undo stack.                                           *)

UndoNames == {"withdraw", "failjob", "revoke", "unaffil", "unstage", "unmoxy", "unsave"}

\* Where a call may have something to undo.
Stacked == {"spawn.mint", "spawn.affil", "spawn.stage", "spawn.job", "spawn.mirror", "spawn.post",
            "spawn.save", "spawn.launch", "new.job", "new.mirror", "new.save", "unwind"}

Owes(c, u) == \E i \in DOMAIN undo[c] : undo[c][i] = u

Undos == /\ undo \in [Calls -> Seq(UndoNames)]
         /\ \A c \in Calls : /\ undo[c] # <<>> => pc[c] \in Stacked
                             /\ mem[c].dirty => pc[c] \in {"unwind", "new.pend"}

\* What a call made it will undo, unless it got to its end, failed to undo or was killed.
Accounted(c) ==
    pc[c] \notin {"done", "dirty", "crashed"} /\ ~mem[c].dirty =>
        /\ c \in acct => Owes(c, "revoke")
        /\ c \in muc.members => Owes(c, "unaffil")
        /\ c \in Recorded => Owes(c, "unsave")
        /\ job[c] = "running" => Owes(c, "failjob")
        /\ stanza[c] = "posted" => Owes(c, "withdraw")

\* An agent is recorded under its brief before it is launched, and stays recorded.
Launched(c) == /\ unit[c] # "none" => pc[c] = "done" /\ child[req[c].brief] = c
               /\ pc[c] = "spawn.launch" => child[req[c].brief] = c

\* Who answers for a brief's staged file: the recorded agent, or a call that will undo
\* it (u), or one that said it did not.
Covers(c, b, u) ==
    \/ child[b] = c /\ ~Spawning(c)
    \/ req[c].brief = b /\ pc[c] \in {"dirty", "crashed"}
    \/ req[c].brief = b /\ Spawning(c) /\ (mem[c].dirty \/ Owes(c, u))

Staged == \A b \in Briefs : /\ b \in files.brief => \E c \in Calls : Covers(c, b, "unstage")
                            /\ b \in files.moxy => \E c \in Calls : Covers(c, b, "unmoxy")

LeftInv == Inv /\ Undos /\ Staged /\ \A c \in Calls : Accounted(c) /\ Launched(c)

\* What is pushed is owed, and what was owed still is.
LEMMA PushOwes ==
    ASSUME NEW x \in Calls, NEW u \in UndoNames, undo \in [Calls -> Seq(UndoNames)],
           undo' = [undo EXCEPT ![x] = <<u>> \o @]
    PROVE  /\ undo' \in [Calls -> Seq(UndoNames)] /\ Owes(x, u)' /\ undo'[x] # <<>>
           /\ \A v : Owes(x, v) => Owes(x, v)'
<1> DEFINE s == undo[x]
           t == <<u>> \o s
<1>1. s \in Seq(UndoNames) /\ t \in Seq(UndoNames) /\ undo'[x] = t
  OBVIOUS
<1>2. Len(s) \in Nat /\ Len(t) = Len(s) + 1 /\ DOMAIN s = 1..Len(s) /\ DOMAIN t = 1..Len(t)
  BY <1>1
<1>3. t[1] = u /\ \A i \in 1..Len(s) : t[i + 1] = s[i]
  BY <1>1
<1>4. 1 \in DOMAIN t /\ t # <<>> /\ \A i \in DOMAIN s : i + 1 \in DOMAIN t
  BY <1>1, <1>2
<1> HIDE DEF t
<1>5. undo' \in [Calls -> Seq(UndoNames)]
  OBVIOUS
<1>6. Owes(x, u)' /\ undo'[x] # <<>>
  BY <1>1, <1>2, <1>3, <1>4 DEF Owes
<1>7. ASSUME NEW v, Owes(x, v) PROVE Owes(x, v)'
  <2>1. PICK i \in DOMAIN s : s[i] = v
    BY <1>7 DEF Owes
  <2>2. i + 1 \in DOMAIN t /\ t[i + 1] = v
    BY <2>1, <1>2, <1>3, <1>4
  <2> QED
    BY <1>1, <2>2 DEF Owes
<1> QED
  BY <1>5, <1>6, <1>7

\* What is not popped is still owed.
LEMMA PopOwes ==
    ASSUME NEW x \in Calls, undo \in [Calls -> Seq(UndoNames)], undo[x] # <<>>,
           undo' = [undo EXCEPT ![x] = Tail(@)]
    PROVE  /\ undo' \in [Calls -> Seq(UndoNames)] /\ Head(undo[x]) \in UndoNames
           /\ \A v : Owes(x, v) /\ v # Head(undo[x]) => Owes(x, v)'
<1> DEFINE s == undo[x]
           t == Tail(s)
<1>1. s \in Seq(UndoNames) /\ t \in Seq(UndoNames) /\ undo'[x] = t /\ Head(s) \in UndoNames /\ Head(s) = s[1]
  OBVIOUS
<1>2. /\ Len(s) \in Nat /\ Len(s) > 0 /\ Len(t) = Len(s) - 1 /\ DOMAIN s = 1..Len(s) /\ DOMAIN t = 1..Len(t)
      /\ \A i \in 1..Len(t) : t[i] = s[i + 1]
  BY <1>1
<1> HIDE DEF t
<1>3. ASSUME NEW v, Owes(x, v), v # Head(s) PROVE Owes(x, v)'
  <2>1. PICK i \in DOMAIN s : s[i] = v
    BY <1>3 DEF Owes
  <2>2. i # 1 /\ i - 1 \in DOMAIN t /\ t[i - 1] = v
    BY <1>1, <1>2, <1>3, <2>1
  <2> QED
    BY <1>1, <2>2 DEF Owes
<1>4. undo' \in [Calls -> Seq(UndoNames)]
  BY <1>1 DEF t
<1> QED
  BY <1>1, <1>3, <1>4

\* An empty stack owes nothing.
LEMMA EmptyOwes == ASSUME NEW x, NEW u, undo[x] = <<>> PROVE ~Owes(x, u)
  BY DEF Owes

\* A call with nothing on its stack, that has not got to its end, has made nothing.
LEMMA MadeNothing ==
    ASSUME LeftInv, NEW x \in Calls, undo[x] = <<>>, pc[x] \notin {"done", "dirty", "crashed"}, ~mem[x].dirty
    PROVE  /\ x \notin acct /\ x \notin muc.members /\ x \notin Recorded /\ job[x] # "running"
           /\ stanza[x] # "posted" /\ unit[x] = "none"
           /\ \A b \in Briefs, u \in UndoNames : ~Covers(x, b, u)
<1>1. /\ x \notin acct /\ x \notin muc.members /\ x \notin Recorded /\ job[x] # "running" /\ stanza[x] # "posted"
  BY EmptyOwes DEF LeftInv, Accounted
<1>2. unit[x] = "none"
  BY DEF LeftInv, Launched
<1>3. ASSUME NEW b \in Briefs, NEW u \in UndoNames PROVE ~Covers(x, b, u)
  <2>1. child[b] # x
    BY <1>1, CallsAssumption DEF Recorded
  <2> QED
    BY <2>1, EmptyOwes DEF Covers
<1> QED
  BY <1>1, <1>2, <1>3

\* What a step of x leaves to the others.
Apart(x) ==
    /\ \A d \in Calls : d # x => /\ pc'[d] = pc[d] /\ mem'[d] = mem[d] /\ undo'[d] = undo[d]
                                 /\ req'[d] = req[d] /\ unit'[d] = unit[d] /\ stanza'[d] = stanza[d]
                                 /\ d \in acct' => d \in acct
                                 /\ d \in muc'.members => d \in muc.members
                                 /\ job'[d] = "running" => job[d] = "running"
    /\ \A b \in Briefs : child'[b] = child[b]
                         \/ (Spawning(x) /\ b = req[x].brief /\ child'[b] \in {None, x})

\* A step of one call, seen from the whole system.
LEMMA LeftStep ==
    ASSUME LeftInv, Inv', NEW x \in Calls, Apart(x), undo' \in [Calls -> Seq(UndoNames)],
           undo'[x] # <<>> => pc'[x] \in Stacked,
           mem'[x].dirty => pc'[x] \in {"unwind", "new.pend"},
           Accounted(x)', Launched(x)',
           \A b \in Briefs : b \in files'.brief /\ (b \notin files.brief \/ Covers(x, b, "unstage"))
                                => Covers(x, b, "unstage")',
           \A b \in Briefs : b \in files'.moxy /\ (b \notin files.moxy \/ Covers(x, b, "unmoxy"))
                                => Covers(x, b, "unmoxy")'
    PROVE  LeftInv'
<1>1. Undos'
  BY DEF LeftInv, Undos, Apart
<1>2. \A b \in Briefs, d \in Calls : d # x => (child[b] = d <=> child'[b] = d)
  <2>1. \A b \in Briefs : child'[b] = child[b] \/ (child[b] \in {None, x} /\ child'[b] \in {None, x})
    BY SpawnAt DEF Apart, LeftInv, Holding, SpawnHolds
  <2> QED
    BY <2>1, CallsAssumption
<1>3. \A d \in Calls : d # x => \A u : Owes(d, u)' <=> Owes(d, u)
  BY DEF Apart, Owes
<1>4. ASSUME NEW d \in Calls, d # x PROVE Accounted(d)' /\ Launched(d)'
  <2>1. d \in Recorded' => d \in Recorded
    BY <1>2, <1>4 DEF Recorded
  <2>2. Accounted(d)'
    BY <1>3, <1>4, <2>1 DEF LeftInv, Accounted, Apart
  <2>3. unit[d] # "none" \/ pc[d] = "spawn.launch" => req[d].brief \in Briefs
    <3>1. Role(d) /\ Started(d)
      BY DEF LeftInv, Inv, Known
    <3> QED
      BY <3>1 DEF Role, Started, SpawnHeld
  <2>4. Launched(d)'
    BY <1>2, <1>4, <2>3 DEF LeftInv, Launched, Apart
  <2> QED
    BY <2>2, <2>4
<1>5. ASSUME NEW d \in Calls, d # x, NEW b \in Briefs, NEW u, Covers(d, b, u) PROVE Covers(d, b, u)'
  <2>1. Spawning(d)' = Spawning(d)
    BY <1>5 DEF Spawning, Apart
  <2> QED
    BY <1>2, <1>3, <1>5, <2>1 DEF Covers, Apart
<1>6. Staged'
  BY <1>5 DEF LeftInv, Staged
<1> QED
  BY <1>1, <1>4, <1>6 DEF LeftInv

-----------------------------------------------------------------------------
(* Steps that make nothing a call would have to undo.                      *)

\* Only x moves, and its stack stays or goes.
Tacit(x) ==
    /\ undo' = undo \/ undo' = [undo EXCEPT ![x] = <<>>]
    /\ \A d \in Calls : d # x => pc'[d] = pc[d] /\ mem'[d] = mem[d]
    /\ mem'[x].dirty => mem[x].dirty

Quietly(x) ==
    /\ Tacit(x)
    /\ \A d \in Calls : d # x => req'[d] = req[d]
    /\ UNCHANGED <<child, unit, stanza>>
    /\ \A d \in Calls : /\ d \in acct' => d \in acct
                        /\ d \in muc'.members => d \in muc.members
                        /\ job'[d] = "running" => job[d] = "running"
    /\ files'.brief \subseteq files.brief /\ files'.moxy \subseteq files.moxy

\* Such a step, of a call that has made nothing.
LEMMA QuietLeft ==
    ASSUME LeftInv, Inv', NEW x \in Calls, Quietly(x),
           pc[x] \notin Stacked \cup {"new.pend", "done", "dirty", "crashed"}, pc'[x] # "spawn.launch"
    PROVE  LeftInv'
<1>1. undo[x] = <<>> /\ undo'[x] = <<>> /\ ~mem[x].dirty /\ ~mem'[x].dirty
      /\ undo' \in [Calls -> Seq(UndoNames)]
  <2>1. undo \in [Calls -> Seq(UndoNames)]
    BY DEF LeftInv, Undos
  <2>2. /\ undo[x] # <<>> => pc[x] \in Stacked
        /\ mem[x].dirty => pc[x] \in {"unwind", "new.pend"}
    BY DEF LeftInv, Undos
  <2>3. undo[x] = <<>> /\ ~mem[x].dirty
    BY <2>2 DEF Stacked
  <2>4. <<>> \in Seq(UndoNames)
    OBVIOUS
  <2> QED
    BY <2>1, <2>3, <2>4 DEF Quietly, Tacit
<1>2. /\ x \notin acct /\ x \notin muc.members /\ x \notin Recorded /\ job[x] # "running"
      /\ stanza[x] # "posted" /\ unit[x] = "none"
      /\ \A b \in Briefs, u \in UndoNames : ~Covers(x, b, u)
  BY <1>1, MadeNothing
<1>3. Apart(x)
  <2>1. \A d \in Calls : d # x => undo'[d] = undo[d]
    BY DEF Quietly, Tacit, LeftInv, Undos
  <2> QED
    BY <2>1 DEF Quietly, Tacit, Apart
<1>4. Accounted(x)' /\ Launched(x)'
  BY <1>2 DEF Accounted, Launched, Quietly, Recorded
<1>5. "unstage" \in UndoNames /\ "unmoxy" \in UndoNames
  BY DEF UndoNames
<1> QED
  BY <1>1, <1>2, <1>3, <1>4, <1>5, LeftStep DEF Quietly

\* Whether an undo failed is not among what the verbs' walks remember.
LEMMA DirtyKept ==
    ASSUME NEW m \in Memories, NEW v
    PROVE  /\ [m EXCEPT !.run = v].dirty = m.dirty /\ [m EXCEPT !.room = v].dirty = m.dirty
           /\ [m EXCEPT !.cur = v].dirty = m.dirty /\ [m EXCEPT !.todo = v].dirty = m.dirty
           /\ [m EXCEPT !.gone = v].dirty = m.dirty
           /\ \A p : [[m EXCEPT !.todo = v] EXCEPT !.cur = p].dirty = m.dirty
  BY DEF Memories

\* Going on makes nothing.
LEMMA GotoTacit == ASSUME Types, NEW x \in Calls, NEW s, Goto(x, s) PROVE Tacit(x)
  BY DEF Types, TypeOK, Goto, Tacit

\* A return forgets, and gives its stack up.
LEMMA ReturnTacit == ASSUME Types, NEW x \in Calls, NEW s, Return(x, s) PROVE Tacit(x)
  BY DEF Types, TypeOK, Return, Tacit, Blank

\* A walk goes on with the same account of its undos.
LEMMA RememberTacit ==
    ASSUME Types, NEW x \in Calls, NEW s, NEW m, m.dirty = mem[x].dirty, Remember(x, s, m) PROVE Tacit(x)
  BY DEF Types, TypeOK, Remember, Tacit

\* A resolve makes nothing of its own.
LEMMA ResolveIsQuiet == ASSUME Inv, NEW x \in Calls, ResolveStep(x) PROVE Quietly(x)
<1> USE DEF Quietly, store, outside, clocks
<1> Types /\ mem[x] \in Memories
  BY DEF Inv, Types
<1>1. CASE ResolveEnter(x)
  BY <1>1 DEF ResolveEnter, Types, TypeOK, Tacit
<1>2. CASE ResolveCanary(x)
  BY <1>2, GotoTacit DEF ResolveCanary
<1>3. CASE ResolveMark(x)
  <2>1. Tacit(x) /\ UNCHANGED <<req, child, unit, stanza, acct, muc, job>>
        /\ (files' = files \/ files' = [files EXCEPT !.canary = TRUE])
    BY <1>3, GotoTacit, ReturnTacit DEF ResolveMark
  <2> QED
    BY <2>1 DEF Types, TypeOK
<1>4. CASE ResolveNote(x)
  BY <1>4, GotoTacit, ReturnTacit DEF ResolveNote
<1>5. CASE ResolveLoad(x) \/ ResolveStop(x)
  BY <1>5, GotoTacit DEF ResolveLoad, ResolveStop
<1>6. CASE ResolveWait(x) \/ ResolvePersist(x) \/ ResolveRead(x)
  BY <1>6, GotoTacit, ReturnTacit DEF ResolveWait, ResolvePersist, ResolveRead
<1>7. CASE ResolveDone(x)
  <2>1. Tacit(x) /\ UNCHANGED <<req, child, files, acct, muc, stanza, unit>> /\ pc[x] = "res.done"
        /\ (job' = job \/ job' = [job EXCEPT ![mem[x].run.job] = ledger.resolved])
    BY <1>7, GotoTacit DEF ResolveDone, Resolution, At
  <2>2. ledger.resolved # "running"
    BY <2>1 DEF Inv, Types, TypeOK, Holding, ResolveHolds, Verdicts
  <2>3. \A d \in Calls : job'[d] = "running" => job[d] = "running"
    BY <2>1, <2>2 DEF Types, TypeOK
  <2> QED
    BY <2>1, <2>3
<1>8. CASE ResolveWake(x)
  BY <1>8, GotoTacit, ReturnTacit DEF ResolveWake
<1>9. CASE ResolveWakeMark(x)
  <2>1. Tacit(x) /\ UNCHANGED <<req, child, unit, stanza, acct, muc, job>>
        /\ (files' = files \/ files' = [files EXCEPT !.wake = TRUE])
    BY <1>9, GotoTacit, ReturnTacit DEF ResolveWakeMark
  <2> QED
    BY <2>1 DEF Types, TypeOK
<1>10. CASE ResolveSave(x)
  BY <1>10, RememberTacit, ReturnTacit, DirtyKept DEF ResolveSave
<1>11. CASE ResolveTear(x)
  BY <1>11, RememberTacit, ReturnTacit, DirtyKept DEF ResolveTear
<1>12. CASE ResolveChild(x)
  <2>1. PICK p, m : m = [mem[x] EXCEPT !.todo = @ \ {p}]
           /\ UNCHANGED <<req, store, outside, clocks>>
           /\ (Remember(x, "res.child", m) \/ \E s : Remember(x, s, [m EXCEPT !.cur = p]))
    BY <1>12 DEF ResolveChild, TakeUp
  <2>2. m.dirty = mem[x].dirty /\ [m EXCEPT !.cur = p].dirty = mem[x].dirty
    BY <2>1, DirtyKept
  <2> QED
    BY <2>1, <2>2, RememberTacit
<1>13. CASE ResolveRoot(x)
  <2>1. UNCHANGED <<req, store, outside, clocks>>
        /\ (Goto(x, "res.entries") \/ \E s : Remember(x, s, [mem[x] EXCEPT !.cur = Root]))
    BY <1>13 DEF ResolveRoot, TakeUp
  <2> QED
    BY <2>1, DirtyKept, GotoTacit, RememberTacit
<1>14. CASE ResolveEntries(x) \/ ResolveTorn(x)
  BY <1>14, GotoTacit, ReturnTacit DEF ResolveEntries, ResolveTorn
<1> QED
  BY <1>1, <1>2, <1>3, <1>4, <1>5, <1>6, <1>7, <1>8, <1>9, <1>10, <1>11, <1>12, <1>13, <1>14 DEF ResolveStep

\* Neither does a teardown, a clean, a sweep or a route entry.
LEMMA CleanIsQuiet == ASSUME Inv, NEW x \in Calls, TeardownStep(x) \/ CleanStep(x) PROVE Quietly(x)
<1> USE DEF Quietly, store, outside, clocks
<1> Types /\ mem[x] \in Memories
  BY DEF Inv, Types
<1>1. ASSUME Gone(x) \/ Kept(x) PROVE Tacit(x)
  <2>1. \/ \E s : Goto(x, s)
        \/ \E s, g : Remember(x, s, [mem[x] EXCEPT !.gone = g])
    BY <1>1 DEF Gone, Kept
  <2> QED
    BY <2>1, GotoTacit, RememberTacit, DirtyKept
<1>2. CASE DropAffiliation(x)
  <2>1. Tacit(x) /\ UNCHANGED <<req, store, acct, stanza, job, unit>>
        /\ (muc' = muc \/ muc' = [muc EXCEPT !.members = @ \ {mem[x].cur}])
    BY <1>2, GotoTacit DEF DropAffiliation
  <2> QED
    BY <2>1 DEF Types, TypeOK
<1>3. CASE RevokeAccount(x)
  <2>1. Tacit(x) /\ UNCHANGED <<req, store, muc, stanza, job, unit>>
        /\ (acct' = acct \/ acct' = acct \ {mem[x].cur})
    BY <1>1, <1>3, GotoTacit DEF RevokeAccount
  <2> QED
    BY <2>1
<1>4. CASE UnlinkPassword(x)
  <2>1. Tacit(x) /\ UNCHANGED <<req, child, acct, muc, stanza, job, unit>>
        /\ (files' = files \/ files' = [files EXCEPT !.pw = @ \ {mem[x].cur}])
    BY <1>1, <1>4 DEF UnlinkPassword
  <2> QED
    BY <2>1 DEF Types, TypeOK
<1>5. CASE CleanEnter(x)
  <2>1. /\ UNCHANGED <<req, store, outside>>
        /\ \/ Return(x, "done")
           \/ /\ \E s : pc' = [pc EXCEPT ![x] = s]
              /\ mem' = [mem EXCEPT ![x] = [mem[x] EXCEPT !.cur = Root]]
              /\ undo' = undo
    BY <1>5 DEF CleanEnter
  <2>2. [mem[x] EXCEPT !.cur = Root].dirty = mem[x].dirty
    BY DirtyKept
  <2>3. Tacit(x)
    BY <2>1, <2>2, ReturnTacit, ZenonT(40) DEF Tacit, Types, TypeOK
  <2> QED
    BY <2>1, <2>3
<1>6. CASE CleanTomb(x) \/ CleanEntry(x) \/ Decide(x)
  BY <1>6, GotoTacit, ReturnTacit DEF CleanTomb, CleanEntry, Decide
<1>7. CASE SweepChild(x)
  <2>1. PICK p, m : m = [mem[x] EXCEPT !.todo = @ \ {p}]
           /\ UNCHANGED <<req, store, outside, clocks>>
           /\ (Remember(x, "sweep.child", m) \/ Remember(x, "sweep.files", [m EXCEPT !.cur = p]))
    BY <1>7 DEF SweepChild
  <2>2. m.dirty = mem[x].dirty /\ [m EXCEPT !.cur = p].dirty = mem[x].dirty
    BY <2>1, DirtyKept
  <2> QED
    BY <2>1, <2>2, RememberTacit
<1>8. CASE SweepFiles(x)
  <2>1. Tacit(x) /\ UNCHANGED <<req, child, acct, muc, stanza, job, unit>>
    BY <1>8, GotoTacit DEF SweepFiles
  <2>2. files'.brief \subseteq files.brief /\ files'.moxy \subseteq files.moxy
    BY <1>8 DEF SweepFiles, Types, TypeOK
  <2> QED
    BY <2>1, <2>2
<1>9. CASE SweepEnd(x)
  BY <1>9, ReturnTacit DEF SweepEnd
<1> QED
  BY <1>2, <1>3, <1>4, <1>5, <1>6, <1>7, <1>8, <1>9 DEF TeardownStep, CleanStep

\* A --new-run makes a root and a room before it makes anything of its own, and a spawn
\* asks first.
LEMMA OpeningIsQuiet ==
    ASSUME Inv, NEW x \in Calls,
           NewEnter(x) \/ NewReady(x) \/ NewMint(x) \/ NewRoom(x) \/ SpawnEnter(x) \/ SpawnReady(x)
    PROVE  Quietly(x)
<1> USE DEF Quietly, store, outside, clocks
<1> Types /\ mem[x] \in Memories
  BY DEF Inv, Types
<1>1. ASSUME NEW s, pc' = [pc EXCEPT ![x] = s], UNCHANGED <<undo, mem>> PROVE Tacit(x)
  BY <1>1 DEF Types, TypeOK, Tacit
<1>2. CASE NewEnter(x)
  BY <1>1, <1>2, ReturnTacit DEF NewEnter
<1>3. CASE NewReady(x) \/ SpawnReady(x)
  BY <1>3, GotoTacit, ReturnTacit DEF NewReady, SpawnReady
<1>4. CASE NewMint(x)
  <2>1. Tacit(x) /\ UNCHANGED <<req, child, muc, stanza, job, unit>> /\ acct' \subseteq acct \cup {Root}
        /\ (files' = files \/ files' = [files EXCEPT !.pw = @ \cup {Root}])
    BY <1>4, GotoTacit, ReturnTacit DEF NewMint, Mint
  <2> QED
    BY <2>1, CallsAssumption DEF Types, TypeOK
<1>5. CASE SpawnEnter(x)
  BY <1>1, <1>5, ReturnTacit DEF SpawnEnter
<1>6. CASE NewRoom(x)
  <2>1. UNCHANGED <<req, store, acct, stanza, job, unit>>
        /\ (muc' = muc \/ muc' = [made |-> TRUE, members |-> muc.members \cup {Root}])
        /\ \/ Remember(x, "new.post", [mem[x] EXCEPT !.room = TRUE])
           \/ Goto(x, "unwind")
    BY <1>6 DEF NewRoom
  <2>2. Tacit(x)
    BY <2>1, GotoTacit, RememberTacit, DirtyKept
  <2> QED
    BY <2>1, <2>2, CallsAssumption
<1> QED
  BY <1>2, <1>3, <1>4, <1>5, <1>6

-----------------------------------------------------------------------------
(* Agents, killed calls and the clock.                                     *)

\* A launched agent has its call's answer: it covers what its record covers.
LEMMA AgentLeft == ASSUME LeftInv, Inv', NEW x \in Calls, AgentStep(x) PROVE LeftInv'
<1> USE DEF store, outside, clocks
<1>1. /\ unit[x] # "none" /\ UNCHANGED <<pc, req, undo, mem, child, files, acct, muc, stanza>>
      /\ \/ unit' = unit /\ job[x] = "running" /\ \E s \in Terminal : job' = [job EXCEPT ![x] = s]
         \/ job' = job /\ unit' = [unit EXCEPT ![x] = "stopped"]
  BY DEF AgentStep, AgentFinish, AgentStop, HookSettle, Terminal
<1>2. pc[x] = "done" /\ child[req[x].brief] = x
  BY <1>1 DEF LeftInv, Launched
<1>3. Apart(x)
  BY <1>1 DEF Apart, LeftInv, Inv, Types, TypeOK
<1>4. Accounted(x)' /\ Launched(x)'
  BY <1>1, <1>2 DEF Accounted, Launched
<1>5. \A b \in Briefs : \A u : Covers(x, b, u) => Covers(x, b, u)'
  BY <1>1 DEF Covers, Spawning, Owes
<1>6. undo' \in [Calls -> Seq(UndoNames)] /\ (undo'[x] # <<>> => pc'[x] \in Stacked)
      /\ (mem'[x].dirty => pc'[x] \in {"unwind", "new.pend"})
  BY <1>1 DEF LeftInv, Undos
<1> QED
  BY <1>1, <1>3, <1>4, <1>5, <1>6, LeftStep

\* A killed call answers for all it made.
LEMMA CrashLeft == ASSUME LeftInv, Inv', NEW x \in Calls, Crash(x) PROVE LeftInv'
<1> USE DEF store, outside, clocks
<1>1. /\ pc[x] \notin Outcomes /\ Return(x, "crashed")
      /\ UNCHANGED <<req, child, files, acct, muc, stanza, job, unit>>
  BY DEF Crash, Active, Ended
<1>2. /\ pc'[x] = "crashed" /\ undo'[x] = <<>> /\ ~mem'[x].dirty /\ undo' \in [Calls -> Seq(UndoNames)]
      /\ \A d \in Calls : d # x => pc'[d] = pc[d] /\ mem'[d] = mem[d] /\ undo'[d] = undo[d]
  <2>1. undo \in [Calls -> Seq(UndoNames)] /\ <<>> \in Seq(UndoNames)
    BY DEF LeftInv, Undos
  <2> QED
    BY <1>1, <2>1 DEF Return, LeftInv, Inv, Types, TypeOK, Blank
<1>3. Apart(x)
  BY <1>1, <1>2 DEF Apart
<1>4. Accounted(x)' /\ Launched(x)'
  BY <1>1, <1>2 DEF LeftInv, Accounted, Launched, Outcomes
<1>5. \A b \in Briefs : \A u : Covers(x, b, u) => Covers(x, b, u)'
  BY <1>1, <1>2 DEF Covers, Spawning, SpawnHeld, Outcomes
<1> QED
  BY <1>1, <1>2, <1>3, <1>4, <1>5, LeftStep

\* The clock, and a system at rest.
LEMMA RestLeft ==
    ASSUME LeftInv, Inv', UNCHANGED <<pc, req, undo, mem, child, files, acct, muc, stanza, job, unit>>
    PROVE  LeftInv'
<1>2. Undos' /\ Staged'
  BY DEF LeftInv, Undos, Staged, Covers, Spawning, Owes
<1>3. \A c \in Calls : Accounted(c)' /\ Launched(c)'
  BY DEF LeftInv, Accounted, Launched, Owes, Recorded
<1> QED
  BY <1>2, <1>3 DEF LeftInv

\* A call that starts has made nothing.
LEMMA StartLeft == ASSUME LeftInv, Inv', NEW x \in Calls, StartStep(x) PROVE LeftInv'
<1> USE DEF store, outside, clocks
<1>1. PICK r, s, m : Start(x, r, s, m) /\ ~m.dirty /\ s # "spawn.launch"
  <2>1. PICK r, s, m : /\ Start(x, r, s, m) /\ s # "spawn.launch"
                       /\ m \in {Blank, [Blank EXCEPT !.run = run], [Blank EXCEPT !.at = now],
                                [Blank EXCEPT !.todo = Recorded]}
    BY DEF StartStep, StartNew, StartSpawn, StartResolve, StartClean, StartSweep, StartDecide
  <2>2. ~m.dirty
    BY <2>1 DEF Blank
  <2> QED
    BY <2>1, <2>2
<1>2. Quietly(x)
  BY <1>1 DEF Start, Quietly, Tacit, LeftInv, Inv, Types, TypeOK
<1>3. pc[x] = "idle" /\ pc'[x] # "spawn.launch"
  BY <1>1 DEF Start, At, LeftInv, Inv, Types
<1> QED
  BY <1>2, <1>3, QuietLeft DEF Stacked

-----------------------------------------------------------------------------
(* Steps of a call that makes things.                                      *)

\* A call goes on, or turns to its undo, owing all that it has made.
LEMMA LeftWorks ==
    ASSUME LeftInv, Inv', NEW x \in Calls, Opening(x) \/ Spawning(x), Spawning(x)' <=> Spawning(x),
           Apart(x), undo' \in [Calls -> Seq(UndoNames)], pc'[x] \in Stacked, mem' = mem, req' = req, unit' = unit,
           pc[x] \notin {"unwind", "new.pend"},
           \A v : Owes(x, v) => Owes(x, v)',
           x \in acct' => x \in acct \/ Owes(x, "revoke")',
           x \in muc'.members => x \in muc.members \/ Owes(x, "unaffil")',
           x \in Recorded' => x \in Recorded \/ Owes(x, "unsave")',
           job'[x] = "running" => job[x] = "running" \/ Owes(x, "failjob")',
           stanza'[x] = "posted" => stanza[x] = "posted" \/ Owes(x, "withdraw")',
           pc'[x] = "spawn.launch" => child'[req[x].brief] = x,
           \A b \in files'.brief : b \in files.brief \/ (Spawning(x) /\ b = req[x].brief /\ Owes(x, "unstage")'),
           \A b \in files'.moxy : b \in files.moxy \/ (Spawning(x) /\ b = req[x].brief /\ Owes(x, "unmoxy")')
    PROVE  LeftInv'
<1>1. pc[x] \notin Outcomes /\ ~mem[x].dirty
  BY DEF Opening, Spawning, NewHeld, SpawnHeld, Outcomes, LeftInv, Undos
<1>2. Accounted(x)'
  BY <1>1 DEF LeftInv, Accounted, Outcomes
<1>3. Launched(x)'
  BY <1>1 DEF LeftInv, Launched, Outcomes
<1>4. \A b \in Briefs : \A u : Covers(x, b, u) => Covers(x, b, u)'
  <2>1. CASE Spawning(x)
    BY <1>1, <2>1 DEF Covers, Outcomes
  <2>2. CASE Opening(x)
    <3>1. \A b \in Briefs : child[b] = None
      BY <2>2, NewAt DEF LeftInv, Inv, Shared, Record
    <3> QED
      BY <1>1, <3>1, CallsAssumption DEF Covers, Outcomes
  <2> QED
    BY <2>1, <2>2
<1>5. \A b \in Briefs : Spawning(x) /\ b = req[x].brief =>
          /\ Owes(x, "unstage")' => Covers(x, b, "unstage")'
          /\ Owes(x, "unmoxy")' => Covers(x, b, "unmoxy")'
  BY DEF Covers
<1> QED
  BY <1>1, <1>2, <1>3, <1>4, <1>5, LeftStep

\* A call goes on, or turns to its undo, having made nothing more.
LEMMA LeftGoes ==
    ASSUME LeftInv, Inv', NEW x \in Calls, Opening(x) \/ Spawning(x), Spawning(x)' <=> Spawning(x),
           NEW s \in Stacked, Goto(x, s), s # "spawn.launch", pc[x] \notin {"unwind", "new.pend"},
           UNCHANGED <<req, child, acct, muc, stanza, job, unit>>,
           files'.brief = files.brief, files'.moxy = files.moxy
    PROVE  LeftInv'
<1>1. undo' = undo /\ mem' = mem /\ pc'[x] = s /\ \A d \in Calls : d # x => pc'[d] = pc[d]
  BY DEF Goto, LeftInv, Inv, Types
<1>2. Apart(x)
  BY <1>1 DEF Apart
<1>3. \A v : Owes(x, v) => Owes(x, v)'
  BY <1>1 DEF Owes
<1>4. x \in Recorded' => x \in Recorded
  BY DEF Recorded
<1>5. undo' \in [Calls -> Seq(UndoNames)]
  BY <1>1 DEF LeftInv, Undos
<1> QED
  BY <1>1, <1>2, <1>3, <1>4, <1>5, LeftWorks

\* What a push does, besides what is pushed for.
LEMMA PushLeft ==
    ASSUME LeftInv, NEW x \in Calls, NEW s, NEW u \in UndoNames, Push(x, s, u)
    PROVE  /\ undo' \in [Calls -> Seq(UndoNames)] /\ Owes(x, u)' /\ mem' = mem /\ pc'[x] = s
           /\ \A v : Owes(x, v) => Owes(x, v)'
           /\ \A d \in Calls : d # x => pc'[d] = pc[d] /\ undo'[d] = undo[d]
<1>1. undo \in [Calls -> Seq(UndoNames)] /\ undo' = [undo EXCEPT ![x] = <<u>> \o @]
  BY DEF LeftInv, Undos, Push
<1>2. undo' \in [Calls -> Seq(UndoNames)] /\ Owes(x, u)' /\ \A v : Owes(x, v) => Owes(x, v)'
  BY <1>1, PushOwes
<1> QED
  BY <1>1, <1>2 DEF Push, LeftInv, Inv, Types

\* A --new-run's steps that make something, or end.
LEMMA NewLeft ==
    ASSUME LeftInv, Inv', "lost" \notin Faults, NEW x \in Calls,
           NewPost(x) \/ NewJob(x) \/ NewMirror(x) \/ NewSave(x) \/ NewPend(x)
    PROVE  LeftInv'
<1> USE DEF store, outside, clocks
<1>1. /\ pc[x] \in {"new.post", "new.job", "new.mirror", "new.save", "new.pend"} /\ Opening(x)
      /\ ~Spawning(x) /\ \A b \in Briefs : \A u : ~Covers(x, b, u)
  <2>1. pc[x] \in {"new.post", "new.job", "new.mirror", "new.save", "new.pend"}
    BY DEF NewPost, NewJob, NewMirror, NewSave, NewPend, At
  <2>2. Opening(x) /\ ~Spawning(x) /\ pc[x] \notin Outcomes
    BY <2>1 DEF Opening, NewHeld, Spawning, SpawnHeld, Outcomes
  <2>3. \A b \in Briefs : child[b] = None
    BY <2>2, NewAt DEF LeftInv, Inv, Shared, Record
  <2> QED
    BY <2>1, <2>2, <2>3, CallsAssumption DEF Covers, Outcomes
<1>2. req[x].verb = "new" /\ unit[x] = "none"
  BY <1>1, NewAt DEF LeftInv
<1>3. ASSUME NEW s \in Stacked, Goto(x, s), s \in {"unwind", "new.save"}, pc[x] # "new.pend",
             UNCHANGED <<req, child, files, acct, muc, stanza, job, unit>>
      PROVE  LeftInv'
  <2>1. pc'[x] = s /\ ~Spawning(x)'
    BY <1>2, <1>3 DEF Goto, LeftInv, Inv, Types, Spawning, SpawnHeld
  <2> QED
    BY <1>1, <1>3, <2>1, LeftGoes
<1>4. ASSUME NEW s \in Stacked, NEW u \in UndoNames, Push(x, s, u), s \in {"new.job", "new.mirror"},
             pc[x] # "new.pend", UNCHANGED <<req, child, files, acct, muc, unit>>,
             stanza' = stanza \/ (u = "withdraw" /\ stanza' = [stanza EXCEPT ![x] = "posted"]),
             job' = job \/ (u = "failjob" /\ job' = [job EXCEPT ![x] = "running"])
      PROVE  LeftInv'
  <2>1. /\ undo' \in [Calls -> Seq(UndoNames)] /\ Owes(x, u)' /\ mem' = mem /\ pc'[x] = s
        /\ \A v : Owes(x, v) => Owes(x, v)'
        /\ \A d \in Calls : d # x => pc'[d] = pc[d] /\ undo'[d] = undo[d]
    BY <1>4, PushLeft
  <2>2. \A d \in Calls : d # x => stanza'[d] = stanza[d] /\ job'[d] = job[d]
    BY <1>4 DEF LeftInv, Inv, Types, TypeOK
  <2>3. Apart(x) /\ ~Spawning(x)' /\ Recorded' = Recorded
    BY <1>2, <1>4, <2>1, <2>2 DEF Apart, Spawning, SpawnHeld, Recorded
  <2>4. /\ job'[x] = "running" => job[x] = "running" \/ Owes(x, "failjob")'
        /\ stanza'[x] = "posted" => stanza[x] = "posted" \/ Owes(x, "withdraw")'
    BY <1>4, <2>1
  <2> QED
    BY <1>1, <1>4, <2>1, <2>3, <2>4, LeftWorks
<1>5. ASSUME NEW o \in {"done", "failed", "dirty"}, Return(x, o),
             o = "failed" => pc[x] = "new.pend" /\ ~mem[x].dirty,
             UNCHANGED <<req, child, files, acct, muc, stanza, job, unit>>
      PROVE  LeftInv'
  <2>1. /\ pc'[x] = o /\ undo'[x] = <<>> /\ ~mem'[x].dirty /\ undo' \in [Calls -> Seq(UndoNames)]
        /\ \A d \in Calls : d # x => pc'[d] = pc[d] /\ mem'[d] = mem[d] /\ undo'[d] = undo[d]
    <3>1. undo \in [Calls -> Seq(UndoNames)] /\ <<>> \in Seq(UndoNames)
      BY DEF LeftInv, Undos
    <3> QED
      BY <1>5, <3>1 DEF Return, LeftInv, Inv, Types, TypeOK, Blank
  <2>2. Apart(x) /\ Launched(x)'
    BY <1>2, <1>5, <2>1 DEF Apart, Launched
  <2>3. Accounted(x)'
    <3> SUFFICES ASSUME o = "failed" PROVE Accounted(x)'
      BY <2>1 DEF Accounted
    <3>1. undo[x] = <<>> /\ ~mem[x].dirty
      BY <1>5 DEF LeftInv, Undos, Stacked
    <3>2. /\ x \notin acct /\ x \notin muc.members /\ x \notin Recorded /\ job[x] # "running"
          /\ stanza[x] # "posted"
      BY <1>5, <3>1, MadeNothing
    <3> QED
      BY <1>5, <3>2 DEF Accounted, Recorded
  <2> QED
    BY <1>1, <1>5, <2>1, <2>2, <2>3, LeftStep
<1>6. "withdraw" \in UndoNames /\ "failjob" \in UndoNames
      /\ {"unwind", "new.job", "new.mirror", "new.save"} \subseteq Stacked
  BY DEF UndoNames, Stacked
<1>7. \A k : Outcome(k) => k # "lost"
  BY DEF Outcome
<1>8. CASE NewPost(x)
  BY <1>3, <1>4, <1>6, <1>7, <1>8 DEF NewPost, At, Reply, Took
<1>9. CASE NewJob(x)
  BY <1>3, <1>4, <1>6, <1>7, <1>9 DEF NewJob, At, Reply, Took, StartJob
<1>10. CASE NewMirror(x)
  BY <1>3, <1>6, <1>10 DEF NewMirror, At
<1>11. CASE NewSave(x)
  BY <1>3, <1>5, <1>6, <1>11 DEF NewSave, At
<1>12. CASE NewPend(x)
  BY <1>5, <1>12 DEF NewPend, At
<1> QED
  BY <1>8, <1>9, <1>10, <1>11, <1>12

\* A spawn's steps, from its first file to its launch.
LEMMA SpawnLeft ==
    ASSUME LeftInv, Inv', "lost" \notin Faults, NEW x \in Calls,
           \/ SpawnNarrow(x) \/ SpawnMint(x) \/ SpawnAffil(x) \/ SpawnStage(x) \/ SpawnJob(x)
           \/ SpawnMirror(x) \/ SpawnPost(x) \/ SpawnSave(x)
    PROVE  LeftInv'
<1> USE DEF store, outside, clocks
<1> Types
  BY DEF LeftInv, Inv
<1>1. pc[x] \in SpawnHeld /\ Spawning(x) /\ pc[x] \notin {"unwind", "new.pend"}
  <2>1. pc[x] \in {"spawn.narrow", "spawn.mint", "spawn.affil", "spawn.stage", "spawn.job", "spawn.mirror",
                   "spawn.post", "spawn.save"}
    BY DEF SpawnNarrow, SpawnMint, SpawnAffil, SpawnStage, SpawnJob, SpawnMirror, SpawnPost, SpawnSave, At
  <2> QED
    BY <2>1 DEF Spawning, SpawnHeld
<1>2. req[x].verb = "spawn" /\ req[x].brief \in Briefs
  BY <1>1, SpawnAt DEF LeftInv
<1> DEFINE At2 == {"spawn.mint", "spawn.affil", "spawn.stage", "spawn.job", "spawn.mirror", "spawn.post",
                   "spawn.save", "spawn.launch", "unwind"}
<1>3. At2 \subseteq Stacked /\ \A s \in At2 : pc'[x] = s /\ req' = req => Spawning(x)'
  BY <1>2 DEF Stacked, Spawning, SpawnHeld
<1> HIDE DEF At2
<1>4. ASSUME NEW s \in At2, Goto(x, s), s # "spawn.launch",
             UNCHANGED <<req, child, files, acct, muc, stanza, job, unit>>
      PROVE  LeftInv'
  <2>1. pc'[x] = s
    BY <1>4 DEF Goto, Types
  <2> QED
    BY <1>1, <1>3, <1>4, <2>1, LeftGoes
<1>5. ASSUME NEW s \in At2, NEW u \in UndoNames, Push(x, s, u), UNCHANGED <<req, unit>>,
             acct' = acct \/ (u = "revoke" /\ acct' = acct \cup {x}),
             muc' = muc \/ (u = "unaffil" /\ muc' = [muc EXCEPT !.members = @ \cup {x}]),
             stanza' = stanza \/ (u = "withdraw" /\ stanza' = [stanza EXCEPT ![x] = "posted"]),
             job' = job \/ (u = "failjob" /\ job' = [job EXCEPT ![x] = "running"]),
             child' = child \/ (u = "unsave" /\ child' = [child EXCEPT ![req[x].brief] = x]),
             s = "spawn.launch" => u = "unsave" /\ child' = [child EXCEPT ![req[x].brief] = x],
             files'.brief = files.brief \/ (u = "unstage" /\ files'.brief = files.brief \cup {req[x].brief}),
             files'.moxy = files.moxy \/ (u = "unmoxy" /\ files'.moxy = files.moxy \cup {req[x].brief})
      PROVE  LeftInv'
  <2>1. /\ undo' \in [Calls -> Seq(UndoNames)] /\ Owes(x, u)' /\ mem' = mem /\ pc'[x] = s
        /\ \A v : Owes(x, v) => Owes(x, v)'
        /\ \A d \in Calls : d # x => pc'[d] = pc[d] /\ undo'[d] = undo[d]
    BY <1>5, PushLeft
  <2>2. /\ \A d \in Calls : d # x => /\ stanza'[d] = stanza[d] /\ job'[d] = job[d]
                                     /\ d \in acct' => d \in acct
                                     /\ d \in muc'.members => d \in muc.members
        /\ \A b \in Briefs : child'[b] = child[b] \/ (b = req[x].brief /\ child'[b] = x)
        /\ s = "spawn.launch" => child'[req[x].brief] = x
    BY <1>2, <1>5 DEF Types, TypeOK
  <2>3. Apart(x) /\ Spawning(x)'
    BY <1>1, <1>3, <1>5, <2>1, <2>2 DEF Apart
  <2>4. /\ x \in acct' => x \in acct \/ Owes(x, "revoke")'
        /\ x \in muc'.members => x \in muc.members \/ Owes(x, "unaffil")'
        /\ x \in Recorded' => x \in Recorded \/ Owes(x, "unsave")'
        /\ job'[x] = "running" => job[x] = "running" \/ Owes(x, "failjob")'
        /\ stanza'[x] = "posted" => stanza[x] = "posted" \/ Owes(x, "withdraw")'
    BY <1>5, <2>1 DEF Recorded, Types, TypeOK
  <2>5. /\ \A b \in files'.brief : b \in files.brief \/ (b = req[x].brief /\ Owes(x, "unstage")')
        /\ \A b \in files'.moxy : b \in files.moxy \/ (b = req[x].brief /\ Owes(x, "unmoxy")')
    BY <1>5, <2>1
  <2> QED
    BY <1>1, <1>3, <1>5, <2>1, <2>2, <2>3, <2>4, <2>5, LeftWorks
<1>6. UndoNames = {"withdraw", "failjob", "revoke", "unaffil", "unstage", "unmoxy", "unsave"}
      /\ At2 = {"spawn.mint", "spawn.affil", "spawn.stage", "spawn.job", "spawn.mirror", "spawn.post",
                "spawn.save", "spawn.launch", "unwind"}
  BY DEF UndoNames, At2
<1>7. \A k : Outcome(k) => k # "lost"
  BY DEF Outcome
<1>8. CASE SpawnNarrow(x)
  <2>1. PICK s \in {"spawn.mint", "unwind"} : Push(x, s, "unmoxy")
    BY <1>8 DEF SpawnNarrow
  <2>2. /\ UNCHANGED <<req, child, acct, muc, stanza, job, unit>>
        /\ files' = files \/ files' = [files EXCEPT !.moxy = @ \cup {req[x].brief}]
    BY <1>8 DEF SpawnNarrow
  <2>3. /\ files'.brief = files.brief
        /\ files'.moxy = files.moxy \/ files'.moxy = files.moxy \cup {req[x].brief}
    BY <2>2 DEF Types, TypeOK
  <2> QED
    BY <1>5, <1>6, <2>1, <2>2, <2>3
<1>9. CASE SpawnMint(x)
  <2>1. \/ Goto(x, "unwind") /\ UNCHANGED <<acct, files>>
        \/ /\ \E s \in {"spawn.affil", "spawn.stage"} : Push(x, s, "revoke")
           /\ acct' = acct \cup {x} /\ files' = [files EXCEPT !.pw = @ \cup {x}]
    BY <1>7, <1>9 DEF SpawnMint, Reply, Took, Mint
  <2>2. UNCHANGED <<req, child, muc, stanza, job, unit>>
    BY <1>9 DEF SpawnMint
  <2>3. files' = files \/ files' = [files EXCEPT !.pw = @ \cup {x}] =>
            files'.brief = files.brief /\ files'.moxy = files.moxy
    BY DEF Types, TypeOK
  <2> QED
    BY <1>4, <1>5, <1>6, <2>1, <2>2, <2>3
<1>10. CASE SpawnAffil(x)
  <2>1. /\ UNCHANGED <<req, child, files, acct, stanza, job, unit>>
        /\ \/ Goto(x, "unwind") /\ muc' = muc
           \/ Push(x, "spawn.stage", "unaffil") /\ muc' = [muc EXCEPT !.members = @ \cup {x}]
    BY <1>7, <1>10 DEF SpawnAffil, Reply, Took
  <2> QED
    BY <1>4, <1>5, <1>6, <2>1
<1>11. CASE SpawnStage(x)
  <2>1. /\ UNCHANGED <<req, child, acct, muc, stanza, job, unit>>
        /\ \/ Goto(x, "unwind") /\ files' = files
           \/ Push(x, "spawn.job", "unstage") /\ files' = [files EXCEPT !.brief = @ \cup {req[x].brief}]
    BY <1>11 DEF SpawnStage
  <2>2. files' = [files EXCEPT !.brief = @ \cup {req[x].brief}] =>
            files'.brief = files.brief \cup {req[x].brief} /\ files'.moxy = files.moxy
    BY DEF Types, TypeOK
  <2> QED
    BY <1>4, <1>5, <1>6, <2>1, <2>2
<1>12. CASE SpawnJob(x)
  <2>1. /\ UNCHANGED <<req, child, files, acct, muc, stanza, unit>>
        /\ \/ Goto(x, "unwind") /\ job' = job
           \/ Push(x, "spawn.mirror", "failjob") /\ job' = [job EXCEPT ![x] = "running"]
    BY <1>7, <1>12 DEF SpawnJob, Reply, Took, StartJob
  <2> QED
    BY <1>4, <1>5, <1>6, <2>1
<1>13. CASE SpawnMirror(x)
  BY <1>4, <1>6, <1>13 DEF SpawnMirror
<1>14. CASE SpawnPost(x)
  <2>1. /\ UNCHANGED <<req, child, files, acct, muc, job, unit>>
        /\ \/ Goto(x, "unwind") /\ stanza' = stanza
           \/ Push(x, "spawn.save", "withdraw") /\ stanza' = [stanza EXCEPT ![x] = "posted"]
    BY <1>7, <1>14 DEF SpawnPost, Reply, Took
  <2> QED
    BY <1>4, <1>5, <1>6, <2>1
<1>15. CASE SpawnSave(x)
  <2>1. /\ UNCHANGED <<req, files, acct, muc, stanza, job, unit>>
        /\ \/ Goto(x, "unwind") /\ child' = child
           \/ Push(x, "spawn.launch", "unsave") /\ child' = [child EXCEPT ![req[x].brief] = x]
    BY <1>15 DEF SpawnSave
  <2> QED
    BY <1>4, <1>5, <1>6, <2>1
<1> QED
  BY <1>8, <1>9, <1>10, <1>11, <1>12, <1>13, <1>14, <1>15

\* The launch: the agent is recorded already, and its record covers its files from now on.
LEMMA LaunchLeft ==
    ASSUME LeftInv, Inv', "lost" \notin Faults, NEW x \in Calls, SpawnLaunch(x)
    PROVE  LeftInv'
<1> USE DEF store, outside, clocks
<1>1. pc[x] = "spawn.launch" /\ Spawning(x) /\ child[req[x].brief] = x
  BY DEF SpawnLaunch, At, Spawning, SpawnHeld, LeftInv, Launched
<1>2. /\ UNCHANGED <<req, child, acct, muc, stanza, job>>
      /\ \/ Goto(x, "unwind") /\ UNCHANGED <<unit, files>>
         \/ /\ Return(x, "done") /\ unit' = [unit EXCEPT ![x] = "active"]
            /\ files' = [files EXCEPT !.traffic = @ \cup {x}]
  BY DEF SpawnLaunch, Reply, Took, Outcome
<1>3. req[x].verb = "spawn" /\ "unwind" \in Stacked
  BY <1>1, SpawnAt DEF LeftInv, Stacked
<1>4. CASE Goto(x, "unwind") /\ UNCHANGED <<unit, files>>
  <2>1. Spawning(x)'
    BY <1>2, <1>3, <1>4 DEF Goto, Spawning, LeftInv, Inv, Types
  <2> QED
    BY <1>1, <1>2, <1>3, <1>4, <2>1, LeftGoes
<1>5. CASE /\ Return(x, "done") /\ unit' = [unit EXCEPT ![x] = "active"]
           /\ files' = [files EXCEPT !.traffic = @ \cup {x}]
  <2>1. /\ pc'[x] = "done" /\ undo'[x] = <<>> /\ ~mem'[x].dirty /\ undo' \in [Calls -> Seq(UndoNames)]
        /\ \A d \in Calls : d # x => pc'[d] = pc[d] /\ mem'[d] = mem[d] /\ undo'[d] = undo[d]
    <3>1. undo \in [Calls -> Seq(UndoNames)] /\ <<>> \in Seq(UndoNames)
      BY DEF LeftInv, Undos
    <3> QED
      BY <1>5, <3>1 DEF Return, LeftInv, Inv, Types, TypeOK, Blank
  <2>2. /\ files'.brief = files.brief /\ files'.moxy = files.moxy
        /\ \A d \in Calls : d # x => unit'[d] = unit[d]
    BY <1>5 DEF LeftInv, Inv, Types, TypeOK
  <2>3. Apart(x)
    BY <1>2, <2>1, <2>2 DEF Apart
  <2>4. Accounted(x)' /\ Launched(x)'
    BY <1>1, <1>2, <2>1 DEF Accounted, Launched
  <2>5. \A b \in Briefs : \A u : Covers(x, b, u) => Covers(x, b, u)'
    BY <1>1, <1>2, <2>1 DEF Covers, Spawning, SpawnHeld
  <2> QED
    BY <2>1, <2>2, <2>3, <2>4, <2>5, LeftStep
<1> QED
  BY <1>2, <1>4, <1>5

\* One compensation: what is popped is undone, or the call is dirty from now on.
LEMMA UnwindLeft ==
    ASSUME LeftInv, Inv', "lost" \notin Faults, NEW x \in Calls, Unwind(x)
    PROVE  LeftInv'
<1> DEFINE u == Head(undo[x])
           a == req[x].brief
<1>1. /\ pc[x] = "unwind" /\ undo[x] # <<>> /\ UNCHANGED <<pc, req, unit>>
      /\ undo' = [undo EXCEPT ![x] = Tail(@)]
  BY DEF Unwind, At, Rest
<1>2. /\ undo' \in [Calls -> Seq(UndoNames)] /\ u \in UndoNames
      /\ \A v : Owes(x, v) /\ v # u => Owes(x, v)'
  BY <1>1, PopOwes DEF LeftInv, Undos
<1> HIDE DEF u
<1>3. PICK k : /\ k # "lost"
               /\ \/ k = "ok" /\ UndoEffect(x, u)
                  \/ k # "ok" /\ UNCHANGED <<stanza, job, acct, muc, files, child>>
               /\ mem' = [mem EXCEPT ![x].dirty = @ \/ k # "ok" \/ (u = "failjob" /\ job[x] # "running")]
  BY DEF Unwind, Outcome, Took, u
<1> DEFINE e == mem[x].dirty \/ k # "ok" \/ (u = "failjob" /\ job[x] # "running")
<1>4. (mem'[x].dirty <=> e) /\ \A d \in Calls : d # x => mem'[d] = mem[d]
  <2>1. mem[x] \in Memories /\ DOMAIN mem = Calls
    BY DEF LeftInv, Inv, Types
  <2>2. mem'[x] = [mem[x] EXCEPT !.dirty = e]
    BY <1>3, <2>1
  <2>3. [mem[x] EXCEPT !.dirty = e].dirty = e
    BY <2>1 DEF Memories
  <2>4. \A d \in Calls : d # x => mem'[d] = mem[d]
    BY <1>3, <2>1
  <2>5. mem'[x].dirty = e
    BY <2>2, <2>3
  <2> QED
    BY <2>4, <2>5
<1> HIDE DEF e
<1> "unwind" \in Stacked
  BY DEF Stacked
<1>5. Opening(x) \/ (Spawning(x) /\ a \in Briefs)
  BY <1>1, SpawnAt DEF Opening, Spawning, LeftInv, Inv, Known, Role
<1>6. Opening(x) => \A b \in Briefs : \A v : child[b] = None /\ ~Covers(x, b, v)
  <2>1. Opening(x) => \A b \in Briefs : child[b] = None
    BY NewAt DEF LeftInv, Inv, Shared, Record
  <2>2. Opening(x) => ~Spawning(x)
    BY <1>1, NewAt DEF LeftInv, Spawning, SpawnHeld
  <2> QED
    BY <1>1, <2>1, <2>2, CallsAssumption DEF Covers
<1>7. Spawning(x) => \A b \in Briefs : child[b] = x => b = a
  BY CallsAssumption DEF LeftInv, Inv, Shared, Records
<1>8. Spawning(x)' <=> Spawning(x)
  BY <1>1 DEF Spawning
<1>9. CASE ~mem[x].dirty /\ k = "ok" /\ (u = "failjob" => job[x] = "running")
  <2>1. /\ u = "withdraw" => stanza'[x] = "withdrawn"
        /\ u # "withdraw" => stanza' = stanza
        /\ \A d \in Calls : d # x => stanza'[d] = stanza[d]
    BY <1>3, <1>9 DEF UndoEffect, LeftInv, Inv, Types, TypeOK
  <2>2. /\ u = "failjob" => job'[x] = "failed"
        /\ u # "failjob" => job' = job
        /\ \A d \in Calls : d # x => job'[d] = job[d]
    BY <1>3, <1>9 DEF UndoEffect, LeftInv, Inv, Types, TypeOK
  <2>3. acct' = IF u = "revoke" THEN acct \ {x} ELSE acct
    BY <1>3, <1>9 DEF UndoEffect
  <2>4. muc'.members = IF u = "unaffil" THEN muc.members \ {x} ELSE muc.members
    BY <1>3, <1>9 DEF UndoEffect, LeftInv, Inv, Types, TypeOK
  <2>5. /\ files'.brief = IF u = "unstage" THEN files.brief \ {a} ELSE files.brief
        /\ files'.moxy = IF u = "unmoxy" THEN files.moxy \ {a} ELSE files.moxy
    BY <1>3, <1>9 DEF UndoEffect, LeftInv, Inv, Types, TypeOK
  <2>6. \A b \in Briefs : child'[b] = IF u = "unsave" /\ b = a THEN None ELSE child[b]
    BY <1>3, <1>9 DEF UndoEffect, LeftInv, Inv, Types, TypeOK
  <2>7. Apart(x)
    BY <1>1, <1>4, <1>5, <1>6, <2>1, <2>2, <2>3, <2>4, <2>6, ZenonT(40) DEF Apart, LeftInv, Undos
  <2>8. /\ x \in acct' => x \in acct /\ u # "revoke"
        /\ x \in muc'.members => x \in muc.members /\ u # "unaffil"
        /\ x \in Recorded' => x \in Recorded /\ u # "unsave"
        /\ job'[x] = "running" => job[x] = "running" /\ u # "failjob"
        /\ stanza'[x] = "posted" => stanza[x] = "posted" /\ u # "withdraw"
    <3>1. x \in Recorded' => x \in Recorded /\ u # "unsave"
      BY <1>5, <1>6, <1>7, <2>6, CallsAssumption DEF Recorded
    <3> QED
      BY <2>1, <2>2, <2>3, <2>4, <3>1
  <2>9. Accounted(x)'
    BY <1>1, <1>2, <1>9, <2>8 DEF LeftInv, Accounted
  <2>10. Launched(x)'
    BY <1>1 DEF LeftInv, Launched
  <2>11. \A b \in Briefs : \A v : Covers(x, b, v) /\ (v # u \/ b # a) => Covers(x, b, v)'
    BY <1>1, <1>2, <1>5, <1>6, <1>8, <1>9, <2>6 DEF Covers
  <2>12. ~e
    BY <1>9 DEF e
  <2> QED
    BY <1>1, <1>2, <1>4, <2>5, <2>7, <2>9, <2>10, <2>11, <2>12, LeftStep
<1>10. CASE ~(~mem[x].dirty /\ k = "ok" /\ (u = "failjob" => job[x] = "running"))
  <2>1. mem'[x].dirty
    BY <1>4, <1>10 DEF e
  <2>2. /\ \A d \in Calls : d # x => /\ stanza'[d] = stanza[d] /\ job'[d] = job[d]
                                     /\ d \in acct' => d \in acct
                                     /\ d \in muc'.members => d \in muc.members
    BY <1>3 DEF UndoEffect, LeftInv, Inv, Types, TypeOK
  <2>3. \A b \in Briefs : child'[b] = child[b] \/ (b = a /\ child'[b] = None)
    BY <1>3 DEF UndoEffect, LeftInv, Inv, Types, TypeOK
  <2>4. files'.brief \subseteq files.brief /\ files'.moxy \subseteq files.moxy
    BY <1>3 DEF UndoEffect, LeftInv, Inv, Types, TypeOK
  <2>5. Apart(x)
    BY <1>1, <1>4, <1>5, <1>6, <2>2, <2>3 DEF Apart, LeftInv, Undos
  <2>6. Accounted(x)' /\ Launched(x)'
    BY <1>1, <2>1 DEF LeftInv, Accounted, Launched
  <2>7. \A b \in Briefs : \A v : Covers(x, b, v) => Covers(x, b, v)'
    BY <1>1, <1>5, <1>6, <1>8, <2>1 DEF Covers
  <2> QED
    BY <1>1, <1>2, <2>1, <2>4, <2>5, <2>6, <2>7, LeftStep
<1> QED
  BY <1>9, <1>10

\* The end of an undo: a call with an empty stack has made nothing, or says that it has.
LEMMA UnwoundLeft == ASSUME LeftInv, Inv', NEW x \in Calls, Unwound(x) PROVE LeftInv'
<1> USE DEF store, outside, clocks
<1>1. /\ pc[x] = "unwind" /\ undo[x] = <<>>
      /\ UNCHANGED <<req, child, files, acct, muc, stanza, job, unit>>
      /\ \/ req[x].verb = "new" /\ Goto(x, "new.pend")
         \/ req[x].verb # "new" /\ Return(x, IF mem[x].dirty THEN "dirty" ELSE "failed")
  BY DEF Unwound, At
<1>2. undo \in [Calls -> Seq(UndoNames)] /\ <<>> \in Seq(UndoNames) /\ unit[x] = "none"
  BY <1>1 DEF LeftInv, Undos, Launched
<1>3. CASE req[x].verb = "new" /\ Goto(x, "new.pend")
  <2>1. pc'[x] = "new.pend" /\ undo' = undo /\ mem' = mem /\ \A d \in Calls : d # x => pc'[d] = pc[d]
    BY <1>3 DEF Goto, LeftInv, Inv, Types
  <2>2. Apart(x) /\ Launched(x)'
    BY <1>1, <1>2, <2>1 DEF Apart, Launched
  <2>3. Accounted(x)'
    BY <1>1, <2>1 DEF LeftInv, Accounted, Owes, Recorded
  <2>4. \A b \in Briefs : \A u : ~Covers(x, b, u)
    <3>1. Opening(x) /\ ~Spawning(x)
      BY <1>1, <1>3 DEF Opening, Spawning, SpawnHeld
    <3> QED
      BY <1>1, <3>1, NewAt, CallsAssumption DEF LeftInv, Inv, Shared, Record, Covers
  <2> QED
    BY <1>1, <1>2, <2>1, <2>2, <2>3, <2>4, LeftStep
<1>4. CASE req[x].verb # "new" /\ Return(x, IF mem[x].dirty THEN "dirty" ELSE "failed")
  <2>1. /\ pc'[x] = IF mem[x].dirty THEN "dirty" ELSE "failed"
        /\ undo'[x] = <<>> /\ ~mem'[x].dirty /\ undo' \in [Calls -> Seq(UndoNames)]
        /\ \A d \in Calls : d # x => pc'[d] = pc[d] /\ mem'[d] = mem[d] /\ undo'[d] = undo[d]
    BY <1>2, <1>4 DEF Return, LeftInv, Inv, Types, TypeOK, Blank
  <2>2. Apart(x) /\ Launched(x)'
    BY <1>1, <1>2, <2>1 DEF Apart, Launched
  <2>3. Spawning(x) /\ child[req[x].brief] \in {None, x}
    BY <1>1, <1>4 DEF Spawning, LeftInv, Inv, Known, Role, Holding, SpawnHolds
  <2>4. CASE mem[x].dirty
    <3>1. Accounted(x)'
      BY <2>1, <2>4 DEF Accounted
    <3>2. \A b \in Briefs : \A u : Covers(x, b, u) => Covers(x, b, u)'
      BY <1>1, <2>1, <2>3, <2>4 DEF Covers
    <3> QED
      BY <1>1, <2>1, <2>2, <3>1, <3>2, LeftStep
  <2>5. CASE ~mem[x].dirty
    <3>1. /\ x \notin acct /\ x \notin muc.members /\ x \notin Recorded /\ job[x] # "running"
          /\ stanza[x] # "posted"
          /\ \A b \in Briefs, u \in UndoNames : ~Covers(x, b, u)
      BY <1>1, <2>5, MadeNothing
    <3>2. Accounted(x)'
      BY <1>1, <3>1 DEF Accounted, Recorded
    <3>3. "unstage" \in UndoNames /\ "unmoxy" \in UndoNames
      BY DEF UndoNames
    <3> QED
      BY <1>1, <2>1, <2>2, <3>1, <3>2, <3>3, LeftStep
  <2> QED
    BY <2>4, <2>5
<1> QED
  BY <1>1, <1>3, <1>4

-----------------------------------------------------------------------------
(* Together.                                                               *)

\* At the start nobody has made anything.
LEMMA LeftInit == Init => LeftInv
<1> SUFFICES ASSUME Init PROVE LeftInv
  OBVIOUS
<1>1. Inv
  BY InitInv
<1>2. Undos
  BY DEF Init, Undos, Blank
<1>3. Staged /\ \A c \in Calls : Accounted(c) /\ Launched(c)
  BY DEF Init, Staged, Accounted, Launched, Recorded
<1> QED
  BY <1>1, <1>2, <1>3 DEF LeftInv

\* Where a step that makes nothing starts from, and that it is not on to a launch.
LEMMA QuietPlaces ==
    ASSUME Inv, Inv', NEW x \in Calls,
           \/ ResolveStep(x) \/ TeardownStep(x) \/ CleanStep(x)
           \/ NewEnter(x) \/ NewReady(x) \/ NewMint(x) \/ NewRoom(x) \/ SpawnEnter(x) \/ SpawnReady(x)
    PROVE  pc[x] \notin Stacked \cup {"new.pend", "done", "dirty", "crashed"} /\ pc'[x] # "spawn.launch"
<1> USE DEF At
<1>1. CASE ResolveStep(x)
  <2>1. pc[x] \in ResHeld \cup {"res.lock"} /\ req' = req
    BY <1>1 DEF ResolveStep, ResolveEnter, ResolveCanary, ResolveMark, ResolveNote, ResolveLoad, ResolveStop,
       ResolveWait, ResolvePersist, ResolveDone, ResolveRead, ResolveWake, ResolveWakeMark, ResolveSave,
       ResolveTear, ResolveChild, ResolveRoot, ResolveEntries, ResolveTorn, ResHeld
  <2>2. req[x].verb = "resolve" /\ (pc'[x] = "spawn.launch" => req'[x].verb = "spawn")
    BY <2>1 DEF Inv, Known, Role, SpawnHeld
  <2> QED
    BY <2>1, <2>2 DEF ResHeld, Stacked
<1>2. CASE TeardownStep(x)
  <2>1. pc[x] \in AcctHeld /\ req' = req
    BY <1>2 DEF TeardownStep, DropAffiliation, RevokeAccount, UnlinkPassword, AcctHeld
  <2>2. req[x].verb # "spawn" /\ (pc'[x] = "spawn.launch" => req'[x].verb = "spawn")
    BY <2>1 DEF Inv, Known, Role, SpawnHeld
  <2> QED
    BY <2>1, <2>2 DEF AcctHeld, Stacked
<1>3. CASE CleanStep(x)
  <2>1. pc[x] \in CleanHeld \cup Sweeping \cup {"clean.lock", "decide.lock"}
    BY <1>3 DEF CleanStep, CleanEnter, CleanTomb, CleanEntry, SweepChild, SweepFiles, SweepEnd, Decide,
       CleanHeld, Sweeping
  <2>2. \A s : Goto(x, s) \/ Return(x, s) \/ pc' = [pc EXCEPT ![x] = s] => pc'[x] = s
    BY DEF Goto, Return, Inv, Types
  <2>3. CASE CleanEnter(x)
    <3>1. \E s \in {"acct.affil", "acct.revoke"} : pc' = [pc EXCEPT ![x] = s] \/ Return(x, "done")
      BY <2>3 DEF CleanEnter
    <3> QED
      BY <2>1, <2>2, <3>1 DEF CleanHeld, Sweeping, Stacked
  <2>4. CASE CleanTomb(x) \/ CleanEntry(x) \/ SweepFiles(x) \/ SweepEnd(x) \/ Decide(x)
    <3>1. \E s \in {"clean.entry", "sweep.child"}, o \in {"done", "failed"} : Goto(x, s) \/ Return(x, o)
      BY <2>4 DEF CleanTomb, CleanEntry, SweepFiles, SweepEnd, Decide
    <3> QED
      BY <2>1, <2>2, <3>1 DEF CleanHeld, Sweeping, Stacked
  <2>5. CASE SweepChild(x)
    <3>1. pc'[x] # "spawn.launch"
      BY <2>5 DEF SweepChild, Remember, Inv, Types
    <3> QED
      BY <2>1, <3>1 DEF CleanHeld, Sweeping, Stacked
  <2> QED
    BY <1>3, <2>3, <2>4, <2>5 DEF CleanStep
<1>4. CASE NewEnter(x) \/ NewReady(x) \/ NewMint(x) \/ NewRoom(x) \/ SpawnEnter(x) \/ SpawnReady(x)
  <2>1. pc[x] \in {"new.lock", "new.ready", "new.mint", "new.room", "spawn.lock", "spawn.ready"}
    BY <1>4 DEF NewEnter, NewReady, NewMint, NewRoom, SpawnEnter, SpawnReady
  <2>2. \E s : pc' = [pc EXCEPT ![x] = s] /\ s # "spawn.launch"
    BY <1>4, ZenonT(40) DEF NewEnter, NewReady, NewMint, NewRoom, SpawnEnter, SpawnReady, Goto, Return, Remember
  <2> QED
    BY <2>1, <2>2 DEF Stacked, Inv, Types
<1> QED
  BY <1>1, <1>2, <1>3, <1>4

\* Every step keeps what is owed in order, when no answer is lost.
LEMMA LeftNext == ASSUME LeftInv, "lost" \notin Faults, [Next]_vars PROVE LeftInv'
<1>1. Inv /\ Inv'
  BY NextInv DEF LeftInv
<1>2. CASE Tick \/ Quiet \/ UNCHANGED vars
  <2>1. UNCHANGED vars \/ Tick
    BY <1>2 DEF Quiet
  <2>2. UNCHANGED <<pc, req, undo, mem, child, files, acct, muc, stanza, job, unit>>
    BY <2>1 DEF Tick, vars, store, outside
  <2> QED
    BY <1>1, <2>2, RestLeft
<1>3. ASSUME NEW x \in Calls, CallStep(x) PROVE LeftInv'
  <2>1. CASE \/ ResolveStep(x) \/ TeardownStep(x) \/ CleanStep(x)
             \/ NewEnter(x) \/ NewReady(x) \/ NewMint(x) \/ NewRoom(x) \/ SpawnEnter(x) \/ SpawnReady(x)
    <3>1. Quietly(x)
      BY <1>1, <2>1, ResolveIsQuiet, CleanIsQuiet, OpeningIsQuiet
    <3>2. pc[x] \notin Stacked \cup {"new.pend", "done", "dirty", "crashed"} /\ pc'[x] # "spawn.launch"
      BY <1>1, <2>1, QuietPlaces
    <3> QED
      BY <1>1, <3>1, <3>2, QuietLeft
  <2>2. CASE NewPost(x) \/ NewJob(x) \/ NewMirror(x) \/ NewSave(x) \/ NewPend(x)
    BY <1>1, <2>2, NewLeft
  <2>3. CASE \/ SpawnNarrow(x) \/ SpawnMint(x) \/ SpawnAffil(x) \/ SpawnStage(x) \/ SpawnJob(x)
             \/ SpawnMirror(x) \/ SpawnPost(x) \/ SpawnSave(x)
    BY <1>1, <2>3, SpawnLeft
  <2>4. CASE SpawnLaunch(x)
    BY <1>1, <2>4, LaunchLeft
  <2>5. CASE Unwind(x)
    BY <1>1, <2>5, UnwindLeft
  <2>6. CASE Unwound(x)
    BY <1>1, <2>6, UnwoundLeft
  <2> QED
    BY <1>3, <2>1, <2>2, <2>3, <2>4, <2>5, <2>6 DEF CallStep, NewRunStep, SpawnStep
<1>4. ASSUME NEW x \in Calls, StartStep(x) \/ AgentStep(x) \/ Crash(x) PROVE LeftInv'
  BY <1>1, <1>4, StartLeft, AgentLeft, CrashLeft
<1> QED
  BY <1>2, <1>3, <1>4 DEF Next

\* When no answer is lost, nobody is made twice: at most one agent is at work on a brief,
\* since a launched unit stays recorded under it (SpawnChild), and the root of a reaped
\* run is gone for good (cleanPendingRun's tombstone).
THEOREM SpawnsStaySingle == ASSUME "lost" \notin Faults PROVE Spec => []SpawnsAreSingle
<1>1. LeftInv => SpawnsAreSingle
  <2> SUFFICES ASSUME LeftInv PROVE SpawnsAreSingle
    OBVIOUS
  <2>1. OneAgentPerBrief
    BY DEF LeftInv, Launched, OneAgentPerBrief
  <2>2. ReapedForGood
    BY DEF LeftInv, Inv, Shared, Tears, ReapedForGood
  <2> QED
    BY <2>1, <2>2 DEF SpawnsAreSingle
<1>2. LeftInv /\ [Next]_vars => LeftInv'
  BY LeftNext
<1> QED
  BY <1>1, <1>2, LeftInit, PTL DEF Spec

\* When no answer is lost, a spawn that failed and reported no leftover left none: the
\* undo stack held everything it had made (undoStack.push before or right after each
\* step), and what it staged stays only for an agent or an unclean call of the same brief.
THEOREM FailedCallsLeaveNothing == ASSUME "lost" \notin Faults PROVE Spec => []FailedCallLeavesNothing
<1>1. LeftInv => FailedCallLeavesNothing
  <2> SUFFICES ASSUME LeftInv, NEW c \in Calls, pc[c] = "failed"
               PROVE  /\ c \notin acct /\ c \notin muc.members /\ c \notin Recorded
                      /\ job[c] # "running" /\ stanza[c] # "posted" /\ unit[c] = "none"
                      /\ Idle => files.brief \cup files.moxy \subseteq
                                    {b \in Briefs : child[b] # None} \cup {req[d].brief : d \in Unclean}
    BY DEF FailedCallLeavesNothing
  <2>1. undo[c] = <<>> /\ ~mem[c].dirty
    BY DEF LeftInv, Undos, Stacked
  <2>2. /\ c \notin acct /\ c \notin muc.members /\ c \notin Recorded
        /\ job[c] # "running" /\ stanza[c] # "posted" /\ unit[c] = "none"
    BY <2>1, MadeNothing
  <2>3. ASSUME Idle, NEW d \in Calls, NEW b \in Briefs, NEW u, Covers(d, b, u)
        PROVE  child[b] # None \/ (d \in Unclean /\ req[d].brief = b)
    <3>1. ~Spawning(d)
      BY <2>3 DEF Idle, Active, Ended, Outcomes, Spawning, SpawnHeld
    <3> QED
      BY <2>3, <3>1, CallsAssumption DEF Covers, Unclean
  <2>4. ASSUME Idle, NEW b \in files.brief \cup files.moxy
        PROVE  b \in {a \in Briefs : child[a] # None} \cup {req[d].brief : d \in Unclean}
    <3>1. b \in Briefs
      BY <2>4 DEF LeftInv, Inv, Types, TypeOK
    <3>2. PICK d \in Calls, u \in {"unstage", "unmoxy"} : Covers(d, b, u)
      BY <2>4, <3>1 DEF LeftInv, Staged
    <3> QED
      BY <2>3, <2>4, <3>1, <3>2
  <2> QED
    BY <2>2, <2>4
<1>2. LeftInv /\ [Next]_vars => LeftInv'
  BY LeftNext
<1> QED
  BY <1>1, <1>2, LeftInit, PTL DEF Spec
=============================================================================

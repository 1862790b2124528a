---------------------------- MODULE AgentProofs ----------------------------
(***************************************************************************)
(* What is proved of an agent: of its exit and wake (AgentExit) for every   *)
(* number of producers, hooks and holders and every bound, and of its run   *)
(* (AgentRun) for every brief.  The invariant of the first, Inv, says what  *)
(* an actor that is half-way through still knows to be true of the journal; *)
(* the type invariant, the safety properties and the refinement of JobSpec  *)
(* follow from it.                                                          *)
(***************************************************************************)
EXTENDS AgentExit, AgentRun, WellFoundedInduction, TLAPS

Live == {"work", "judge", "done", "relay", "release"}

\* A producer that is about to write its outcome has one.
HasVerdict == \A p \in Producers : ppc[p] = "done" => verdict[p] \in States

\* A hook that is about to wake knows the journal's terminal.
Informed ==
    \A k \in Hooks : hpc[k] \in {"wake", "send"} => terminal # None /\ known[k] = terminal

\* The marker, a hook that ended well, and a hook that has not missed a send
\* are each evidence of wakes that were sent.
Delivered ==
    /\ marker => \A h \in Holders : told[h] # {}
    /\ \A k \in Hooks :
          /\ hpc[k] = "ended" => \A h \in Holders : told[h] # {}
          /\ hpc[k] = "send" /\ ~missed[k] => \A h \in Holders \ todo[k] : told[h] # {}

\* Whatever was cut short or called aborted has its cause on the record.
Caused ==
    /\ cancelSeen # {} => cancelReq
    /\ \A p \in Producers :
          /\ verdict[p] = "cut" => p \in cancelSeen \/ sigterm # "none"
          /\ verdict[p] = "aborted" => cancelReq \/ sigterm = "early"
    /\ terminal = "aborted" => cancelReq \/ sigterm = "early"

\* The hook runs once the main process is gone.
HookLast == \A k \in Hooks : hpc[k] # "idle" => Gone(Main)

\* Without failed calls or kills, every producer at work holds the lock, and
\* one that is past its done has the journal's terminal for a verdict.
Unfailed ==
    faults = 0 =>
        \A p \in Producers :
            /\ ppc[p] \in Live => jobLock = p
            /\ ppc[p] # "dead"
            /\ ppc[p] = "relay" => terminal # None
            /\ ppc[p] \in {"release", "exited"} => terminal # None /\ verdict[p] = terminal

Inv == /\ TypeOK /\ HasVerdict /\ Informed /\ WakeTruth
       /\ Delivered /\ Caused /\ HookLast /\ Unfailed

-----------------------------------------------------------------------------
USE DEF States, Ends, Producers

\* The initial state satisfies every part of the invariant.
LEMMA InitInv == Init => Inv
<1> SUFFICES ASSUME Init PROVE Inv
  OBVIOUS
<1>1. TypeOK
  <2>1. /\ told \in [Holders -> SUBSET States]
        /\ ppc \in [Producers -> PStates]
        /\ verdict \in [Producers -> States \cup Ends \cup {None}]
    BY DEF Init, PStates
  <2>2. /\ hpc \in [Hooks -> HStates]
        /\ known \in [Hooks -> States \cup {None}]
        /\ todo \in [Hooks -> SUBSET Holders]
    BY DEF Init, HStates
  <2>3. missed \in [Hooks -> BOOLEAN] /\ tries \in [Hooks -> Nat]
    BY DEF Init
  <2>4. faults \in 0..MaxFaults
    BY BoundAssumption DEF Init
  <2> QED
    BY <2>1, <2>2, <2>3, <2>4 DEF Init, TypeOK
<1>2. HasVerdict /\ Informed /\ WakeTruth
  BY ActorAssumption DEF Init, HasVerdict, Informed, WakeTruth
<1>3. Delivered /\ Caused
  BY ActorAssumption DEF Init, Delivered, Caused
<1>4. HookLast /\ Unfailed
  BY DEF Init, HookLast, Unfailed, Live
<1> QED
  BY <1>1, <1>2, <1>3, <1>4 DEF Inv

-----------------------------------------------------------------------------
(* Types.  That a verdict is a state when it is written (HasVerdict) is what   *)
(* keeps the journal's terminal in States.                                 *)

\* Every step keeps every variable in its type.
LEMMA TypeStep ==
    ASSUME TypeOK, HasVerdict, Informed, [Next]_vars PROVE TypeOK' /\ HasVerdict'
<1> USE DEF PStates, HStates, Fine, Fault, Settle, HookGoto
<1>1. ASSUME NEW p \in Producers, Acquire(p) PROVE TypeOK' /\ HasVerdict'
  <2>1. everLocked' \in BOOLEAN
    BY <1>1 DEF TypeOK, Acquire
  <2>2. jobLock' \in Producers \cup {None} /\ locked' \subseteq Producers
    BY <1>1 DEF TypeOK, Acquire
  <2>3. ppc' \in [Producers -> PStates] /\ faults' \in 0..MaxFaults
    BY <1>1, BoundAssumption DEF TypeOK, Acquire
  <2>4. HasVerdict'
    BY <1>1 DEF TypeOK, HasVerdict, Acquire
  <2> QED
    BY <1>1, <2>1, <2>2, <2>3, <2>4 DEF TypeOK, Acquire, journal, signals, hook
<1>2. ASSUME NEW p \in Producers, SeeCancel(p) PROVE TypeOK' /\ HasVerdict'
  BY <1>2 DEF TypeOK, HasVerdict, SeeCancel, journal, signals, hook
<1>3. ASSUME NEW p \in Producers, LoopEnd(p) PROVE TypeOK' /\ HasVerdict'
  BY <1>3 DEF TypeOK, HasVerdict, LoopEnd, journal, signals, hook
<1>4. ASSUME NEW p \in Producers, Judge(p) PROVE TypeOK' /\ HasVerdict'
  BY <1>4 DEF TypeOK, HasVerdict, Judge, Judgement, journal, signals, hook
<1>5. ASSUME NEW p \in Producers, Done(p) PROVE TypeOK' /\ HasVerdict'
  BY <1>5, BoundAssumption DEF TypeOK, HasVerdict, Done, signals, hook
<1>6. ASSUME NEW p \in Producers, Relay(p) PROVE TypeOK' /\ HasVerdict'
  BY <1>6, BoundAssumption DEF TypeOK, HasVerdict, Relay, Winner, journal, signals, hook
<1>7. ASSUME NEW p \in Producers, Release(p) \/ Die(p) PROVE TypeOK' /\ HasVerdict'
  BY <1>7, BoundAssumption DEF TypeOK, HasVerdict, Release, Die, Unlock, journal, signals, hook
<1>8. CASE Cancel \/ Terminate("early") \/ Terminate("late")
  BY <1>8 DEF TypeOK, HasVerdict, Cancel, Terminate, journal, producer, hook
<1>9. CASE Reap
  BY <1>9 DEF TypeOK, HasVerdict, Reap, Abandoned, producer, signals, hook
<1>10. ASSUME NEW k \in Hooks, HookRead(k) PROVE TypeOK' /\ HasVerdict'
  BY <1>10, BoundAssumption DEF TypeOK, HasVerdict, HookRead, journal, producer, signals
<1>11. ASSUME NEW k \in Hooks, HookDone(k) PROVE TypeOK' /\ HasVerdict'
  BY <1>11, BoundAssumption DEF TypeOK, HasVerdict, HookDone, HookState, producer, signals
<1>12. ASSUME NEW k \in Hooks, HookReread(k) PROVE TypeOK' /\ HasVerdict'
  BY <1>12, BoundAssumption DEF TypeOK, HasVerdict, HookReread, Relayed, journal, producer, signals
<1>13. ASSUME NEW k \in Hooks, HookLock(k) PROVE TypeOK' /\ HasVerdict'
  BY <1>13 DEF TypeOK, HasVerdict, HookLock, journal, producer, signals
<1>14. ASSUME NEW k \in Hooks, HookSend(k) PROVE TypeOK' /\ HasVerdict'
  <2>1. hpc[k] = "send" /\ known[k] \in States
    BY <1>14 DEF TypeOK, HookSend, Informed
  <2>2. told' \in [Holders -> SUBSET States] /\ todo' \in [Hooks -> SUBSET Holders]
    BY <1>14, <2>1 DEF TypeOK, HookSend
  <2>3. missed' \in [Hooks -> BOOLEAN]
    BY <1>14 DEF TypeOK, HookSend
  <2>4. faults' \in 0..MaxFaults
    BY <1>14, BoundAssumption DEF TypeOK, HookSend
  <2>5. UNCHANGED <<terminal, producer, signals, hpc, known, tries, wakeLock, marker>>
    BY <1>14 DEF HookSend
  <2> QED
    BY <2>2, <2>3, <2>4, <2>5 DEF TypeOK, HasVerdict, producer, signals
<1>15. ASSUME NEW k \in Hooks, HookMark(k) PROVE TypeOK' /\ HasVerdict'
  <2>1. marker' \in BOOLEAN
    BY <1>15 DEF TypeOK, HookMark
  <2>2. hpc' \in [Hooks -> HStates] /\ faults' \in 0..MaxFaults
    BY <1>15, BoundAssumption DEF TypeOK, HookMark
  <2> QED
    BY <1>15, <2>1, <2>2 DEF TypeOK, HasVerdict, HookMark, journal, producer, signals
<1>16. ASSUME NEW k \in Hooks, HookDie(k) PROVE TypeOK' /\ HasVerdict'
  BY <1>16, BoundAssumption DEF TypeOK, HasVerdict, HookDie, journal, producer, signals
<1>17. CASE UNCHANGED vars
  BY <1>17 DEF TypeOK, HasVerdict, vars, journal, producer, signals, hook
<1> QED
  BY <1>1, <1>2, <1>3, <1>4, <1>5, <1>6, <1>7, <1>8, <1>9, <1>10, <1>11, <1>12,
     <1>13, <1>14, <1>15, <1>16, <1>17 DEF Next, ProducerStep, HookStep, Quiet

-----------------------------------------------------------------------------
(* The wakes.                                                              *)

\* Only a producer's done, the reaper and the hook touch the journal or the
\* hook's own state.
LEMMA JournalSteps ==
    ASSUME [Next]_vars
    PROVE \/ UNCHANGED <<journal, hook>>
          \/ \E p \in Producers : Done(p)
          \/ Reap
          \/ \E k \in Hooks : HookStep(k) \/ HookDie(k)
<1>1. ASSUME NEW p \in Producers, ProducerStep(p), ~Done(p) PROVE UNCHANGED <<journal, hook>>
  BY <1>1 DEF ProducerStep, Acquire, LoopEnd, Judge, Relay, Release
<1>2. ASSUME NEW p \in Producers, SeeCancel(p) \/ Die(p) PROVE UNCHANGED <<journal, hook>>
  BY <1>2 DEF SeeCancel, Die
<1>3. CASE Cancel \/ Terminate("early") \/ Terminate("late")
  BY <1>3 DEF Cancel, Terminate
<1>4. CASE UNCHANGED vars
  BY <1>4 DEF vars
<1> QED
  BY <1>1, <1>2, <1>3, <1>4 DEF Next, Quiet

\* A terminal that is on the journal stays there: a hook that read it still
\* tells the truth, and whatever was told stays true.
LEMMA WakeStep ==
    ASSUME TypeOK, HasVerdict, Informed, WakeTruth, [Next]_vars
    PROVE Informed' /\ WakeTruth'
<1> USE ActorAssumption DEF Settle, HookGoto, journal, hook, HStates
<1>1. CASE UNCHANGED <<journal, hook>>
  BY <1>1 DEF Informed, WakeTruth
<1>2. ASSUME NEW p \in Producers, Done(p) PROVE Informed' /\ WakeTruth'
  BY <1>2 DEF TypeOK, HasVerdict, Informed, WakeTruth, Done
<1>3. CASE Reap
  BY <1>3 DEF TypeOK, Informed, WakeTruth, Reap
<1>4. ASSUME NEW k \in Hooks, HookRead(k) PROVE Informed' /\ WakeTruth'
  BY <1>4 DEF TypeOK, Informed, WakeTruth, HookRead
<1>5. ASSUME NEW k \in Hooks, HookDone(k) PROVE Informed' /\ WakeTruth'
  BY <1>5 DEF TypeOK, Informed, WakeTruth, HookDone, HookState
<1>6. ASSUME NEW k \in Hooks, HookReread(k) PROVE Informed' /\ WakeTruth'
  BY <1>6 DEF TypeOK, Informed, WakeTruth, HookReread, Relayed
<1>7. ASSUME NEW k \in Hooks, HookLock(k) PROVE Informed' /\ WakeTruth'
  BY <1>7 DEF TypeOK, Informed, WakeTruth, HookLock
<1>8. ASSUME NEW k \in Hooks, HookSend(k) PROVE Informed' /\ WakeTruth'
  BY <1>8 DEF TypeOK, Informed, WakeTruth, HookSend
<1>9. ASSUME NEW k \in Hooks, HookMark(k) \/ HookDie(k) PROVE Informed' /\ WakeTruth'
  BY <1>9 DEF TypeOK, Informed, WakeTruth, HookMark, HookDie
<1> QED
  BY JournalSteps, <1>1, <1>2, <1>3, <1>4, <1>5, <1>6, <1>7, <1>8, <1>9 DEF HookStep

\* The marker and a good end only ever follow a wake to every holder.
LEMMA DeliveredStep ==
    ASSUME TypeOK, Delivered, [Next]_vars PROVE Delivered'
<1> USE DEF HookGoto, journal, hook, HStates
<1>1. CASE UNCHANGED <<told, hook>>
  BY <1>1 DEF Delivered
<1>2. ASSUME NEW k \in Hooks, HookRead(k) \/ HookDone(k) \/ HookReread(k) PROVE Delivered'
  BY <1>2 DEF TypeOK, Delivered, HookRead, HookDone, HookReread
<1>3. ASSUME NEW k \in Hooks, HookLock(k) PROVE Delivered'
  BY <1>3 DEF TypeOK, Delivered, HookLock
<1>4. ASSUME NEW k \in Hooks, HookSend(k) PROVE Delivered'
  <2>1. PICK h \in todo[k] :
          /\ todo' = [todo EXCEPT ![k] = @ \ {h}]
          /\ \/ told' = [told EXCEPT ![h] = @ \cup {known[k]}] /\ UNCHANGED missed
             \/ /\ told' = [told EXCEPT ![h] = @ \cup {known[k]}] \/ UNCHANGED told
                /\ missed' = [missed EXCEPT ![k] = TRUE]
    BY <1>4 DEF HookSend
  <2>2. hpc[k] = "send" /\ UNCHANGED <<hpc, marker>>
    BY <1>4 DEF HookSend
  <2>3. \A g \in Holders : told[g] # {} => told'[g] # {}
    BY <2>1 DEF TypeOK
  <2>4. ~missed'[k] => ~missed[k] /\ told'[h] # {}
    BY <2>1, ZenonT(40) DEF TypeOK
  <2>5. \A g \in Holders \ todo'[k] : g = h \/ g \in Holders \ todo[k]
    BY <2>1 DEF TypeOK
  <2>6. ~missed'[k] => \A g \in Holders \ todo'[k] : told'[g] # {}
    BY <2>2, <2>3, <2>4, <2>5 DEF Delivered
  <2>7. ASSUME NEW j \in Hooks, j # k PROVE todo'[j] = todo[j] /\ missed'[j] = missed[j]
    BY <2>1, <2>7 DEF TypeOK
  <2> QED
    BY <2>2, <2>3, <2>6, <2>7 DEF Delivered
<1>5. ASSUME NEW k \in Hooks, HookMark(k) PROVE Delivered'
  BY <1>5 DEF TypeOK, Delivered, HookMark, AllSent
<1>6. ASSUME NEW k \in Hooks, HookDie(k) PROVE Delivered'
  BY <1>6 DEF TypeOK, Delivered, HookDie
<1> QED
  BY JournalSteps, <1>1, <1>2, <1>3, <1>4, <1>5, <1>6 DEF HookStep, Done, Reap

-----------------------------------------------------------------------------
(* The producers.                                                          *)

\* Hooks, and steps that change neither the journal nor a producer nor a
\* signal, are the rest of Next.
LEMMA ProducerSteps ==
    ASSUME [Next]_vars
    PROVE \/ UNCHANGED <<terminal, producer, signals>> /\ (faults' = faults \/ Fault)
          \/ \E k \in Hooks : HookDone(k)
          \/ Reap \/ Cancel \/ Terminate("early") \/ Terminate("late")
          \/ \E p \in Producers : ProducerStep(p) \/ SeeCancel(p) \/ Die(p)
<1> USE DEF journal, Fine
<1>1. ASSUME NEW k \in Hooks, HookRead(k) \/ HookReread(k) \/ HookLock(k)
      PROVE UNCHANGED <<terminal, producer, signals>> /\ (faults' = faults \/ Fault)
  BY <1>1 DEF HookRead, HookReread, HookLock
<1>2. ASSUME NEW k \in Hooks, HookSend(k) \/ HookMark(k) \/ HookDie(k)
      PROVE UNCHANGED <<terminal, producer, signals>> /\ (faults' = faults \/ Fault)
  BY <1>2 DEF HookSend, HookMark, HookDie
<1>3. CASE UNCHANGED vars
  BY <1>3 DEF vars
<1> QED
  BY <1>1, <1>2, <1>3 DEF Next, HookStep, Quiet

\* A step has no failure in it, or it is one more.
LEMMA FaultStep ==
    ASSUME [Next]_vars PROVE faults' = faults \/ Fault
<1> USE DEF Fine
<1>1. ASSUME NEW p \in Producers, ProducerStep(p) \/ SeeCancel(p) \/ Die(p)
      PROVE faults' = faults \/ Fault
  BY <1>1 DEF ProducerStep, Acquire, SeeCancel, LoopEnd, Judge, Done, Relay, Release, Die
<1>2. ASSUME NEW k \in Hooks, HookDone(k) PROVE faults' = faults \/ Fault
  BY <1>2 DEF HookDone
<1>3. CASE Reap \/ Cancel \/ Terminate("early") \/ Terminate("late")
  BY <1>3 DEF Reap, Cancel, Terminate
<1> QED
  BY ProducerSteps, <1>1, <1>2, <1>3

\* An abort keeps its cause: requests and the kind of a SIGTERM are for good.
LEMMA CausedStep ==
    ASSUME TypeOK, Caused, [Next]_vars PROVE Caused'
<1> USE ActorAssumption DEF Settle, Caused, TypeOK
<1>1. CASE UNCHANGED <<terminal, producer, signals>>
  BY <1>1 DEF producer, signals
<1>2. ASSUME NEW k \in Hooks, HookDone(k) PROVE Caused'
  BY <1>2 DEF HookDone, HookState, producer, signals
<1>3. CASE Reap \/ Cancel \/ Terminate("early") \/ Terminate("late")
  BY <1>3 DEF Reap, Cancel, Terminate, producer, signals, journal
<1>4. ASSUME NEW p \in Producers, Acquire(p) \/ SeeCancel(p) \/ Release(p) \/ Die(p)
      PROVE Caused'
  BY <1>4 DEF Acquire, SeeCancel, Release, Die, signals, journal
<1>5. ASSUME NEW p \in Producers, LoopEnd(p) PROVE Caused'
  BY <1>5 DEF LoopEnd, Signalled, signals, journal
<1>6. ASSUME NEW p \in Producers, Judge(p) PROVE Caused'
  BY <1>6 DEF Judge, Judgement, signals, journal
<1>7. ASSUME NEW p \in Producers, Done(p) PROVE Caused'
  BY <1>7 DEF Done, signals
<1>8. ASSUME NEW p \in Producers, Relay(p) PROVE Caused'
  BY <1>8 DEF Relay, Winner, signals, journal
<1> QED
  BY ProducerSteps, <1>1, <1>2, <1>3, <1>4, <1>5, <1>6, <1>7, <1>8 DEF ProducerStep

\* A main process that is gone does not come back.
LEMMA HookLastStep ==
    ASSUME TypeOK, HookLast, [Next]_vars PROVE HookLast'
<1> USE DEF HookLast, TypeOK, Gone, PStates
<1>1. Gone(Main) => Gone(Main)'
  <2>1. CASE UNCHANGED ppc
    BY <2>1
  <2>2. ASSUME NEW p \in Producers, ProducerStep(p) \/ Die(p) PROVE Gone(Main) => Gone(Main)'
    BY <2>2 DEF ProducerStep, Acquire, LoopEnd, Judge, Done, Relay, Release, Die
  <2> QED
    BY ProducerSteps, <2>1, <2>2
    DEF producer, HookDone, Reap, Cancel, Terminate, SeeCancel
<1>2. ASSUME NEW k \in Hooks, hpc'[k] # "idle", hpc[k] = "idle" PROVE Gone(Main)
  <2>1. ASSUME NEW j \in Hooks, HookStep(j) \/ HookDie(j) PROVE Gone(Main)
    BY <1>2, <2>1 DEF UnitStopped, HookStep, HookRead, HookDone, HookReread, HookLock, HookSend,
       HookMark, HookDie, HookGoto, HStates
  <2> QED
    BY <1>2, <2>1, JournalSteps DEF UnitStopped, hook, Done, Reap
<1> QED
  BY <1>1, <1>2

\* The outcome of a run without failures: whoever is at work has the lock, so
\* a single run is in flight, and its done finds the journal open or relays.
LEMMA UnfailedStep ==
    ASSUME TypeOK, HasVerdict, Unfailed, [Next]_vars PROVE Unfailed'
<1> USE ActorAssumption DEF Settle, Live, TypeOK, PStates
<1>1. CASE UNCHANGED <<terminal, producer, signals>> /\ (faults' = faults \/ Fault)
  BY <1>1 DEF Unfailed, producer, Fault
<1>2. ASSUME NEW k \in Hooks, HookDone(k) PROVE Unfailed'
  BY <1>2 DEF Unfailed, HookDone, HookState, producer, Fine, Fault
<1>3. CASE Reap \/ Cancel \/ Terminate("early") \/ Terminate("late")
  BY <1>3 DEF Unfailed, Reap, Cancel, Terminate, producer, journal
<1>4. ASSUME NEW p \in Producers, Acquire(p) PROVE Unfailed'
  BY <1>4 DEF Unfailed, Acquire, journal, Fine, Fault
<1>5. ASSUME NEW p \in Producers, SeeCancel(p) \/ LoopEnd(p) \/ Judge(p) PROVE Unfailed'
  BY <1>5 DEF Unfailed, SeeCancel, LoopEnd, Judge, journal
<1>6. ASSUME NEW p \in Producers, Done(p) PROVE Unfailed'
  BY <1>6 DEF Unfailed, HasVerdict, Done, Fine, Fault
<1>7. ASSUME NEW p \in Producers, Relay(p) PROVE Unfailed'
  BY <1>7 DEF Unfailed, Relay, Winner, journal, Fine, Fault
<1>8. ASSUME NEW p \in Producers, Release(p) \/ Die(p) PROVE Unfailed'
  BY <1>8 DEF Unfailed, Release, Die, Unlock, journal, Fault
<1> QED
  BY ProducerSteps, <1>1, <1>2, <1>3, <1>4, <1>5, <1>6, <1>7, <1>8 DEF ProducerStep

-----------------------------------------------------------------------------
(* The theorems.                                                           *)

\* Inv holds of every reachable state.
LEMMA InvHolds == Spec => []Inv
<1>1. ASSUME Inv, [Next]_vars PROVE Inv'
  BY <1>1, TypeStep, WakeStep, DeliveredStep, CausedStep, HookLastStep, UnfailedStep DEF Inv
<1> QED
  BY InitInv, <1>1, PTL DEF Spec

\* Every variable keeps its type, whatever producers, hooks and signals do.
THEOREM TypeCorrect == Spec => []TypeOK
BY InvHolds, PTL DEF Inv

\* A wake tells the journal's terminal (doneWithRetry and sendExitWakes).
THEOREM WakesTellTheTruth == Spec => []WakeTruth
BY InvHolds, PTL DEF Inv

\* A hook that reports success has told every holder (sendExitWakes).
THEOREM EndedHooksHaveTold == Spec => []EndedMeansTold
<1>1. Inv => EndedMeansTold
  BY DEF Inv, Delivered, EndedMeansTold
<1> QED
  BY InvHolds, <1>1, PTL

\* An abort on the journal has its cause (AgentVerdict).
THEOREM AbortsHaveACause == Spec => []AbortedHasCause
<1>1. Inv => AbortedHasCause
  BY DEF Inv, Caused, AbortedHasCause
<1> QED
  BY InvHolds, <1>1, PTL

\* Without failed calls a run exits with the journal's outcome (finish).
THEOREM RunsReportTheJournal == Spec => []ReportsTheJournal
<1>1. Inv => ReportsTheJournal
  BY DEF Inv, Unfailed, ReportsTheJournal
<1> QED
  BY InvHolds, <1>1, PTL

\* A holder is told the journal's state, and told when a hook ended well.
THEOREM HoldersAreTold == Spec => []HoldersTold
<1>1. WakeTruth /\ EndedMeansTold => HoldersTold
  BY DEF HoldersTold
<1> QED
  BY <1>1, WakesTellTheTruth, EndedHooksHaveTold, PTL

\* A run reports the journal's verdict, and an abort has its cause.
THEOREM VerdictIsOne == Spec => []OneVerdict
<1>1. ReportsTheJournal /\ AbortedHasCause => OneVerdict
  BY DEF OneVerdict
<1> QED
  BY <1>1, RunsReportTheJournal, AbortsHaveACause, PTL

\* Without failures the holder of the job lock settles its own job: the
\* reaper waits for the lock, and the hook for a main process that is gone,
\* which by then has settled it or was refused.
THEOREM TheHoldersOutcomeStands == Spec => OutcomeStands
<1>1. ASSUME Inv, [Next]_vars, faults' = 0, ppc[Main] # "refused",
             terminal' # terminal, jobLock # None
      PROVE ppc[jobLock] = "done" /\ ppc'[jobLock] # "done"
  <2>1. faults = 0
    BY <1>1, FaultStep DEF Inv, TypeOK, Fault
  <2>2. ASSUME NEW k \in Hooks, HookDone(k) PROVE FALSE
    <3>1. ppc[Main] = "exited"
      BY <1>1, <2>1, <2>2 DEF Inv, HookLast, Gone, HookDone, Unfailed
    <3> QED
      BY <1>1, <2>1, <2>2, <3>1 DEF Inv, Unfailed, HookDone, Settle
  <2>3. ~Reap
    BY <1>1 DEF Reap, Abandoned
  <2>4. ASSUME NEW p \in Producers, Done(p)
        PROVE ppc[jobLock] = "done" /\ ppc'[jobLock] # "done"
    <3>1. jobLock = p
      BY <1>1, <2>1, <2>4 DEF Inv, Unfailed, Live, Done
    <3> QED
      BY <2>4, <3>1, <1>1 DEF Done, Inv, TypeOK
  <2> QED
    BY <1>1, <2>2, <2>3, <2>4, JournalSteps DEF journal, HookStep, HookRead, HookReread,
       HookLock, HookSend, HookMark, HookDie
<1>2. ASSUME Inv, [Next]_vars
      PROVE [faults' = 0 /\ ppc[Main] # "refused" => HolderWrites]_vars
  BY <1>1, <1>2 DEF HolderWrites
<1> QED
  BY InvHolds, <1>2, PTL DEF Spec, OutcomeStands

\* The exit path implements JobSpec: a step of any actor settles the job,
\* tells one holder the terminal, or changes nothing the holders can see.
THEOREM ImplementsJobSpec == Spec => JobRefined
<1> USE DEF Settle, journal, hook
<1>1. Init => Job!Init
  BY DEF Init, Job!Init
<1>2. ASSUME Inv, [Next]_vars PROVE [Job!Next]_(Job!jobVars)
  <2> USE DEF Job!Next, Job!Settle, Job!Tell, Job!jobVars
  <2>1. ASSUME NEW p \in Producers, Done(p) PROVE [Job!Next]_(Job!jobVars)
    BY <1>2, <2>1 DEF Inv, HasVerdict, Done
  <2>2. CASE Reap
    BY <2>2 DEF Reap
  <2>3. ASSUME NEW k \in Hooks, HookDone(k) PROVE [Job!Next]_(Job!jobVars)
    BY <2>3 DEF HookDone, HookState
  <2>4. ASSUME NEW k \in Hooks, HookSend(k) PROVE [Job!Next]_(Job!jobVars)
    <3>1. terminal # None /\ known[k] = terminal
      BY <1>2, <2>4 DEF Inv, Informed, HookSend
    <3>2. PICK h \in todo[k] :
            UNCHANGED told \/ told' = [told EXCEPT ![h] = @ \cup {known[k]}]
      BY <2>4 DEF HookSend
    <3> QED
      BY <1>2, <2>4, <3>1, <3>2 DEF Inv, TypeOK, HookSend
  <2> QED
    BY <1>2, <2>1, <2>2, <2>3, <2>4, JournalSteps
    DEF HookStep, HookRead, HookReread, HookLock, HookMark, HookDie
<1> QED
  BY InvHolds, <1>1, <1>2, PTL DEF Spec, JobRefined, Job!Spec

HIDE DEF States, Ends, Producers

-----------------------------------------------------------------------------
(***************************************************************************)
(* AgentRun. What is proved of a run, for every set of tools, every brief, *)
(* every length of a reply and every number of steps: its verdict has its  *)
(* cause and its moxy is stopped, its accounts agree, and the model is     *)
(* never sent a request that its API refuses. RunInv is inductive; its     *)
(* parts follow.                                                           *)
(***************************************************************************)

\* What a run is made of.
ToolNames == Tools \cup {CannotComplete}
Calls     == [type : {"tool_call"}, id : Nat, name : ToolNames, valid : BOOLEAN]
Results   == [type : {"tool_result"}, id : Nat, ok : BOOLEAN]
EndReasons ==  {"", "timeout", "step_cap", "end_turn", "max_tokens", "model_error", "cannot_complete",
               "tool_error", "evaluator_pass"}
Plain     == {Text, Task} \cup [type : {"terminal"}, reason : EndReasons]
Turns     == Plain \cup Calls \cup Results
Messages  == [role : {"user", "assistant", "tool"}, blocks : Seq(Turns)]
Entries   == [tool : ToolNames, ok : BOOLEAN]

\* The places of the set-up, and of the loop before its end.
SetUp == {"start", "lock", "traffic", "resolve", "derive", "launch", "handshake", "connect"}
Going == {"idle", "calls", "model", "exec", "stop when"}

\* Where a run stands: the loop is idle until the set-up is over, and moxy is up only between.
Positions ==
    /\ pc \in SetUp \cup {"loop", "returned", "finish", "exited"}
    /\ loop \in Going \cup {"ended", "returned"}
    /\ pc \in SetUp => loop = "idle"
    /\ moxy \in {"none", "starting", "up", "stopped"}
    /\ pc \in SetUp \ {"handshake", "connect"} => moxy = "none"
    /\ moxy = "starting" => pc = "handshake"
    /\ MoxyEnds

\* What is known of the causes a verdict may have.
Causes ==
    /\ asked \in BOOLEAN /\ watching \in BOOLEAN /\ observed \in BOOLEAN /\ late \in BOOLEAN
    /\ expired \in BOOLEAN /\ runErr \in BOOLEAN
    /\ cancelled \subseteq {"sigterm", "holder"}
    /\ "holder" \in cancelled => observed
    /\ observed => asked
    /\ late => "sigterm" \in cancelled /\ expired
    /\ watching => pc \in {"loop", "returned"}
    /\ runErr => pc \in {"returned", "finish", "exited"}
    /\ runErr /\ end = "timeout" => cancelled # {}
    /\ state # "" => pc \in {"finish", "exited"}
    /\ state \in {"", "succeeded", "failed", "aborted"}
    /\ VerdictHasCause

\* The type of the transcript, of the pending calls and of the accounts.
TranscriptTypes ==
    /\ turns \in Seq(Turns) /\ pending \in Seq(Calls)
    /\ ledger \in Seq(Entries) /\ traffic \in Seq(Entries)
    /\ end \in EndReasons
    /\ loop = "idle" => turns = <<>> /\ pending = <<>> /\ ledger = <<>> /\ traffic = <<>>
    /\ loop = "exec" => pending # <<>>
    /\ loop = "model" => pending = <<>>

\* A call has the place of its turn as id, and a pending call is a turn.
CallsNumbered ==
    /\ \A k \in DOMAIN turns : turns[k].type = "tool_call" => turns[k].id = k
    /\ \A m \in DOMAIN pending : pending[m].id \in DOMAIN turns /\ turns[pending[m].id] = pending[m]

\* The ledger is the transcript's results.
Ledgered ==
    LET results == Of("tool_result", turns) IN
    /\ Len(results) = Len(ledger)
    /\ \A k \in DOMAIN ledger :
         /\ results[k].id \in DOMAIN turns /\ turns[results[k].id].type = "tool_call"
         /\ ledger[k] = [tool |-> turns[results[k].id].name, ok |-> results[k].ok]

\* The traffic file is the ledger while its sink is open, and a lost entry is noted.
Recorded ==
    /\ sink \in {"open", "none", "failed"}
    /\ sink = "open" => traffic = ledger
    /\ pc \in {"start", "lock", "traffic"} => sink = "none"
    /\ pc = "exited" /\ state # "" /\ traffic # ledger
         => notes \cap {"traffic lost records", "no traffic"} # {}

\* The calls of a message and its results, and the calls that wait.
CallIds(m) == Ids(m.blocks, "tool_call")
ResultIds(m) == Ids(m.blocks, "tool_result")

PendingIds == [m \in DOMAIN pending |-> pending[m].id]

\* The messages A lack the results of the calls P, and nothing else.
AnthropicForm(A, P) ==
    /\ A # <<>> /\ A[1].role = "user"
    /\ \A i \in DOMAIN A :
         /\ A[i].role \in {"user", "assistant"}
         /\ A[i].role = "user" => CallIds(A[i]) = <<>>
         /\ A[i].role = "assistant" => ResultIds(A[i]) = <<>>
    /\ \A i \in 1 .. Len(A) - 2 : CallIds(A[i]) = ResultIds(A[i + 1])
    /\ Len(A) = 1 => P = <<>>
    /\ Len(A) > 1 /\ A[Len(A)].role = "user" => CallIds(A[Len(A) - 1]) = ResultIds(A[Len(A)]) \o P
    /\ A[Len(A)].role = "assistant" =>
         Len(A) > 1 /\ CallIds(A[Len(A) - 1]) = <<>> /\ P # <<>> /\ CallIds(A[Len(A)]) = P

\* The same of the messages O, where each result is a message.
OpenAIForm(O, P) ==
    /\ O # <<>> /\ O[1].role = "user"
    /\ \A i \in DOMAIN O :
         /\ O[i].role = "user" => CallIds(O[i]) = <<>> /\ ResultIds(O[i]) = <<>>
         /\ O[i].role = "assistant" => ResultIds(O[i]) = <<>>
         /\ O[i].role = "tool" => CallIds(O[i]) = <<>> /\ Len(ResultIds(O[i])) = 1
    /\ P = <<>> => O[Len(O)].role # "assistant"
    /\ \E p \in DOMAIN O : \A m \in DOMAIN P :
         Len(O) + m - p \in DOMAIN CallIds(O[p]) /\ CallIds(O[p])[Len(O) + m - p] = P[m]
    /\ \A i \in DOMAIN O : \A k \in DOMAIN CallIds(O[i]) :
         \/ i + k \in DOMAIN O /\ ResultIds(O[i + k]) = <<CallIds(O[i])[k]>>
         \/ i + k - Len(O) \in DOMAIN P /\ P[i + k - Len(O)] = CallIds(O[i])[k]
    /\ \A j \in DOMAIN O : ResultIds(O[j]) # <<>> =>
         \E i \in 1 .. j - 1 : j - i \in DOMAIN CallIds(O[i]) /\ CallIds(O[i])[j - i] = ResultIds(O[j])[1]

\* Until the loop ends, the messages lack the results of the pending calls only.
WellFormed ==
    loop \in Going =>
      /\ AnthropicForm(encodeAnthropicMessages(wireTurns), PendingIds)
      /\ OpenAIForm(encodeOpenAIMessages(wireTurns), PendingIds)

\* The invariant: what the accounts need, and what the requests need besides.
Accounted == Positions /\ Causes /\ TranscriptTypes /\ CallsNumbered /\ Ledgered /\ Recorded
RunInv == Accounted /\ WellFormed

-----------------------------------------------------------------------------
(***************************************************************************)
(* Induction up to n, and folds. Of and the two encoders fold a sequence,  *)
(* which is a recursion over sets of positions; here is what a fold does   *)
(* with one element more.                                                  *)
(***************************************************************************)

\* Every nonempty set of naturals has a least element.
LEMMA Least ==
    ASSUME NEW N \in SUBSET Nat, N # {}
    PROVE  \E n \in N : \A m \in N : n <= m
<1>1. PICK n \in N : \A m \in N : <<m, n>> \notin OpToRel(<, Nat)
  BY NatLessThanWellFounded, WFMin
<1>2. ASSUME NEW m \in N PROVE n <= m
  <2>1. ~(m < n)
    BY <1>1 DEF OpToRel
  <2> QED
    BY <2>1
<1> QED
  BY <1>2

\* Induction up to n, over a set.
LEMMA UpTo ==
    ASSUME NEW n \in Nat, NEW P, 0 \in P, \A m \in 1 .. n : m - 1 \in P => m \in P
    PROVE  n \in P
<1> DEFINE N == {m \in Nat : m <= n /\ m \notin P}
<1>1. SUFFICES ASSUME N # {} PROVE FALSE
  OBVIOUS
<1>2. PICK m \in N : \A k \in N : m <= k
  BY <1>1, Least
<1>3. m \in 1 .. n
  BY <1>2
<1>4. m - 1 \in 0 .. n /\ m - 1 \notin N
  BY <1>2, <1>3
<1> QED
  BY <1>2, <1>3, <1>4

\* The largest of a set of the first positions.
LEMMA LargestOf ==
    ASSUME NEW n \in Nat, NEW s \in SUBSET (1 .. n), s # {}
    PROVE  /\ Max(s) \in s
           /\ \A i \in s : i <= Max(s)
<1> DEFINE M == {k \in Nat : \A i \in s : i <= k}
<1>1. PICK k \in M : \A m \in M : k <= m
  <2>1. n \in M
    OBVIOUS
  <2> QED
    BY <2>1, Least
<1>2. k \in s
  <2>1. SUFFICES ASSUME k \notin s PROVE FALSE
    OBVIOUS
  <2>2. k # 0
    <3>1. PICK i \in s : TRUE
      OBVIOUS
    <3> QED
      BY <3>1, <1>1
  <2>3. k - 1 \in M
    BY <2>1, <2>2, <1>1
  <2> QED
    BY <2>3, <1>1
<1>3. \A i \in s : k >= i
  BY <1>1
<1>4. \E x \in s : \A y \in s : x >= y
  BY <1>2, <1>3
<1> QED
  BY <1>4 DEF Max

\* A function over the sets of the first n positions is defined by what it is for the
\* empty set and how it follows from the set without its largest.
Follows(h, V, n, base, g) ==
    /\ h \in [SUBSET (1 .. n) -> V]
    /\ \A s \in SUBSET (1 .. n) :
        h[s] = IF s = {} THEN base ELSE g[<<Max(s), h[s \ {Max(s)}]>>]

\* A function over the sets of the first n positions goes on to n + 1.
LEMMA FoldGrows ==
    ASSUME NEW V, NEW base \in V, NEW n \in Nat, NEW g \in [(1 .. n + 1) \X V -> V],
           NEW f, Follows(f, V, n, base, g)
    PROVE  \E h : Follows(h, V, n + 1, base, g)
<1>0. /\ f \in [SUBSET (1 .. n) -> V]
      /\ \A s \in SUBSET (1 .. n) : f[s] = IF s = {} THEN base ELSE g[<<Max(s), f[s \ {Max(s)}]>>]
  BY DEF Follows
<1> DEFINE h == [s \in SUBSET (1 .. n + 1) |->
                   IF n + 1 \in s THEN g[<<n + 1, f[s \ {n + 1}]>>] ELSE f[s]]
<1>1. ASSUME NEW s \in SUBSET (1 .. n + 1), n + 1 \in s
      PROVE  /\ s \ {n + 1} \in SUBSET (1 .. n)
             /\ h[s] = g[<<n + 1, f[s \ {n + 1}]>>] /\ h[s] \in V
             /\ h[s] = g[<<Max(s), h[s \ {Max(s)}]>>]
  <2>1. s \ {n + 1} \in SUBSET (1 .. n)
    BY <1>1
  <2>2. Max(s) = n + 1
    <3>1. Max(s) \in s /\ \A i \in s : i <= Max(s)
      BY LargestOf, <1>1, n + 1 \in Nat
    <3>2. Max(s) \in 1 .. n + 1
      BY <3>1
    <3>3. n + 1 <= Max(s)
      BY <3>1, <1>1
    <3> QED
      BY <3>2, <3>3
  <2>3. f[s \ {n + 1}] \in V
    BY <1>0, <2>1
  <2>4. h[s] = g[<<n + 1, f[s \ {n + 1}]>>]
    BY <1>1
  <2>5. s \ {n + 1} \in SUBSET (1 .. n + 1) /\ n + 1 \notin s \ {n + 1}
    OBVIOUS
  <2>6. h[s \ {n + 1}] = f[s \ {n + 1}]
    BY <2>5
  <2>7. <<n + 1, f[s \ {n + 1}]>> \in (1 .. n + 1) \X V
    BY <2>3
  <2> QED
    BY <2>1, <2>2, <2>4, <2>6, <2>7
<1>2. ASSUME NEW s \in SUBSET (1 .. n + 1), n + 1 \notin s
      PROVE  /\ s \in SUBSET (1 .. n)
             /\ h[s] = f[s] /\ h[s] \in V
             /\ h[s] = IF s = {} THEN base ELSE g[<<Max(s), h[s \ {Max(s)}]>>]
  <2>1. s \in SUBSET (1 .. n)
    BY <1>2
  <2>2. h[s] = f[s]
    BY <1>2
  <2>3. s \ {Max(s)} \in SUBSET (1 .. n) /\ s \ {Max(s)} \in SUBSET (1 .. n + 1)
    BY <2>1
  <2>4. h[s \ {Max(s)}] = f[s \ {Max(s)}]
    BY <2>3
  <2>5. f[s] = IF s = {} THEN base ELSE g[<<Max(s), f[s \ {Max(s)}]>>]
    BY <1>0, <2>1
  <2>6. f[s] \in V
    BY <1>0, <2>1
  <2> QED
    BY <2>1, <2>2, <2>4, <2>5, <2>6
<1> HIDE DEF h
<1>3. h \in [SUBSET (1 .. n + 1) -> V]
  BY <1>1, <1>2 DEF h
<1>4. ASSUME NEW s \in SUBSET (1 .. n + 1)
      PROVE  h[s] = IF s = {} THEN base ELSE g[<<Max(s), h[s \ {Max(s)}]>>]
  <2>1. CASE n + 1 \in s
    BY <1>1, <2>1
  <2>2. CASE n + 1 \notin s
    BY <1>2, <2>2
  <2> QED
    BY <2>1, <2>2
<1> QED
  BY <1>3, <1>4 DEF Follows

\* So there is one for every n.
LEMMA FoldExists ==
    ASSUME NEW V, NEW base \in V, NEW n \in Nat, NEW g \in [(1 .. n) \X V -> V]
    PROVE  \E f : Follows(f, V, n, base, g)
<1> DEFINE E(m) == \E f : Follows(f, V, m, base, g)
           P == {m \in 0 .. n : E(m)}
<1>1. 0 \in P
  <2> DEFINE f == [s \in SUBSET (1 .. 0) |-> base]
  <2>1. \A s \in SUBSET (1 .. 0) : s = {}
    OBVIOUS
  <2>2. f \in [SUBSET (1 .. 0) -> V] /\ Follows(f, V, 0, base, g)
    BY <2>1 DEF Follows
  <2> QED
    BY <2>2
<1>2. ASSUME NEW m \in 1 .. n, m - 1 \in P PROVE m \in P
  <2> DEFINE k == m - 1
             r == [a \in (1 .. k + 1) \X V |-> g[a]]
  <2>1. k \in Nat /\ k + 1 = m /\ m <= n /\ E(k)
    <3> HIDE DEF E
    <3> QED
      BY <1>2
  <2>2. PICK f : Follows(f, V, k, base, g)
    BY <2>1
  <2> HIDE DEF k
  <2>3. r \in [(1 .. k + 1) \X V -> V]
    <3>1. \A a \in (1 .. k + 1) \X V : a \in (1 .. n) \X V
      BY <2>1
    <3> QED
      BY <3>1
  <2>4. ASSUME NEW j \in Nat, j <= m, NEW h \in [SUBSET (1 .. j) -> V]
        PROVE  Follows(h, V, j, base, r) <=> Follows(h, V, j, base, g)
    <3>1. ASSUME NEW s \in SUBSET (1 .. j), s # {}
          PROVE  r[<<Max(s), h[s \ {Max(s)}]>>] = g[<<Max(s), h[s \ {Max(s)}]>>]
      <4>1. Max(s) \in s
        BY LargestOf, <3>1, <2>4
      <4>2. Max(s) \in 1 .. j
        BY <4>1
      <4>3. Max(s) \in 1 .. k + 1
        BY <4>2, <2>4, <2>1
      <4>4. h[s \ {Max(s)}] \in V
        <5>1. s \ {Max(s)} \in SUBSET (1 .. j)
          OBVIOUS
        <5> QED
          BY <5>1
      <4> QED
        BY <4>3, <4>4
    <3> QED
      BY <3>1 DEF Follows
  <2> HIDE DEF r
  <2>5. Follows(f, V, k, base, r)
    <3>1. f \in [SUBSET (1 .. k) -> V] /\ k <= m
      BY <2>1, <2>2 DEF Follows
    <3> QED
      BY <2>1, <2>2, <2>4, <3>1
  <2>6. PICK h : Follows(h, V, k + 1, base, r)
    BY <2>1, <2>2, <2>3, <2>5, FoldGrows
  <2>7. Follows(h, V, m, base, g)
    <3>1. Follows(h, V, m, base, r)
      BY <2>1, <2>6
    <3>2. h \in [SUBSET (1 .. m) -> V] /\ m \in Nat /\ m <= m
      BY <3>1 DEF Follows
    <3> QED
      BY <2>4, <3>1, <3>2
  <2>8. E(m)
    BY <2>7
  <2> HIDE DEF E
  <2> QED
    BY <2>8
<1>3. n \in P
  <2> HIDE DEF P
  <2> QED
    BY <1>1, <1>2, UpTo
<1> QED
  <2> HIDE DEF E
  <2>1. E(n)
    BY <1>3
  <2> QED
    BY <2>1 DEF E

\* The last of the first m positions.
LEMMA PrefixMax ==
    ASSUME NEW m \in Nat, m # 0
    PROVE  1 .. m # {} /\ Max(1 .. m) = m /\ (1 .. m) \ {m} = 1 .. m - 1
<1>1. m \in 1 .. m /\ 1 .. m \in SUBSET (1 .. m)
  OBVIOUS
<1>2. Max(1 .. m) \in 1 .. m /\ \A i \in 1 .. m : i <= Max(1 .. m)
  BY LargestOf, <1>1
<1> QED
  BY <1>1, <1>2

\* The same of a function that is only known over the sets 1 .. m: there is one.
Steps(h, V, n, base, g) ==
    /\ h[{}] = base
    /\ \A m \in 1 .. n : h[1 .. m - 1] \in V => h[1 .. m] = g[<<m, h[1 .. m - 1]>>]

\* What is defined step by step is the function that follows.
LEMMA FoldUnique ==
    ASSUME NEW V, NEW base, NEW n \in Nat, NEW g,
           NEW f, Follows(f, V, n, base, g),
           NEW h, Steps(h, V, n, base, g)
    PROVE  h[1 .. n] = f[1 .. n]
<1> DEFINE P == {m \in 0 .. n : h[1 .. m] = f[1 .. m]}
<1>1. 0 \in P
  <2>1. 1 .. 0 = {} /\ {} \in SUBSET (1 .. n)
    OBVIOUS
  <2>2. f[{}] = base
    BY <2>1 DEF Follows
  <2> QED
    BY <2>1, <2>2 DEF Steps
<1>2. ASSUME NEW m \in 1 .. n, m - 1 \in P PROVE m \in P
  <2>1. 1 .. m - 1 \in SUBSET (1 .. n) /\ 1 .. m \in SUBSET (1 .. n) /\ h[1 .. m - 1] = f[1 .. m - 1]
    BY <1>2
  <2>2. h[1 .. m] = g[<<m, h[1 .. m - 1]>>]
    <3>1. f[1 .. m - 1] \in V
      BY <2>1 DEF Follows
    <3> QED
      BY <2>1, <3>1 DEF Steps
  <2>3. f[1 .. m] = g[<<m, f[1 .. m - 1]>>]
    <3>1. m \in Nat /\ m # 0
      OBVIOUS
    <3>2. 1 .. m # {} /\ Max(1 .. m) = m /\ (1 .. m) \ {m} = 1 .. m - 1
      BY <3>1, PrefixMax
    <3> QED
      BY <2>1, <3>2 DEF Follows
  <2> QED
    BY <2>1, <2>2, <2>3
<1> HIDE DEF P
<1>3. n \in P
  BY <1>1, <1>2, UpTo
<1> QED
  BY <1>3 DEF P

\* What a fold over a sequence of length n gives.
FoldOf(V, n, base, g) == (CHOOSE f : Follows(f, V, n, base, g))[1 .. n]

\* The fold is what the steps give.
LEMMA FoldOfIs ==
    ASSUME NEW V, NEW base \in V, NEW n \in Nat, NEW g \in [(1 .. n) \X V -> V],
           NEW h, Steps(h, V, n, base, g)
    PROVE  h[1 .. n] = FoldOf(V, n, base, g) /\ FoldOf(V, n, base, g) \in V
<1> DEFINE F == CHOOSE f : Follows(f, V, n, base, g)
<1>1. Follows(F, V, n, base, g) /\ F \in [SUBSET (1 .. n) -> V]
  <2>1. Follows(F, V, n, base, g)
    BY FoldExists
  <2> HIDE DEF F
  <2> QED
    BY <2>1 DEF Follows
<1>2. 1 .. n \in SUBSET (1 .. n)
  OBVIOUS
<1> HIDE DEF F
<1>3. F[1 .. n] \in V
  BY <1>1, <1>2
<1>4. h[1 .. n] = F[1 .. n]
  BY <1>1, FoldUnique
<1> QED
  BY <1>3, <1>4 DEF F, FoldOf

\* A fold over one element more is one step more.
LEMMA FoldOfNext ==
    ASSUME NEW V, NEW base \in V, NEW n \in Nat, NEW g \in [(1 .. n) \X V -> V],
           NEW r \in [(1 .. n + 1) \X V -> V],
           \A m \in 1 .. n, v \in V : r[<<m, v>>] = g[<<m, v>>]
    PROVE  /\ FoldOf(V, n, base, g) \in V
           /\ FoldOf(V, n + 1, base, r) = r[<<n + 1, FoldOf(V, n, base, g)>>]
<1>1. PICK h : Follows(h, V, n + 1, base, r)
  BY FoldExists, n + 1 \in Nat
<1>2. h[{}] = base
  BY <1>1 DEF Follows
<1>3. ASSUME NEW m \in 1 .. n + 1
      PROVE  h[1 .. m] = r[<<m, h[1 .. m - 1]>>]
  <2>1. 1 .. m \in SUBSET (1 .. n + 1) /\ m \in Nat /\ m # 0
    OBVIOUS
  <2>2. 1 .. m # {} /\ Max(1 .. m) = m /\ (1 .. m) \ {m} = 1 .. m - 1
    BY <2>1, PrefixMax
  <2>3. h[1 .. m] = IF 1 .. m = {} THEN base ELSE r[<<Max(1 .. m), h[(1 .. m) \ {Max(1 .. m)}]>>]
    BY <1>1, <2>1 DEF Follows
  <2> QED
    BY <2>2, <2>3
<1>4. h[1 .. n] = FoldOf(V, n, base, g) /\ FoldOf(V, n, base, g) \in V
  <2>1. Steps(h, V, n, base, g)
    BY <1>2, <1>3 DEF Steps
  <2> QED
    BY <2>1, FoldOfIs
<1>5. h[1 .. n + 1] = FoldOf(V, n + 1, base, r)
  <2> DEFINE k == n + 1
  <2>1. k \in Nat /\ r \in [(1 .. k) \X V -> V] /\ Steps(h, V, k, base, r)
    BY <1>2, <1>3 DEF Steps
  <2> HIDE DEF k
  <2>2. h[1 .. k] = FoldOf(V, k, base, r)
    BY <2>1, FoldOfIs
  <2> QED
    BY <2>2 DEF k
<1>6. n + 1 \in 1 .. n + 1 /\ n + 1 - 1 = n
  OBVIOUS
<1> QED
  BY <1>3, <1>4, <1>5, <1>6

\* And of one of length 0.
LEMMA FoldOfNone ==
    ASSUME NEW V, NEW base \in V, NEW g \in [(1 .. 0) \X V -> V]
    PROVE  FoldOf(V, 0, base, g) = base
<1> DEFINE h == [s \in {{}} |-> base]
<1>1. h[{}] = base /\ 1 .. 0 = {} /\ Steps(h, V, 0, base, g)
  BY DEF Steps
<1> HIDE DEF h
<1>2. h[1 .. 0] = FoldOf(V, 0, base, g)
  BY <1>1, FoldOfIs
<1> QED
  BY <1>1, <1>2

-----------------------------------------------------------------------------
(***************************************************************************)
(* Of: the turns of one type.                                              *)
(***************************************************************************)

KeptWith(type, kept, t) == IF t.type = type THEN Append(kept, t) ELSE kept
Keep(type, ts) == [a \in (1 .. Len(ts)) \X Seq(Turns) |-> KeptWith(type, a[2], ts[a[1]])]

\* The step of Of keeps a sequence of turns one.
LEMMA KeepType ==
    ASSUME NEW type, NEW ts \in Seq(Turns)
    PROVE  Keep(type, ts) \in [(1 .. Len(ts)) \X Seq(Turns) -> Seq(Turns)]
<1>1. ASSUME NEW a \in (1 .. Len(ts)) \X Seq(Turns)
      PROVE  KeptWith(type, a[2], ts[a[1]]) \in Seq(Turns)
  <2>1. a[1] \in 1 .. Len(ts) /\ a[2] \in Seq(Turns)
    OBVIOUS
  <2>2. ts[a[1]] \in Turns
    BY <2>1
  <2> QED
    BY <2>1, <2>2 DEF KeptWith
<1> QED
  BY <1>1 DEF Keep

\* Of is a fold.
LEMMA OfIsFold ==
    ASSUME NEW type, NEW ts \in Seq(Turns)
    PROVE  Of(type, ts) = FoldOf(Seq(Turns), Len(ts), <<>>, Keep(type, ts))
<1> DEFINE n == Len(ts)
           V == Seq(Turns)
           B(f) == [s \in SUBSET DOMAIN ts |-> IF s = {} THEN <<>> ELSE KeptWith(type, f[s \ {Max(s)}], ts[Max(s)])]
           F == CHOOSE h : h = B(h)
<1>1. n \in Nat /\ DOMAIN ts = 1 .. n /\ <<>> \in V /\ Keep(type, ts) \in [(1 .. n) \X V -> V]
  <2>1. n \in Nat /\ DOMAIN ts = 1 .. n /\ <<>> \in V
    OBVIOUS
  <2> QED
    BY <2>1, KeepType
<1> HIDE DEF n, V
<1>2. PICK f : Follows(f, V, n, <<>>, Keep(type, ts))
  BY <1>1, FoldExists
<1>3. f = B(f)
  <2>1. ASSUME NEW s \in SUBSET (1 .. n), s # {}
        PROVE  f[s] = KeptWith(type, f[s \ {Max(s)}], ts[Max(s)])
    <3>1. f[s] = Keep(type, ts)[<<Max(s), f[s \ {Max(s)}]>>]
      BY <1>2, <2>1 DEF Follows
    <3>2. Max(s) \in 1 .. n
      <4>1. Max(s) \in s
        BY LargestOf, <2>1, <1>1
      <4> QED
        BY <4>1
    <3>3. f[s \ {Max(s)}] \in V
      <4>1. s \ {Max(s)} \in SUBSET (1 .. n)
        OBVIOUS
      <4> QED
        BY <4>1, <1>2 DEF Follows
    <3> QED
      BY <3>1, <3>2, <3>3 DEF Keep, n, V
  <2>2. f[{}] = <<>> /\ f \in [SUBSET (1 .. n) -> V]
    BY <1>2 DEF Follows
  <2> QED
    BY <1>1, <2>1, <2>2
<1>4. F = B(F)
  BY <1>3
<1>5. Of(type, ts) = F[DOMAIN ts]
  BY DEF Of, FoldLeft, MapThenFoldSet, KeptWith
<1> HIDE DEF F
<1>6. Steps(F, V, n, <<>>, Keep(type, ts))
  <2>1. F[{}] = <<>>
    BY <1>4
  <2>2. ASSUME NEW m \in 1 .. n, F[1 .. m - 1] \in V
        PROVE  F[1 .. m] = Keep(type, ts)[<<m, F[1 .. m - 1]>>]
    <3>1. m \in Nat /\ m # 0 /\ 1 .. m \in SUBSET DOMAIN ts
      BY <1>1
    <3>2. 1 .. m # {} /\ Max(1 .. m) = m /\ (1 .. m) \ {m} = 1 .. m - 1
      BY <3>1, PrefixMax
    <3>3. F[1 .. m] = KeptWith(type, F[1 .. m - 1], ts[m])
      BY <1>4, <3>1, <3>2
    <3> QED
      BY <2>2, <3>3 DEF Keep, n, V
  <2> QED
    BY <2>1, <2>2 DEF Steps
<1>7. F[1 .. n] = FoldOf(V, n, <<>>, Keep(type, ts))
  BY <1>1, <1>6, FoldOfIs
<1> QED
  BY <1>1, <1>5, <1>7 DEF n, V

\* No turn has a type.
LEMMA OfEmpty ==
    ASSUME NEW type
    PROVE  Of(type, <<>>) = <<>>
<1> DEFINE e == <<>>
           V == Seq(Turns)
<1>1. e \in Seq(Turns) /\ Len(e) = 0
  OBVIOUS
<1>2. Keep(type, e) \in [(1 .. 0) \X V -> V] /\ <<>> \in V
  BY <1>1, KeepType
<1> HIDE DEF e
<1>3. Of(type, e) = FoldOf(V, 0, <<>>, Keep(type, e))
  BY <1>1, OfIsFold
<1> HIDE DEF V
<1>4. Of(type, e) = <<>>
  BY <1>2, <1>3, FoldOfNone
<1> QED
  BY <1>4 DEF e

\* A turn more is kept when it has the type.
LEMMA OfAppend ==
    ASSUME NEW type, NEW ts \in Seq(Turns), NEW t \in Turns
    PROVE  /\ Of(type, ts) \in Seq(Turns)
           /\ Of(type, Append(ts, t)) = IF t.type = type THEN Append(Of(type, ts), t) ELSE Of(type, ts)
<1> DEFINE us == Append(ts, t)
           n == Len(ts)
           V == Seq(Turns)
           g == Keep(type, ts)
           r == Keep(type, us)
<1>1. us \in Seq(Turns) /\ Len(us) = n + 1 /\ n \in Nat /\ us[n + 1] = t /\ \A m \in 1 .. n : us[m] = ts[m]
  OBVIOUS
<1>2. g \in [(1 .. n) \X V -> V] /\ <<>> \in V
  <2>1. <<>> \in V
    OBVIOUS
  <2> QED
    BY <2>1, KeepType
<1> HIDE DEF us
<1>3. r \in [(1 .. n + 1) \X V -> V]
  BY <1>1, KeepType
<1>4. Of(type, ts) = FoldOf(V, n, <<>>, g) /\ Of(type, us) = FoldOf(V, n + 1, <<>>, r)
  BY <1>1, OfIsFold
<1>5. \A m \in 1 .. n, v \in V : r[<<m, v>>] = g[<<m, v>>]
  BY <1>1 DEF Keep
<1>6. \A v \in V : r[<<n + 1, v>>] = KeptWith(type, v, t)
  BY <1>1 DEF Keep
<1> HIDE DEF n, V, g, r
<1>7. /\ FoldOf(V, n, <<>>, g) \in V
      /\ FoldOf(V, n + 1, <<>>, r) = r[<<n + 1, FoldOf(V, n, <<>>, g)>>]
  BY <1>1, <1>2, <1>3, <1>5, FoldOfNext
<1> QED
  BY <1>4, <1>6, <1>7 DEF us, V, KeptWith

\* A concatenation, one element at a time.
LEMMA ByElements ==
    ASSUME NEW T, NEW ts \in Seq(T), NEW us \in Seq(T)
    PROVE  /\ ts \o SubSeq(us, 1, 0) = ts
           /\ ts \o SubSeq(us, 1, Len(us)) = ts \o us
           /\ \A m \in 1 .. Len(us) :
                /\ ts \o SubSeq(us, 1, m - 1) \in Seq(T)
                /\ SubSeq(us, 1, m) = Append(SubSeq(us, 1, m - 1), us[m])
                /\ ts \o SubSeq(us, 1, m) = Append(ts \o SubSeq(us, 1, m - 1), us[m])
<1>1. ts \o SubSeq(us, 1, 0) = ts
  <2>1. SubSeq(us, 1, 0) = <<>>
    OBVIOUS
  <2> QED
    BY <2>1
<1>2. SubSeq(us, 1, Len(us)) = us
  OBVIOUS
<1>3. ASSUME NEW m \in 1 .. Len(us)
      PROVE  /\ ts \o SubSeq(us, 1, m - 1) \in Seq(T)
             /\ SubSeq(us, 1, m) = Append(SubSeq(us, 1, m - 1), us[m])
             /\ ts \o SubSeq(us, 1, m) = Append(ts \o SubSeq(us, 1, m - 1), us[m])
  <2> DEFINE p == SubSeq(us, 1, m - 1)
  <2>1. p \in Seq(T) /\ us[m] \in T
    OBVIOUS
  <2>2. SubSeq(us, 1, m) = Append(p, us[m])
    OBVIOUS
  <2> HIDE DEF p
  <2>3. ts \o Append(p, us[m]) = Append(ts \o p, us[m])
    BY <2>1
  <2>4. ts \o p \in Seq(T)
    BY <2>1
  <2> QED
    BY <2>2, <2>3, <2>4 DEF p
<1> QED
  BY <1>1, <1>2, <1>3

\* Turns of other types change nothing.
LEMMA OfOthers ==
    ASSUME NEW type, NEW ts \in Seq(Turns), NEW us \in Seq(Turns),
           \A i \in DOMAIN us : us[i].type # type
    PROVE  Of(type, ts \o us) = Of(type, ts)
<1> DEFINE Up(m) == ts \o SubSeq(us, 1, m)
           P == {m \in 0 .. Len(us) : Of(type, Up(m)) = Of(type, ts)}
<1>1. Up(0) = ts /\ Up(Len(us)) = ts \o us
  BY ByElements
<1>2. ASSUME NEW m \in 1 .. Len(us)
      PROVE  Up(m - 1) \in Seq(Turns) /\ Up(m) = Append(Up(m - 1), us[m])
  BY ByElements
<1> HIDE DEF Up
<1>3. 0 \in P
  BY <1>1
<1>4. ASSUME NEW m \in 1 .. Len(us), m - 1 \in P PROVE m \in P
  <2>1. us[m] \in Turns /\ us[m].type # type
    OBVIOUS
  <2>2. Of(type, Append(Up(m - 1), us[m])) = Of(type, Up(m - 1))
    <3> DEFINE s == Up(m - 1)
               t == us[m]
    <3>1. s \in Seq(Turns) /\ t \in Turns /\ t.type # type
      BY <1>2, <2>1
    <3> HIDE DEF s, t
    <3>2. Of(type, Append(s, t)) = Of(type, s)
      BY <3>1, OfAppend
    <3> QED
      BY <3>2 DEF s, t
  <2>3. m \in 0 .. Len(us) /\ Of(type, Up(m - 1)) = Of(type, ts)
    BY <1>4
  <2>4. Up(m) = Append(Up(m - 1), us[m])
    BY <1>2
  <2> QED
    BY <2>2, <2>3, <2>4
<1>5. Len(us) \in P
  <2> HIDE DEF P
  <2> QED
    BY <1>3, <1>4, UpTo
<1> QED
  BY <1>1, <1>5

\* What is kept, and of which elements.
LEMMA OfMember ==
    ASSUME NEW type, NEW ts \in Seq(Turns), NEW G,
           \A i \in DOMAIN ts : ts[i].type = type => ts[i] \in G
    PROVE  Of(type, ts) \in Seq(G)
<1> DEFINE Up(m) == <<>> \o SubSeq(ts, 1, m)
           P == {m \in 0 .. Len(ts) : Of(type, Up(m)) \in Seq(G)}
<1>1. Up(0) = <<>> /\ Up(Len(ts)) = ts
  <2>1. <<>> \in Seq(Turns) /\ <<>> \o ts = ts
    OBVIOUS
  <2> QED
    BY <2>1, ByElements
<1>2. ASSUME NEW m \in 1 .. Len(ts)
      PROVE  Up(m - 1) \in Seq(Turns) /\ Up(m) = Append(Up(m - 1), ts[m])
  <2>1. <<>> \in Seq(Turns)
    OBVIOUS
  <2> QED
    BY <2>1, ByElements
<1> HIDE DEF Up
<1>3. 0 \in P
  <2>1. <<>> \in Seq(G) /\ 0 \in 0 .. Len(ts)
    OBVIOUS
  <2> QED
    BY <1>1, <2>1, OfEmpty
<1>4. ASSUME NEW m \in 1 .. Len(ts), m - 1 \in P PROVE m \in P
  <2> DEFINE s == Up(m - 1)
             t == ts[m]
  <2>1. s \in Seq(Turns) /\ t \in Turns /\ (t.type = type => t \in G)
    BY <1>2
  <2>2. m \in 0 .. Len(ts) /\ Of(type, s) \in Seq(G) /\ Up(m) = Append(s, t)
    BY <1>2, <1>4
  <2> HIDE DEF s, t
  <2>3. Of(type, Append(s, t)) \in Seq(G)
    <3>1. CASE t.type = type
      <4>1. Of(type, Append(s, t)) = Append(Of(type, s), t)
        BY <2>1, <3>1, OfAppend
      <4> QED
        BY <2>1, <2>2, <3>1, <4>1
    <3>2. CASE t.type # type
      BY <2>1, <2>2, <3>2, OfAppend
    <3> QED
      BY <3>1, <3>2
  <2> QED
    BY <2>2, <2>3
<1>5. Len(ts) \in P
  <2> HIDE DEF P
  <2> QED
    BY <1>3, <1>4, UpTo
<1> QED
  BY <1>1, <1>5

-----------------------------------------------------------------------------
(***************************************************************************)
(* The encoders, one turn at a time.                                       *)
(***************************************************************************)

\* A record with other blocks.
LEMMA NewBlocks ==
    ASSUME NEW A, NEW B, NEW x \in [role : A, blocks : B], NEW v
    PROVE  [x EXCEPT !.blocks = v] = [role |-> x.role, blocks |-> v]
  OBVIOUS

\* One message more, or one block more in the last message.
Joined(N, M, m) ==
    /\ N \in Seq(Messages) /\ Len(N) = Len(M) + 1
    /\ \A i \in 1 .. Len(M) : N[i] = M[i]
    /\ N[Len(M) + 1] = m
Extended(N, M, t) ==
    /\ N \in Seq(Messages) /\ Len(N) = Len(M) /\ Len(M) # 0
    /\ \A i \in 1 .. Len(M) - 1 : N[i] = M[i]
    /\ N[Len(M)] = [role |-> M[Len(M)].role, blocks |-> Append(M[Len(M)].blocks, t)]

\* The EXCEPT of the encoders extends the last message.
LEMMA ExtendedIs ==
    ASSUME NEW M \in Seq(Messages), NEW t \in Turns, M # <<>>
    PROVE  Extended([M EXCEPT ![Len(M)].blocks = Append(@, t)], M, t)
<1> DEFINE n == Len(M)
           m == [role |-> M[n].role, blocks |-> Append(M[n].blocks, t)]
<1>1. n \in 1 .. Len(M) /\ M[n] \in Messages
  OBVIOUS
<1>2. m \in Messages
  BY <1>1 DEF Messages
<1>3. [M[n] EXCEPT !.blocks = Append(@, t)] = m
  <2> DEFINE A == {"user", "assistant", "tool"}
             B == Seq(Turns)
             x == M[n]
             v == Append(x.blocks, t)
  <2>1. x \in [role : A, blocks : B]
    BY <1>1 DEF Messages
  <2> HIDE DEF A, B, x, v
  <2>2. [x EXCEPT !.blocks = v] = [role |-> x.role, blocks |-> v]
    BY <2>1, NewBlocks
  <2> QED
    BY <2>2 DEF x, v
<1>4. [M EXCEPT ![Len(M)].blocks = Append(@, t)] = [M EXCEPT ![n] = m]
  BY <1>1, <1>3
<1> DEFINE N == [M EXCEPT ![n] = m]
<1>5. N \in Seq(Messages) /\ Len(N) = Len(M) /\ N[n] = m /\ \A i \in 1 .. Len(M) - 1 : N[i] = M[i]
  <2> HIDE DEF m
  <2> QED
    BY <1>1, <1>2
<1>6. Extended(N, M, t)
  <2> HIDE DEF N
  <2> QED
    BY <1>1, <1>5 DEF Extended
<1> QED
  BY <1>4, <1>6

\* Append joins a message.
LEMMA JoinedIs ==
    ASSUME NEW M \in Seq(Messages), NEW m \in Messages
    PROVE  Joined(Append(M, m), M, m)
BY DEF Joined

\* A joined message can be extended.
LEMMA JoinedMore ==
    ASSUME NEW M \in Seq(Messages), NEW N, NEW R, NEW r, NEW b, NEW t,
           Joined(N, M, [role |-> r, blocks |-> b]), Extended(R, N, t)
    PROVE  Joined(R, M, [role |-> r, blocks |-> Append(b, t)])
<1> DEFINE n == Len(M)
           m == [role |-> r, blocks |-> b]
<1>1. n \in Nat /\ Len(N) = n + 1 /\ N[n + 1] = m /\ \A i \in 1 .. n : N[i] = M[i]
  BY DEF Joined
<1>2. m.role = r /\ m.blocks = b
  OBVIOUS
<1> HIDE DEF n, m
<1>3. /\ R \in Seq(Messages) /\ Len(R) = n + 1
      /\ \A i \in 1 .. n : R[i] = N[i]
      /\ R[n + 1] = [role |-> m.role, blocks |-> Append(m.blocks, t)]
  BY <1>1 DEF Extended
<1>4. \A i \in 1 .. n : R[i] = M[i]
  BY <1>1, <1>3
<1> QED
  BY <1>2, <1>3, <1>4 DEF Joined, n

\* The joined message is the last.
LEMMA JoinedUnique ==
    ASSUME NEW M \in Seq(Messages), NEW N, NEW m, Joined(N, M, m)
    PROVE  N # <<>> /\ Len(N) \in Nat /\ N[Len(N)] = m
BY DEF Joined

\* A turn goes into the last message when that has its role, else into its own.
LEMMA appendBlockIs ==
    ASSUME NEW M \in Seq(Messages), NEW t \in Turns
    PROVE  IF M # <<>> /\ M[Len(M)].role = Role(t)
           THEN Extended(appendBlock(M, t), M, t)
           ELSE Joined(appendBlock(M, t), M, [role |-> Role(t), blocks |-> <<t>>])
<1>1. CASE M # <<>> /\ M[Len(M)].role = Role(t)
  <2>1. appendBlock(M, t) = [M EXCEPT ![Len(M)].blocks = Append(@, t)]
    BY <1>1 DEF appendBlock, Last
  <2> QED
    BY <1>1, <2>1, ExtendedIs
<1>2. CASE ~(M # <<>> /\ M[Len(M)].role = Role(t))
  <2>1. appendBlock(M, t) = Append(M, [role |-> Role(t), blocks |-> <<t>>])
    BY <1>2 DEF appendBlock, Last
  <2>2. [role |-> Role(t), blocks |-> <<t>>] \in Messages
    BY DEF Role, Messages
  <2> QED
    BY <1>2, <2>1, <2>2, JoinedIs
<1> QED
  BY <1>1, <1>2

\* Only an assistant message is extended.
LEMMA appendMessageIs ==
    ASSUME NEW M \in Seq(Messages), NEW t \in Turns
    PROVE  IF OpenAIRole(t) = "assistant" /\ M # <<>> /\ M[Len(M)].role = "assistant"
           THEN Extended(appendMessage(M, t), M, t)
           ELSE Joined(appendMessage(M, t), M, [role |-> OpenAIRole(t), blocks |-> <<t>>])
<1>1. CASE OpenAIRole(t) = "assistant" /\ M # <<>> /\ M[Len(M)].role = "assistant"
  <2>1. appendMessage(M, t) = [M EXCEPT ![Len(M)].blocks = Append(@, t)]
    BY <1>1 DEF appendMessage, Last
  <2> QED
    BY <1>1, <2>1, ExtendedIs
<1>2. CASE ~(OpenAIRole(t) = "assistant" /\ M # <<>> /\ M[Len(M)].role = "assistant")
  <2>1. appendMessage(M, t) = Append(M, [role |-> OpenAIRole(t), blocks |-> <<t>>])
    BY <1>2 DEF appendMessage, Last
  <2>2. [role |-> OpenAIRole(t), blocks |-> <<t>>] \in Messages
    BY DEF OpenAIRole, Messages
  <2> QED
    BY <1>2, <2>1, <2>2, JoinedIs
<1> QED
  BY <1>1, <1>2

\* Either way it stays a sequence of messages.
LEMMA appendBlockStays ==
    ASSUME NEW msgs \in Seq(Messages), NEW t \in Turns
    PROVE  appendBlock(msgs, t) \in Seq(Messages)
BY appendBlockIs DEF Extended, Joined

\* And so does this one.
LEMMA appendMessageStays ==
    ASSUME NEW msgs \in Seq(Messages), NEW t \in Turns
    PROVE  appendMessage(msgs, t) \in Seq(Messages)
BY appendMessageIs DEF Extended, Joined

AnthropicSteps(ts) == [a \in (1 .. Len(ts)) \X Seq(Messages) |-> appendBlock(a[2], ts[a[1]])]

\* The step of the Anthropic encoder keeps a sequence of messages one.
LEMMA AnthropicType ==
    ASSUME NEW ts \in Seq(Turns)
    PROVE  AnthropicSteps(ts) \in [(1 .. Len(ts)) \X Seq(Messages) -> Seq(Messages)]
<1>1. ASSUME NEW a \in (1 .. Len(ts)) \X Seq(Messages)
      PROVE  appendBlock(a[2], ts[a[1]]) \in Seq(Messages)
  <2>1. a[1] \in 1 .. Len(ts) /\ a[2] \in Seq(Messages)
    OBVIOUS
  <2>2. ts[a[1]] \in Turns
    BY <2>1
  <2> QED
    BY <2>1, <2>2, appendBlockStays
<1> QED
  BY <1>1 DEF AnthropicSteps

\* The Anthropic encoder is a fold.
LEMMA AnthropicIsFold ==
    ASSUME NEW ts \in Seq(Turns)
    PROVE  encodeAnthropicMessages(ts) = FoldOf(Seq(Messages), Len(ts), <<>>, AnthropicSteps(ts))
<1> DEFINE n == Len(ts)
           V == Seq(Messages)
           B(f) == [s \in SUBSET DOMAIN ts |-> IF s = {} THEN <<>> ELSE appendBlock(f[s \ {Max(s)}], ts[Max(s)])]
           F == CHOOSE h : h = B(h)
<1>1. n \in Nat /\ DOMAIN ts = 1 .. n /\ <<>> \in V /\ AnthropicSteps(ts) \in [(1 .. n) \X V -> V]
  <2>1. n \in Nat /\ DOMAIN ts = 1 .. n /\ <<>> \in V
    OBVIOUS
  <2> QED
    BY <2>1, AnthropicType
<1> HIDE DEF n, V
<1>2. PICK f : Follows(f, V, n, <<>>, AnthropicSteps(ts))
  BY <1>1, FoldExists
<1>3. f = B(f)
  <2>1. ASSUME NEW s \in SUBSET (1 .. n), s # {}
        PROVE  f[s] = appendBlock(f[s \ {Max(s)}], ts[Max(s)])
    <3>1. f[s] = AnthropicSteps(ts)[<<Max(s), f[s \ {Max(s)}]>>]
      BY <1>2, <2>1 DEF Follows
    <3>2. Max(s) \in 1 .. n
      <4>1. Max(s) \in s
        BY LargestOf, <2>1, <1>1
      <4> QED
        BY <4>1
    <3>3. f[s \ {Max(s)}] \in V
      <4>1. s \ {Max(s)} \in SUBSET (1 .. n)
        OBVIOUS
      <4> QED
        BY <4>1, <1>2 DEF Follows
    <3> QED
      BY <3>1, <3>2, <3>3 DEF AnthropicSteps, n, V
  <2>2. f[{}] = <<>> /\ f \in [SUBSET (1 .. n) -> V]
    BY <1>2 DEF Follows
  <2> QED
    BY <1>1, <2>1, <2>2
<1>4. F = B(F)
  BY <1>3
<1>5. encodeAnthropicMessages(ts) = F[DOMAIN ts]
  BY DEF encodeAnthropicMessages, FoldLeft, MapThenFoldSet
<1> HIDE DEF F
<1>6. Steps(F, V, n, <<>>, AnthropicSteps(ts))
  <2>1. F[{}] = <<>>
    BY <1>4
  <2>2. ASSUME NEW m \in 1 .. n, F[1 .. m - 1] \in V
        PROVE  F[1 .. m] = AnthropicSteps(ts)[<<m, F[1 .. m - 1]>>]
    <3>1. m \in Nat /\ m # 0 /\ 1 .. m \in SUBSET DOMAIN ts
      BY <1>1
    <3>2. 1 .. m # {} /\ Max(1 .. m) = m /\ (1 .. m) \ {m} = 1 .. m - 1
      BY <3>1, PrefixMax
    <3>3. F[1 .. m] = appendBlock(F[1 .. m - 1], ts[m])
      BY <1>4, <3>1, <3>2
    <3> QED
      BY <2>2, <3>3 DEF AnthropicSteps, n, V
  <2> QED
    BY <2>1, <2>2 DEF Steps
<1>7. F[1 .. n] = FoldOf(V, n, <<>>, AnthropicSteps(ts))
  BY <1>1, <1>6, FoldOfIs
<1> QED
  BY <1>1, <1>5, <1>7 DEF n, V

\* No turn makes no message.
LEMMA AnthropicEmpty ==
    encodeAnthropicMessages(<<>>) = <<>>
<1> DEFINE e == <<>>
           V == Seq(Messages)
<1>1. e \in Seq(Turns) /\ Len(e) = 0
  OBVIOUS
<1>2. AnthropicSteps(e) \in [(1 .. 0) \X V -> V] /\ <<>> \in V
  <2>1. <<>> \in V
    OBVIOUS
  <2> QED
    BY <1>1, <2>1, AnthropicType
<1> HIDE DEF e
<1>3. encodeAnthropicMessages(e) = FoldOf(V, 0, <<>>, AnthropicSteps(e))
  BY <1>1, AnthropicIsFold
<1> HIDE DEF V
<1>4. encodeAnthropicMessages(e) = <<>>
  BY <1>2, <1>3, FoldOfNone
<1> QED
  BY <1>4 DEF e

\* A turn more is appended to the messages of the others.
LEMMA AnthropicAppend ==
    ASSUME NEW ts \in Seq(Turns), NEW t \in Turns
    PROVE  /\ encodeAnthropicMessages(ts) \in Seq(Messages)
           /\ encodeAnthropicMessages(Append(ts, t)) = appendBlock(encodeAnthropicMessages(ts), t)
<1> DEFINE us == Append(ts, t)
           n == Len(ts)
           V == Seq(Messages)
           g == AnthropicSteps(ts)
           r == AnthropicSteps(us)
<1>1. us \in Seq(Turns) /\ Len(us) = n + 1 /\ n \in Nat /\ us[n + 1] = t /\ \A m \in 1 .. n : us[m] = ts[m]
  OBVIOUS
<1>2. g \in [(1 .. n) \X V -> V] /\ <<>> \in V
  <2>1. <<>> \in V
    OBVIOUS
  <2> QED
    BY <2>1, AnthropicType
<1> HIDE DEF us
<1>3. r \in [(1 .. n + 1) \X V -> V]
  BY <1>1, AnthropicType
<1>4. encodeAnthropicMessages(ts) = FoldOf(V, n, <<>>, g) /\ encodeAnthropicMessages(us) = FoldOf(V, n + 1, <<>>, r)
  BY <1>1, AnthropicIsFold
<1>5. \A m \in 1 .. n, v \in V : r[<<m, v>>] = g[<<m, v>>]
  BY <1>1 DEF AnthropicSteps
<1>6. \A v \in V : r[<<n + 1, v>>] = appendBlock(v, t)
  BY <1>1 DEF AnthropicSteps
<1> HIDE DEF n, V, g, r
<1>7. /\ FoldOf(V, n, <<>>, g) \in V
      /\ FoldOf(V, n + 1, <<>>, r) = r[<<n + 1, FoldOf(V, n, <<>>, g)>>]
  BY <1>1, <1>2, <1>3, <1>5, FoldOfNext
<1> QED
  BY <1>4, <1>6, <1>7 DEF us, V

OpenAISteps(ts) == [a \in (1 .. Len(ts)) \X Seq(Messages) |-> appendMessage(a[2], ts[a[1]])]

\* The same four facts of the OpenAI encoder: its step keeps the type,
LEMMA OpenAIType ==
    ASSUME NEW ts \in Seq(Turns)
    PROVE  OpenAISteps(ts) \in [(1 .. Len(ts)) \X Seq(Messages) -> Seq(Messages)]
<1>1. ASSUME NEW a \in (1 .. Len(ts)) \X Seq(Messages)
      PROVE  appendMessage(a[2], ts[a[1]]) \in Seq(Messages)
  <2>1. a[1] \in 1 .. Len(ts) /\ a[2] \in Seq(Messages)
    OBVIOUS
  <2>2. ts[a[1]] \in Turns
    BY <2>1
  <2> QED
    BY <2>1, <2>2, appendMessageStays
<1> QED
  BY <1>1 DEF OpenAISteps

\* it is a fold,
LEMMA OpenAIIsFold ==
    ASSUME NEW ts \in Seq(Turns)
    PROVE  encodeOpenAIMessages(ts) = FoldOf(Seq(Messages), Len(ts), <<>>, OpenAISteps(ts))
<1> DEFINE n == Len(ts)
           V == Seq(Messages)
           B(f) == [s \in SUBSET DOMAIN ts |-> IF s = {} THEN <<>> ELSE appendMessage(f[s \ {Max(s)}], ts[Max(s)])]
           F == CHOOSE h : h = B(h)
<1>1. n \in Nat /\ DOMAIN ts = 1 .. n /\ <<>> \in V /\ OpenAISteps(ts) \in [(1 .. n) \X V -> V]
  <2>1. n \in Nat /\ DOMAIN ts = 1 .. n /\ <<>> \in V
    OBVIOUS
  <2> QED
    BY <2>1, OpenAIType
<1> HIDE DEF n, V
<1>2. PICK f : Follows(f, V, n, <<>>, OpenAISteps(ts))
  BY <1>1, FoldExists
<1>3. f = B(f)
  <2>1. ASSUME NEW s \in SUBSET (1 .. n), s # {}
        PROVE  f[s] = appendMessage(f[s \ {Max(s)}], ts[Max(s)])
    <3>1. f[s] = OpenAISteps(ts)[<<Max(s), f[s \ {Max(s)}]>>]
      BY <1>2, <2>1 DEF Follows
    <3>2. Max(s) \in 1 .. n
      <4>1. Max(s) \in s
        BY LargestOf, <2>1, <1>1
      <4> QED
        BY <4>1
    <3>3. f[s \ {Max(s)}] \in V
      <4>1. s \ {Max(s)} \in SUBSET (1 .. n)
        OBVIOUS
      <4> QED
        BY <4>1, <1>2 DEF Follows
    <3> QED
      BY <3>1, <3>2, <3>3 DEF OpenAISteps, n, V
  <2>2. f[{}] = <<>> /\ f \in [SUBSET (1 .. n) -> V]
    BY <1>2 DEF Follows
  <2> QED
    BY <1>1, <2>1, <2>2
<1>4. F = B(F)
  BY <1>3
<1>5. encodeOpenAIMessages(ts) = F[DOMAIN ts]
  BY DEF encodeOpenAIMessages, FoldLeft, MapThenFoldSet
<1> HIDE DEF F
<1>6. Steps(F, V, n, <<>>, OpenAISteps(ts))
  <2>1. F[{}] = <<>>
    BY <1>4
  <2>2. ASSUME NEW m \in 1 .. n, F[1 .. m - 1] \in V
        PROVE  F[1 .. m] = OpenAISteps(ts)[<<m, F[1 .. m - 1]>>]
    <3>1. m \in Nat /\ m # 0 /\ 1 .. m \in SUBSET DOMAIN ts
      BY <1>1
    <3>2. 1 .. m # {} /\ Max(1 .. m) = m /\ (1 .. m) \ {m} = 1 .. m - 1
      BY <3>1, PrefixMax
    <3>3. F[1 .. m] = appendMessage(F[1 .. m - 1], ts[m])
      BY <1>4, <3>1, <3>2
    <3> QED
      BY <2>2, <3>3 DEF OpenAISteps, n, V
  <2> QED
    BY <2>1, <2>2 DEF Steps
<1>7. F[1 .. n] = FoldOf(V, n, <<>>, OpenAISteps(ts))
  BY <1>1, <1>6, FoldOfIs
<1> QED
  BY <1>1, <1>5, <1>7 DEF n, V

\* no turn makes no message,
LEMMA OpenAIEmpty ==
    encodeOpenAIMessages(<<>>) = <<>>
<1> DEFINE e == <<>>
           V == Seq(Messages)
<1>1. e \in Seq(Turns) /\ Len(e) = 0
  OBVIOUS
<1>2. OpenAISteps(e) \in [(1 .. 0) \X V -> V] /\ <<>> \in V
  <2>1. <<>> \in V
    OBVIOUS
  <2> QED
    BY <1>1, <2>1, OpenAIType
<1> HIDE DEF e
<1>3. encodeOpenAIMessages(e) = FoldOf(V, 0, <<>>, OpenAISteps(e))
  BY <1>1, OpenAIIsFold
<1> HIDE DEF V
<1>4. encodeOpenAIMessages(e) = <<>>
  BY <1>2, <1>3, FoldOfNone
<1> QED
  BY <1>4 DEF e

\* and a turn more is appended to the messages of the others.
LEMMA OpenAIAppend ==
    ASSUME NEW ts \in Seq(Turns), NEW t \in Turns
    PROVE  /\ encodeOpenAIMessages(ts) \in Seq(Messages)
           /\ encodeOpenAIMessages(Append(ts, t)) = appendMessage(encodeOpenAIMessages(ts), t)
<1> DEFINE us == Append(ts, t)
           n == Len(ts)
           V == Seq(Messages)
           g == OpenAISteps(ts)
           r == OpenAISteps(us)
<1>1. us \in Seq(Turns) /\ Len(us) = n + 1 /\ n \in Nat /\ us[n + 1] = t /\ \A m \in 1 .. n : us[m] = ts[m]
  OBVIOUS
<1>2. g \in [(1 .. n) \X V -> V] /\ <<>> \in V
  <2>1. <<>> \in V
    OBVIOUS
  <2> QED
    BY <2>1, OpenAIType
<1> HIDE DEF us
<1>3. r \in [(1 .. n + 1) \X V -> V]
  BY <1>1, OpenAIType
<1>4. encodeOpenAIMessages(ts) = FoldOf(V, n, <<>>, g) /\ encodeOpenAIMessages(us) = FoldOf(V, n + 1, <<>>, r)
  BY <1>1, OpenAIIsFold
<1>5. \A m \in 1 .. n, v \in V : r[<<m, v>>] = g[<<m, v>>]
  BY <1>1 DEF OpenAISteps
<1>6. \A v \in V : r[<<n + 1, v>>] = appendMessage(v, t)
  BY <1>1 DEF OpenAISteps
<1> HIDE DEF n, V, g, r
<1>7. /\ FoldOf(V, n, <<>>, g) \in V
      /\ FoldOf(V, n + 1, <<>>, r) = r[<<n + 1, FoldOf(V, n, <<>>, g)>>]
  BY <1>1, <1>2, <1>3, <1>5, FoldOfNext
<1> QED
  BY <1>4, <1>6, <1>7 DEF us, V

-----------------------------------------------------------------------------
(***************************************************************************)
(* The positions of a run, its verdict and its cause.                      *)
(***************************************************************************)

\* The steps of the loop leave alone everything but the loop's own state.
LEMMA LoopStepKeeps ==
    Loop => /\ pc = "loop" /\ UNCHANGED <<expired, cancelled, runVars>>
            /\ loop' \in {"calls", "model", "exec", "stop when", "ended"}
<1> SUFFICES ASSUME Loop PROVE loop' \in {"calls", "model", "exec", "stop when", "ended"}
  BY DEF Loop
<1> USE DEF End
<1>1. CASE LoopTimedOut
  BY <1>1 DEF LoopTimedOut
<1>2. CASE StepCap
  BY <1>2 DEF StepCap
<1>3. CASE AskModel
  BY <1>3 DEF AskModel
<1>4. CASE ModelAnswers
  BY <1>4 DEF ModelAnswers
<1>5. CASE ModelFails
  BY <1>5 DEF ModelFails
<1>6. CASE CallsCannotComplete
  BY <1>6 DEF CallsCannotComplete
<1>7. CASE RefuseCall
  BY <1>7 DEF RefuseCall
<1>8. CASE ExecCall
  BY <1>8 DEF ExecCall
<1>9. CASE ToolAnswers
  BY <1>9 DEF ToolAnswers
<1>10. CASE TransportFails
  BY <1>10 DEF TransportFails
<1>11. CASE StopNow
  BY <1>11 DEF StopNow
<1> QED
  BY <1>1, <1>2, <1>3, <1>4, <1>5, <1>6, <1>7, <1>8, <1>9, <1>10, <1>11 DEF Loop, LoopStep

\* A run starts with everything in its place.
LEMMA PositionsStart == RunInit => Positions /\ Causes
BY DEF RunInit, LoopInit, Positions, Causes, SetUp, Going, MoxyEnds, VerdictHasCause

\* No step loses its place, or leaves moxy behind.
LEMMA PositionsStep ==
    ASSUME Positions, Causes, [RunNext]_agentVars
    PROVE  Positions'
<1> USE DEF Positions, SetUp, Going, MoxyEnds
<1>1. CASE SetupStep
  <2> USE DEF Setup, At, FinishWithoutLoop
  <2>1. CASE Refused \/ Addressed \/ Lock \/ OpenTraffic
    BY <2>1 DEF Refused, Addressed, Lock, OpenTraffic
  <2>2. CASE ResolveModel \/ Derive \/ Launch \/ LaunchFails
    BY <2>2 DEF ResolveModel, Derive, Launch, LaunchFails
  <2>3. CASE Handshake \/ HandshakeFails
    BY <2>3 DEF Handshake, HandshakeFails, Stopped
  <2>4. CASE Connect
    BY <2>4 DEF Connect
  <2>5. CASE RunStarts
    BY <2>5 DEF RunStarts
  <2> QED
    BY <1>1, <2>1, <2>2, <2>3, <2>4, <2>5 DEF SetupStep
<1>2. CASE Loop
  BY <1>2, LoopStepKeeps DEF runVars
<1>3. CASE LoopReturns
  BY <1>3 DEF LoopReturns
<1>4. CASE Verdict
  BY <1>4 DEF Verdict, At, loopVars
<1>5. CASE Finish
  BY <1>5 DEF Finish, At, loopVars
<1>6. CASE Expire \/ SigTerm \/ HolderCancels \/ ObserveCancel
  BY <1>6 DEF Expire, SigTerm, HolderCancels, ObserveCancel, loopVars, runVars
<1>7. CASE UNCHANGED agentVars
  BY <1>7 DEF agentVars, loopVars, runVars
<1> QED
  BY <1>1, <1>2, <1>3, <1>4, <1>5, <1>6, <1>7 DEF RunNext

\* Every cause stays on the record, and the verdict has one.
LEMMA CausesStep ==
    ASSUME Positions, Causes, [RunNext]_agentVars
    PROVE  Causes'
<1>0. Positions'
  BY PositionsStep
<1> USE DEF Causes, VerdictHasCause, Finished
<1>1. CASE SetupStep
  <2>1. /\ pc \in SetUp \/ (pc = "loop" /\ loop = "idle")
        /\ loop' = loop \/ pc' = "loop"
        /\ UNCHANGED <<asked, observed, late, runErr, passed, expired, cancelled>>
    BY <1>1 DEF SetupStep, Setup, At, SetUp, Refused, Addressed, Lock, OpenTraffic, ResolveModel, Derive,
       Launch, LaunchFails, Handshake, HandshakeFails, Connect, RunStarts
  <2>2. (pc \in SetUp => ~watching) /\ state = "" /\ ~runErr /\ loop = "idle"
    BY <2>1 DEF SetUp, Positions
  <2>3. watching' \in BOOLEAN /\ (watching' => pc' = "loop")
    <3>1. CASE Connect
      BY <3>1 DEF Connect
    <3>2. CASE RunStarts
      BY <3>2 DEF RunStarts
    <3>3. CASE pc \in SetUp /\ UNCHANGED watching
      BY <2>2, <3>3
    <3>4. Connect \/ RunStarts \/ (pc \in SetUp /\ UNCHANGED watching)
      BY <1>1 DEF SetupStep, Setup, At, SetUp, Refused, Addressed, Lock, OpenTraffic,
         ResolveModel, Derive, Launch, LaunchFails, Handshake, HandshakeFails
    <3> QED
      BY <3>1, <3>2, <3>3, <3>4
  <2>4. state' = "" \/ (state' = "failed" /\ pc' = "finish")
    BY <1>1, <2>2 DEF SetupStep, FinishWithoutLoop, Refused, Addressed, Lock, OpenTraffic, ResolveModel, Derive,
       Launch, LaunchFails, Handshake, HandshakeFails, Connect, RunStarts
  <2> QED
    BY <2>1, <2>2, <2>3, <2>4
<1>2. CASE Loop
  <2>1. pc = "loop" /\ UNCHANGED <<expired, cancelled, runVars>>
    BY <1>2, LoopStepKeeps
  <2>2. state = "" /\ runErr = FALSE
    BY <2>1
  <2> QED
    BY <2>1, <2>2 DEF runVars
<1>3. CASE LoopReturns
  <2>1. runErr' \in BOOLEAN /\ (runErr' /\ end = "timeout" => cancelled # {})
    BY <1>3 DEF LoopReturns
  <2>2. state = ""
    BY <1>3 DEF LoopReturns
  <2> QED
    BY <1>3, <2>1, <2>2 DEF LoopReturns
<1>4. CASE Verdict
  <2> USE <1>4 DEF Verdict, At, loopVars
  <2>1. PICK backstop \in {late, Backstop} : state' = Judged(passed' = "pass", backstop)
    OBVIOUS
  <2>2. late => backstop
    BY <2>1 DEF Backstop
  <2>3. end' = end /\ observed' = observed /\ runErr' = runErr
    OBVIOUS
  <2>4. state' = "aborted" => asked' \/ ("sigterm" \in cancelled' /\ ~late')
    BY <2>1, <2>2 DEF Judged, AgentVerdict, HolderCancelled
  <2>5. ASSUME state' = "succeeded" PROVE passed' = "pass" /\ Finished' /\ ~observed'
    <3>1. ~HolderCancelled
      BY <2>1, <2>5 DEF Judged, AgentVerdict
    <3>2. Finished /\ passed' = "pass"
      BY <2>1, <2>5, <3>1 DEF Judged, AgentVerdict
    <3>3. ~observed
      BY <3>1 DEF HolderCancelled
    <3> QED
      BY <2>3, <3>2, <3>3
  <2>6. state' = "failed" => ~observed'
    BY <2>1 DEF Judged, AgentVerdict, HolderCancelled
  <2>7. state' \in {"succeeded", "failed", "aborted"}
    BY <2>1 DEF Judged, AgentVerdict
  <2> QED
    BY <2>4, <2>5, <2>6, <2>7
<1>5. CASE Finish
  BY <1>5 DEF Finish, At, loopVars
<1>6. CASE Expire \/ SigTerm \/ HolderCancels \/ ObserveCancel
  <2> USE DEF Running, loopVars, runVars
  <2>1. CASE Expire
    BY <2>1 DEF Expire
  <2>2. CASE SigTerm
    BY <2>2 DEF SigTerm
  <2>3. CASE HolderCancels
    BY <2>3 DEF HolderCancels
  <2>4. CASE ObserveCancel
    BY <2>4 DEF ObserveCancel
  <2> QED
    BY <1>6, <2>1, <2>2, <2>3, <2>4
<1>7. CASE UNCHANGED agentVars
  BY <1>7 DEF agentVars, loopVars, runVars
<1> QED
  BY <1>1, <1>2, <1>3, <1>4, <1>5, <1>6, <1>7 DEF RunNext

\* EndsWell (agent.go:308, 398-415): no run is called aborted, succeeded or failed
\* without its cause, and none leaves its moxy running.
THEOREM RunEndsWell == RunSpec => []EndsWell
<1>1. RunInit => Positions /\ Causes
  BY PositionsStart
<1>2. Positions /\ Causes /\ [RunNext]_agentVars => Positions' /\ Causes'
  BY PositionsStep, CausesStep
<1>3. Positions /\ Causes => EndsWell
  BY DEF Positions, Causes, EndsWell
<1> QED
  BY <1>1, <1>2, <1>3, PTL DEF RunSpec

-----------------------------------------------------------------------------
(***************************************************************************)
(* The transcript, the ledger and the traffic file.                        *)
(***************************************************************************)

\* A reply's turns: texts, and calls that have their places as ids.
LEMMA ReplyTurns ==
    ASSUME NEW reply \in Replies, turns \in Seq(Turns)
    PROVE  /\ Numbered(reply) \in Seq(Turns)
           /\ \A i \in DOMAIN Numbered(reply) :
                \/ Numbered(reply)[i] = Text
                \/ Numbered(reply)[i] \in Calls /\ Numbered(reply)[i].id = Len(turns) + i
<1>1. PICK m \in Nat : reply \in [1 .. m -> Blocks]
  BY LoopAssumption DEF Replies, SeqOf
<1>2. DOMAIN Numbered(reply) = 1 .. m
  BY <1>1 DEF Numbered
<1>3. ASSUME NEW i \in 1 .. m
      PROVE  Numbered(reply)[i] = IF reply[i].type = "text" THEN Text ELSE [reply[i] EXCEPT !.id = Len(turns) + i]
  BY <1>1, <1>3 DEF Numbered
<1>4. ASSUME NEW i \in 1 .. m
      PROVE  \/ Numbered(reply)[i] = Text
             \/ Numbered(reply)[i] \in Calls /\ Numbered(reply)[i].id = Len(turns) + i
  <2>1. reply[i] \in Blocks
    BY <1>1
  <2>2. CASE reply[i] = Text
    BY <1>3, <2>2 DEF Text
  <2>3. CASE reply[i] # Text
    <3>1. PICK n \in ToolNames, ok \in BOOLEAN : reply[i] = ToolCall(0, n, ok)
      BY <2>1, <2>3, LoopAssumption DEF Blocks, toolsWithCannotComplete, ToolNames
    <3>2. Numbered(reply)[i] = ToolCall(Len(turns) + i, n, ok)
      <4>1. reply[i] = [type |-> "tool_call", id |-> 0, name |-> n, valid |-> ok]
        BY <3>1 DEF ToolCall
      <4>3. reply[i].type # "text"
        BY <4>1
      <4>2. Numbered(reply)[i] = [reply[i] EXCEPT !.id = Len(turns) + i]
        BY <1>1, <4>3 DEF Numbered
      <4> HIDE DEF Numbered
      <4> QED
        BY <4>1, <4>2 DEF ToolCall
    <3>3. Len(turns) + i \in Nat
      OBVIOUS
    <3> QED
      BY <3>2, <3>3 DEF ToolCall, Calls
  <2> QED
    BY <2>2, <2>3
<1>5. Text \in Turns /\ \A c \in Calls : c \in Turns
  BY DEF Turns, Plain
<1>6. Numbered(reply) \in [1 .. m -> Turns]
  <2>1. \A i \in 1 .. m : Numbered(reply)[i] \in Turns
    BY <1>4, <1>5
  <2> QED
    BY <1>2, <2>1 DEF Numbered
<1> QED
  BY <1>2, <1>4, <1>6

\* What the step of a call does: Result.
LEMMA ResultIs ==
    ASSUME NEW c, NEW ok \in BOOLEAN, c \in Calls, Result(c, ok), TranscriptTypes
    PROVE  /\ turns' = Append(turns, ToolResult(c.id, ok)) /\ ToolResult(c.id, ok) \in Results
           /\ ledger' = Append(ledger, [tool |-> c.name, ok |-> ok])
           /\ [tool |-> c.name, ok |-> ok] \in Entries
           /\ pending' = Tail(pending)
           /\ turns' \in Seq(Turns) /\ ledger' \in Seq(Entries) /\ traffic' \in Seq(Entries)
<1>1. ToolResult(c.id, ok) \in Results /\ ToolResult(c.id, ok) \in Turns
  BY DEF ToolResult, Results, Calls, Turns
<1>2. [tool |-> c.name, ok |-> ok] \in Entries
  BY DEF Entries, Calls
<1>3. traffic' \in Seq(Entries)
  <2> DEFINE rec == [tool |-> c.name, ok |-> ok]
  <2>1. traffic' = traffic \/ traffic' = Append(traffic, rec)
    BY DEF Result, Written
  <2>2. traffic \in Seq(Entries) /\ rec \in Entries
    BY <1>2 DEF TranscriptTypes
  <2> HIDE DEF rec
  <2> QED
    BY <2>1, <2>2
<1> QED
  BY <1>1, <1>2, <1>3 DEF Result, TranscriptTypes

Untouched == UNCHANGED <<turns, ledger, traffic, sink, pending>>
Answered == pending # <<>> /\ \E ok \in BOOLEAN : Result(Head(pending), ok)
Positioned == /\ end' \in EndReasons /\ loop' # "idle"
              /\ loop' = "exec" => pending' # <<>>
              /\ loop' = "model" => pending' = <<>>

\* A step of the loop leaves the transcript alone, or adds a reply or the result of a call.
LEMMA LoopKinds ==
    ASSUME Loop, TranscriptTypes
    PROVE  /\ Positioned
           /\ loop \in Going \ {"idle"} /\ pc = "loop" /\ pc' = "loop" /\ UNCHANGED <<state, notes>>
           /\ Untouched \/ ModelAnswers \/ Answered
<1>0. /\ end \in EndReasons /\ (loop = "exec" => pending # <<>>) /\ (loop = "model" => pending = <<>>)
      /\ pc = "loop" /\ pc' = "loop" /\ UNCHANGED <<state, notes>>
  BY DEF Loop, runVars, TranscriptTypes
<1>1. loop \in Going \ {"idle"}
  BY DEF Going, Loop, LoopStep, LoopTimedOut, StepCap, AskModel, Top, ModelAnswers, ModelFails,
     CallsCannotComplete, RefuseCall, ExecCall, ToolAnswers, TransportFails, StopNow
<1>2. /\ loop' \in {"calls", "exec", "model", "stop when", "ended"}
      /\ loop' = "exec" => ExecCall
      /\ loop' = "model" => AskModel
  BY DEF Loop, LoopStep, LoopTimedOut, StepCap, AskModel, Top, ModelAnswers, ModelFails, End,
     CallsCannotComplete, RefuseCall, ExecCall, ToolAnswers, TransportFails, StopNow
<1>3. /\ ExecCall => pending # <<>> /\ pending' = pending
      /\ AskModel => pending = <<>> /\ pending' = pending
  BY DEF ExecCall, AskModel, Top
<1>4. end' \in EndReasons
  <2> USE <1>0 DEF End, EndReasons
  <2>1. CASE LoopTimedOut \/ StepCap \/ AskModel \/ ModelAnswers
    BY <2>1 DEF LoopTimedOut, StepCap, AskModel, ModelAnswers
  <2>2. CASE ModelFails \/ CallsCannotComplete \/ RefuseCall \/ ExecCall
    BY <2>2 DEF ModelFails, CallsCannotComplete, RefuseCall, ExecCall
  <2>3. CASE ToolAnswers \/ TransportFails \/ StopNow
    BY <2>3 DEF ToolAnswers, TransportFails, StopNow
  <2> QED
    BY <2>1, <2>2, <2>3 DEF Loop, LoopStep
<1>5. Untouched \/ ModelAnswers \/ Answered
  <2>5. CASE LoopTimedOut \/ StepCap \/ AskModel \/ ModelFails \/ CallsCannotComplete \/ ExecCall \/ StopNow
    BY <2>5 DEF LoopTimedOut, StepCap, AskModel, ModelFails, CallsCannotComplete, ExecCall, StopNow, Untouched
  <2>6. CASE RefuseCall
    BY <2>6 DEF RefuseCall, Answered
  <2>7. CASE ToolAnswers
    <3>1. PICK a \in Answers : Result(Head(pending), CallOutcome(a) = "ok")
      BY <2>7 DEF ToolAnswers
    <3>2. (CallOutcome(a) = "ok") \in BOOLEAN
      OBVIOUS
    <3>3. pending # <<>>
      BY <1>0, <2>7 DEF ToolAnswers
    <3> QED
      BY <3>1, <3>2, <3>3 DEF Answered
  <2>8. CASE TransportFails
    <3>1. loop = "exec" /\ Result(Head(pending), FALSE)
      BY <2>8 DEF TransportFails
    <3>2. FALSE \in BOOLEAN
      OBVIOUS
    <3> QED
      BY <1>0, <3>1, <3>2 DEF Answered
  <2> QED
    BY <2>5, <2>6, <2>7, <2>8 DEF Loop, LoopStep
<1> QED
  BY <1>0, <1>1, <1>2, <1>3, <1>4, <1>5 DEF Positioned

\* Outside the loop nothing touches the transcript and its accounts.
LEMMA OutsideLoop ==
    ASSUME [RunNext]_agentVars, end \in EndReasons, ~Loop, ~LoopReturns
    PROVE  /\ UNCHANGED <<turns, ledger, traffic, pending>> /\ end' \in EndReasons
           /\ loop' = loop \/ (loop = "idle" /\ loop' = "calls")
           /\ sink' = sink \/ OpenTraffic
           /\ Finish \/ (notes' = notes /\ (pc' = "exited" => pc \in {"start", "lock", "exited"} /\ state' = state))
           /\ pc' \in {"start", "lock", "traffic"} => pc \in {"start", "lock", "traffic"}
<1>1. CASE SetupStep
  <2> USE DEF Setup, At, FinishWithoutLoop
  <2>1. /\ UNCHANGED <<turns, ledger, traffic, pending, notes>>
        /\ loop' = loop \/ RunStarts
        /\ sink' = sink \/ OpenTraffic
        /\ end' = end \/ end' \in {"model_error", "tool_error"}
    BY <1>1 DEF SetupStep, Refused, Addressed, Lock, OpenTraffic, ResolveModel, Derive, Launch, LaunchFails,
       Handshake, HandshakeFails, Connect, RunStarts
  <2>2. /\ pc' = "exited" => Refused \/ Lock
        /\ pc' \in {"start", "lock", "traffic"} => Addressed \/ Lock
    BY <1>1 DEF SetupStep, Refused, Addressed, Lock, OpenTraffic, ResolveModel, Derive, Launch, LaunchFails,
       Handshake, HandshakeFails, Connect, RunStarts
  <2>3. /\ RunStarts => loop' = loop \/ (loop = "idle" /\ loop' = "calls")
        /\ Refused => pc = "start" /\ state' = state
        /\ Lock => pc = "lock" /\ state' = state
        /\ Addressed => pc = "start"
    BY DEF RunStarts, Refused, Lock, Addressed
  <2>4. end' \in EndReasons
    BY <2>1 DEF EndReasons
  <2> QED
    BY <2>1, <2>2, <2>3, <2>4
<1>2. CASE Verdict
  BY <1>2 DEF Verdict, At, loopVars
<1>3. CASE Finish
  BY <1>3 DEF Finish, At, loopVars
<1>4. CASE Expire \/ SigTerm \/ HolderCancels \/ ObserveCancel
  BY <1>4 DEF Expire, SigTerm, HolderCancels, ObserveCancel, loopVars, runVars, Running
<1>5. CASE UNCHANGED agentVars
  BY <1>5 DEF agentVars, loopVars, runVars
<1> QED
  BY <1>1, <1>2, <1>3, <1>4, <1>5 DEF RunNext

\* The end of the loop is a terminal turn.
LEMMA LoopReturnsIs ==
    ASSUME LoopReturns, TranscriptTypes
    PROVE  /\ turns' = Append(turns, Terminal(end)) /\ Terminal(end) \in Plain
           /\ UNCHANGED <<ledger, traffic, pending, sink, end, state, notes>> /\ loop' = "returned" /\ pc' = "returned"
BY DEF LoopReturns, TranscriptTypes, Plain, Terminal

\* A reply: its turns are appended, its calls are pending.
LEMMA ReplyIs ==
    ASSUME ModelAnswers, turns \in Seq(Turns)
    PROVE  \E new \in Seq(Turns) :
             /\ turns' = turns \o new /\ pending' = Of("tool_call", new)
             /\ UNCHANGED <<ledger, traffic, sink>>
             /\ loop' # "ended" => pending' # <<>>
             /\ \A i \in DOMAIN new : new[i] = Text \/ (new[i] \in Calls /\ new[i].id = Len(turns) + i)
<1>1. PICK reply \in Replies :
        /\ turns' = turns \o Numbered(reply) /\ pending' = Of("tool_call", Numbered(reply))
        /\ loop' # "ended" => pending' # <<>>
  BY DEF ModelAnswers, End
<1>2. UNCHANGED <<ledger, traffic, sink>>
  BY DEF ModelAnswers
<1>3. /\ Numbered(reply) \in Seq(Turns)
      /\ \A i \in DOMAIN Numbered(reply) :
           \/ Numbered(reply)[i] = Text
           \/ Numbered(reply)[i] \in Calls /\ Numbered(reply)[i].id = Len(turns) + i
  BY ReplyTurns
<1> QED
  BY <1>1, <1>2, <1>3

\* What a longer sequence keeps.
LEMMA Longer ==
    ASSUME NEW T, NEW ts \in Seq(T), NEW us \in Seq(T)
    PROVE  /\ ts \o us \in Seq(T) /\ DOMAIN ts \subseteq DOMAIN (ts \o us)
           /\ \A i \in DOMAIN ts : (ts \o us)[i] = ts[i]
           /\ \A i \in DOMAIN us : Len(ts) + i \in DOMAIN (ts \o us) /\ (ts \o us)[Len(ts) + i] = us[i]
           /\ \A j \in DOMAIN (ts \o us) : j \in DOMAIN ts \/ \E i \in DOMAIN us : j = Len(ts) + i
<1>1. ASSUME NEW j \in DOMAIN (ts \o us), j \notin DOMAIN ts
      PROVE  \E i \in DOMAIN us : j = Len(ts) + i
  <2>1. j - Len(ts) \in DOMAIN us /\ j = Len(ts) + (j - Len(ts))
    BY <1>1
  <2> QED
    BY <2>1
<1> QED
  BY <1>1

\* The same for one element more.
LEMMA LongerByOne ==
    ASSUME NEW T, NEW ts \in Seq(T), NEW t \in T
    PROVE  /\ Append(ts, t) \in Seq(T) /\ DOMAIN Append(ts, t) = DOMAIN ts \cup {Len(ts) + 1}
           /\ Len(Append(ts, t)) = Len(ts) + 1
           /\ \A i \in DOMAIN ts : Append(ts, t)[i] = ts[i]
           /\ Append(ts, t)[Len(ts) + 1] = t
OBVIOUS

\* The head and the tail.
LEMMA ShorterByOne ==
    ASSUME NEW T, NEW ts \in Seq(T), ts # <<>>
    PROVE  /\ Head(ts) \in T /\ Head(ts) = ts[1] /\ 1 \in DOMAIN ts /\ Tail(ts) \in Seq(T)
           /\ Len(ts) = Len(Tail(ts)) + 1
           /\ \A i \in DOMAIN Tail(ts) : i + 1 \in DOMAIN ts /\ Tail(ts)[i] = ts[i + 1]
OBVIOUS

\* The calls of a reply, with the places they have in the transcript.
Placed(ts) == {c \in Calls : c.id \in DOMAIN ts /\ ts[c.id] = c}

\* The calls of a reply are where their ids say.
LEMMA ReplyPlaced ==
    ASSUME NEW new \in Seq(Turns), turns \in Seq(Turns),
           \A i \in DOMAIN new : new[i] = Text \/ (new[i] \in Calls /\ new[i].id = Len(turns) + i)
    PROVE  Of("tool_call", new) \in Seq(Placed(turns \o new))
<1>1. ASSUME NEW i \in DOMAIN new, new[i].type = "tool_call"
      PROVE  new[i] \in Placed(turns \o new)
  <2>1. new[i] \in Calls /\ new[i].id = Len(turns) + i
    BY <1>1 DEF Text
  <2>2. Len(turns) + i \in DOMAIN (turns \o new) /\ (turns \o new)[Len(turns) + i] = new[i]
    BY Longer
  <2> QED
    BY <2>1, <2>2 DEF Placed
<1> QED
  BY <1>1, OfMember

\* A run starts with an empty transcript and no account of it.
LEMMA TranscriptStart == RunInit => TranscriptTypes /\ CallsNumbered /\ Ledgered /\ Recorded
<1> SUFFICES ASSUME RunInit PROVE TranscriptTypes /\ CallsNumbered /\ Ledgered /\ Recorded
  OBVIOUS
<1>1. turns = <<>> /\ ledger = <<>> /\ traffic = <<>> /\ pending = <<>> /\ loop = "idle" /\ end = ""
      /\ pc = "start" /\ sink = "none"
  BY DEF RunInit, LoopInit
<1>2. TranscriptTypes
  <2>1. <<>> \in Seq(Turns) /\ <<>> \in Seq(Calls) /\ <<>> \in Seq(Entries)
    OBVIOUS
  <2>2. end \in EndReasons
    BY <1>1 DEF EndReasons
  <2> QED
    BY <1>1, <2>1, <2>2 DEF TranscriptTypes
<1>3. Of("tool_result", turns) = <<>>
  BY <1>1, OfEmpty
<1>3a. DOMAIN turns = {} /\ DOMAIN pending = {} /\ DOMAIN ledger = {}
  <2>1. DOMAIN <<>> = {}
    OBVIOUS
  <2> QED
    BY <1>1, <2>1
<1>4. CallsNumbered
  BY <1>3a DEF CallsNumbered
<1>5. Ledgered
  BY <1>1, <1>3, <1>3a DEF Ledgered
<1>6. Recorded
  BY <1>1 DEF Recorded
<1> QED
  BY <1>2, <1>4, <1>5, <1>6

\* The kinds of step, as far as the transcript is concerned.
Still == UNCHANGED <<turns, ledger, traffic, pending>>

\* Every step is one of four, as far as the transcript is concerned.
LEMMA StepKinds ==
    ASSUME TranscriptTypes, [RunNext]_agentVars
    PROVE  /\ end' \in EndReasons
           /\ Still \/ (Loop /\ ModelAnswers) \/ (Loop /\ Answered) \/ LoopReturns
           /\ loop' = "idle" => loop = "idle" /\ Still
           /\ loop' = "exec" /\ loop # "exec" => pending' # <<>>
           /\ loop' = "model" /\ loop # "model" => pending' = <<>>
           /\ ~Loop /\ ~LoopReturns => Still
<1>0. end \in EndReasons
  BY DEF TranscriptTypes
<1>1. CASE Loop
  BY <1>1, LoopKinds DEF Positioned, Untouched, Still, LoopReturns, Loop
<1>2. CASE LoopReturns
  BY <1>0, <1>2, LoopReturnsIs
<1>3. CASE ~Loop /\ ~LoopReturns
  BY <1>0, <1>3, OutsideLoop DEF Still
<1> QED
  BY <1>1, <1>2, <1>3

\* The transcript and its accounts keep their types.
LEMMA TranscriptTypesStep ==
    ASSUME TranscriptTypes, [RunNext]_agentVars
    PROVE  TranscriptTypes'
<1>0. turns \in Seq(Turns) /\ pending \in Seq(Calls) /\ ledger \in Seq(Entries) /\ traffic \in Seq(Entries)
  BY DEF TranscriptTypes
<1>1. turns' \in Seq(Turns) /\ pending' \in Seq(Calls) /\ ledger' \in Seq(Entries) /\ traffic' \in Seq(Entries)
  <2>1. CASE Still
    BY <1>0, <2>1 DEF Still
  <2>2. CASE ModelAnswers
    <3>1. PICK new \in Seq(Turns) :
            /\ turns' = turns \o new /\ pending' = Of("tool_call", new)
            /\ UNCHANGED <<ledger, traffic, sink>>
            /\ \A i \in DOMAIN new : new[i] = Text \/ (new[i] \in Calls /\ new[i].id = Len(turns) + i)
      BY <1>0, <2>2, ReplyIs
    <3>2. turns' \in Seq(Turns)
      BY <1>0, <3>1
    <3>3. pending' \in Seq(Calls)
      <4>1. \A i \in DOMAIN new : new[i].type = "tool_call" => new[i] \in Calls
        BY <3>1 DEF Text
      <4> QED
        BY <3>1, <4>1, OfMember
    <3> QED
      BY <1>0, <3>1, <3>2, <3>3
  <2>3. CASE Answered
    <3>1. PICK ok \in BOOLEAN : pending # <<>> /\ Result(Head(pending), ok)
      BY <2>3 DEF Answered
    <3>2. Head(pending) \in Calls /\ Tail(pending) \in Seq(Calls)
      BY <1>0, <3>1
    <3> QED
      BY <3>1, <3>2, ResultIs
  <2>4. CASE LoopReturns
    <3>1. turns' = Append(turns, Terminal(end)) /\ Terminal(end) \in Turns /\ UNCHANGED <<ledger, traffic, pending>>
      BY <2>4, LoopReturnsIs DEF Turns
    <3> QED
      BY <1>0, <3>1
  <2> QED
    BY <2>1, <2>2, <2>3, <2>4, StepKinds
<1>2. loop' = "idle" => turns' = <<>> /\ pending' = <<>> /\ ledger' = <<>> /\ traffic' = <<>>
  BY StepKinds DEF TranscriptTypes, Still
<1>3. (loop' = "exec" => pending' # <<>>) /\ (loop' = "model" => pending' = <<>>)
  <2>1. CASE Loop
    BY <2>1, LoopKinds DEF Positioned
  <2>2. CASE LoopReturns
    BY <2>2, LoopReturnsIs
  <2>3. CASE ~Loop /\ ~LoopReturns
    BY <2>3, OutsideLoop DEF TranscriptTypes
  <2> QED
    BY <2>1, <2>2, <2>3
<1> QED
  BY <1>1, <1>2, <1>3, StepKinds DEF TranscriptTypes

\* A call is at the place its id names, pending or not.
LEMMA CallsNumberedStep ==
    ASSUME TranscriptTypes, CallsNumbered, [RunNext]_agentVars
    PROVE  CallsNumbered'
<1>0. turns \in Seq(Turns) /\ pending \in Seq(Calls)
  BY DEF TranscriptTypes
<1>1. CASE Still
  BY <1>1 DEF Still, CallsNumbered
<1>2. CASE ModelAnswers
  <2>1. PICK new \in Seq(Turns) :
          /\ turns' = turns \o new /\ pending' = Of("tool_call", new)
          /\ \A i \in DOMAIN new : new[i] = Text \/ (new[i] \in Calls /\ new[i].id = Len(turns) + i)
    BY <1>0, <1>2, ReplyIs
  <2>2. pending' \in Seq(Placed(turns'))
    BY <1>0, <2>1, ReplyPlaced
  <2>3. \A m \in DOMAIN pending' : pending'[m] \in Placed(turns')
    BY <2>2
  <2>4. ASSUME NEW k \in DOMAIN turns', turns'[k].type = "tool_call" PROVE turns'[k].id = k
    <3>1. CASE k \in DOMAIN turns
      <4>1. turns'[k] = turns[k]
        BY <1>0, <2>1, <3>1, Longer
      <4> QED
        BY <2>4, <3>1, <4>1 DEF CallsNumbered
    <3>2. CASE k \notin DOMAIN turns
      <4>1. PICK i \in DOMAIN new : k = Len(turns) + i /\ turns'[k] = new[i]
        BY <1>0, <2>1, <2>4, <3>2, Longer
      <4> QED
        BY <2>1, <2>4, <4>1 DEF Text
    <3> QED
      BY <3>1, <3>2
  <2> QED
    BY <2>3, <2>4 DEF CallsNumbered, Placed
<1>3. CASE Answered \/ LoopReturns
  <2>1. PICK t \in Turns : turns' = Append(turns, t) /\ t.type # "tool_call"
    <3>1. CASE Answered
      <4>1. PICK ok \in BOOLEAN : pending # <<>> /\ Result(Head(pending), ok)
        BY <3>1 DEF Answered
      <4>2. Head(pending) \in Calls
        BY <1>0, <4>1
      <4>3. turns' = Append(turns, ToolResult(Head(pending).id, ok)) /\ ToolResult(Head(pending).id, ok) \in Results
        BY <4>1, <4>2, ResultIs
      <4> QED
        BY <4>3 DEF Results, Turns
    <3>2. CASE LoopReturns
      <4>1. Terminal(end).type # "tool_call"
        BY DEF Terminal
      <4> QED
        BY <3>2, <4>1, LoopReturnsIs DEF Turns
    <3> QED
      BY <1>3, <3>1, <3>2
  <2>2. /\ DOMAIN turns' = DOMAIN turns \cup {Len(turns) + 1} /\ turns'[Len(turns) + 1] = t
        /\ \A i \in DOMAIN turns : turns'[i] = turns[i]
    BY <1>0, <2>1, LongerByOne
  <2>3. \A m \in DOMAIN pending' : \E n \in DOMAIN pending : pending'[m] = pending[n]
    <3>1. CASE LoopReturns
      BY <3>1, LoopReturnsIs
    <3>2. CASE Answered
      <4>1. pending # <<>> /\ pending' = Tail(pending)
        BY <3>2 DEF Answered, Result
      <4>2. \A i \in DOMAIN Tail(pending) : i + 1 \in DOMAIN pending /\ Tail(pending)[i] = pending[i + 1]
        BY <1>0, <4>1, ShorterByOne
      <4> QED
        BY <4>1, <4>2
    <3> QED
      BY <1>3, <3>1, <3>2
  <2> QED
    BY <2>1, <2>2, <2>3 DEF CallsNumbered
<1> QED
  BY <1>1, <1>2, <1>3, StepKinds

\* A result and its entry in the ledger come together.
LEMMA LedgeredStep ==
    ASSUME TranscriptTypes, CallsNumbered, Ledgered, [RunNext]_agentVars
    PROVE  Ledgered'
<1> DEFINE results == Of("tool_result", turns)
<1>0. turns \in Seq(Turns) /\ pending \in Seq(Calls) /\ ledger \in Seq(Entries)
  BY DEF TranscriptTypes
<1>a. results \in Seq(Turns)
  <2>1. Text \in Turns
    BY DEF Turns, Plain
  <2> QED
    BY <1>0, <2>1, OfAppend
<1>b. /\ Len(results) = Len(ledger)
      /\ \A k \in DOMAIN ledger :
           /\ results[k].id \in DOMAIN turns /\ turns[results[k].id].type = "tool_call"
           /\ ledger[k] = [tool |-> turns[results[k].id].name, ok |-> results[k].ok]
  BY DEF Ledgered
<1>1. CASE Still
  <2>1. results' = results
    BY <1>1 DEF Still
  <2> QED
    BY <1>1, <1>b, <2>1 DEF Still, Ledgered
<1>2. CASE ModelAnswers
  <2>1. PICK new \in Seq(Turns) :
          /\ turns' = turns \o new /\ ledger' = ledger
          /\ \A i \in DOMAIN new : new[i] = Text \/ (new[i] \in Calls /\ new[i].id = Len(turns) + i)
    BY <1>0, <1>2, ReplyIs
  <2>2. \A i \in DOMAIN new : new[i].type # "tool_result"
    BY <2>1 DEF Text, Calls
  <2>3. results' = results
    BY <1>0, <2>1, <2>2, OfOthers
  <2>4. DOMAIN turns \subseteq DOMAIN turns' /\ \A i \in DOMAIN turns : turns'[i] = turns[i]
    BY <1>0, <2>1, Longer
  <2> HIDE DEF results
  <2>5. Len(results') = Len(ledger') /\ \A k \in DOMAIN ledger' :
           /\ results'[k].id \in DOMAIN turns' /\ turns'[results'[k].id].type = "tool_call"
           /\ ledger'[k] = [tool |-> turns'[results'[k].id].name, ok |-> results'[k].ok]
    BY <1>b, <2>1, <2>3, <2>4
  <2> QED
    BY <2>5 DEF Ledgered, results
<1>3. CASE Answered
  <2>1. PICK ok \in BOOLEAN : pending # <<>> /\ Result(Head(pending), ok)
    BY <1>3 DEF Answered
  <2> DEFINE c == Head(pending)
             r == ToolResult(c.id, ok)
             entry == [tool |-> c.name, ok |-> ok]
  <2>2. c \in Calls /\ c = pending[1] /\ 1 \in DOMAIN pending
    BY <1>0, <2>1, ShorterByOne
  <2>3. /\ turns' = Append(turns, r) /\ r \in Results
        /\ ledger' = Append(ledger, entry) /\ entry \in Entries
    BY <2>1, <2>2, ResultIs
  <2>4. r \in Turns /\ r.type = "tool_result" /\ r.id = c.id /\ r.ok = ok
    BY <2>3 DEF Turns, Results, ToolResult
  <2>5. c.id \in DOMAIN turns /\ turns[c.id] = c /\ c.type = "tool_call"
    BY <2>2 DEF CallsNumbered, Calls
  <2> HIDE DEF c, r
  <2>6. results' = Append(results, r)
    BY <1>0, <2>3, <2>4, OfAppend
  <2>7. DOMAIN turns \subseteq DOMAIN turns' /\ \A i \in DOMAIN turns : turns'[i] = turns[i]
    BY <1>0, <2>3, <2>4, LongerByOne
  <2>8. /\ DOMAIN ledger' = DOMAIN ledger \cup {Len(ledger) + 1} /\ ledger'[Len(ledger) + 1] = entry
        /\ \A i \in DOMAIN ledger : ledger'[i] = ledger[i]
        /\ Len(ledger') = Len(ledger) + 1
    BY <1>0, <2>3, LongerByOne
  <2> HIDE DEF results
  <2>9. /\ DOMAIN results' = DOMAIN results \cup {Len(results) + 1} /\ results'[Len(results) + 1] = r
        /\ \A i \in DOMAIN results : results'[i] = results[i]
        /\ Len(results') = Len(results) + 1
    BY <1>a, <2>4, <2>6, LongerByOne
  <2>10. ASSUME NEW k \in DOMAIN ledger'
         PROVE  /\ results'[k].id \in DOMAIN turns' /\ turns'[results'[k].id].type = "tool_call"
                /\ ledger'[k] = [tool |-> turns'[results'[k].id].name, ok |-> results'[k].ok]
    <3>1. CASE k \in DOMAIN ledger
      <4>1. k \in DOMAIN results
        BY <1>0, <1>a, <1>b, <3>1
      <4>2. results'[k] = results[k] /\ ledger'[k] = ledger[k]
        BY <2>8, <2>9, <3>1, <4>1
      <4>3. results[k].id \in DOMAIN turns /\ turns'[results[k].id] = turns[results[k].id]
        BY <1>b, <2>7, <3>1
      <4> QED
        BY <1>b, <2>7, <3>1, <4>2, <4>3
    <3>2. CASE k \notin DOMAIN ledger
      <4>1. k = Len(ledger) + 1 /\ results'[k] = r /\ ledger'[k] = entry
        BY <1>b, <2>8, <2>9, <3>2
      <4> QED
        BY <2>4, <2>5, <2>7, <4>1
    <3> QED
      BY <3>1, <3>2
  <2>11. Len(results') = Len(ledger')
    BY <1>b, <2>8, <2>9
  <2> QED
    BY <2>10, <2>11 DEF Ledgered, results
<1>4. CASE LoopReturns
  <2>1. turns' = Append(turns, Terminal(end)) /\ Terminal(end) \in Turns /\ ledger' = ledger
    BY <1>4, LoopReturnsIs DEF Turns
  <2>2. Terminal(end).type # "tool_result"
    BY DEF Terminal
  <2>3. results' = results
    BY <1>0, <2>1, <2>2, OfAppend
  <2>4. DOMAIN turns \subseteq DOMAIN turns' /\ \A i \in DOMAIN turns : turns'[i] = turns[i]
    BY <1>0, <2>1, LongerByOne
  <2> HIDE DEF results
  <2>5. Len(results') = Len(ledger') /\ \A k \in DOMAIN ledger' :
           /\ results'[k].id \in DOMAIN turns' /\ turns'[results'[k].id].type = "tool_call"
           /\ ledger'[k] = [tool |-> turns'[results'[k].id].name, ok |-> results'[k].ok]
    BY <1>b, <2>1, <2>3, <2>4
  <2> QED
    BY <2>5 DEF Ledgered, results
<1> QED
  BY <1>1, <1>2, <1>3, <1>4, StepKinds

\* An open sink has every entry, and a loss is noted before the run is over.
LEMMA RecordedStep ==
    ASSUME Positions, Causes, TranscriptTypes, Ledgered, Recorded, [RunNext]_agentVars
    PROVE  Recorded'
<1> USE DEF Recorded
<1>1. CASE Loop
  <2>1. pc = "loop" /\ pc' = "loop"
    BY <1>1, LoopKinds
  <2>2. CASE Untouched
    BY <2>1, <2>2 DEF Untouched
  <2>3. CASE ModelAnswers
    BY <2>1, <2>3 DEF ModelAnswers
  <2>4. CASE Answered
    <3>1. PICK ok \in BOOLEAN : pending # <<>> /\ Result(Head(pending), ok)
      BY <2>4 DEF Answered
    <3>2. /\ sink' \in {"open", "none", "failed"}
          /\ sink' = "open" => sink = "open" /\ traffic' = Append(traffic, [tool |-> Head(pending).name, ok |-> ok])
      BY <3>1 DEF Result, Written
    <3>3. ledger' = Append(ledger, [tool |-> Head(pending).name, ok |-> ok])
      BY <3>1 DEF Result
    <3> QED
      BY <2>1, <3>2, <3>3
  <2> QED
    BY <1>1, <2>2, <2>3, <2>4, LoopKinds
<1>2. CASE LoopReturns
  BY <1>2, LoopReturnsIs
<1>3. CASE Finish
  <2>1. /\ UNCHANGED <<sink, traffic, ledger>> /\ pc' = "exited"
        /\ sink = "failed" => "traffic lost records" \in notes'
        /\ sink = "none" => "no traffic" \in notes'
    BY <1>3 DEF Finish, At, loopVars
  <2> QED
    BY <2>1
<1>4. CASE ~Loop /\ ~LoopReturns /\ ~Finish
  <2>1. end \in EndReasons
    BY DEF TranscriptTypes
  <2>2. /\ UNCHANGED <<ledger, traffic>>
        /\ sink' = sink \/ OpenTraffic
        /\ notes' = notes /\ (pc' = "exited" => pc \in {"start", "lock", "exited"} /\ state' = state)
        /\ pc' \in {"start", "lock", "traffic"} => pc \in {"start", "lock", "traffic"}
    BY <1>4, <2>1, OutsideLoop
  <2>a. traffic' = traffic /\ ledger' = ledger
    BY <2>2
  <2>b. notes' = notes /\ (pc = "exited" /\ state # "" /\ traffic # ledger
                           => notes \cap {"traffic lost records", "no traffic"} # {})
    BY <2>2
  <2>3. pc \in {"start", "lock"} => state = ""
    BY DEF Causes
  <2>4. CASE OpenTraffic
    <3>1. pc = "traffic" /\ pc' = "resolve" /\ sink' \in {"open", "none"}
      BY <2>4 DEF OpenTraffic, At
    <3>2. loop = "idle"
      BY <3>1 DEF Positions, SetUp
    <3>3. ledger = <<>> /\ traffic = <<>>
      BY <3>2 DEF TranscriptTypes
    <3>4. traffic' = ledger'
      BY <2>a, <3>3
    <3> QED
      BY <3>1, <3>4
  <2>5. CASE sink' = sink /\ ~OpenTraffic
    <3>1. pc' \in {"start", "lock", "traffic"} => pc \in {"start", "lock", "traffic"}
      BY <2>2
    <3>2. pc' = "exited" /\ state' # "" => pc = "exited" /\ state # ""
      BY <2>2, <2>3
    <3>3. sink' \in {"open", "none", "failed"} /\ (sink' = "open" => traffic' = ledger')
      BY <2>2, <2>5
    <3>4. pc' \in {"start", "lock", "traffic"} => sink' = "none"
      BY <2>5, <3>1
    <3>5. pc' = "exited" /\ state' # "" /\ traffic' # ledger'
            => notes' \cap {"traffic lost records", "no traffic"} # {}
      BY <2>a, <2>b, <3>2
    <3> QED
      BY <3>3, <3>4, <3>5
  <2> QED
    BY <2>2, <2>4, <2>5
<1> QED
  BY <1>1, <1>2, <1>3, <1>4

\* What the invariant says of the accounts.
LEMMA AccountsFollow ==
    ASSUME TranscriptTypes, CallsNumbered, Ledgered, Recorded
    PROVE  AccountsAgree
<1>1. ASSUME NEW i \in DOMAIN turns, turns[i].type = "tool_call"
      PROVE  CallOf(i) = i
  <2>1. turns[i].id = i
    BY <1>1 DEF CallsNumbered
  <2>2. \A k \in DOMAIN turns : turns[k].type = "tool_call" /\ turns[k].id = i => k = i
    BY DEF CallsNumbered
  <2> QED
    BY <1>1, <2>1, <2>2 DEF CallOf
<1> DEFINE results == Of("tool_result", turns)
<1>2. Len(results) = Len(ledger)
  BY DEF Ledgered
<1>3. ASSUME NEW k \in DOMAIN ledger
      PROVE  ledger[k].ok = results[k].ok /\ ledger[k].tool = turns[CallOf(results[k].id)].name
  <2>1. /\ results[k].id \in DOMAIN turns /\ turns[results[k].id].type = "tool_call"
        /\ ledger[k] = [tool |-> turns[results[k].id].name, ok |-> results[k].ok]
    BY DEF Ledgered
  <2>2. CallOf(results[k].id) = results[k].id
    BY <1>1, <2>1
  <2> QED
    BY <2>1, <2>2
<1> QED
  BY <1>2, <1>3 DEF AccountsAgree, Recorded

\* It holds at first
LEMMA AccountedStart == RunInit => Accounted
BY PositionsStart, TranscriptStart DEF Accounted

\* and after every step.
LEMMA AccountedStep == Accounted /\ [RunNext]_agentVars => Accounted'
<1> SUFFICES ASSUME Accounted, [RunNext]_agentVars PROVE Accounted'
  OBVIOUS
<1>1. Positions /\ Causes /\ TranscriptTypes /\ CallsNumbered /\ Ledgered /\ Recorded
  BY DEF Accounted
<1>2. Positions'
  BY <1>1, PositionsStep
<1>3. Causes'
  BY <1>1, CausesStep
<1>4. TranscriptTypes'
  BY <1>1, TranscriptTypesStep
<1>5. CallsNumbered'
  BY <1>1, CallsNumberedStep
<1>6. Ledgered'
  BY <1>1, LedgeredStep
<1>7. Recorded'
  BY <1>1, RecordedStep
<1> QED
  BY <1>2, <1>3, <1>4, <1>5, <1>6, <1>7 DEF Accounted

\* AccountsAgree (loop.go:299-372, agent.go:566-584): the ledger has one entry per result,
\* in order, and a traffic file that lacks one is said so.
THEOREM RunAccountsAgree == RunSpec => []AccountsAgree
<1>1. RunInit => Accounted
  BY AccountedStart
<1>2. Accounted /\ [RunNext]_agentVars => Accounted'
  BY AccountedStep
<1>3. Accounted => AccountsAgree
  BY AccountsFollow DEF Accounted
<1> QED
  BY <1>1, <1>2, <1>3, PTL DEF RunSpec

-----------------------------------------------------------------------------
(***************************************************************************)
(* The messages of a request. A reply becomes one message of its own, which*)
(* the next results answer; between two requests the form says what the    *)
(* messages still lack: the results of the pending calls.                  *)
(***************************************************************************)

\* Of one turn.
LEMMA OfOne ==
    ASSUME NEW type, NEW t \in Turns
    PROVE  Of(type, <<t>>) = IF t.type = type THEN <<t>> ELSE <<>>
<1> DEFINE e == <<>>
<1>1. e \in Seq(Turns) /\ Append(e, t) = <<t>>
  OBVIOUS
<1>2. Of(type, e) = <<>>
  BY OfEmpty
<1> HIDE DEF e
<1>3. Of(type, Append(e, t)) = IF t.type = type THEN Append(Of(type, e), t) ELSE Of(type, e)
  BY <1>1, OfAppend
<1> QED
  BY <1>1, <1>2, <1>3

\* The ids of one turn.
LEMMA IdsOne ==
    ASSUME NEW type, NEW t \in Turns
    PROVE  Ids(<<t>>, type) = IF t.type = type THEN <<t.id>> ELSE <<>>
<1>1. CASE t.type = type
  <2>1. Of(type, <<t>>) = <<t>>
    BY <1>1, OfOne
  <2> QED
    BY <1>1, <2>1 DEF Ids
<1>2. CASE t.type # type
  <2>1. Of(type, <<t>>) = <<>>
    BY <1>2, OfOne
  <2> QED
    BY <1>2, <2>1 DEF Ids
<1> QED
  BY <1>1, <1>2

\* The ids of turns of other types.
LEMMA IdsNone ==
    ASSUME NEW type, NEW ts \in Seq(Turns), \A i \in DOMAIN ts : ts[i].type # type
    PROVE  Of(type, ts) = <<>> /\ Ids(ts, type) = <<>>
<1> DEFINE e == <<>>
<1>1. e \in Seq(Turns) /\ e \o ts = ts
  OBVIOUS
<1>2. Of(type, e) = <<>>
  BY OfEmpty
<1> HIDE DEF e
<1>3. Of(type, ts) = <<>>
  BY <1>1, <1>2, OfOthers
<1> QED
  BY <1>3 DEF Ids

\* The turns that have an id.
Kinds == {"tool_call", "tool_result"}

\* Ids are numbers, one for each turn of the type.
LEMMA IdsType ==
    ASSUME NEW type \in Kinds, NEW ts \in Seq(Turns)
    PROVE  /\ Ids(ts, type) \in Seq(Nat) /\ Of(type, ts) \in Seq(Turns)
           /\ Len(Ids(ts, type)) = Len(Of(type, ts))
           /\ \A i \in DOMAIN Of(type, ts) : Ids(ts, type)[i] = Of(type, ts)[i].id
<1> DEFINE G == Calls \cup Results
<1>1. ASSUME NEW i \in DOMAIN ts, ts[i].type = type PROVE ts[i] \in G
  <2>1. ts[i] \in Turns
    OBVIOUS
  <2>2. ts[i] \notin Plain
    BY <1>1 DEF Kinds, Plain, Text, Task
  <2> QED
    BY <2>1, <2>2 DEF Turns
<1>2. \A g \in G : g.id \in Nat /\ g \in Turns
  BY DEF Calls, Results, Turns
<1> HIDE DEF G
<1>3. Of(type, ts) \in Seq(G)
  BY <1>1, OfMember
<1>4. \A i \in DOMAIN Of(type, ts) : Of(type, ts)[i] \in G
  BY <1>3
<1> DEFINE kept == Of(type, ts)
<1>5. Ids(ts, type) = [i \in DOMAIN kept |-> kept[i].id]
  BY DEF Ids
<1>6. kept \in Seq(G) /\ \A i \in DOMAIN kept : kept[i].id \in Nat /\ kept[i] \in Turns
  BY <1>2, <1>3, <1>4
<1> HIDE DEF kept
<1>7. [i \in DOMAIN kept |-> kept[i].id] \in Seq(Nat) /\ kept \in Seq(Turns)
  BY <1>6
<1>8. Len([i \in DOMAIN kept |-> kept[i].id]) = Len(kept)
  BY <1>6
<1>9. \A i \in DOMAIN kept : Ids(ts, type)[i] = kept[i].id
  BY <1>5
<1> QED
  BY <1>5, <1>7, <1>8, <1>9 DEF kept

\* The ids of a turn more.
LEMMA IdsAppend ==
    ASSUME NEW type \in Kinds, NEW ts \in Seq(Turns), NEW t \in Turns
    PROVE  Ids(Append(ts, t), type) = IF t.type = type THEN Append(Ids(ts, type), t.id) ELSE Ids(ts, type)
<1> DEFINE us == Append(ts, t)
           old == Of(type, ts)
           now == Of(type, us)
<1>1. us \in Seq(Turns)
  OBVIOUS
<1>2. now = IF t.type = type THEN Append(old, t) ELSE old
  BY OfAppend
<1>3. Ids(us, type) = [i \in DOMAIN now |-> now[i].id] /\ Ids(ts, type) = [i \in DOMAIN old |-> old[i].id]
  BY DEF Ids
<1>4. old \in Seq(Turns) /\ Ids(ts, type) \in Seq(Nat) /\ Len(Ids(ts, type)) = Len(old)
  BY IdsType
<1> HIDE DEF us, old, now
<1>5. CASE t.type # type
  BY <1>2, <1>3, <1>5 DEF us
<1>6. CASE t.type = type
  <2>1. now = Append(old, t)
    BY <1>2, <1>6
  <2>2. [i \in DOMAIN Append(old, t) |-> Append(old, t)[i].id] = Append([i \in DOMAIN old |-> old[i].id], t.id)
    <3> DEFINE f == [i \in DOMAIN Append(old, t) |-> Append(old, t)[i].id]
               o == [i \in DOMAIN old |-> old[i].id]
    <3>1. DOMAIN Append(old, t) = 1 .. Len(old) + 1 /\ DOMAIN old = 1 .. Len(old) /\ Len(old) \in Nat
      BY <1>4
    <3>2. o \in Seq(Nat) /\ Len(o) = Len(old)
      BY <1>3, <1>4
    <3>3. \A i \in 1 .. Len(old) : f[i] = o[i]
      BY <1>4
    <3>4. f[Len(old) + 1] = t.id
      BY <1>4
    <3>5. DOMAIN f = 1 .. Len(old) + 1
      BY <3>1
    <3>6. f = [i \in DOMAIN f |-> f[i]]
      OBVIOUS
    <3> HIDE DEF f, o
    <3>7. DOMAIN Append(o, t.id) = 1 .. Len(old) + 1
      BY <3>1, <3>2
    <3>8. \A i \in 1 .. Len(old) + 1 : f[i] = Append(o, t.id)[i]
      BY <3>1, <3>2, <3>3, <3>4
    <3>9. Append(o, t.id) = [i \in DOMAIN Append(o, t.id) |-> Append(o, t.id)[i]]
      BY <3>2
    <3>10. f = Append(o, t.id)
      BY <3>5, <3>6, <3>7, <3>8, <3>9
    <3> QED
      BY <3>10 DEF f, o
  <2> QED
    BY <1>3, <1>6, <2>1, <2>2 DEF us
<1> QED
  BY <1>5, <1>6

\* A reply becomes one message.
Reply(b) == [role |-> "assistant", blocks |-> b]
NoAssistant(M) == M # <<>> /\ M[Len(M)].role # "assistant"

\* A reply after a user message is one message of its own.
LEMMA AnthropicReply ==
    ASSUME NEW ts \in Seq(Turns), NEW us \in Seq(Turns), us # <<>>,
           \A i \in DOMAIN us : Role(us[i]) = "assistant",
           NoAssistant(encodeAnthropicMessages(ts))
    PROVE  Joined(encodeAnthropicMessages(ts \o us), encodeAnthropicMessages(ts), Reply(us))
<1> DEFINE Up(m) == ts \o SubSeq(us, 1, m)
           New(m) == SubSeq(us, 1, m)
           E(m) == encodeAnthropicMessages(Up(m))
           M == encodeAnthropicMessages(ts)
           n == Len(us)
           P == {m \in 0 .. n : m = 0 \/ Joined(E(m), M, Reply(New(m)))}
<1>1. Up(0) = ts /\ Up(n) = ts \o us /\ New(n) = us /\ n \in Nat /\ n # 0
  <2>1. SubSeq(us, 1, Len(us)) = us
    OBVIOUS
  <2> QED
    BY <2>1, ByElements
<1>2. ASSUME NEW m \in 1 .. n
      PROVE  Up(m - 1) \in Seq(Turns) /\ Up(m) = Append(Up(m - 1), us[m])
  BY ByElements
<1>3. ASSUME NEW m \in 1 .. n
      PROVE  New(m) = Append(New(m - 1), us[m]) /\ us[m] \in Turns /\ Role(us[m]) = "assistant"
  BY ByElements
<1>4. New(0) = <<>>
  OBVIOUS
<1>4a. M \in Seq(Messages) /\ NoAssistant(M)
  <2>1. Text \in Turns
    BY DEF Turns, Plain
  <2> QED
    BY <2>1, AnthropicAppend
<1> HIDE DEF Up, New, n
<1>5. 0 \in P
  BY <1>1
<1>6. ASSUME NEW m \in 1 .. n, m - 1 \in P PROVE m \in P
  <2> DEFINE t == us[m]
             b == New(m - 1)
  <2>1. t \in Turns /\ Role(t) = "assistant" /\ New(m) = Append(b, t)
    BY <1>3
  <2>2. E(m - 1) \in Seq(Messages) /\ E(m) = appendBlock(E(m - 1), t)
    BY <1>2, <2>1, AnthropicAppend
  <2>3. m - 1 = 0 \/ Joined(E(m - 1), M, Reply(b))
    BY <1>6
  <2>4. m \in 0 .. n
    BY <1>1, <1>6
  <2> HIDE DEF t, b
  <2>5. CASE m - 1 = 0
    <3>1. E(m - 1) = M /\ b = <<>>
      BY <1>1, <1>4, <2>5 DEF b
    <3> HIDE DEF E, M
    <3>2. Joined(E(m), M, [role |-> Role(t), blocks |-> <<t>>])
      BY <1>4a, <2>1, <2>2, <3>1, appendBlockIs DEF NoAssistant
    <3>3. Append(b, t) = <<t>>
      BY <3>1
    <3> QED
      BY <2>1, <2>4, <3>2, <3>3 DEF Reply
  <2>6. CASE Joined(E(m - 1), M, Reply(b))
    <3> HIDE DEF E, M
    <3>1. E(m - 1) # <<>> /\ E(m - 1)[Len(E(m - 1))] = Reply(b)
      BY <1>4a, <2>6, JoinedUnique
    <3>2. Extended(E(m), E(m - 1), t)
      <4> DEFINE e == E(m - 1)
      <4>1. e \in Seq(Messages) /\ e # <<>> /\ e[Len(e)].role = "assistant"
        BY <2>2, <3>1 DEF Reply
      <4> HIDE DEF e
      <4>2. Extended(appendBlock(e, t), e, t)
        BY <2>1, <4>1, appendBlockIs
      <4> QED
        BY <2>2, <4>2 DEF e
    <3>3. Joined(E(m), M, Reply(Append(b, t)))
      BY <1>4a, <2>6, <3>2, JoinedMore DEF Reply
    <3> QED
      BY <2>1, <2>4, <3>3
  <2> QED
    BY <2>3, <2>5, <2>6
<1>7. n \in P
  <2> HIDE DEF P
  <2> QED
    BY <1>1, <1>5, <1>6, UpTo
<1> QED
  BY <1>1, <1>7

\* The same of the other encoder.
LEMMA OpenAIReply ==
    ASSUME NEW ts \in Seq(Turns), NEW us \in Seq(Turns), us # <<>>,
           \A i \in DOMAIN us : OpenAIRole(us[i]) = "assistant",
           NoAssistant(encodeOpenAIMessages(ts))
    PROVE  Joined(encodeOpenAIMessages(ts \o us), encodeOpenAIMessages(ts), Reply(us))
<1> DEFINE Up(m) == ts \o SubSeq(us, 1, m)
           New(m) == SubSeq(us, 1, m)
           E(m) == encodeOpenAIMessages(Up(m))
           M == encodeOpenAIMessages(ts)
           n == Len(us)
           P == {m \in 0 .. n : m = 0 \/ Joined(E(m), M, Reply(New(m)))}
<1>1. Up(0) = ts /\ Up(n) = ts \o us /\ New(n) = us /\ n \in Nat /\ n # 0
  <2>1. SubSeq(us, 1, Len(us)) = us
    OBVIOUS
  <2> QED
    BY <2>1, ByElements
<1>2. ASSUME NEW m \in 1 .. n
      PROVE  Up(m - 1) \in Seq(Turns) /\ Up(m) = Append(Up(m - 1), us[m])
  BY ByElements
<1>3. ASSUME NEW m \in 1 .. n
      PROVE  New(m) = Append(New(m - 1), us[m]) /\ us[m] \in Turns /\ OpenAIRole(us[m]) = "assistant"
  BY ByElements
<1>4. New(0) = <<>>
  OBVIOUS
<1>4a. M \in Seq(Messages) /\ NoAssistant(M)
  <2>1. Text \in Turns
    BY DEF Turns, Plain
  <2> QED
    BY <2>1, OpenAIAppend
<1> HIDE DEF Up, New, n
<1>5. 0 \in P
  BY <1>1
<1>6. ASSUME NEW m \in 1 .. n, m - 1 \in P PROVE m \in P
  <2> DEFINE t == us[m]
             b == New(m - 1)
  <2>1. t \in Turns /\ OpenAIRole(t) = "assistant" /\ New(m) = Append(b, t)
    BY <1>3
  <2>2. E(m - 1) \in Seq(Messages) /\ E(m) = appendMessage(E(m - 1), t)
    BY <1>2, <2>1, OpenAIAppend
  <2>3. m - 1 = 0 \/ Joined(E(m - 1), M, Reply(b))
    BY <1>6
  <2>4. m \in 0 .. n
    BY <1>1, <1>6
  <2> HIDE DEF t, b
  <2>5. CASE m - 1 = 0
    <3>1. E(m - 1) = M /\ b = <<>>
      BY <1>1, <1>4, <2>5 DEF b
    <3> HIDE DEF E, M
    <3>2. Joined(E(m), M, [role |-> OpenAIRole(t), blocks |-> <<t>>])
      BY <1>4a, <2>1, <2>2, <3>1, appendMessageIs DEF NoAssistant
    <3>3. Append(b, t) = <<t>>
      BY <3>1
    <3> QED
      BY <2>1, <2>4, <3>2, <3>3 DEF Reply
  <2>6. CASE Joined(E(m - 1), M, Reply(b))
    <3> HIDE DEF E, M
    <3>1. E(m - 1) # <<>> /\ E(m - 1)[Len(E(m - 1))] = Reply(b)
      BY <1>4a, <2>6, JoinedUnique
    <3>2. Extended(E(m), E(m - 1), t)
      <4> DEFINE e == E(m - 1)
      <4>1. e \in Seq(Messages) /\ e # <<>> /\ e[Len(e)].role = "assistant"
        BY <2>2, <3>1 DEF Reply
      <4> HIDE DEF e
      <4>2. Extended(appendMessage(e, t), e, t)
        BY <2>1, <4>1, appendMessageIs
      <4> QED
        BY <2>2, <4>2 DEF e
    <3>3. Joined(E(m), M, Reply(Append(b, t)))
      BY <1>4a, <2>6, <3>2, JoinedMore DEF Reply
    <3> QED
      BY <2>1, <2>4, <3>3
  <2> QED
    BY <2>3, <2>5, <2>6
<1>7. n \in P
  <2> HIDE DEF P
  <2> QED
    BY <1>1, <1>5, <1>6, UpTo
<1> QED
  BY <1>1, <1>7

\* A sequence of ids is its head and its tail.
LEMMA HeadAndTail ==
    ASSUME NEW P \in Seq(Nat), P # <<>>
    PROVE  Head(P) \in Nat /\ Tail(P) \in Seq(Nat) /\ P = <<Head(P)>> \o Tail(P)
<1>1. Head(P) \in Nat /\ Tail(P) \in Seq(Nat)
  OBVIOUS
<1>2. P = <<Head(P)>> \o Tail(P)
  OBVIOUS
<1> QED
  BY <1>1, <1>2

\* An id before the others, or after them.
LEMMA AppendConcat ==
    ASSUME NEW R \in Seq(Nat), NEW h \in Nat, NEW q \in Seq(Nat)
    PROVE  R \o (<<h>> \o q) = Append(R, h) \o q
OBVIOUS

\* A reply with calls opens a message that awaits results.
LEMMA AnthropicAsked ==
    ASSUME NEW A \in Seq(Messages), NEW N, NEW m, NEW P \in Seq(Nat),
           AnthropicForm(A, <<>>), Joined(N, A, m), m.role = "assistant",
           CallIds(m) = P, ResultIds(m) = <<>>, P # <<>>,
           ResultIds(A[Len(A)]) \in Seq(Nat)
    PROVE  AnthropicForm(N, P)
<1> DEFINE L == Len(A)
<1>0. \A i \in 1 .. L - 2 : CallIds(A[i]) = ResultIds(A[i + 1])
  BY DEF AnthropicForm
<1>0r. /\ L = 1 => TRUE
       /\ L > 1 /\ A[L].role = "user" => CallIds(A[L - 1]) = ResultIds(A[L]) \o <<>>
       /\ A[L].role = "assistant" =>
            L > 1 /\ CallIds(A[L - 1]) = <<>> /\ FALSE
  BY DEF AnthropicForm
<1>0d. \A i \in DOMAIN A :
         /\ A[i].role \in {"user", "assistant"}
         /\ A[i].role = "user" => CallIds(A[i]) = <<>>
         /\ A[i].role = "assistant" => ResultIds(A[i]) = <<>>
  BY DEF AnthropicForm
<1>1. L \in Nat /\ L # 0 /\ DOMAIN A = 1 .. L
  BY DEF AnthropicForm
<1>2. A[L].role = "user" /\ CallIds(A[L]) = <<>>
  <2> HIDE DEF L
  <2> QED
    BY <1>0r, <1>0d, <1>1
<1>3. L > 1 => CallIds(A[L - 1]) = ResultIds(A[L])
  <2>1. ASSUME L > 1 PROVE CallIds(A[L - 1]) = ResultIds(A[L]) \o <<>>
    BY <1>0r, <1>2, <2>1
  <2>2. ResultIds(A[L]) \o <<>> = ResultIds(A[L])
    OBVIOUS
  <2> QED
    BY <2>1, <2>2
<1> HIDE DEF L
<1>4. /\ Len(N) = L + 1 /\ N # <<>> /\ DOMAIN N = 1 .. L + 1 /\ N[L + 1] = m
      /\ \A i \in 1 .. L : N[i] = A[i]
  BY <1>1 DEF Joined, L
<1>5. \A i \in DOMAIN N :
         /\ N[i].role \in {"user", "assistant"}
         /\ N[i].role = "user" => CallIds(N[i]) = <<>>
         /\ N[i].role = "assistant" => ResultIds(N[i]) = <<>>
  BY <1>1, <1>4 DEF AnthropicForm
<1>6. ASSUME NEW i \in 1 .. L - 1 PROVE CallIds(N[i]) = ResultIds(N[i + 1])
  <2>1. N[i] = A[i] /\ N[i + 1] = A[i + 1]
    BY <1>1, <1>4
  <2>2. CallIds(A[i]) = ResultIds(A[i + 1])
    <3>1. CASE i = L - 1
      BY <1>1, <1>3, <3>1
    <3>2. CASE i # L - 1
      <4>1. i \in 1 .. L - 2
        BY <1>1, <3>2
      <4> QED
        BY <1>0, <4>1
    <3> QED
      BY <3>1, <3>2
  <2> QED
    BY <2>1, <2>2
<1>7. N[1].role = "user"
  BY <1>1, <1>4 DEF AnthropicForm
<1> QED
  BY <1>1, <1>2, <1>4, <1>5, <1>6, <1>7 DEF AnthropicForm

\* A result of the first call the last reply has left.
LEMMA AnthropicToldMore ==
    ASSUME NEW A \in Seq(Messages), NEW N, NEW t, NEW P \in Seq(Nat), P # <<>>,
           AnthropicForm(A, P), A[Len(A)].role = "user", Extended(N, A, t),
           CallIds(N[Len(A)]) = CallIds(A[Len(A)]),
           ResultIds(A[Len(A)]) \in Seq(Nat), ResultIds(N[Len(A)]) = Append(ResultIds(A[Len(A)]), Head(P))
    PROVE  AnthropicForm(N, Tail(P))
<1> DEFINE L == Len(A)
<1>0. \A i \in 1 .. L - 2 : CallIds(A[i]) = ResultIds(A[i + 1])
  BY DEF AnthropicForm
<1>0r. /\ L = 1 => P = <<>>
       /\ L > 1 /\ A[L].role = "user" => CallIds(A[L - 1]) = ResultIds(A[L]) \o P
       /\ A[L].role = "assistant" =>
            L > 1 /\ CallIds(A[L - 1]) = <<>> /\ P # <<>> /\ CallIds(A[L]) = P
  BY DEF AnthropicForm
<1>0d. \A i \in DOMAIN A :
         /\ A[i].role \in {"user", "assistant"}
         /\ A[i].role = "user" => CallIds(A[i]) = <<>>
         /\ A[i].role = "assistant" => ResultIds(A[i]) = <<>>
  BY DEF AnthropicForm
<1>1. L \in Nat /\ L # 0 /\ DOMAIN A = 1 .. L
  BY DEF AnthropicForm
<1>1a. L > 1
  <2> HIDE DEF L
  <2> QED
    BY <1>0r, <1>1
<1>2. CallIds(A[L - 1]) = ResultIds(A[L]) \o P /\ CallIds(A[L]) = <<>>
  <2>1. A[L].role = "user"
    OBVIOUS
  <2> HIDE DEF L
  <2> QED
    BY <1>0r, <1>0d, <1>1, <1>1a, <2>1
<1>3. ResultIds(A[L]) \o P = ResultIds(N[L]) \o Tail(P)
  <2> DEFINE R == ResultIds(A[L])
  <2>1. R \in Seq(Nat) /\ ResultIds(N[L]) = Append(R, Head(P))
    OBVIOUS
  <2> HIDE DEF R
  <2>2. R \o P = Append(R, Head(P)) \o Tail(P)
    <3> DEFINE h == Head(P)
               q == Tail(P)
    <3>1. q \in Seq(Nat) /\ h \in Nat /\ P = <<h>> \o q
      BY HeadAndTail
    <3> HIDE DEF h, q
    <3>2. R \o (<<h>> \o q) = Append(R, h) \o q
      BY <2>1, <3>1, AppendConcat
    <3> QED
      BY <3>1, <3>2 DEF h, q
  <2> QED
    BY <2>1, <2>2 DEF R
<1> HIDE DEF L
<1>4. /\ Len(N) = L /\ N # <<>> /\ DOMAIN N = 1 .. L /\ N[L].role = "user"
      /\ \A i \in 1 .. L - 1 : N[i] = A[i]
  BY <1>1, <1>1a DEF Extended, L
<1>5. \A i \in DOMAIN N :
         /\ N[i].role \in {"user", "assistant"}
         /\ N[i].role = "user" => CallIds(N[i]) = <<>>
         /\ N[i].role = "assistant" => ResultIds(N[i]) = <<>>
  <2>1. CallIds(N[L]) = <<>>
    BY <1>2 DEF L
  <2>2. ASSUME NEW i \in DOMAIN N, i # L
        PROVE  i \in DOMAIN A /\ N[i] = A[i]
    BY <1>1, <1>4, <2>2
  <2> QED
    BY <1>0d, <1>4, <2>1, <2>2
<1>6. ASSUME NEW i \in 1 .. L - 2 PROVE CallIds(N[i]) = ResultIds(N[i + 1])
  <2>1. N[i] = A[i] /\ N[i + 1] = A[i + 1]
    BY <1>1, <1>4
  <2>2. CallIds(A[i]) = ResultIds(A[i + 1])
    BY <1>0
  <2> QED
    BY <2>1, <2>2
<1>7. N[1].role = "user" /\ N[L - 1] = A[L - 1]
  BY <1>1, <1>1a, <1>4 DEF AnthropicForm
<1> QED
  BY <1>1, <1>1a, <1>2, <1>3, <1>4, <1>5, <1>6, <1>7 DEF AnthropicForm

\* The first result of a reply opens the message of the results.
LEMMA AnthropicToldFirst ==
    ASSUME NEW A \in Seq(Messages), NEW N, NEW m, NEW P \in Seq(Nat), P # <<>>,
           AnthropicForm(A, P), A[Len(A)].role # "user", Joined(N, A, m), m.role = "user",
           CallIds(m) = <<>>, ResultIds(m) = <<Head(P)>>
    PROVE  AnthropicForm(N, Tail(P))
<1> DEFINE L == Len(A)
<1>0. \A i \in 1 .. L - 2 : CallIds(A[i]) = ResultIds(A[i + 1])
  BY DEF AnthropicForm
<1>0r. /\ L = 1 => P = <<>>
       /\ L > 1 /\ A[L].role = "user" => CallIds(A[L - 1]) = ResultIds(A[L]) \o P
       /\ A[L].role = "assistant" =>
            L > 1 /\ CallIds(A[L - 1]) = <<>> /\ P # <<>> /\ CallIds(A[L]) = P
  BY DEF AnthropicForm
<1>0d. \A i \in DOMAIN A :
         /\ A[i].role \in {"user", "assistant"}
         /\ A[i].role = "user" => CallIds(A[i]) = <<>>
         /\ A[i].role = "assistant" => ResultIds(A[i]) = <<>>
  BY DEF AnthropicForm
<1>1. L \in Nat /\ L # 0 /\ DOMAIN A = 1 .. L /\ A[L].role = "assistant"
  BY DEF AnthropicForm
<1>2. L > 1 /\ CallIds(A[L - 1]) = <<>> /\ CallIds(A[L]) = P /\ ResultIds(A[L]) = <<>>
  BY <1>1 DEF AnthropicForm
<1>3. P = <<Head(P)>> \o Tail(P)
  BY HeadAndTail
<1> HIDE DEF L
<1>4. /\ Len(N) = L + 1 /\ N # <<>> /\ DOMAIN N = 1 .. L + 1 /\ N[L + 1] = m
      /\ \A i \in 1 .. L : N[i] = A[i]
  BY <1>1 DEF Joined, L
<1>5. \A i \in DOMAIN N :
         /\ N[i].role \in {"user", "assistant"}
         /\ N[i].role = "user" => CallIds(N[i]) = <<>>
         /\ N[i].role = "assistant" => ResultIds(N[i]) = <<>>
  BY <1>1, <1>4 DEF AnthropicForm
<1>6. ASSUME NEW i \in 1 .. L - 1 PROVE CallIds(N[i]) = ResultIds(N[i + 1])
  <2>1. N[i] = A[i] /\ N[i + 1] = A[i + 1]
    BY <1>1, <1>4
  <2>2. CallIds(A[i]) = ResultIds(A[i + 1])
    <3>1. CASE i = L - 1
      BY <1>1, <1>2, <3>1
    <3>2. CASE i # L - 1
      <4>1. i \in 1 .. L - 2
        BY <1>1, <3>2
      <4> QED
        BY <1>0, <4>1
    <3> QED
      BY <3>1, <3>2
  <2> QED
    BY <2>1, <2>2
<1>7. N[1].role = "user" /\ CallIds(N[L]) = ResultIds(N[L + 1]) \o Tail(P)
  <2>1. N[L] = A[L] /\ N[L + 1] = m /\ N[1] = A[1]
    BY <1>1, <1>4
  <2>2. CallIds(A[L]) = P /\ A[1].role = "user"
    BY <1>2 DEF AnthropicForm
  <2> QED
    BY <1>3, <2>1, <2>2
<1> QED
  BY <1>1, <1>4, <1>5, <1>6, <1>7 DEF AnthropicForm

\* OpenAIForm's parts.
Roles(O) ==
    \A i \in DOMAIN O :
      /\ O[i].role = "user" => CallIds(O[i]) = <<>> /\ ResultIds(O[i]) = <<>>
      /\ O[i].role = "assistant" => ResultIds(O[i]) = <<>>
      /\ O[i].role = "tool" => CallIds(O[i]) = <<>> /\ Len(ResultIds(O[i])) = 1
Owing(O, P) ==
    \E p \in DOMAIN O : \A m \in DOMAIN P :
      Len(O) + m - p \in DOMAIN CallIds(O[p]) /\ CallIds(O[p])[Len(O) + m - p] = P[m]
Paid(O, P) ==
    \A i \in DOMAIN O : \A k \in DOMAIN CallIds(O[i]) :
      \/ i + k \in DOMAIN O /\ ResultIds(O[i + k]) = <<CallIds(O[i])[k]>>
      \/ i + k - Len(O) \in DOMAIN P /\ P[i + k - Len(O)] = CallIds(O[i])[k]
Owed(O) ==
    \A j \in DOMAIN O : ResultIds(O[j]) # <<>> =>
      \E i \in 1 .. j - 1 : j - i \in DOMAIN CallIds(O[i]) /\ CallIds(O[i])[j - i] = ResultIds(O[j])[1]

\* OpenAIForm is its parts.
LEMMA OpenAIParts ==
    ASSUME NEW O, NEW P
    PROVE  OpenAIForm(O, P) <=>
             /\ O # <<>> /\ O[1].role = "user" /\ Roles(O)
             /\ P = <<>> => O[Len(O)].role # "assistant"
             /\ Owing(O, P) /\ Paid(O, P) /\ Owed(O)
BY DEF OpenAIForm, Roles, Owing, Paid, Owed

\* A message after the others: what it says of them is not disturbed.
LEMMA OwedJoined ==
    ASSUME NEW O \in Seq(Messages), NEW N, NEW m, Owed(O), Joined(N, O, m),
           ResultIds(m) # <<>> =>
             \E i \in DOMAIN O : Len(O) + 1 - i \in DOMAIN CallIds(O[i])
                                 /\ CallIds(O[i])[Len(O) + 1 - i] = ResultIds(m)[1]
    PROVE  Owed(N)
<1> DEFINE L == Len(O)
<1>1. L \in Nat /\ DOMAIN O = 1 .. L /\ DOMAIN N = 1 .. L + 1 /\ N[L + 1] = m /\ \A i \in 1 .. L : N[i] = O[i]
  BY DEF Joined
<1>2. ResultIds(m) # <<>> =>
        \E i \in 1 .. L : L + 1 - i \in DOMAIN CallIds(O[i]) /\ CallIds(O[i])[L + 1 - i] = ResultIds(m)[1]
  BY <1>1
<1> HIDE DEF L
<1>3. ASSUME NEW j \in 1 .. L + 1, ResultIds(N[j]) # <<>>
      PROVE  \E i \in 1 .. j - 1 : j - i \in DOMAIN CallIds(N[i]) /\ CallIds(N[i])[j - i] = ResultIds(N[j])[1]
  <2>1. CASE j = L + 1
    <3>1. N[j] = m
      BY <1>1, <2>1
    <3>2. PICK i \in 1 .. L : L + 1 - i \in DOMAIN CallIds(O[i]) /\ CallIds(O[i])[L + 1 - i] = ResultIds(m)[1]
      BY <1>2, <1>3, <3>1
    <3>3. i \in 1 .. j - 1 /\ N[i] = O[i] /\ j - i = L + 1 - i
      BY <1>1, <2>1
    <3>4. j - i \in DOMAIN CallIds(N[i]) /\ CallIds(N[i])[j - i] = ResultIds(N[j])[1]
      BY <3>1, <3>2, <3>3
    <3> QED
      BY <3>3, <3>4
  <2>2. CASE j # L + 1
    <3>1. j \in 1 .. L /\ N[j] = O[j]
      BY <1>1, <2>2
    <3>2. PICK i \in 1 .. j - 1 : j - i \in DOMAIN CallIds(O[i]) /\ CallIds(O[i])[j - i] = ResultIds(O[j])[1]
      BY <1>1, <1>3, <3>1 DEF Owed
    <3>3. i \in 1 .. L /\ N[i] = O[i]
      BY <1>1, <3>1
    <3> QED
      BY <3>1, <3>2, <3>3
  <2> QED
    BY <2>1, <2>2
<1> QED
  BY <1>1, <1>3 DEF Owed

\* A message after the others: the roles.
LEMMA RolesJoined ==
    ASSUME NEW O \in Seq(Messages), NEW N, NEW m, Roles(O), Joined(N, O, m),
           m.role = "user" => CallIds(m) = <<>> /\ ResultIds(m) = <<>>,
           m.role = "assistant" => ResultIds(m) = <<>>,
           m.role = "tool" => CallIds(m) = <<>> /\ Len(ResultIds(m)) = 1
    PROVE  Roles(N)
<1>1. \A i \in DOMAIN N : (i \in DOMAIN O /\ N[i] = O[i]) \/ N[i] = m
  BY DEF Joined
<1> QED
  BY <1>1 DEF Roles

\* A reply with calls opens a message that awaits results.
LEMMA OpenAIAsked ==
    ASSUME NEW O \in Seq(Messages), NEW N, NEW m, NEW P \in Seq(Nat),
           OpenAIForm(O, <<>>), Joined(N, O, m), m.role = "assistant",
           CallIds(m) = P, ResultIds(m) = <<>>, P # <<>>
    PROVE  OpenAIForm(N, P)
<1> DEFINE L == Len(O)
<1>1. O # <<>> /\ O[1].role = "user" /\ Roles(O) /\ Paid(O, <<>>) /\ Owed(O)
  BY OpenAIParts
<1>2. L \in Nat /\ L # 0 /\ DOMAIN O = 1 .. L
  BY <1>1
<1>3. /\ Len(N) = L + 1 /\ N # <<>> /\ DOMAIN N = 1 .. L + 1 /\ N[L + 1] = m
      /\ \A i \in 1 .. L : N[i] = O[i]
  BY <1>2 DEF Joined
<1>4. Roles(N)
  BY <1>1, RolesJoined
<1>5. Owed(N)
  BY <1>1, OwedJoined
<1>6. \A i \in 1 .. L : \A k \in DOMAIN CallIds(O[i]) : i + k \in 1 .. L /\ ResultIds(O[i + k]) = <<CallIds(O[i])[k]>>
  <2>1. DOMAIN <<>> = {}
    OBVIOUS
  <2> QED
    BY <1>1, <1>2, <2>1 DEF Paid
<1>7. DOMAIN P = 1 .. Len(P) /\ Len(P) \in Nat
  OBVIOUS
<1> HIDE DEF L
<1>8. Owing(N, P)
  <2>1. L + 1 \in DOMAIN N /\ N[L + 1] = m
    BY <1>2, <1>3
  <2>2. ASSUME NEW k \in DOMAIN P
        PROVE  Len(N) + k - (L + 1) \in DOMAIN CallIds(m) /\ CallIds(m)[Len(N) + k - (L + 1)] = P[k]
    <3>1. Len(N) + k - (L + 1) = k
      BY <1>2, <1>3, <1>7
    <3> QED
      BY <3>1
  <2> QED
    BY <2>1, <2>2 DEF Owing
<1>9. Paid(N, P)
  <2>1. ASSUME NEW i \in 1 .. L + 1, NEW k \in DOMAIN CallIds(N[i])
        PROVE  \/ i + k \in DOMAIN N /\ ResultIds(N[i + k]) = <<CallIds(N[i])[k]>>
               \/ i + k - Len(N) \in DOMAIN P /\ P[i + k - Len(N)] = CallIds(N[i])[k]
    <3>1. CASE i = L + 1
      <4>1. N[i] = m /\ k \in DOMAIN P /\ i + k - Len(N) = k
        BY <1>2, <1>3, <1>7, <3>1
      <4> QED
        BY <4>1
    <3>2. CASE i # L + 1
      <4>1. i \in 1 .. L /\ N[i] = O[i]
        BY <1>2, <1>3, <3>2
      <4>2. i + k \in 1 .. L /\ ResultIds(O[i + k]) = <<CallIds(O[i])[k]>>
        BY <1>6, <4>1
      <4>3. N[i + k] = O[i + k] /\ i + k \in DOMAIN N
        BY <1>2, <1>3, <4>2
      <4> QED
        BY <4>1, <4>2, <4>3
    <3> QED
      BY <3>1, <3>2
  <2> QED
    BY <1>3, <2>1 DEF Paid
<1>10. N[1].role = "user"
  BY <1>1, <1>2, <1>3
<1> QED
  BY <1>3, <1>4, <1>5, <1>8, <1>9, <1>10, OpenAIParts

\* A result of the first call that is owed one.
LEMMA OpenAITold ==
    ASSUME NEW O \in Seq(Messages), NEW N, NEW m, NEW P \in Seq(Nat), P # <<>>,
           OpenAIForm(O, P), Joined(N, O, m), m.role = "tool",
           CallIds(m) = <<>>, ResultIds(m) = <<Head(P)>>
    PROVE  OpenAIForm(N, Tail(P))
<1> DEFINE L == Len(O)
           Q == Tail(P)
<1>1. O # <<>> /\ O[1].role = "user" /\ Roles(O) /\ Owing(O, P) /\ Paid(O, P) /\ Owed(O)
  BY OpenAIParts
<1>2. L \in Nat /\ L # 0 /\ DOMAIN O = 1 .. L
  BY <1>1
<1>3. /\ Len(N) = L + 1 /\ N # <<>> /\ DOMAIN N = 1 .. L + 1 /\ N[L + 1] = m
      /\ \A i \in 1 .. L : N[i] = O[i]
  BY <1>2 DEF Joined
<1>4. Roles(N)
  <2>1. Len(ResultIds(m)) = 1
    OBVIOUS
  <2> QED
    BY <1>1, <2>1, RolesJoined
<1>5. /\ Head(P) = P[1] /\ 1 \in DOMAIN P /\ DOMAIN P = 1 .. Len(P) /\ DOMAIN Q = 1 .. Len(P) - 1
      /\ Len(P) \in Nat /\ \A k \in DOMAIN Q : k + 1 \in DOMAIN P /\ Q[k] = P[k + 1]
  OBVIOUS
<1>6. PICK p \in 1 .. L : \A k \in DOMAIN P : L + k - p \in DOMAIN CallIds(O[p]) /\ CallIds(O[p])[L + k - p] = P[k]
  BY <1>1, <1>2 DEF Owing
<1>7. Owed(N)
  <2>1. L + 1 - p \in DOMAIN CallIds(O[p]) /\ CallIds(O[p])[L + 1 - p] = ResultIds(m)[1]
    BY <1>5, <1>6
  <2> QED
    BY <1>1, <1>2, <2>1, OwedJoined
<1>8. \A i \in 1 .. L : \A k \in DOMAIN CallIds(O[i]) :
        \/ i + k \in 1 .. L /\ ResultIds(O[i + k]) = <<CallIds(O[i])[k]>>
        \/ i + k - L \in DOMAIN P /\ P[i + k - L] = CallIds(O[i])[k]
  BY <1>1, <1>2 DEF Paid
<1>9. \A i \in 1 .. L : DOMAIN CallIds(O[i]) \subseteq Nat
  <2>1. ASSUME NEW i \in 1 .. L PROVE CallIds(O[i]) \in Seq(Nat)
    <3>1. O[i].blocks \in Seq(Turns)
      <4>1. O[i] \in Messages
        BY <1>2
      <4> QED
        BY <4>1 DEF Messages
    <3> QED
      BY <3>1, IdsType DEF CallIds, Kinds
  <2> QED
    BY <2>1
<1> HIDE DEF L, Q
<1>10. Owing(N, Q)
  <2>1. p \in DOMAIN N /\ N[p] = O[p]
    BY <1>2, <1>3
  <2>2. ASSUME NEW k \in DOMAIN Q
        PROVE  Len(N) + k - p \in DOMAIN CallIds(O[p]) /\ CallIds(O[p])[Len(N) + k - p] = Q[k]
    <3>1. k \in Nat /\ k + 1 \in DOMAIN P /\ Q[k] = P[k + 1]
      BY <1>5
    <3>2. Len(N) + k - p = L + (k + 1) - p
      BY <1>2, <1>3, <3>1
    <3> QED
      BY <1>6, <3>1, <3>2
  <2> QED
    BY <2>1, <2>2 DEF Owing
<1>11. Paid(N, Q)
  <2>1. ASSUME NEW i \in 1 .. L + 1, NEW k \in DOMAIN CallIds(N[i])
        PROVE  \/ i + k \in DOMAIN N /\ ResultIds(N[i + k]) = <<CallIds(N[i])[k]>>
               \/ i + k - Len(N) \in DOMAIN Q /\ Q[i + k - Len(N)] = CallIds(N[i])[k]
    <3>1. i \in 1 .. L
      <4>1. CASE i = L + 1
        BY <1>3, <2>1, <4>1
      <4> QED
        BY <1>2, <4>1
    <3>2. N[i] = O[i] /\ k \in DOMAIN CallIds(O[i]) /\ k \in Nat
      BY <1>3, <1>9, <2>1, <3>1
    <3>3. CASE i + k \in 1 .. L /\ ResultIds(O[i + k]) = <<CallIds(O[i])[k]>>
      BY <1>2, <1>3, <3>2, <3>3
    <3>4. CASE i + k = L + 1 /\ P[1] = CallIds(O[i])[k]
      <4>1. N[i + k] = m /\ i + k \in DOMAIN N
        BY <1>2, <1>3, <3>4
      <4>2. ResultIds(m) = <<CallIds(N[i])[k]>>
        BY <1>5, <3>2, <3>4
      <4> QED
        BY <4>1, <4>2
    <3>5. CASE i + k - L \in 2 .. Len(P) /\ P[i + k - L] = CallIds(O[i])[k]
      <4>1. i + k - (L + 1) \in DOMAIN Q /\ P[i + k - L] = Q[i + k - (L + 1)]
        <5> DEFINE d == i + k - (L + 1)
        <5>1. d \in 1 .. Len(P) - 1 /\ d + 1 = i + k - L
          BY <1>2, <1>5, <3>2, <3>5
        <5> HIDE DEF d
        <5>2. d \in DOMAIN Q /\ Q[d] = P[i + k - L]
          BY <1>5, <5>1
        <5> QED
          BY <5>2 DEF d
      <4> QED
        BY <1>3, <3>2, <3>5, <4>1
    <3>6. \/ i + k \in 1 .. L /\ ResultIds(O[i + k]) = <<CallIds(O[i])[k]>>
          \/ i + k = L + 1 /\ P[1] = CallIds(O[i])[k]
          \/ i + k - L \in 2 .. Len(P) /\ P[i + k - L] = CallIds(O[i])[k]
      <4>1. CASE i + k \in 1 .. L /\ ResultIds(O[i + k]) = <<CallIds(O[i])[k]>>
        BY <4>1
      <4>2. CASE i + k - L \in DOMAIN P /\ P[i + k - L] = CallIds(O[i])[k]
        <5>1. CASE i + k - L = 1
          BY <1>2, <3>2, <4>2, <5>1
        <5>2. CASE i + k - L # 1
          BY <1>2, <1>5, <3>2, <4>2, <5>2
        <5> QED
          BY <5>1, <5>2
      <4> QED
        BY <1>8, <3>1, <3>2, <4>1, <4>2
    <3> QED
      BY <3>3, <3>4, <3>5, <3>6
  <2> QED
    BY <1>3, <2>1 DEF Paid
<1>12. N[1].role = "user" /\ N[Len(N)].role # "assistant"
  BY <1>1, <1>2, <1>3
<1> QED
  BY <1>3, <1>4, <1>7, <1>10, <1>11, <1>12, OpenAIParts DEF Q

\* The ids of a message are numbers.
LEMMA MessageIds ==
    ASSUME NEW M \in Seq(Messages), NEW i \in DOMAIN M
    PROVE  CallIds(M[i]) \in Seq(Nat) /\ ResultIds(M[i]) \in Seq(Nat) /\ M[i].blocks \in Seq(Turns)
<1>1. M[i].blocks \in Seq(Turns)
  <2>1. M[i] \in Messages
    OBVIOUS
  <2> QED
    BY <2>1 DEF Messages
<1> QED
  BY <1>1, IdsType DEF CallIds, ResultIds, Kinds

\* The request's turns: the task, then the transcript.
LEMMA wireTurnsGrow ==
    ASSUME turns \in Seq(Turns)
    PROVE  /\ wireTurns \in Seq(Turns)
           /\ \A new \in Seq(Turns) : turns' = turns \o new => wireTurns' = wireTurns \o new
           /\ \A t \in Turns : turns' = Append(turns, t) => wireTurns' = Append(wireTurns, t)
<1>1. Task \in Turns
  BY DEF Turns, Plain
<1> DEFINE w == <<Task>>
<1>2. w \in Seq(Turns)
  BY <1>1
<1>3. wireTurns = w \o turns /\ wireTurns' = w \o turns'
  BY DEF wireTurns, Task
<1> HIDE DEF w
<1>4. ASSUME NEW new \in Seq(Turns) PROVE w \o (turns \o new) = (w \o turns) \o new
  BY <1>2
<1>5. ASSUME NEW t \in Turns PROVE w \o Append(turns, t) = Append(w \o turns, t)
  BY <1>2
<1>6. w \o turns \in Seq(Turns)
  BY <1>2
<1> QED
  BY <1>3, <1>4, <1>5, <1>6

\* The ids of the pending calls, and of those a result leaves.
LEMMA PendingIdsIs ==
    ASSUME pending \in Seq(Calls)
    PROVE  /\ PendingIds \in Seq(Nat)
           /\ PendingIds = <<>> <=> pending = <<>>
           /\ pending # <<>> => Head(PendingIds) = Head(pending).id
           /\ pending # <<>> /\ pending' = Tail(pending) => PendingIds' = Tail(PendingIds)
<1>1. PendingIds = [m \in DOMAIN pending |-> pending[m].id]
  BY DEF PendingIds
<1>2. ASSUME NEW m \in DOMAIN pending PROVE pending[m].id \in Nat
  <2>1. pending[m] \in Calls
    OBVIOUS
  <2> QED
    BY <2>1 DEF Calls
<1>3. PendingIds \in Seq(Nat) /\ Len(PendingIds) = Len(pending)
  BY <1>1, <1>2
<1>4. PendingIds = <<>> <=> pending = <<>>
  BY <1>3
<1>5. pending # <<>> => Head(PendingIds) = Head(pending).id
  BY <1>1, <1>3
<1>6. ASSUME pending # <<>>, pending' = Tail(pending) PROVE PendingIds' = Tail(PendingIds)
  <2> DEFINE q == Tail(pending)
             r == Tail(PendingIds)
  <2>1. PendingIds' = [m \in DOMAIN q |-> q[m].id]
    BY <1>6 DEF PendingIds
  <2>2. /\ DOMAIN q = 1 .. Len(pending) - 1 /\ \A m \in DOMAIN q : m + 1 \in DOMAIN pending /\ q[m] = pending[m + 1]
        /\ Len(pending) \in Nat
    BY <1>6
  <2>3. PendingIds # <<>>
    BY <1>4, <1>6
  <2>4. DOMAIN r = 1 .. Len(pending) - 1 /\ \A m \in DOMAIN r : r[m] = PendingIds[m + 1]
    BY <1>3, <2>3
  <2>5. r = [m \in DOMAIN r |-> r[m]]
    <3>1. r \in Seq(Nat)
      BY <1>3, <2>3
    <3> HIDE DEF r
    <3> QED
      BY <3>1
  <2> HIDE DEF q, r
  <2>6. \A m \in DOMAIN q : q[m].id = r[m]
    BY <1>1, <2>2, <2>4
  <2> QED
    BY <2>1, <2>2, <2>4, <2>5, <2>6 DEF r
<1> QED
  BY <1>3, <1>4, <1>5, <1>6

\* The task alone is well formed.
LEMMA WellFormedStart == RunInit => WellFormed
<1> SUFFICES ASSUME RunInit PROVE WellFormed
  OBVIOUS
<1>1. turns = <<>> /\ pending = <<>>
  BY DEF RunInit, LoopInit
<1>2. Task \in Turns /\ <<>> \in Seq(Turns) /\ <<>> \in Seq(Messages)
  <2>1. Task \in Turns
    BY DEF Turns, Plain
  <2>2. <<>> \in Seq(Turns) /\ <<>> \in Seq(Messages)
    OBVIOUS
  <2> QED
    BY <2>1, <2>2
<1>3. PendingIds = <<>>
  BY <1>1 DEF PendingIds
<1> DEFINE e == <<>>
           m == [role |-> "user", blocks |-> <<Task>>]
           A == <<m>>
<1>4. wireTurns = Append(e, Task)
  BY <1>1 DEF wireTurns, Task
<1>5. Role(Task) = "user" /\ OpenAIRole(Task) = "user"
  BY DEF Role, OpenAIRole, Task
<1>6. e \in Seq(Turns) /\ encodeAnthropicMessages(e) = <<>> /\ encodeOpenAIMessages(e) = <<>>
  BY <1>2, AnthropicEmpty, OpenAIEmpty
<1> HIDE DEF e
<1>7. /\ encodeAnthropicMessages(wireTurns) = appendBlock(<<>>, Task)
      /\ encodeOpenAIMessages(wireTurns) = appendMessage(<<>>, Task)
  BY <1>2, <1>4, <1>6, AnthropicAppend, OpenAIAppend
<1>8. appendBlock(<<>>, Task) = Append(<<>>, m) /\ appendMessage(<<>>, Task) = Append(<<>>, m)
  BY <1>5 DEF appendBlock, appendMessage
<1>9. CallIds(m) = <<>> /\ ResultIds(m) = <<>>
  <2>1. Task.type # "tool_call" /\ Task.type # "tool_result"
    BY DEF Task
  <2> QED
    BY <1>2, <2>1, IdsOne DEF CallIds, ResultIds
<1>10. m.role = "user"
  OBVIOUS
<1> HIDE DEF m
<1>11. Append(<<>>, m) = A /\ Len(A) = 1 /\ DOMAIN A = {1} /\ A[1] = m /\ A # <<>>
  OBVIOUS
<1>12. DOMAIN <<>> = {}
  OBVIOUS
<1> HIDE DEF A
<1>13. AnthropicForm(A, <<>>)
  BY <1>9, <1>10, <1>11 DEF AnthropicForm
<1>14. OpenAIForm(A, <<>>)
  BY <1>9, <1>10, <1>11, <1>12 DEF OpenAIForm
<1> QED
  BY <1>3, <1>7, <1>8, <1>11, <1>13, <1>14 DEF WellFormed

\* A reply and a result keep the messages well formed.
LEMMA WellFormedStep ==
    ASSUME TranscriptTypes, WellFormed, [RunNext]_agentVars
    PROVE  WellFormed'
<1> DEFINE A == encodeAnthropicMessages(wireTurns)
           O == encodeOpenAIMessages(wireTurns)
<1>1. SUFFICES ASSUME loop' \in Going PROVE AnthropicForm(A, PendingIds)' /\ OpenAIForm(O, PendingIds)'
  BY DEF WellFormed
<1>2. turns \in Seq(Turns) /\ pending \in Seq(Calls) /\ end \in EndReasons
  BY DEF TranscriptTypes
<1>3. loop \in Going
  <2>1. CASE Loop
    BY <2>1, LoopKinds
  <2>2. CASE LoopReturns
    BY <1>1, <2>2, LoopReturnsIs DEF Going
  <2>3. CASE ~Loop /\ ~LoopReturns
    BY <1>1, <1>2, <2>3, OutsideLoop DEF Going
  <2> QED
    BY <2>1, <2>2, <2>3
<1>4. AnthropicForm(A, PendingIds) /\ OpenAIForm(O, PendingIds)
  BY <1>3 DEF WellFormed
<1>5. /\ wireTurns \in Seq(Turns) /\ PendingIds \in Seq(Nat)
      /\ A \in Seq(Messages) /\ O \in Seq(Messages)
  <2>1. Task \in Turns
    BY DEF Turns, Plain
  <2>2. wireTurns \in Seq(Turns) /\ PendingIds \in Seq(Nat)
    BY <1>2, wireTurnsGrow, PendingIdsIs
  <2> QED
    BY <2>1, <2>2, AnthropicAppend, OpenAIAppend
<1>6. A # <<>> /\ O # <<>>
  BY <1>4 DEF AnthropicForm, OpenAIForm
<1>7. CASE Still
  <2>1. turns' = turns /\ pending' = pending
    BY <1>7 DEF Still
  <2>2. wireTurns' = wireTurns /\ PendingIds' = PendingIds
    BY <2>1 DEF wireTurns, PendingIds, Task
  <2>3. A' = A /\ O' = O
    BY <2>2
  <2> QED
    BY <1>4, <2>2, <2>3
<1>8. CASE Loop /\ ModelAnswers
  <2>1. PICK new \in Seq(Turns) :
          /\ turns' = turns \o new /\ pending' = Of("tool_call", new)
          /\ loop' # "ended" => pending' # <<>>
          /\ \A i \in DOMAIN new : new[i] = Text \/ (new[i] \in Calls /\ new[i].id = Len(turns) + i)
    BY <1>2, <1>8, ReplyIs
  <2>2. Of("tool_call", new) # <<>>
    BY <1>1, <2>1 DEF Going
  <2>3. new # <<>>
    BY <2>2, OfEmpty
  <2>4. \A i \in DOMAIN new : new[i].type \in {"text", "tool_call"}
    BY <2>1 DEF Text, Calls
  <2>5. \A i \in DOMAIN new :
          Role(new[i]) = "assistant" /\ OpenAIRole(new[i]) = "assistant" /\ new[i].type # "tool_result"
    BY <2>4 DEF Role, OpenAIRole
  <2>6. PendingIds = <<>>
    <3>1. pending = <<>>
      BY <1>8 DEF ModelAnswers, TranscriptTypes
    <3> QED
      BY <1>2, <3>1, PendingIdsIs
  <2>7. NoAssistant(A) /\ NoAssistant(O)
    BY <1>4, <1>6, <2>6 DEF AnthropicForm, OpenAIForm, NoAssistant
  <2>8. wireTurns' = wireTurns \o new
    BY <1>2, <2>1, wireTurnsGrow
  <2>9. Joined(A', A, Reply(new)) /\ Joined(O', O, Reply(new))
    <3>1. Joined(encodeAnthropicMessages(wireTurns \o new), A, Reply(new))
      BY <1>5, <2>3, <2>5, <2>7, AnthropicReply
    <3>2. Joined(encodeOpenAIMessages(wireTurns \o new), O, Reply(new))
      BY <1>5, <2>3, <2>5, <2>7, OpenAIReply
    <3> QED
      BY <2>8, <3>1, <3>2
  <2>10. CallIds(Reply(new)) = PendingIds'
    BY <2>1 DEF CallIds, Reply, Ids, PendingIds
  <2>11. ResultIds(Reply(new)) = <<>>
    BY <2>5, IdsNone DEF ResultIds, Reply
  <2>12. PendingIds' \in Seq(Nat) /\ PendingIds' # <<>>
    <3>1. CallIds(Reply(new)) \in Seq(Nat)
      BY IdsType DEF CallIds, Reply, Kinds
    <3>2. Len(CallIds(Reply(new))) = Len(Of("tool_call", new)) /\ Of("tool_call", new) \in Seq(Turns)
      BY IdsType DEF CallIds, Reply, Kinds
    <3>3. CallIds(Reply(new)) # <<>>
      BY <2>2, <3>1, <3>2
    <3> QED
      BY <2>10, <3>1, <3>3
  <2>13. Reply(new).role = "assistant"
    BY DEF Reply
  <2>14. ResultIds(A[Len(A)]) \in Seq(Nat)
    BY <1>5, <1>6, MessageIds
  <2>15. AnthropicForm(A, <<>>) /\ OpenAIForm(O, <<>>)
    BY <1>4, <2>6
  <2> HIDE DEF A, O
  <2>16. AnthropicForm(A', PendingIds')
    BY <1>5, <2>9, <2>10, <2>11, <2>12, <2>13, <2>14, <2>15, AnthropicAsked
  <2>17. OpenAIForm(O', PendingIds')
    BY <1>5, <2>9, <2>10, <2>11, <2>12, <2>13, <2>15, OpenAIAsked
  <2> QED
    BY <2>16, <2>17
<1>9. CASE Loop /\ Answered
  <2>1. PICK ok \in BOOLEAN : pending # <<>> /\ Result(Head(pending), ok)
    BY <1>9 DEF Answered
  <2> DEFINE c == Head(pending)
             t == ToolResult(c.id, ok)
             P == PendingIds
             m == [role |-> "tool", blocks |-> <<t>>]
             n == [role |-> "user", blocks |-> <<t>>]
  <2>2. c \in Calls
    BY <1>2, <2>1
  <2>3. turns' = Append(turns, t) /\ t \in Results /\ pending' = Tail(pending)
    BY <2>1, <2>2, ResultIs
  <2>4. t \in Turns /\ t.type = "tool_result" /\ t.id = c.id
    BY <2>3 DEF Turns, ToolResult
  <2>5. P # <<>> /\ Head(P) = c.id /\ P' = Tail(P)
    BY <1>2, <2>1, <2>3, PendingIdsIs
  <2>6. wireTurns' = Append(wireTurns, t)
    BY <1>2, <2>3, <2>4, wireTurnsGrow
  <2>7. A' = appendBlock(A, t) /\ O' = appendMessage(O, t)
    <3> HIDE DEF t
    <3> QED
      BY <1>5, <2>4, <2>6, AnthropicAppend, OpenAIAppend
  <2>8. Role(t) = "user" /\ OpenAIRole(t) = "tool"
    BY <2>4 DEF Role, OpenAIRole
  <2>9. Ids(<<t>>, "tool_call") = <<>> /\ Ids(<<t>>, "tool_result") = <<t.id>>
    BY <2>4, IdsOne
  <2>10. /\ m.role = "tool" /\ CallIds(m) = <<>> /\ ResultIds(m) = <<Head(P)>>
         /\ n.role = "user" /\ CallIds(n) = <<>> /\ ResultIds(n) = <<Head(P)>>
    BY <2>4, <2>5, <2>9 DEF CallIds, ResultIds
  <2> HIDE DEF A, O, t, P
  <2>11. Joined(O', O, m)
    BY <1>5, <2>4, <2>7, <2>8, appendMessageIs
  <2>12. IF A[Len(A)].role = "user" THEN Extended(A', A, t) ELSE Joined(A', A, n)
    BY <1>5, <1>6, <2>4, <2>7, <2>8, appendBlockIs
  <2>13. ASSUME A[Len(A)].role = "user" PROVE AnthropicForm(A', P')
    <3> DEFINE b == A[Len(A)].blocks
    <3>1. b \in Seq(Turns) /\ ResultIds(A[Len(A)]) \in Seq(Nat)
      BY <1>5, <1>6, MessageIds
    <3>2. Extended(A', A, t)
      BY <2>12, <2>13
    <3>3. A'[Len(A)].blocks = Append(b, t)
      BY <3>2 DEF Extended
    <3> HIDE DEF b
    <3>4. /\ Ids(Append(b, t), "tool_call") = Ids(b, "tool_call")
          /\ Ids(Append(b, t), "tool_result") = Append(Ids(b, "tool_result"), t.id)
      BY <2>4, <3>1, IdsAppend DEF Kinds
    <3>5. /\ CallIds(A'[Len(A)]) = CallIds(A[Len(A)])
          /\ ResultIds(A'[Len(A)]) = Append(ResultIds(A[Len(A)]), Head(P))
      BY <2>4, <2>5, <3>3, <3>4 DEF CallIds, ResultIds, b
    <3> QED
      BY <1>4, <1>5, <2>5, <2>13, <3>1, <3>2, <3>5, AnthropicToldMore DEF P
  <2>14. ASSUME A[Len(A)].role # "user" PROVE AnthropicForm(A', P')
    <3>1. Joined(A', A, n)
      BY <2>12, <2>14
    <3> HIDE DEF n
    <3> QED
      BY <1>4, <1>5, <2>5, <2>10, <2>14, <3>1, AnthropicToldFirst DEF P
  <2>15. OpenAIForm(O', P')
    <3> HIDE DEF m
    <3> QED
      BY <1>4, <1>5, <2>5, <2>10, <2>11, OpenAITold DEF P
  <2> QED
    BY <2>13, <2>14, <2>15 DEF P
<1>10. CASE LoopReturns
  BY <1>1, <1>10, LoopReturnsIs DEF Going
<1> QED
  BY <1>7, <1>8, <1>9, <1>10, StepKinds

\* With no call pending, what is well formed is accepted.
LEMMA RequestsFollow ==
    ASSUME TranscriptTypes, WellFormed
    PROVE  RequestsAccepted
<1> DEFINE A == encodeAnthropicMessages(wireTurns)
           O == encodeOpenAIMessages(wireTurns)
<1>1. SUFFICES ASSUME loop = "model" PROVE AnthropicAccepts(A) /\ OpenAIAccepts(O)
  BY DEF RequestsAccepted
<1>2. pending = <<>> /\ pending \in Seq(Calls) /\ turns \in Seq(Turns)
  BY <1>1 DEF TranscriptTypes
<1>3. PendingIds = <<>>
  BY <1>2, PendingIdsIs
<1>4. AnthropicForm(A, <<>>) /\ OpenAIForm(O, <<>>)
  BY <1>1, <1>3 DEF WellFormed, Going
<1>5. A \in Seq(Messages) /\ O \in Seq(Messages)
  <2>1. Task \in Turns
    BY DEF Turns, Plain
  <2>2. wireTurns \in Seq(Turns)
    BY <1>2, wireTurnsGrow
  <2> QED
    BY <2>1, <2>2, AnthropicAppend, OpenAIAppend
<1> HIDE DEF A, O
<1>6. AnthropicAccepts(A)
  <2> DEFINE L == Len(A)
  <2>1. L \in Nat /\ L # 0 /\ DOMAIN A = 1 .. L
    BY <1>4, <1>5 DEF AnthropicForm
  <2>2. A[1].role = "user" /\ A[L].role = "user"
    BY <1>4, <2>1 DEF AnthropicForm
  <2>0. \A i \in 1 .. L - 2 : CallIds(A[i]) = ResultIds(A[i + 1])
    BY <1>4 DEF AnthropicForm
  <2>a. L > 1 => CallIds(A[L - 1]) = ResultIds(A[L]) \o <<>>
    BY <1>4, <2>2 DEF AnthropicForm
  <2> HIDE DEF L
  <2>3. ASSUME NEW i \in 1 .. L - 1
        PROVE  CallIds(A[i]) = ResultIds(A[i + 1])
    <3>1. CASE i = L - 1
      <4>1. L > 1
        BY <2>1, <2>3
      <4>2. CallIds(A[L - 1]) = ResultIds(A[L]) \o <<>>
        BY <2>a, <4>1
      <4>3. ResultIds(A[L]) \in Seq(Nat)
        BY <1>5, <2>1, MessageIds
      <4>4. ResultIds(A[L]) \o <<>> = ResultIds(A[L])
        BY <4>3
      <4> QED
        BY <2>1, <3>1, <4>2, <4>4
    <3>2. CASE i # L - 1
      <4>1. i \in 1 .. L - 2
        BY <2>1, <3>2
      <4> QED
        BY <2>0, <4>1
    <3> QED
      BY <3>1, <3>2
  <2> QED
    BY <1>5, <2>1, <2>2, <2>3 DEF AnthropicAccepts, CallIds, ResultIds, Last, L
<1>7. OpenAIAccepts(O)
  <2>1. O # <<>> /\ O[1].role = "user" /\ Paid(O, <<>>) /\ Owed(O) /\ O[Len(O)].role # "assistant"
    BY <1>4, OpenAIParts
  <2>2. DOMAIN <<>> = {}
    OBVIOUS
  <2>3. \A i \in DOMAIN O : \A k \in DOMAIN CallIds(O[i]) :
          i + k \in DOMAIN O /\ ResultIds(O[i + k]) = <<CallIds(O[i])[k]>>
    BY <2>1, <2>2 DEF Paid
  <2> QED
    BY <2>1, <2>3 DEF OpenAIAccepts, Owed, CallIds, ResultIds, Last
<1> QED
  BY <1>6, <1>7

\* RequestsAccepted (loop.go:299-372): whatever the model asked for, each of its calls has
\* its one result in the next request, for every number of calls and steps.
THEOREM RunRequestsAccepted == RunSpec => []RequestsAccepted
<1>1. RunInit => RunInv
  BY AccountedStart, WellFormedStart DEF RunInv
<1>2. RunInv /\ [RunNext]_agentVars => RunInv'
  BY AccountedStep, WellFormedStep DEF RunInv, Accounted
<1>3. RunInv => RequestsAccepted
  BY RequestsFollow DEF RunInv, Accounted
<1> QED
  BY <1>1, <1>2, <1>3, PTL DEF RunSpec
=============================================================================

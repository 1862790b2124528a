--------------------------- MODULE LauncherProofs ----------------------------
(***************************************************************************)
(* What is proved of Launcher for every set of calls, aliases and ports:   *)
(* its types, that an alias has one server, that no server is orphaned,    *)
(* what a stop's answer means, that it implements ServerSlots, and what a  *)
(* download leaves of a model.                                             *)
(***************************************************************************)
EXTENDS Juggler, TLAPS

\* A start between its reservation and its release of it, and one that is
\* past Register.
Working    == {"spawn", "health", "healthy", "register", "kill", "drain", "end.failed"}
Registered == {"end.ok", "ok"}
IsStart(c) == req[c].verb \in {"start", "resolve"}

\* A call that was made has an alias, and its verb's positions only.
Roles ==
    \A c \in Calls :
        /\ pc[c] # "idle" => Alias(c) \in Aliases
        /\ pc[c] \in StartPCs => IsStart(c)
        /\ pc[c] \in StopPCs => req[c].verb \in {"stop", "stopall"}
        /\ pc[c] \in {"pending", "list", "next"} => req[c].verb = "stopall"

\* starting is exactly the starts at work.
Reserved ==
    /\ \A s \in Calls : pc[s] \in Working => starting[Alias(s)] = s
    /\ \A a \in Aliases : starting[a] # None =>
          pc[starting[a]] \in Working /\ Alias(starting[a]) = a

\* A start has a server from its spawn on, and no other call has one.
Spawned ==
    \A s \in Calls :
        /\ proc[s] # "none" => IsStart(s) /\ pc[s] \notin {"idle", "get", "reserve", "spawn"}
        /\ pc[s] \in {"health", "healthy", "register", "kill", "drain", "end.ok"} =>
              proc[s] # "none"

\* What is listed was registered under that alias, which nobody then starts.
Listed ==
    \A a \in Aliases : registry[a] # None =>
        /\ Alias(registry[a]) = a
        /\ pc[registry[a]] \in Registered
        /\ proc[registry[a]] # "none"
        /\ starting[a] = None

\* A running child is listed.
Tracked == \A a \in Aliases : children[a] # None => registry[a] = children[a]

\* The child a stop took is the one listed, and stays so until the stop
\* removes it, which is after its exit.
Held ==
    \A c \in Calls : Stopping(c) =>
        /\ held[c] \in Calls
        /\ Alias(held[c]) = Alias(c)
        /\ registry[Alias(c)] = held[c]
        /\ children[Alias(c)] = None
        /\ pc[c] = "stop.remove" => Exited(held[c])

\* One stop at a time works on an alias.
Alone ==
    \A c, d \in Calls : Stopping(c) /\ Stopping(d) /\ Alias(c) = Alias(d) => c = d

\* A stop that waits for a start has cancelled it before it registered.
Awaited ==
    \A c \in Calls : pc[c] = "stop.await" =>
        /\ held[c] \in ctxDone
        /\ held[c] \in Calls
        /\ pc[held[c]] \in Working \cup {"failed"}

\* The target of a stop that answered ok has ended.
Answered ==
    \A c \in Calls : At(c, "ok") /\ req[c].verb = "stop" =>
        /\ held[c] \in Calls
        /\ pc[held[c]] \in Registered \cup {"failed"}

Inv == /\ TypeOK /\ Roles /\ Reserved /\ Spawned /\ Listed /\ Tracked /\ Held
       /\ Alone /\ Awaited /\ Answered /\ NoOrphanServer /\ StoppedIsGone

-----------------------------------------------------------------------------
(* Every step keeps the invariant.  A hard step is first reduced to the    *)
(* variables it changes and how; each part of Inv then follows from that.  *)

USE CallAssumption, VerbAssumption
USE DEF PCs, StartPCs, StopPCs, Working, Registered, IsStart, Alias, At, Goto, Ended,
        Exited, Dead, Stopping, Stopped, NotStopped, tables, sweep, servers
USE DEF Inv, TypeOK, Roles, Reserved, Spawned, Listed, Tracked, Held, Alone, Awaited,
        Answered, NoOrphanServer, StoppedIsGone

\* The initial state: nothing starts, runs or is listed.
LEMMA InitInv == Init => Inv
<1> SUFFICES ASSUME Init PROVE Inv
  OBVIOUS
<1>1. TypeOK
  <2>1. /\ pc \in [Calls -> PCs]
        /\ req \in [Calls -> [verb : {"none"} \cup Verbs, alias : Aliases \cup {None}]]
    BY DEF Init
  <2>2. /\ starting \in [Aliases -> Calls \cup {None}]
        /\ children \in [Aliases -> Calls \cup {None}]
        /\ registry \in [Aliases -> Calls \cup {None}]
        /\ bound \in [Ports -> Calls \cup {None}]
    BY DEF Init
  <2> QED
    BY <2>1, <2>2 DEF Init
<1>2. Roles /\ Reserved /\ Spawned /\ Listed /\ Tracked
  BY DEF Init
<1>3. Held /\ Alone /\ Awaited /\ Answered /\ NoOrphanServer /\ StoppedIsGone
  BY DEF Init
<1> QED
  BY <1>1, <1>2, <1>3

\* A call is made: one that has no server yet.
LEMMA CallMade == ASSUME Inv, NEW x \in Calls, Call(x) PROVE Inv'
<1>1. TypeOK'
  BY DEF Call
<1>2. Roles' /\ Spawned' /\ Reserved'
  BY DEF Call
<1>3. Listed' /\ Tracked'
  BY DEF Call
<1>4. Held' /\ Alone' /\ Awaited' /\ Answered'
  BY DEF Call
<1>5. NoOrphanServer'
  <2>1. pc[x] = "idle" /\ proc[x] = "none"
    BY DEF Call
  <2>2. \A c \in Calls : c # x => pc'[c] = pc[c] /\ Alias(c)' = Alias(c)
    BY DEF Call
  <2>3. UNCHANGED <<children, held, proc>>
    BY DEF Call
  <2>4. ASSUME NEW s \in Calls, proc'[s] = "up" PROVE s # x /\ proc[s] = "up"
    BY <2>1, <2>3, <2>4
  <2>5. ASSUME NEW s \in Calls, proc[s] = "up", s # x,
               NEW c \in Calls, Stopping(c) /\ held[c] = s
        PROVE  Stopping(c)' /\ held'[c] = s
    BY <2>1, <2>2, <2>3, <2>5
  <2> QED
    BY <2>2, <2>3, <2>4, <2>5
<1>6. StoppedIsGone'
  BY DEF Call
<1> QED
  BY <1>1, <1>2, <1>3, <1>4, <1>5, <1>6

\* A client disconnects.
LEMMA ClientLeavesStep == ASSUME Inv, NEW x \in Calls, ClientLeaves(x) PROVE Inv'
<1>1. TypeOK'
  BY DEF ClientLeaves
<1>2. Roles' /\ Spawned'
  BY DEF ClientLeaves
<1>3. Reserved'
  BY DEF ClientLeaves
<1>4. Listed' /\ Tracked'
  BY DEF ClientLeaves
<1>5. Held' /\ Alone'
  BY DEF ClientLeaves
<1>6. Awaited' /\ Answered'
  BY DEF ClientLeaves
<1>7. NoOrphanServer'
  BY DEF ClientLeaves
<1>8. StoppedIsGone'
  BY DEF ClientLeaves
<1> QED
  BY <1>1, <1>2, <1>3, <1>4, <1>5, <1>6, <1>7, <1>8

\* A ResolveModel finds the instance or starts it.
LEMMA ResolveModelStep == ASSUME Inv, NEW x \in Calls, ResolveModel(x) PROVE Inv'
<1>1. TypeOK'
  BY DEF ResolveModel
<1>2. Roles' /\ Spawned'
  BY DEF ResolveModel
<1>3. Reserved'
  BY DEF ResolveModel
<1>4. Listed' /\ Tracked'
  BY DEF ResolveModel
<1>5. Held' /\ Alone'
  BY DEF ResolveModel
<1>6. Awaited' /\ Answered'
  BY SMTT(30) DEF ResolveModel
<1>7. NoOrphanServer'
  BY DEF ResolveModel
<1>8. StoppedIsGone'
  BY DEF ResolveModel
<1> QED
  BY <1>1, <1>2, <1>3, <1>4, <1>5, <1>6, <1>7, <1>8

\* A start reserves its alias, which has then no server up or listed.
LEMMA ReserveStep == ASSUME Inv, NEW x \in Calls, Reserve(x) PROVE Inv'
<1>1. CASE Free(Alias(x))
  <2>1. pc[x] = "reserve" /\ pc' = [pc EXCEPT ![x] = "spawn"]
    BY <1>1 DEF Reserve, Free
  <2>2. Alias(x) \in Aliases /\ IsStart(x) /\ proc[x] = "none"
    BY <1>1 DEF Reserve, Free
  <2>3. starting[Alias(x)] = None /\ registry[Alias(x)] = None
    BY <1>1 DEF Reserve, Free
  <2>4. starting' = [starting EXCEPT ![Alias(x)] = x]
    BY <1>1 DEF Reserve, Free
  <2>5. UNCHANGED <<children, registry, req, held, sweep, ctxDone, servers, faults>>
    BY <1>1 DEF Reserve, Free
  <2>6. TypeOK'
    BY <2>1, <2>2, <2>3, <2>4, <2>5
  <2>7. Roles' /\ Spawned'
    BY <2>1, <2>2, <2>3, <2>4, <2>5
  <2>8. Reserved'
    BY <2>1, <2>2, <2>3, <2>4, <2>5
  <2>9. Listed' /\ Tracked'
    BY <2>1, <2>2, <2>3, <2>4, <2>5
  <2>10. Held' /\ Alone'
    BY <2>1, <2>2, <2>3, <2>4, <2>5
  <2>11. Awaited' /\ Answered'
    BY <2>1, <2>2, <2>3, <2>4, <2>5
  <2>12. NoOrphanServer'
    BY <2>1, <2>2, <2>3, <2>4, <2>5
  <2>13. StoppedIsGone'
    BY <2>1, <2>2, <2>3, <2>4, <2>5
  <2> QED
    BY <2>6, <2>7, <2>8, <2>9, <2>10, <2>11, <2>12, <2>13
<1>2. CASE ~Free(Alias(x))
  <2>1. pc[x] = "reserve" /\ pc' = [pc EXCEPT ![x] = "failed"]
    BY <1>2 DEF Reserve, Free
  <2>2. proc[x] = "none" /\ IsStart(x)
    BY <1>2 DEF Reserve, Free
  <2>3. UNCHANGED <<tables, req, held, sweep, ctxDone, servers, faults>>
    BY <1>2 DEF Reserve, Free
  <2>4. TypeOK'
    BY <2>1, <2>2, <2>3
  <2>5. Roles' /\ Spawned'
    BY <2>1, <2>2, <2>3
  <2>6. Reserved'
    BY <2>1, <2>2, <2>3
  <2>7. Listed' /\ Tracked'
    BY <2>1, <2>2, <2>3
  <2>8. Held' /\ Alone'
    BY <2>1, <2>2, <2>3
  <2>9. Awaited' /\ Answered'
    BY <2>1, <2>2, <2>3
  <2>10. NoOrphanServer'
    BY <2>1, <2>2, <2>3
  <2>11. StoppedIsGone'
    BY <2>1, <2>2, <2>3
  <2> QED
    BY <2>4, <2>5, <2>6, <2>7, <2>8, <2>9, <2>10, <2>11
<1> QED
  BY <1>1, <1>2 DEF Reserve, Free

\* A start spawns its server, or fails to.
LEMMA SpawnStep == ASSUME Inv, NEW x \in Calls, Spawn(x) PROVE Inv'
<1>1. CASE pc' = [pc EXCEPT ![x] = "health"]
  <2>1. pc[x] = "spawn" /\ pc' = [pc EXCEPT ![x] = "health"]
    BY <1>1 DEF Spawn
  <2>2. \E p \in Ports : port' = [port EXCEPT ![x] = p]
    BY <1>1 DEF Spawn
  <2>3. proc' = [proc EXCEPT ![x] = "up"] /\ IsStart(x) /\ x \notin ctxDone
    BY <1>1 DEF Spawn
  <2>4. UNCHANGED <<tables, req, held, sweep, ctxDone, reaped, bound, faults>>
    BY <1>1 DEF Spawn
  <2>5. TypeOK'
    BY <2>1, <2>2, <2>3, <2>4
  <2>6. Roles' /\ Spawned'
    BY <2>1, <2>2, <2>3, <2>4
  <2>7. Reserved'
    BY <2>1, <2>2, <2>3, <2>4
  <2>8. Listed' /\ Tracked'
    BY <2>1, <2>2, <2>3, <2>4
  <2>9. Held' /\ Alone'
    BY <2>1, <2>2, <2>3, <2>4
  <2>10. Awaited' /\ Answered'
    BY <2>1, <2>2, <2>3, <2>4
  <2>11. NoOrphanServer'
    BY <2>1, <2>2, <2>3, <2>4
  <2>12. StoppedIsGone'
    BY <2>1, <2>2, <2>3, <2>4
  <2> QED
    BY <2>5, <2>6, <2>7, <2>8, <2>9, <2>10, <2>11, <2>12
<1>2. CASE pc' = [pc EXCEPT ![x] = "end.failed"] /\ UNCHANGED <<proc, port>>
  <2>1. pc[x] = "spawn" /\ pc' = [pc EXCEPT ![x] = "end.failed"]
    BY <1>2 DEF Spawn
  <2>2. proc[x] = "none"
    BY <1>2 DEF Spawn
  <2>3. UNCHANGED <<tables, req, held, sweep, ctxDone, servers, faults>>
    BY <1>2 DEF Spawn
  <2>4. TypeOK'
    BY <2>1, <2>2, <2>3
  <2>5. Roles' /\ Spawned'
    BY <2>1, <2>2, <2>3
  <2>6. Reserved'
    BY <2>1, <2>2, <2>3
  <2>7. Listed' /\ Tracked'
    BY <2>1, <2>2, <2>3
  <2>8. Held' /\ Alone'
    BY <2>1, <2>2, <2>3
  <2>9. Awaited' /\ Answered'
    BY <2>1, <2>2, <2>3
  <2>10. NoOrphanServer'
    BY <2>1, <2>2, <2>3
  <2>11. StoppedIsGone'
    BY <2>1, <2>2, <2>3
  <2> QED
    BY <2>4, <2>5, <2>6, <2>7, <2>8, <2>9, <2>10, <2>11
<1> QED
  BY <1>1, <1>2 DEF Spawn

\* The health wait succeeds.
LEMMA HealthyStep == ASSUME Inv, NEW x \in Calls, Healthy(x) PROVE Inv'
<1>1. TypeOK'
  BY DEF Healthy
<1>2. Roles' /\ Spawned'
  BY DEF Healthy
<1>3. Reserved'
  BY DEF Healthy
<1>4. Listed' /\ Tracked'
  BY DEF Healthy
<1>5. Held' /\ Alone'
  BY DEF Healthy
<1>6. Awaited' /\ Answered'
  BY DEF Healthy
<1>7. NoOrphanServer'
  BY DEF Healthy
<1>8. StoppedIsGone'
  BY DEF Healthy
<1> QED
  BY <1>1, <1>2, <1>3, <1>4, <1>5, <1>6, <1>7, <1>8

\* The health wait fails.
LEMMA UnhealthyStep == ASSUME Inv, NEW x \in Calls, Unhealthy(x) PROVE Inv'
<1>1. TypeOK'
  BY DEF Unhealthy
<1>2. Roles' /\ Spawned'
  BY DEF Unhealthy
<1>3. Reserved'
  BY DEF Unhealthy
<1>4. Listed' /\ Tracked'
  BY DEF Unhealthy
<1>5. Held' /\ Alone'
  BY DEF Unhealthy
<1>6. Awaited' /\ Answered'
  BY DEF Unhealthy
<1>7. NoOrphanServer'
  BY DEF Unhealthy
<1>8. StoppedIsGone'
  BY DEF Unhealthy
<1> QED
  BY <1>1, <1>2, <1>3, <1>4, <1>5, <1>6, <1>7, <1>8

\* The ctx is looked at again.
LEMMA RecheckStep == ASSUME Inv, NEW x \in Calls, Recheck(x) PROVE Inv'
<1>1. TypeOK'
  BY DEF Recheck
<1>2. Roles' /\ Spawned'
  BY DEF Recheck
<1>3. Reserved'
  BY DEF Recheck
<1>4. Listed' /\ Tracked'
  BY DEF Recheck
<1>5. Held' /\ Alone'
  BY DEF Recheck
<1>6. Awaited' /\ Answered'
  BY DEF Recheck
<1>7. NoOrphanServer'
  BY DEF Recheck
<1>8. StoppedIsGone'
  BY DEF Recheck
<1> QED
  BY <1>1, <1>2, <1>3, <1>4, <1>5, <1>6, <1>7, <1>8

\* A start registers: its alias held nothing, by Reserved and Listed.
LEMMA RegisterStep == ASSUME Inv, NEW x \in Calls, Register(x) PROVE Inv'
<1>1. CASE Registrable(x)
  <2>1. pc[x] = "register" /\ pc' = [pc EXCEPT ![x] = "end.ok"]
    BY <1>1 DEF Register, Registrable
  <2>2. Alias(x) \in Aliases /\ IsStart(x) /\ proc[x] # "none" /\ x \notin ctxDone
    BY <1>1 DEF Register, Registrable
  <2>3. registry[Alias(x)] = None /\ starting[Alias(x)] = x
    BY <1>1 DEF Register, Registrable
  <2>4. children[Alias(x)] = None
    BY <1>1 DEF Register, Registrable
  <2>5. /\ registry' = [registry EXCEPT ![Alias(x)] = x]
       /\ children' = [children EXCEPT ![Alias(x)] = x]
       /\ starting' = [starting EXCEPT ![Alias(x)] = None]
    BY <1>1 DEF Register, Registrable
  <2>6. UNCHANGED <<req, held, sweep, ctxDone, servers, faults>>
    BY <1>1 DEF Register, Registrable
  <2>7. TypeOK'
    BY <2>1, <2>2, <2>3, <2>4, <2>5, <2>6
  <2>8. Roles' /\ Spawned'
    BY <2>1, <2>2, <2>3, <2>4, <2>5, <2>6
  <2>9. Reserved'
    BY <2>1, <2>2, <2>3, <2>4, <2>5, <2>6
  <2>10. Listed' /\ Tracked'
    BY <2>1, <2>2, <2>3, <2>4, <2>5, <2>6
  <2>11. Held' /\ Alone'
    BY <2>1, <2>2, <2>3, <2>4, <2>5, <2>6
  <2>12. Awaited' /\ Answered'
    BY <2>1, <2>2, <2>3, <2>4, <2>5, <2>6
  <2>13. NoOrphanServer'
    BY <2>1, <2>2, <2>3, <2>4, <2>5, <2>6
  <2>14. StoppedIsGone'
    BY <2>1, <2>2, <2>3, <2>4, <2>5, <2>6, SMTT(30)
  <2> QED
    BY <2>7, <2>8, <2>9, <2>10, <2>11, <2>12, <2>13, <2>14
<1>2. CASE ~Registrable(x)
  <2>1. pc[x] = "register" /\ pc' = [pc EXCEPT ![x] = "kill"]
    BY <1>2 DEF Register, Registrable
  <2>2. UNCHANGED <<tables, req, held, sweep, ctxDone, servers, faults>>
    BY <1>2 DEF Register, Registrable
  <2>3. TypeOK'
    BY <2>1, <2>2
  <2>4. Roles' /\ Spawned'
    BY <2>1, <2>2
  <2>5. Reserved'
    BY <2>1, <2>2
  <2>6. Listed' /\ Tracked'
    BY <2>1, <2>2
  <2>7. Held' /\ Alone'
    BY <2>1, <2>2
  <2>8. Awaited' /\ Answered'
    BY <2>1, <2>2
  <2>9. NoOrphanServer'
    BY <2>1, <2>2
  <2>10. StoppedIsGone'
    BY <2>1, <2>2
  <2> QED
    BY <2>3, <2>4, <2>5, <2>6, <2>7, <2>8, <2>9, <2>10
<1> QED
  BY <1>1, <1>2 DEF Register, Registrable

\* A start kills its server.
LEMMA KillStep == ASSUME Inv, NEW x \in Calls, Kill(x) PROVE Inv'
<1>1. TypeOK'
  BY DEF Kill
<1>2. Roles' /\ Spawned'
  BY DEF Kill
<1>3. Reserved'
  BY DEF Kill
<1>4. Listed' /\ Tracked'
  BY DEF Kill
<1>5. Held' /\ Alone'
  BY DEF Kill
<1>6. Awaited' /\ Answered'
  BY DEF Kill
<1>7. NoOrphanServer'
  BY DEF Kill
<1>8. StoppedIsGone'
  BY DEF Kill
<1> QED
  BY <1>1, <1>2, <1>3, <1>4, <1>5, <1>6, <1>7, <1>8

\* A start sees its server exit.
LEMMA DrainStep == ASSUME Inv, NEW x \in Calls, Drain(x) PROVE Inv'
<1>1. TypeOK'
  BY DEF Drain
<1>2. Roles' /\ Spawned'
  BY DEF Drain
<1>3. Reserved'
  BY DEF Drain
<1>4. Listed' /\ Tracked'
  BY DEF Drain
<1>5. Held' /\ Alone'
  BY DEF Drain
<1>6. Awaited' /\ Answered'
  BY DEF Drain
<1>7. NoOrphanServer'
  BY DEF Drain
<1>8. StoppedIsGone'
  BY DEF Drain
<1> QED
  BY <1>1, <1>2, <1>3, <1>4, <1>5, <1>6, <1>7, <1>8

\* A start ends; one that registered has no reservation to drop.
LEMMA EndStartStep == ASSUME Inv, NEW x \in Calls, EndStart(x) PROVE Inv'
<1>1. CASE pc[x] = "end.ok"
  <2>1. pc[x] = "end.ok" /\ pc' = [pc EXCEPT ![x] = "ok"]
    BY <1>1 DEF EndStart, Unreserved
  <2>2. IsStart(x) /\ Alias(x) \in Aliases
    BY <1>1 DEF EndStart, Unreserved
  <2>3. x # None
    BY CallAssumption
  <2>4. pc[x] \notin Working
    BY <1>1
  <2>5. starting[Alias(x)] # x
    BY <2>2, <2>3, <2>4
  <2>6. starting' = starting
    BY <2>2, <2>5 DEF EndStart, Unreserved
  <2>7. UNCHANGED <<children, registry, req, held, sweep, ctxDone, servers, faults>>
    BY <1>1 DEF EndStart, Unreserved
  <2>8. TypeOK'
    BY <2>1, <2>2, <2>3, <2>4, <2>5, <2>6, <2>7
  <2>9. Roles' /\ Spawned'
    BY <2>1, <2>2, <2>3, <2>4, <2>5, <2>6, <2>7
  <2>10. Reserved'
    BY <2>1, <2>2, <2>3, <2>4, <2>5, <2>6, <2>7
  <2>11. Listed' /\ Tracked'
    BY <2>1, <2>2, <2>3, <2>4, <2>5, <2>6, <2>7
  <2>12. Held' /\ Alone'
    BY <2>1, <2>2, <2>3, <2>4, <2>5, <2>6, <2>7
  <2>13. Awaited' /\ Answered'
    BY <2>1, <2>2, <2>3, <2>4, <2>5, <2>6, <2>7
  <2>14. NoOrphanServer'
    BY <2>1, <2>2, <2>3, <2>4, <2>5, <2>6, <2>7
  <2>15. StoppedIsGone'
    BY <2>1, <2>2, <2>3, <2>4, <2>5, <2>6, <2>7
  <2> QED
    BY <2>8, <2>9, <2>10, <2>11, <2>12, <2>13, <2>14, <2>15
<1>2. CASE pc[x] = "end.failed"
  <2>1. pc[x] = "end.failed" /\ pc' = [pc EXCEPT ![x] = "failed"]
    BY <1>2 DEF EndStart, Unreserved
  <2>2. IsStart(x) /\ Alias(x) \in Aliases /\ starting[Alias(x)] = x
    BY <1>2 DEF EndStart, Unreserved
  <2>3. starting' = [starting EXCEPT ![Alias(x)] = None]
    BY <1>2, ZenonT(40) DEF EndStart, Unreserved
  <2>4. UNCHANGED <<children, registry, req, held, sweep, ctxDone, servers, faults>>
    BY <1>2 DEF EndStart, Unreserved
  <2>5. TypeOK'
    BY <2>1, <2>2, <2>3, <2>4
  <2>6. Roles' /\ Spawned'
    BY <2>1, <2>2, <2>3, <2>4
  <2>7. Reserved'
    BY <2>1, <2>2, <2>3, <2>4
  <2>8. Listed' /\ Tracked'
    BY <2>1, <2>2, <2>3, <2>4
  <2>9. Held' /\ Alone'
    BY <2>1, <2>2, <2>3, <2>4
  <2>10. Awaited' /\ Answered'
    BY <2>1, <2>2, <2>3, <2>4
  <2>11. NoOrphanServer'
    BY <2>1, <2>2, <2>3, <2>4
  <2>12. StoppedIsGone'
    BY <2>1, <2>2, <2>3, <2>4
  <2> QED
    BY <2>5, <2>6, <2>7, <2>8, <2>9, <2>10, <2>11, <2>12
<1> QED
  BY <1>1, <1>2 DEF EndStart, Unreserved

\* A stop cancels a start, takes a child, or finds nothing.
LEMMA StopTakeStep == ASSUME Inv, NEW x \in Calls, StopTake(x) PROVE Inv'
<1>1. req[x].verb \in {"stop", "stopall"} /\ Alias(x) \in Aliases
  BY DEF StopTake
<1>2. CASE starting[Alias(x)] # None
  <2>1. pc[x] = "stop" /\ pc' = [pc EXCEPT ![x] = "stop.await"]
    BY <1>2, <1>1 DEF StopTake
  <2>2. starting[Alias(x)] \in Calls
    BY <1>2, <1>1 DEF StopTake
  <2>3. held' = [held EXCEPT ![x] = starting[Alias(x)]]
    BY <1>2, <1>1 DEF StopTake
  <2>4. ctxDone' = ctxDone \cup {starting[Alias(x)]}
    BY <1>2, <1>1 DEF StopTake
  <2>5. UNCHANGED <<tables, missed, req, todo, seen, servers, faults>>
    BY <1>2, <1>1 DEF StopTake
  <2>6. TypeOK'
    BY <1>1, <2>1, <2>2, <2>3, <2>4, <2>5
  <2>7. Roles' /\ Spawned'
    BY <1>1, <2>1, <2>2, <2>3, <2>4, <2>5
  <2>8. Reserved'
    BY <1>1, <2>1, <2>2, <2>3, <2>4, <2>5
  <2>9. Listed' /\ Tracked'
    BY <1>1, <2>1, <2>2, <2>3, <2>4, <2>5
  <2>10. Held' /\ Alone'
    BY <1>1, <2>1, <2>2, <2>3, <2>4, <2>5
  <2>11. Awaited' /\ Answered'
    BY <1>1, <2>1, <2>2, <2>3, <2>4, <2>5
  <2>12. NoOrphanServer'
    BY <1>1, <2>1, <2>2, <2>3, <2>4, <2>5
  <2>13. StoppedIsGone'
    BY <1>1, <2>1, <2>2, <2>3, <2>4, <2>5
  <2> QED
    BY <2>6, <2>7, <2>8, <2>9, <2>10, <2>11, <2>12, <2>13
<1>3. CASE starting[Alias(x)] = None /\ children[Alias(x)] # None
  <2>1. pc[x] = "stop" /\ pc' = [pc EXCEPT ![x] = "stop.term"]
    BY <1>3, <1>1 DEF StopTake
  <2>2. children[Alias(x)] \in Calls
    BY <1>3, <1>1 DEF StopTake
  <2>3. held' = [held EXCEPT ![x] = children[Alias(x)]]
    BY <1>3, <1>1 DEF StopTake
  <2>4. children' = [children EXCEPT ![Alias(x)] = None]
    BY <1>3, <1>1 DEF StopTake
  <2>5. UNCHANGED <<starting, registry, ctxDone, missed, req, todo, seen, servers, faults>>
    BY <1>3, <1>1 DEF StopTake
  <2>6. TypeOK'
    BY <1>1, <2>1, <2>2, <2>3, <2>4, <2>5
  <2>7. Roles' /\ Spawned'
    BY <1>1, <2>1, <2>2, <2>3, <2>4, <2>5
  <2>8. Reserved'
    BY <1>1, <2>1, <2>2, <2>3, <2>4, <2>5
  <2>9. Listed' /\ Tracked'
    BY <1>1, <2>1, <2>2, <2>3, <2>4, <2>5
  <2>10. Held' /\ Alone'
    BY <1>1, <2>1, <2>2, <2>3, <2>4, <2>5
  <2>11. Awaited' /\ Answered'
    BY <1>1, <2>1, <2>2, <2>3, <2>4, <2>5
  <2>12. NoOrphanServer'
    BY <1>1, <2>1, <2>2, <2>3, <2>4, <2>5
  <2>13. StoppedIsGone'
    BY <1>1, <2>1, <2>2, <2>3, <2>4, <2>5
  <2> QED
    BY <2>6, <2>7, <2>8, <2>9, <2>10, <2>11, <2>12, <2>13
<1>4. CASE /\ starting[Alias(x)] = None /\ children[Alias(x)] = None
          /\ req[x].verb = "stop"
  <2>1. pc[x] = "stop" /\ req[x].verb = "stop"
    BY <1>4, <1>1 DEF StopTake
  <2>2. pc' = [pc EXCEPT ![x] = "failed"]
    BY <1>4, <1>1 DEF StopTake
  <2>3. missed' \in [Calls -> SUBSET Aliases]
    BY <1>4, <1>1 DEF StopTake
  <2>4. \A c \in Calls : Stopping(c) => pc'[c] = pc[c]
    BY <1>4, <1>1 DEF StopTake
  <2>5. UNCHANGED <<tables, held, ctxDone, req, todo, seen, servers, faults>>
    BY <1>4, <1>1 DEF StopTake
  <2>6. TypeOK'
    BY <1>1, <2>1, <2>2, <2>3, <2>4, <2>5
  <2>7. Roles' /\ Spawned'
    BY <1>1, <2>1, <2>2, <2>3, <2>4, <2>5
  <2>8. Reserved'
    BY <1>1, <2>1, <2>2, <2>3, <2>4, <2>5
  <2>9. Listed' /\ Tracked'
    BY <1>1, <2>1, <2>2, <2>3, <2>4, <2>5
  <2>10. Held' /\ Alone'
    BY <1>1, <2>1, <2>2, <2>3, <2>4, <2>5
  <2>11. Awaited' /\ Answered'
    BY <1>1, <2>1, <2>2, <2>3, <2>4, <2>5
  <2>12. NoOrphanServer'
    BY <1>1, <2>1, <2>2, <2>3, <2>4, <2>5
  <2>13. StoppedIsGone'
    BY <1>1, <2>1, <2>2, <2>3, <2>4, <2>5
  <2> QED
    BY <2>6, <2>7, <2>8, <2>9, <2>10, <2>11, <2>12, <2>13
<1>5. CASE /\ starting[Alias(x)] = None /\ children[Alias(x)] = None
          /\ req[x].verb = "stopall"
  <2>1. pc[x] = "stop" /\ req[x].verb = "stopall"
    BY <1>5, <1>1 DEF StopTake
  <2>2. pc' = [pc EXCEPT ![x] = "next"]
    BY <1>5, <1>1 DEF StopTake
  <2>3. missed' = [missed EXCEPT ![x] = @ \cup {Alias(x)}]
    BY <1>5, <1>1 DEF StopTake
  <2>4. missed' \in [Calls -> SUBSET Aliases]
    BY <2>3, <1>1
  <2>5. \A c \in Calls : Stopping(c) => pc'[c] = pc[c]
    BY <1>5, <1>1 DEF StopTake
  <2>6. UNCHANGED <<tables, held, ctxDone, req, todo, seen, servers, faults>>
    BY <1>5, <1>1 DEF StopTake
  <2>7. TypeOK'
    BY <1>1, <2>1, <2>2, <2>3, <2>4, <2>5, <2>6
  <2>8. Roles' /\ Spawned'
    BY <1>1, <2>1, <2>2, <2>3, <2>4, <2>5, <2>6
  <2>9. Reserved'
    BY <1>1, <2>1, <2>2, <2>3, <2>4, <2>5, <2>6
  <2>10. Listed' /\ Tracked'
    BY <1>1, <2>1, <2>2, <2>3, <2>4, <2>5, <2>6
  <2>11. Held' /\ Alone'
    BY <1>1, <2>1, <2>2, <2>3, <2>4, <2>5, <2>6
  <2>12. Awaited' /\ Answered'
    BY <1>1, <2>1, <2>2, <2>3, <2>4, <2>5, <2>6
  <2>13. NoOrphanServer'
    BY <1>1, <2>1, <2>2, <2>3, <2>4, <2>5, <2>6
  <2>14. StoppedIsGone'
    BY <1>1, <2>1, <2>2, <2>3, <2>4, <2>5, <2>6
  <2> QED
    BY <2>7, <2>8, <2>9, <2>10, <2>11, <2>12, <2>13, <2>14
<1> QED
  BY <1>2, <1>3, <1>4, <1>5 DEF StopTake

\* A stop sees the start it cancelled end, having registered nothing, or gives up.
LEMMA StopAwaitStep == ASSUME Inv, NEW x \in Calls, StopAwait(x) PROVE Inv'
<1>1. req[x].verb \in {"stop", "stopall"} /\ Alias(x) \in Aliases
  BY DEF StopAwait
<1>2. CASE Ended(held[x]) /\ Stopped(x) /\ UNCHANGED faults /\ req[x].verb = "stop"
  <2>1. pc[x] = "stop.await" /\ pc' = [pc EXCEPT ![x] = "ok"] /\ req[x].verb = "stop"
    BY <1>2, <1>1 DEF StopAwait
  <2>2. held[x] \in Calls /\ pc[held[x]] = "failed" /\ Alias(held[x]) \in Aliases
    BY <1>2, <1>1 DEF StopAwait
  <2>3. registry[Alias(held[x])] # held[x]
    BY <2>2
  <2>4. children[Alias(held[x])] # held[x]
    BY <2>2, <2>3
  <2>5. \A d \in Calls : Stopping(d) => held[d] # held[x]
    BY <2>2, <2>3 DEF Inv, Held, Alias
  <2>6. proc[held[x]] # "up"
    BY <2>2, <2>4, <2>5, SMTT(30)
  <2>7. UNCHANGED <<tables, req, held, sweep, ctxDone, servers, faults>>
    BY <1>2, <1>1 DEF StopAwait
  <2>8. TypeOK'
    BY <1>1, <2>1, <2>2, <2>3, <2>4, <2>5, <2>6, <2>7
  <2>9. Roles' /\ Spawned'
    BY <1>1, <2>1, <2>2, <2>3, <2>4, <2>5, <2>6, <2>7
  <2>10. Reserved'
    BY <1>1, <2>1, <2>2, <2>3, <2>4, <2>5, <2>6, <2>7
  <2>11. Listed' /\ Tracked'
    BY <1>1, <2>1, <2>2, <2>3, <2>4, <2>5, <2>6, <2>7
  <2>12. Held' /\ Alone'
    BY <1>1, <2>1, <2>2, <2>3, <2>4, <2>5, <2>6, <2>7
  <2>13. Awaited' /\ Answered'
    BY <1>1, <2>1, <2>2, <2>3, <2>4, <2>5, <2>6, <2>7
  <2>14. NoOrphanServer'
    BY <1>1, <2>1, <2>2, <2>3, <2>4, <2>5, <2>6, <2>7
  <2>15. StoppedIsGone'
    BY <1>1, <2>1, <2>2, <2>3, <2>4, <2>5, <2>6, <2>7
  <2> QED
    BY <2>8, <2>9, <2>10, <2>11, <2>12, <2>13, <2>14, <2>15
<1>3. CASE Ended(held[x]) /\ Stopped(x) /\ UNCHANGED faults /\ req[x].verb = "stopall"
  <2>1. pc[x] = "stop.await" /\ pc' = [pc EXCEPT ![x] = "next"] /\ req[x].verb = "stopall"
    BY <1>3, <1>1 DEF StopAwait
  <2>2. held[x] \in Calls /\ pc[held[x]] = "failed" /\ Alias(held[x]) \in Aliases
    BY <1>3, <1>1 DEF StopAwait
  <2>3. registry[Alias(held[x])] # held[x]
    BY <2>2
  <2>4. children[Alias(held[x])] # held[x]
    BY <2>2, <2>3
  <2>5. \A d \in Calls : Stopping(d) => held[d] # held[x]
    BY <2>2, <2>3 DEF Inv, Held, Alias
  <2>6. proc[held[x]] # "up"
    BY <2>2, <2>4, <2>5, SMTT(30)
  <2>7. UNCHANGED <<tables, req, held, sweep, ctxDone, servers, faults>>
    BY <1>3, <1>1 DEF StopAwait
  <2>8. TypeOK'
    BY <1>1, <2>1, <2>2, <2>3, <2>4, <2>5, <2>6, <2>7
  <2>9. Roles' /\ Spawned'
    BY <1>1, <2>1, <2>2, <2>3, <2>4, <2>5, <2>6, <2>7
  <2>10. Reserved'
    BY <1>1, <2>1, <2>2, <2>3, <2>4, <2>5, <2>6, <2>7
  <2>11. Listed' /\ Tracked'
    BY <1>1, <2>1, <2>2, <2>3, <2>4, <2>5, <2>6, <2>7
  <2>12. Held' /\ Alone'
    BY <1>1, <2>1, <2>2, <2>3, <2>4, <2>5, <2>6, <2>7
  <2>13. Awaited' /\ Answered'
    BY <1>1, <2>1, <2>2, <2>3, <2>4, <2>5, <2>6, <2>7
  <2>14. NoOrphanServer'
    BY <1>1, <2>1, <2>2, <2>3, <2>4, <2>5, <2>6, <2>7
  <2>15. StoppedIsGone'
    BY <1>1, <2>1, <2>2, <2>3, <2>4, <2>5, <2>6, <2>7
  <2> QED
    BY <2>8, <2>9, <2>10, <2>11, <2>12, <2>13, <2>14, <2>15
<1>4. CASE faults < MaxFaults /\ faults' = faults + 1 /\ NotStopped(x) /\ req[x].verb = "stop"
  <2>1. pc[x] = "stop.await" /\ req[x].verb = "stop"
    BY <1>4, <1>1 DEF StopAwait
  <2>2. pc' = [pc EXCEPT ![x] = "failed"]
    BY <1>4, <1>1 DEF StopAwait
  <2>3. missed' \in [Calls -> SUBSET Aliases]
    BY <1>4, <1>1 DEF StopAwait
  <2>4. faults' \in 0..MaxFaults
    BY <1>4
  <2>5. UNCHANGED <<tables, req, held, todo, seen, ctxDone, servers>>
    BY <1>4, <1>1 DEF StopAwait
  <2>6. TypeOK'
    BY <1>1, <2>1, <2>2, <2>3, <2>4, <2>5
  <2>7. Roles' /\ Spawned'
    BY <1>1, <2>1, <2>2, <2>3, <2>4, <2>5
  <2>8. Reserved'
    BY <1>1, <2>1, <2>2, <2>3, <2>4, <2>5
  <2>9. Listed' /\ Tracked'
    BY <1>1, <2>1, <2>2, <2>3, <2>4, <2>5
  <2>10. Held' /\ Alone'
    BY <1>1, <2>1, <2>2, <2>3, <2>4, <2>5
  <2>11. Awaited' /\ Answered'
    BY <1>1, <2>1, <2>2, <2>3, <2>4, <2>5
  <2>12. NoOrphanServer'
    BY <1>1, <2>1, <2>2, <2>3, <2>4, <2>5
  <2>13. StoppedIsGone'
    BY <1>1, <2>1, <2>2, <2>3, <2>4, <2>5
  <2> QED
    BY <2>6, <2>7, <2>8, <2>9, <2>10, <2>11, <2>12, <2>13
<1>5. CASE faults < MaxFaults /\ faults' = faults + 1 /\ NotStopped(x) /\ req[x].verb = "stopall"
  <2>1. pc[x] = "stop.await" /\ req[x].verb = "stopall"
    BY <1>5, <1>1 DEF StopAwait
  <2>2. pc' = [pc EXCEPT ![x] = "next"]
    BY <1>5, <1>1 DEF StopAwait
  <2>3. missed' = [missed EXCEPT ![x] = @ \cup {Alias(x)}]
    BY <1>5, <1>1 DEF StopAwait
  <2>4. missed' \in [Calls -> SUBSET Aliases]
    BY <2>3, <1>1
  <2>5. faults' \in 0..MaxFaults
    BY <1>5
  <2>6. UNCHANGED <<tables, req, held, todo, seen, ctxDone, servers>>
    BY <1>5, <1>1 DEF StopAwait
  <2>7. TypeOK'
    BY <1>1, <2>1, <2>2, <2>3, <2>4, <2>5, <2>6
  <2>8. Roles' /\ Spawned'
    BY <1>1, <2>1, <2>2, <2>3, <2>4, <2>5, <2>6
  <2>9. Reserved'
    BY <1>1, <2>1, <2>2, <2>3, <2>4, <2>5, <2>6
  <2>10. Listed' /\ Tracked'
    BY <1>1, <2>1, <2>2, <2>3, <2>4, <2>5, <2>6
  <2>11. Held' /\ Alone'
    BY <1>1, <2>1, <2>2, <2>3, <2>4, <2>5, <2>6
  <2>12. Awaited' /\ Answered'
    BY <1>1, <2>1, <2>2, <2>3, <2>4, <2>5, <2>6
  <2>13. NoOrphanServer'
    BY <1>1, <2>1, <2>2, <2>3, <2>4, <2>5, <2>6
  <2>14. StoppedIsGone'
    BY <1>1, <2>1, <2>2, <2>3, <2>4, <2>5, <2>6
  <2> QED
    BY <2>7, <2>8, <2>9, <2>10, <2>11, <2>12, <2>13, <2>14
<1> QED
  BY <1>2, <1>3, <1>4, <1>5, SMTT(30) DEF StopAwait

\* A stop signals its child; a refusal leaves a dead child listed.
LEMMA StopTermStep == ASSUME Inv, NEW x \in Calls, StopTerm(x) PROVE Inv'
<1>1. req[x].verb \in {"stop", "stopall"} /\ Alias(x) \in Aliases
  BY DEF StopTerm, TermAnswer
<1>2. CASE TermAnswer(held[x]) = "EPERM" /\ req[x].verb = "stop"
  <2>1. pc[x] = "stop.term" /\ req[x].verb = "stop"
    BY <1>2, <1>1 DEF StopTerm, TermAnswer
  <2>2. pc' = [pc EXCEPT ![x] = "failed"]
    BY <1>2, <1>1 DEF StopTerm, TermAnswer
  <2>3. held[x] \in Calls /\ proc[held[x]] = "zombie"
    BY <1>2, <1>1 DEF StopTerm, TermAnswer
  <2>4. missed' \in [Calls -> SUBSET Aliases]
    BY <1>2, <1>1 DEF StopTerm, TermAnswer
  <2>5. UNCHANGED <<tables, req, held, todo, seen, ctxDone, servers, faults>>
    BY <1>2, <1>1 DEF StopTerm, TermAnswer
  <2>6. TypeOK'
    BY <1>1, <2>1, <2>2, <2>3, <2>4, <2>5
  <2>7. Roles' /\ Spawned'
    BY <1>1, <2>1, <2>2, <2>3, <2>4, <2>5
  <2>8. Reserved'
    BY <1>1, <2>1, <2>2, <2>3, <2>4, <2>5
  <2>9. Listed' /\ Tracked'
    BY <1>1, <2>1, <2>2, <2>3, <2>4, <2>5
  <2>10. Held' /\ Alone'
    BY <1>1, <2>1, <2>2, <2>3, <2>4, <2>5
  <2>11. Awaited' /\ Answered'
    BY <1>1, <2>1, <2>2, <2>3, <2>4, <2>5
  <2>12. NoOrphanServer'
    BY <1>1, <2>1, <2>2, <2>3, <2>4, <2>5
  <2>13. StoppedIsGone'
    BY <1>1, <2>1, <2>2, <2>3, <2>4, <2>5
  <2> QED
    BY <2>6, <2>7, <2>8, <2>9, <2>10, <2>11, <2>12, <2>13
<1>3. CASE TermAnswer(held[x]) = "EPERM" /\ req[x].verb = "stopall"
  <2>1. pc[x] = "stop.term" /\ req[x].verb = "stopall"
    BY <1>3, <1>1 DEF StopTerm, TermAnswer
  <2>2. pc' = [pc EXCEPT ![x] = "next"]
    BY <1>3, <1>1 DEF StopTerm, TermAnswer
  <2>3. held[x] \in Calls /\ proc[held[x]] = "zombie"
    BY <1>3, <1>1 DEF StopTerm, TermAnswer
  <2>4. missed' = [missed EXCEPT ![x] = @ \cup {Alias(x)}]
    BY <1>3, <1>1 DEF StopTerm, TermAnswer
  <2>5. missed' \in [Calls -> SUBSET Aliases]
    BY <2>4, <1>1
  <2>6. UNCHANGED <<tables, req, held, todo, seen, ctxDone, servers, faults>>
    BY <1>3, <1>1 DEF StopTerm, TermAnswer
  <2>7. TypeOK'
    BY <1>1, <2>1, <2>2, <2>3, <2>4, <2>5, <2>6
  <2>8. Roles' /\ Spawned'
    BY <1>1, <2>1, <2>2, <2>3, <2>4, <2>5, <2>6
  <2>9. Reserved'
    BY <1>1, <2>1, <2>2, <2>3, <2>4, <2>5, <2>6
  <2>10. Listed' /\ Tracked'
    BY <1>1, <2>1, <2>2, <2>3, <2>4, <2>5, <2>6
  <2>11. Held' /\ Alone'
    BY <1>1, <2>1, <2>2, <2>3, <2>4, <2>5, <2>6
  <2>12. Awaited' /\ Answered'
    BY <1>1, <2>1, <2>2, <2>3, <2>4, <2>5, <2>6
  <2>13. NoOrphanServer'
    BY <1>1, <2>1, <2>2, <2>3, <2>4, <2>5, <2>6
  <2>14. StoppedIsGone'
    BY <1>1, <2>1, <2>2, <2>3, <2>4, <2>5, <2>6
  <2> QED
    BY <2>7, <2>8, <2>9, <2>10, <2>11, <2>12, <2>13, <2>14
<1>4. CASE TermAnswer(held[x]) = "ESRCH"
  <2>1. pc[x] = "stop.term" /\ pc' = [pc EXCEPT ![x] = "stop.remove"]
    BY <1>4, <1>1 DEF StopTerm, TermAnswer
  <2>2. proc[held[x]] = "gone"
    BY <1>4, <1>1 DEF StopTerm, TermAnswer
  <2>3. UNCHANGED <<tables, req, held, sweep, ctxDone, servers, faults>>
    BY <1>4, <1>1 DEF StopTerm, TermAnswer
  <2>4. TypeOK'
    BY <1>1, <2>1, <2>2, <2>3
  <2>5. Roles' /\ Spawned'
    BY <1>1, <2>1, <2>2, <2>3
  <2>6. Reserved'
    BY <1>1, <2>1, <2>2, <2>3
  <2>7. Listed' /\ Tracked'
    BY <1>1, <2>1, <2>2, <2>3
  <2>8. Held' /\ Alone'
    BY <1>1, <2>1, <2>2, <2>3
  <2>9. Awaited' /\ Answered'
    BY <1>1, <2>1, <2>2, <2>3
  <2>10. NoOrphanServer'
    BY <1>1, <2>1, <2>2, <2>3
  <2>11. StoppedIsGone'
    BY <1>1, <2>1, <2>2, <2>3
  <2> QED
    BY <2>4, <2>5, <2>6, <2>7, <2>8, <2>9, <2>10, <2>11
<1>5. CASE TermAnswer(held[x]) = "sent"
  <2>1. pc[x] = "stop.term" /\ pc' = [pc EXCEPT ![x] = "stop.grace"]
    BY <1>5, <1>1 DEF StopTerm, TermAnswer
  <2>2. UNCHANGED <<tables, req, held, sweep, ctxDone, servers, faults>>
    BY <1>5, <1>1 DEF StopTerm, TermAnswer
  <2>3. TypeOK'
    BY <1>1, <2>1, <2>2
  <2>4. Roles' /\ Spawned'
    BY <1>1, <2>1, <2>2
  <2>5. Reserved'
    BY <1>1, <2>1, <2>2
  <2>6. Listed' /\ Tracked'
    BY <1>1, <2>1, <2>2
  <2>7. Held' /\ Alone'
    BY <1>1, <2>1, <2>2
  <2>8. Awaited' /\ Answered'
    BY <1>1, <2>1, <2>2
  <2>9. NoOrphanServer'
    BY <1>1, <2>1, <2>2
  <2>10. StoppedIsGone'
    BY <1>1, <2>1, <2>2
  <2> QED
    BY <2>3, <2>4, <2>5, <2>6, <2>7, <2>8, <2>9, <2>10
<1> QED
  BY <1>2, <1>3, <1>4, <1>5, SMTT(30) DEF StopTerm, TermAnswer

\* A stop's grace ends in a SIGKILL.
LEMMA StopGraceStep == ASSUME Inv, NEW x \in Calls, StopGrace(x) PROVE Inv'
<1>1. TypeOK'
  BY DEF StopGrace
<1>2. Roles' /\ Spawned'
  BY DEF StopGrace
<1>3. Reserved'
  BY DEF StopGrace
<1>4. Listed' /\ Tracked'
  BY DEF StopGrace
<1>5. Held' /\ Alone'
  BY DEF StopGrace
<1>6. Awaited' /\ Answered'
  BY DEF StopGrace
<1>7. NoOrphanServer'
  BY DEF StopGrace
<1>8. StoppedIsGone'
  BY DEF StopGrace
<1> QED
  BY <1>1, <1>2, <1>3, <1>4, <1>5, <1>6, <1>7, <1>8

\* A stop sees its child exit.
LEMMA StopDrainStep == ASSUME Inv, NEW x \in Calls, StopDrain(x) PROVE Inv'
<1>1. TypeOK'
  BY DEF StopDrain, StopWaits
<1>2. Roles' /\ Spawned'
  BY DEF StopDrain, StopWaits
<1>3. Reserved'
  BY DEF StopDrain, StopWaits
<1>4. Listed' /\ Tracked'
  BY DEF StopDrain, StopWaits
<1>5. Held' /\ Alone'
  BY DEF StopDrain, StopWaits
<1>6. Awaited' /\ Answered'
  BY DEF StopDrain, StopWaits
<1>7. NoOrphanServer'
  BY DEF StopDrain, StopWaits
<1>8. StoppedIsGone'
  BY DEF StopDrain, StopWaits
<1> QED
  BY <1>1, <1>2, <1>3, <1>4, <1>5, <1>6, <1>7, <1>8

\* A stop unlists its own child, by Held.
LEMMA StopRemoveStep == ASSUME Inv, NEW x \in Calls, StopRemove(x) PROVE Inv'
<1>1. TypeOK'
  BY DEF StopRemove
<1>2. Roles' /\ Spawned'
  BY DEF StopRemove
<1>3. Reserved'
  BY DEF StopRemove
<1>4. Listed' /\ Tracked'
  BY DEF StopRemove
<1>5. Held' /\ Alone'
  BY DEF StopRemove
<1>6. Awaited' /\ Answered'
  BY DEF StopRemove
<1>7. NoOrphanServer'
  BY DEF StopRemove
<1>8. StoppedIsGone'
  BY DEF StopRemove
<1> QED
  BY <1>1, <1>2, <1>3, <1>4, <1>5, <1>6, <1>7, <1>8

\* A StopAll reads the pending starts.
LEMMA ReadPendingStep == ASSUME Inv, NEW x \in Calls, ReadPending(x) PROVE Inv'
<1>1. pc[x] = "pending" /\ pc' = [pc EXCEPT ![x] = "list"]
  BY DEF ReadPending, ReadOrder, Names
<1>2. todo' \in [Calls -> SUBSET Aliases] /\ seen' \in [Calls -> SUBSET Calls]
  BY DEF ReadPending, ReadOrder, Names
<1>3. \A c \in Calls : Stopping(c) => pc'[c] = pc[c]
  BY DEF ReadPending, ReadOrder, Names
<1>4. UNCHANGED <<tables, req, held, missed, ctxDone, servers, faults>>
  BY DEF ReadPending, ReadOrder, Names
<1>5. TypeOK'
  BY <1>1, <1>2, <1>3, <1>4
<1>6. Roles' /\ Spawned'
  BY <1>1, <1>2, <1>3, <1>4
<1>7. Reserved'
  BY <1>1, <1>2, <1>3, <1>4
<1>8. Listed' /\ Tracked'
  BY <1>1, <1>2, <1>3, <1>4
<1>9. Held' /\ Alone'
  BY <1>1, <1>2, <1>3, <1>4
<1>10. Awaited' /\ Answered'
  BY <1>1, <1>2, <1>3, <1>4
<1>11. NoOrphanServer'
  BY <1>1, <1>2, <1>3, <1>4
<1>12. StoppedIsGone'
  BY <1>1, <1>2, <1>3, <1>4
<1> QED
  BY <1>5, <1>6, <1>7, <1>8, <1>9, <1>10, <1>11, <1>12

\* A StopAll reads the registry.
LEMMA ReadRegistryStep == ASSUME Inv, NEW x \in Calls, ReadRegistry(x) PROVE Inv'
<1>1. TypeOK'
  BY DEF ReadRegistry, ReadOrder, Names
<1>2. Roles' /\ Spawned'
  BY DEF ReadRegistry, ReadOrder, Names
<1>3. Reserved'
  BY DEF ReadRegistry, ReadOrder, Names
<1>4. Listed' /\ Tracked'
  BY DEF ReadRegistry, ReadOrder, Names
<1>5. Held' /\ Alone'
  BY DEF ReadRegistry, ReadOrder, Names
<1>6. Awaited' /\ Answered'
  BY DEF ReadRegistry, ReadOrder, Names
<1>7. NoOrphanServer'
  BY DEF ReadRegistry, ReadOrder, Names
<1>8. StoppedIsGone'
  BY DEF ReadRegistry, ReadOrder, Names
<1> QED
  BY <1>1, <1>2, <1>3, <1>4, <1>5, <1>6, <1>7, <1>8

\* A StopAll takes its next alias or ends.
LEMMA NextAliasStep == ASSUME Inv, NEW x \in Calls, NextAlias(x) PROVE Inv'
<1>1. CASE todo[x] = {} /\ UNCHANGED <<todo, req>> /\ pc' = [pc EXCEPT ![x] = "ok"]
  <2>1. pc[x] = "next" /\ pc' = [pc EXCEPT ![x] = "ok"]
    BY <1>1 DEF NextAlias
  <2>2. req[x].verb = "stopall"
    BY <1>1 DEF NextAlias
  <2>3. UNCHANGED <<tables, req, held, sweep, ctxDone, servers, faults>>
    BY <1>1 DEF NextAlias
  <2>4. TypeOK'
    BY <2>1, <2>2, <2>3
  <2>5. Roles' /\ Spawned'
    BY <2>1, <2>2, <2>3
  <2>6. Reserved'
    BY <2>1, <2>2, <2>3
  <2>7. Listed' /\ Tracked'
    BY <2>1, <2>2, <2>3
  <2>8. Held' /\ Alone'
    BY <2>1, <2>2, <2>3
  <2>9. Awaited' /\ Answered'
    BY <2>1, <2>2, <2>3
  <2>10. NoOrphanServer'
    BY <2>1, <2>2, <2>3
  <2>11. StoppedIsGone'
    BY <2>1, <2>2, <2>3
  <2> QED
    BY <2>4, <2>5, <2>6, <2>7, <2>8, <2>9, <2>10, <2>11
<1>2. CASE \E a \in todo[x] : /\ todo' = [todo EXCEPT ![x] = @ \ {a}]
                               /\ req' = [req EXCEPT ![x].alias = a]
                               /\ pc' = [pc EXCEPT ![x] = "stop"]
  <2>1. pc[x] = "next" /\ pc' = [pc EXCEPT ![x] = "stop"]
    BY <1>2 DEF NextAlias
  <2>2. req[x].verb = "stopall"
    BY <1>2 DEF NextAlias
  <2>3. proc[x] = "none"
    BY <2>2
  <2>4. todo[x] \subseteq Aliases
    BY <1>2 DEF NextAlias
  <2>5. \E a \in Aliases : req' = [req EXCEPT ![x].alias = a]
    BY <1>2, <2>4
  <2>6. todo' \in [Calls -> SUBSET Aliases]
    BY <1>2 DEF NextAlias
  <2>7. \A c \in Calls : req'[c].verb = req[c].verb /\ (c # x => req'[c].alias = req[c].alias)
    BY <2>5
  <2>8. req'[x].alias \in Aliases /\ ~IsStart(x)
    BY <2>2, <2>5
  <2>9. req' \in [Calls -> [verb : {"none"} \cup Verbs, alias : Aliases \cup {None}]]
    BY <2>5
  <2>10. \A c \in Calls : Stopping(c) => pc'[c] = pc[c]
    BY <1>2 DEF NextAlias
  <2>11. UNCHANGED <<tables, held, missed, seen, ctxDone, servers, faults>>
    BY <1>2 DEF NextAlias
  <2>12. TypeOK'
    BY <2>1, <2>2, <2>3, <2>4, <2>5, <2>6, <2>7, <2>8, <2>9, <2>10, <2>11
  <2>13. Roles' /\ Spawned'
    BY <2>1, <2>2, <2>3, <2>4, <2>5, <2>6, <2>7, <2>8, <2>9, <2>10, <2>11
  <2>14. Reserved'
    BY <2>1, <2>2, <2>3, <2>4, <2>5, <2>6, <2>7, <2>8, <2>9, <2>10, <2>11
  <2>15. Listed' /\ Tracked'
    BY <2>1, <2>2, <2>3, <2>4, <2>5, <2>6, <2>7, <2>8, <2>9, <2>10, <2>11
  <2>16. Held' /\ Alone'
    BY <2>1, <2>2, <2>3, <2>4, <2>5, <2>6, <2>7, <2>8, <2>9, <2>10, <2>11
  <2>17. Awaited' /\ Answered'
    BY <2>1, <2>2, <2>3, <2>4, <2>5, <2>6, <2>7, <2>8, <2>9, <2>10, <2>11
  <2>18. NoOrphanServer'
    BY <2>1, <2>2, <2>3, <2>4, <2>5, <2>6, <2>7, <2>8, <2>9, <2>10, <2>11
  <2>19. StoppedIsGone'
    BY <2>1, <2>2, <2>3, <2>4, <2>5, <2>6, <2>7, <2>8, <2>9, <2>10, <2>11
  <2> QED
    BY <2>12, <2>13, <2>14, <2>15, <2>16, <2>17, <2>18, <2>19
<1> QED
  BY <1>1, <1>2 DEF NextAlias

\* A server binds its port or dies of it.
LEMMA BindStep == ASSUME Inv, NEW x \in Calls, Bind(x) PROVE Inv'
<1>1. CASE bound[port[x]] = None
  <2>1. bound' \in [Ports -> Calls \cup {None}]
    BY <1>1 DEF Bind
  <2>2. UNCHANGED <<tables, pc, req, held, sweep, ctxDone, proc, reaped, port, faults>>
    BY <1>1 DEF Bind
  <2>3. TypeOK'
    BY <2>1, <2>2
  <2>4. Roles' /\ Spawned'
    BY <2>1, <2>2
  <2>5. Reserved'
    BY <2>1, <2>2
  <2>6. Listed' /\ Tracked'
    BY <2>1, <2>2
  <2>7. Held' /\ Alone'
    BY <2>1, <2>2
  <2>8. Awaited' /\ Answered'
    BY <2>1, <2>2
  <2>9. NoOrphanServer'
    BY <2>1, <2>2
  <2>10. StoppedIsGone'
    BY <2>1, <2>2
  <2> QED
    BY <2>3, <2>4, <2>5, <2>6, <2>7, <2>8, <2>9, <2>10
<1>2. CASE bound[port[x]] # None
  <2>1. bound' \in [Ports -> Calls \cup {None}]
    BY <1>2 DEF Bind
  <2>2. proc[x] = "up" /\ proc' = [proc EXCEPT ![x] = "zombie"]
    BY <1>2 DEF Bind
  <2>3. UNCHANGED <<tables, pc, req, held, sweep, ctxDone, reaped, port, faults>>
    BY <1>2 DEF Bind
  <2>4. TypeOK'
    BY <2>1, <2>2, <2>3
  <2>5. Roles' /\ Spawned'
    BY <2>1, <2>2, <2>3
  <2>6. Reserved'
    BY <2>1, <2>2, <2>3
  <2>7. Listed' /\ Tracked'
    BY <2>1, <2>2, <2>3
  <2>8. Held' /\ Alone'
    BY <2>1, <2>2, <2>3
  <2>9. Awaited' /\ Answered'
    BY <2>1, <2>2, <2>3
  <2>10. NoOrphanServer'
    BY <2>1, <2>2, <2>3
  <2>11. StoppedIsGone'
    BY <2>1, <2>2, <2>3
  <2> QED
    BY <2>4, <2>5, <2>6, <2>7, <2>8, <2>9, <2>10, <2>11
<1> QED
  BY <1>1, <1>2 DEF Bind

\* A server dies.
LEMMA ExitStep == ASSUME Inv, NEW x \in Calls, Exit(x) PROVE Inv'
<1>1. TypeOK'
  BY DEF Exit
<1>2. Roles' /\ Spawned'
  BY DEF Exit
<1>3. Reserved'
  BY DEF Exit
<1>4. Listed' /\ Tracked'
  BY DEF Exit
<1>5. Held' /\ Alone'
  BY DEF Exit
<1>6. Awaited' /\ Answered'
  BY DEF Exit
<1>7. NoOrphanServer'
  BY DEF Exit
<1>8. StoppedIsGone'
  BY DEF Exit
<1> QED
  BY <1>1, <1>2, <1>3, <1>4, <1>5, <1>6, <1>7, <1>8

\* A dead server is collected.
LEMMA WaitReturnsStep == ASSUME Inv, NEW x \in Calls, WaitReturns(x) PROVE Inv'
<1>1. TypeOK'
  BY DEF WaitReturns
<1>2. Roles' /\ Spawned'
  BY DEF WaitReturns
<1>3. Reserved'
  BY DEF WaitReturns
<1>4. Listed' /\ Tracked'
  BY DEF WaitReturns
<1>5. Held' /\ Alone'
  BY DEF WaitReturns
<1>6. Awaited' /\ Answered'
  BY DEF WaitReturns
<1>7. NoOrphanServer'
  BY DEF WaitReturns
<1>8. StoppedIsGone'
  BY DEF WaitReturns
<1> QED
  BY <1>1, <1>2, <1>3, <1>4, <1>5, <1>6, <1>7, <1>8

\* A reaper drops its own server's entries or none.
LEMMA ReapOnExitStep == ASSUME Inv, NEW x \in Calls, ReapOnExit(x) PROVE Inv'
<1>1. CASE Owns(x)
  <2>1. proc[x] = "gone" /\ reaped' = reaped \cup {x}
    BY <1>1 DEF ReapOnExit, Owns
  <2>2. Alias(x) \in Aliases /\ children[Alias(x)] = x /\ registry[Alias(x)] = x
    BY <1>1 DEF ReapOnExit, Owns
  <2>3. /\ children' = [children EXCEPT ![Alias(x)] = None]
       /\ registry' = [registry EXCEPT ![Alias(x)] = None]
    BY <1>1 DEF ReapOnExit, Owns
  <2>4. UNCHANGED <<starting, pc, req, held, sweep, ctxDone, proc, port, bound, faults>>
    BY <1>1 DEF ReapOnExit, Owns
  <2>5. TypeOK'
    BY <2>1, <2>2, <2>3, <2>4
  <2>6. Roles' /\ Spawned'
    BY <2>1, <2>2, <2>3, <2>4
  <2>7. Reserved'
    BY <2>1, <2>2, <2>3, <2>4
  <2>8. Listed' /\ Tracked'
    BY <2>1, <2>2, <2>3, <2>4
  <2>9. Held' /\ Alone'
    BY <2>1, <2>2, <2>3, <2>4
  <2>10. Awaited' /\ Answered'
    BY <2>1, <2>2, <2>3, <2>4
  <2>11. NoOrphanServer'
    BY <2>1, <2>2, <2>3, <2>4
  <2>12. StoppedIsGone'
    BY <2>1, <2>2, <2>3, <2>4
  <2> QED
    BY <2>5, <2>6, <2>7, <2>8, <2>9, <2>10, <2>11, <2>12
<1>2. CASE ~Owns(x)
  <2>1. reaped' = reaped \cup {x}
    BY <1>2 DEF ReapOnExit, Owns
  <2>2. UNCHANGED <<tables, pc, req, held, sweep, ctxDone, proc, port, bound, faults>>
    BY <1>2 DEF ReapOnExit, Owns
  <2>3. TypeOK'
    BY <2>1, <2>2
  <2>4. Roles' /\ Spawned'
    BY <2>1, <2>2
  <2>5. Reserved'
    BY <2>1, <2>2
  <2>6. Listed' /\ Tracked'
    BY <2>1, <2>2
  <2>7. Held' /\ Alone'
    BY <2>1, <2>2
  <2>8. Awaited' /\ Answered'
    BY <2>1, <2>2
  <2>9. NoOrphanServer'
    BY <2>1, <2>2
  <2>10. StoppedIsGone'
    BY <2>1, <2>2
  <2> QED
    BY <2>3, <2>4, <2>5, <2>6, <2>7, <2>8, <2>9, <2>10
<1> QED
  BY <1>1, <1>2 DEF ReapOnExit, Owns

-----------------------------------------------------------------------------
(* The invariant, and what it is for.                                      *)

\* The invariant holds of every reachable state.
LEMMA InvHolds == Spec => []Inv
<1>1. Inv /\ [Next]_vars => Inv'
  <2> SUFFICES ASSUME Inv, [Next]_vars PROVE Inv'
    OBVIOUS
  <2>1. ASSUME NEW x \in Calls, Call(x) \/ ClientLeaves(x) PROVE Inv'
    BY <2>1, CallMade, ClientLeavesStep
  <2>2. ASSUME NEW x \in Calls, StartStep(x) PROVE Inv'
    BY <2>2, ResolveModelStep, ReserveStep, SpawnStep, HealthyStep, UnhealthyStep,
       RecheckStep, RegisterStep, KillStep, DrainStep, EndStartStep DEF StartStep
  <2>3. ASSUME NEW x \in Calls, StopStep(x) PROVE Inv'
    BY <2>3, StopTakeStep, StopAwaitStep, StopTermStep, StopGraceStep, StopDrainStep,
       StopRemoveStep DEF StopStep
  <2>4. ASSUME NEW x \in Calls, StopAllStep(x) PROVE Inv'
    BY <2>4, ReadPendingStep, ReadRegistryStep, NextAliasStep DEF StopAllStep
  <2>5. ASSUME NEW x \in Calls, ServerStep(x) PROVE Inv'
    BY <2>5, BindStep, ExitStep, WaitReturnsStep, ReapOnExitStep DEF ServerStep
  <2>6. CASE UNCHANGED vars
    BY <2>6 DEF vars
  <2> QED
    BY <2>1, <2>2, <2>3, <2>4, <2>5, <2>6 DEF Next, CallStep, Quiet
<1> QED
  BY <1>1, InitInv, PTL DEF Spec

\* Every variable keeps its type (the tables and goroutines of llauncher).
THEOREM LauncherTypes == Spec => []TypeOK
<1> QED
  BY InvHolds, PTL

\* An alias never has two servers up (reserveAlias, Stop's grace window).
THEOREM AliasHasOneServer == Spec => []OneServerPerAlias
<1>1. Inv => OneServerPerAlias
  <2> SUFFICES ASSUME Inv, NEW s \in Calls, NEW t \in Calls, proc[s] = "up",
                      proc[t] = "up", Alias(s) = Alias(t)
               PROVE s = t
    BY DEF OneServerPerAlias
  <2> DEFINE a == Alias(s)
  <2>1. a \in Aliases
    OBVIOUS
  <2>2. ASSUME NEW u \in Calls, proc[u] = "up", Alias(u) = a
        PROVE \/ starting[a] = u
              \/ registry[a] = u /\ starting[a] = None
    <3>1. CASE pc[u] \in {"health", "healthy", "register", "kill"}
      BY <2>2, <3>1
    <3>2. CASE children[Alias(u)] = u
      BY <2>1, <2>2, <3>2
    <3>3. CASE \E c \in Calls : Stopping(c) /\ held[c] = u
      BY <2>1, <2>2, <3>3
    <3> QED
      BY <2>2, <3>1, <3>2, <3>3
  <2>3. starting[a] = s \/ (registry[a] = s /\ starting[a] = None)
    BY <2>2
  <2>4. starting[a] = t \/ (registry[a] = t /\ starting[a] = None)
    BY <2>2
  <2> QED
    BY <2>3, <2>4
<1> QED
  BY <1>1, InvHolds, PTL

\* No server is left that nobody stops or lists (Start's kill paths, Stop).
THEOREM NoServerIsOrphaned == Spec => []NoOrphanServer
<1> QED
  BY InvHolds, PTL

\* Every server that is up is the one of its alias, and somebody answers for it
\* (reserveAlias, Start's kill paths, Stop).
THEOREM ServersAreAccountedFor == Spec => []ServersAccounted
<1>1. OneServerPerAlias /\ NoOrphanServer => ServersAccounted
  BY DEF ServersAccounted
<1> QED
  BY <1>1, AliasHasOneServer, NoServerIsOrphaned, PTL

\* A stop that answered ok ended its target for good (Stop, register).
THEOREM StopsAreFinal == Spec => []StoppedIsGone
<1> QED
  BY InvHolds, PTL

\* An entry leaves the registry only after its server died (StopRemove,
\* ReapOnExit), though reg.Remove is by alias.
THEOREM ListOutlivesServer == Spec => UnlistedWhenDead
<1>1. Inv /\ [Next]_vars =>
         \A a \in Aliases : registry[a] # None /\ registry'[a] # registry[a] =>
            proc[registry[a]] # "up" /\ registry'[a] = None
  <2> SUFFICES ASSUME Inv, [Next]_vars, NEW a \in Aliases, registry[a] # None,
                      registry'[a] # registry[a]
               PROVE  proc[registry[a]] # "up" /\ registry'[a] = None
    OBVIOUS
  <2>1. PICK x \in Calls : Register(x) \/ StopRemove(x) \/ ReapOnExit(x)
    BY SMTT(30) DEF Next, CallStep, StartStep, StopStep, StopAllStep, ServerStep, Call, ClientLeaves,
           ResolveModel, Reserve, Spawn, Healthy, Unhealthy, Recheck, Kill, Drain, EndStart,
           StopTake, StopAwait, StopTerm, StopGrace, StopDrain, ReadPending, ReadRegistry,
           NextAlias, Bind, Exit, WaitReturns, Quiet, vars
  <2>2. CASE Register(x)
    BY <2>2 DEF Register, Registrable
  <2>3. CASE StopRemove(x)
    BY <2>3 DEF StopRemove
  <2>4. CASE ReapOnExit(x)
    BY <2>4 DEF ReapOnExit, Owns
  <2> QED
    BY <2>1, <2>2, <2>3, <2>4
<1> QED
  BY <1>1, InvHolds, PTL DEF UnlistedWhenDead, Spec

-----------------------------------------------------------------------------
(* The refinement.  A step of the launcher is the launch, the offer, the   *)
(* death or the withdrawal of a server, or nothing that ServerSlots sees.  *)

\* The refinement mapping's parts.
OfWhom  == [s \in Calls |-> IF proc[s] = "none" THEN None ELSE Alias(s)]
Alive   == {s \in Calls : proc[s] = "up"}
Offered == {s \in Calls : proc[s] # "none" /\ pc[s] \in {"end.ok", "ok"}}

\* A spawn launches: its alias lists nobody and no other server of it is up.
LEMMA SpawnLaunches ==
    ASSUME Inv, NEW x \in Calls, Spawn(x)
    PROVE  \/ \E a \in Aliases : Slots!Launch(x, a)
           \/ UNCHANGED <<OfWhom, Alive, registry, Offered>>
<1>1. pc[x] = "spawn" /\ proc[x] = "none" /\ Alias(x) \in Aliases
  BY DEF Spawn
<1>2. UNCHANGED <<registry, req>>
  BY DEF Spawn
<1>3. CASE pc' = [pc EXCEPT ![x] = "health"]
  <2>1. proc' = [proc EXCEPT ![x] = "up"]
    BY <1>3 DEF Spawn
  <2>2. starting[Alias(x)] = x /\ registry[Alias(x)] = None /\ children[Alias(x)] = None
    BY <1>1
  <2>3. \A t \in Alive : Alias(t) # Alias(x)
    BY <1>1, <2>2 DEF Alive
  <2>4. OfWhom[x] = None /\ \A t \in Alive : OfWhom[t] = Alias(t)
    BY <1>1 DEF OfWhom, Alive
  <2>5. OfWhom' = [OfWhom EXCEPT ![x] = Alias(x)]
    BY <1>1, <1>2, <2>1 DEF OfWhom
  <2>6. Alive' = Alive \cup {x}
    BY <2>1 DEF Alive
  <2>7. Offered' = Offered
    BY <1>1, <1>3, <2>1 DEF Offered
  <2>8. PICK a \in Aliases : a = Alias(x)
    BY <1>1
  <2>9. Slots!Launch(x, a)
    BY <1>2, <2>2, <2>3, <2>4, <2>5, <2>6, <2>7, <2>8
       DEF Slots!Launch, OfWhom, Alive, Offered
  <2> QED
    BY <2>9
<1>4. CASE pc' = [pc EXCEPT ![x] = "end.failed"] /\ UNCHANGED <<proc, port>>
  BY <1>1, <1>2, <1>4 DEF OfWhom, Alive, Offered
<1> QED
  BY <1>3, <1>4 DEF Spawn

\* A registration offers: its server was never listed and the alias is free.
LEMMA RegisterOffers ==
    ASSUME Inv, NEW x \in Calls, Register(x)
    PROVE  Slots!Offer(x) \/ UNCHANGED <<OfWhom, Alive, registry, Offered>>
<1>1. pc[x] = "register" /\ proc[x] # "none" /\ Alias(x) \in Aliases
  BY DEF Register
<1>2. UNCHANGED <<proc, req>>
  BY DEF Register
<1>3. OfWhom' = OfWhom /\ Alive' = Alive
  BY <1>2 DEF OfWhom, Alive
<1>4. CASE Registrable(x)
  <2>1. registry[Alias(x)] = None /\ registry' = [registry EXCEPT ![Alias(x)] = x]
    BY <1>4 DEF Register, Registrable
  <2>2. pc' = [pc EXCEPT ![x] = "end.ok"]
    BY <1>4 DEF Register
  <2>3. OfWhom[x] = Alias(x) /\ OfWhom[x] # None
    BY <1>1, <2>1 DEF OfWhom
  <2>4. x \notin Offered /\ Offered' = Offered \cup {x}
    BY <1>1, <1>2, <2>2 DEF Offered
  <2> QED
    BY <1>3, <2>1, <2>3, <2>4 DEF Slots!Offer, OfWhom, Alive, Offered
<1>5. CASE ~Registrable(x)
  BY <1>1, <1>2, <1>3, <1>5 DEF Register, Offered
<1> QED
  BY <1>4, <1>5

\* What the killing, binding and exiting of a server does is a death.
LEMMA DeadDies ==
    ASSUME Inv, NEW x \in Calls, Dead(x), registry' = registry, req' = req,
           NEW y \in Calls, pc' = pc \/ pc' = [pc EXCEPT ![y] = "drain"]
                                     \/ pc' = [pc EXCEPT ![y] = "stop.drain"],
           pc[y] \notin {"ok", "end.ok"}
    PROVE  Slots!Die(x) \/ UNCHANGED <<OfWhom, Alive, registry, Offered>>
<1>1. proc' = [proc EXCEPT ![x] = IF @ = "up" THEN "zombie" ELSE @]
  OBVIOUS
<1>2. OfWhom' = OfWhom
  BY <1>1 DEF OfWhom
<1>3. Offered' = Offered
  BY <1>1 DEF Offered
<1>4. CASE proc[x] = "up"
  <2>1. x \in Alive /\ Alive' = Alive \ {x}
    BY <1>1, <1>4 DEF Alive
  <2> QED
    BY <1>2, <1>3, <2>1 DEF Slots!Die, OfWhom, Alive, Offered
<1>5. CASE proc[x] # "up"
  BY <1>1, <1>2, <1>3, <1>5 DEF Alive
<1> QED
  BY <1>4, <1>5

\* A stop and a reaper withdraw a dead server.
LEMMA RemovalWithdraws ==
    ASSUME Inv, NEW x \in Calls, StopRemove(x) \/ ReapOnExit(x)
    PROVE  \/ \E a \in Aliases : Slots!Withdraw(a)
           \/ UNCHANGED <<OfWhom, Alive, registry, Offered>>
<1>1. UNCHANGED <<proc, req>>
  BY DEF StopRemove, ReapOnExit
<1>2. OfWhom' = OfWhom /\ Alive' = Alive
  BY <1>1 DEF OfWhom, Alive
<1>3. Offered' = Offered
  <2>1. pc' = pc \/ (proc[x] = "none" /\ \A c \in Calls : c # x => pc'[c] = pc[c])
    BY DEF StopRemove, ReapOnExit
  <2> QED
    BY <1>1, <2>1 DEF Offered
<1>4. CASE registry' # registry
  <2>1. /\ Alias(x) \in Aliases /\ registry[Alias(x)] # None
        /\ proc[registry[Alias(x)]] = "gone"
        /\ registry' = [registry EXCEPT ![Alias(x)] = None]
    <3>1. CASE StopRemove(x)
      BY <3>1 DEF StopRemove
    <3>2. CASE ReapOnExit(x)
      BY <1>4, <3>2 DEF ReapOnExit, Owns
    <3> QED
      BY <3>1, <3>2
  <2>2. registry[Alias(x)] \notin Alive
    BY <2>1 DEF Alive
  <2> QED
    BY <1>2, <1>3, <2>1, <2>2 DEF Slots!Withdraw, OfWhom, Alive, Offered
<1> QED
  BY <1>2, <1>3, <1>4

\* The other steps are not seen.
LEMMA OthersStutter ==
    ASSUME Inv, NEW x \in Calls,
           \/ Call(x) \/ ClientLeaves(x) \/ ResolveModel(x) \/ Reserve(x) \/ Healthy(x)
           \/ Unhealthy(x) \/ Recheck(x) \/ Drain(x) \/ EndStart(x) \/ StopTake(x)
           \/ StopAwait(x) \/ StopTerm(x) \/ StopDrain(x) \/ ReadPending(x)
           \/ ReadRegistry(x) \/ NextAlias(x) \/ WaitReturns(x)
    PROVE  UNCHANGED <<OfWhom, Alive, registry, Offered>>
<1> USE DEF OfWhom, Alive, Offered
<1>1. CASE Call(x)
  BY <1>1 DEF Call
<1>2. CASE ClientLeaves(x)
  BY <1>2 DEF ClientLeaves
<1>3. CASE ResolveModel(x)
  BY <1>3 DEF ResolveModel
<1>4. CASE Reserve(x)
  BY <1>4 DEF Reserve
<1>5. CASE Healthy(x)
  BY <1>5 DEF Healthy
<1>6. CASE Unhealthy(x)
  BY <1>6 DEF Unhealthy
<1>7. CASE Recheck(x)
  BY <1>7 DEF Recheck
<1>8. CASE Drain(x)
  BY <1>8 DEF Drain
<1>9. CASE EndStart(x)
  BY <1>9 DEF EndStart
<1>10. CASE StopTake(x)
  BY <1>10 DEF StopTake
<1>11. CASE StopAwait(x)
  BY <1>11 DEF StopAwait
<1>12. CASE StopTerm(x)
  BY <1>12 DEF StopTerm
<1>13. CASE StopDrain(x)
  BY <1>13 DEF StopDrain
<1>14. CASE ReadPending(x)
  BY <1>14 DEF ReadPending
<1>15. CASE ReadRegistry(x)
  BY <1>15 DEF ReadRegistry
<1>16. CASE NextAlias(x)
  <2>1. proc[x] = "none"
    BY <1>16 DEF NextAlias
  <2>2. UNCHANGED <<proc, registry>>
    BY <1>16 DEF NextAlias
  <2>3. \A c \in Calls : c # x => pc'[c] = pc[c] /\ req'[c] = req[c]
    BY <1>16 DEF NextAlias
  <2> QED
    BY <2>1, <2>2, <2>3
<1>17. CASE WaitReturns(x)
  BY <1>17 DEF WaitReturns
<1> QED
  BY <1>1, <1>2, <1>3, <1>4, <1>5, <1>6, <1>7, <1>8, <1>9, <1>10, <1>11, <1>12, <1>13,
     <1>14, <1>15, <1>16, <1>17

\* The launcher implements ServerSlots: whatever interleaving of RPCs, deaths
\* and disconnects, its table of servers is the simple one.
THEOREM ImplementsSlots == Spec => SlotsImplemented
<1>1. Init => Slots!Init
  BY DEF Init, Slots!Init
<1>2. Inv /\ [Next]_vars => [Slots!Next]_(Slots!vars)
  <2> SUFFICES ASSUME Inv, [Next]_vars PROVE [Slots!Next]_(Slots!vars)
    OBVIOUS
  <2>1. ASSUME UNCHANGED <<OfWhom, Alive, registry, Offered>>
        PROVE  UNCHANGED Slots!vars
    BY <2>1 DEF Slots!vars, OfWhom, Alive, Offered
  <2>2. CASE UNCHANGED vars
    BY <2>2 DEF vars, Slots!vars
  <2>3. ASSUME NEW x \in Calls,
               Call(x) \/ ClientLeaves(x) \/ CallStep(x) \/ ServerStep(x)
        PROVE  [Slots!Next]_(Slots!vars)
    <3>1. CASE Spawn(x)
      BY <2>1, <3>1, SpawnLaunches DEF Slots!Next
    <3>2. CASE Register(x)
      BY <2>1, <3>2, RegisterOffers DEF Slots!Next
    <3>3. CASE Kill(x) \/ Bind(x) \/ Exit(x) \/ StopGrace(x)
      <4>1. CASE Kill(x)
        <5>1. Slots!Die(x) \/ UNCHANGED <<OfWhom, Alive, registry, Offered>>
          BY <4>1, DeadDies DEF Kill
        <5> QED
          BY <2>1, <5>1 DEF Slots!Next
      <4>2. CASE Bind(x) /\ bound[port[x]] # None
        <5>1. Slots!Die(x) \/ UNCHANGED <<OfWhom, Alive, registry, Offered>>
          BY <4>2 DEF Bind, Slots!Die, OfWhom, Alive, Offered
        <5> QED
          BY <2>1, <5>1 DEF Slots!Next
      <4>3. CASE Bind(x) /\ bound[port[x]] = None
        BY <2>1, <4>3 DEF Bind, OfWhom, Alive, Offered
      <4>4. CASE Exit(x)
        <5>1. Slots!Die(x) \/ UNCHANGED <<OfWhom, Alive, registry, Offered>>
          BY <4>4 DEF Exit, Slots!Die, OfWhom, Alive, Offered
        <5> QED
          BY <2>1, <5>1 DEF Slots!Next
      <4>5. CASE StopGrace(x)
        <5>1. PICK t \in Calls : t = held[x]
          BY <4>5 DEF StopGrace
        <5>2. Dead(t)
          BY <4>5, <5>1 DEF StopGrace
        <5>3. Slots!Die(t) \/ UNCHANGED <<OfWhom, Alive, registry, Offered>>
          BY <4>5, <5>2, DeadDies DEF StopGrace
        <5> QED
          BY <2>1, <5>3 DEF Slots!Next
      <4> QED
        BY <3>3, <4>1, <4>2, <4>3, <4>4, <4>5
    <3>4. CASE StopRemove(x) \/ ReapOnExit(x)
      BY <2>1, <3>4, RemovalWithdraws DEF Slots!Next
    <3> QED
      BY <2>1, <2>3, <3>1, <3>2, <3>3, <3>4, OthersStutter
         DEF CallStep, StartStep, StopStep, StopAllStep, ServerStep
  <2> QED
    BY <2>2, <2>3 DEF Next, Quiet
<1> QED
  BY <1>1, <1>2, InvHolds, PTL DEF Spec, SlotsImplemented, Slots!Spec

-----------------------------------------------------------------------------
(* StopAll.                                                                *)

\* A start that was pending or listed once, and one that is over and not listed.
Started(s) ==
    /\ pc[s] \in Working \cup Registered \cup {"failed"}
    /\ IsStart(s) /\ Alias(s) \in Aliases
Settled(s) == pc[s] \in Registered \cup {"failed"} /\ registry[Alias(s)] # s

\* A StopAll still has s to stop, or could not stop its alias: before its second
\* read what is listed, after it what is left to do and what its stop is at.
Sought(c, s) ==
    \/ Alias(s) \in missed[c] \cup todo[c]
    \/ pc[c] = "list" /\ registry[Alias(s)] = s
    \/ /\ Alias(c) = Alias(s)
       /\ \/ pc[c] = "stop"
          \/ (pc[c] = "stop.await" \/ Stopping(c)) /\ held[c] = s

Swept ==
    \A c \in Calls :
        /\ pc[c] \in {"idle", "pending"} => seen[c] = {}
        /\ At(c, "ok") /\ req[c].verb = "stopall" => todo[c] = {}
        /\ req[c].verb = "stopall" => \A s \in seen[c] : Started(s) /\ (Settled(s) \/ Sought(c, s))

HIDE DEF Inv, TypeOK, Roles, Reserved, Spawned, Listed, Tracked, Held, Alone, Awaited,
         Answered, NoOrphanServer, StoppedIsGone, Dead, Stopped, NotStopped

\* A start that began goes on as one, and one that is over and unlisted stays so: an alias
\* is given only to the start at its registration.
LEMMA StartedStays ==
    ASSUME Inv, [Next]_vars, NEW s \in Calls, Started(s)
    PROVE  /\ Started(s)' /\ Alias(s)' = Alias(s)
           /\ Settled(s) => Settled(s)'
           /\ registry[Alias(s)] = s /\ registry'[Alias(s)] # s => Settled(s)'
<1> USE DEF Started, Settled
<1>1. /\ pc \in [Calls -> PCs] /\ registry \in [Aliases -> Calls \cup {None}]
      /\ req \in [Calls -> [verb : {"none"} \cup Verbs, alias : Aliases \cup {None}]]
      /\ req[s].verb \notin {"none", "stop", "stopall"}
  BY DEF Inv, TypeOK
<1>2. \A c \in Calls : /\ pc[c] \in StartPCs => IsStart(c)
                       /\ pc[c] \in StopPCs => req[c].verb \in {"stop", "stopall"}
                       /\ pc[c] \in {"pending", "list", "next"} => req[c].verb = "stopall"
  BY DEF Inv, Roles
<1>3. registry[Alias(s)] = s => pc[s] \in Registered
  BY <1>1, CallAssumption DEF Inv, Listed
<1>4. ASSUME NEW x \in Calls, Call(x) PROVE UNCHANGED registry /\ pc'[s] = pc[s] /\ req'[s] = req[s]
  BY <1>1, <1>4 DEF Call
<1>5. ASSUME NEW x \in Calls, ClientLeaves(x) \/ ServerStep(x)
      PROVE  /\ pc'[s] = pc[s] /\ req'[s] = req[s]
             /\ registry'[Alias(s)] \in {registry[Alias(s)], None}
  BY <1>1, <1>5 DEF ClientLeaves, ServerStep, Bind, Exit, WaitReturns, ReapOnExit, Dead
<1>6. ASSUME NEW x \in Calls, StopStep(x) \/ StopAllStep(x)
      PROVE  /\ pc'[s] = pc[s] /\ req'[s] = req[s]
             /\ registry'[Alias(s)] \in {registry[Alias(s)], None}
  <2>1. x # s
    BY <1>2, <1>6 DEF StopStep, StopAllStep, StopTake, StopAwait, StopTerm, StopGrace, StopDrain,
                      StopRemove, ReadPending, ReadRegistry, NextAlias
  <2>2. pc'[s] = pc[s] /\ req'[s] = req[s]
    BY <1>1, <1>6, <2>1 DEF StopStep, StopAllStep, StopTake, StopAwait, StopTerm, StopGrace, StopDrain,
                      StopRemove, ReadPending, ReadRegistry, NextAlias, Stopped, NotStopped
  <2>3. registry'[Alias(s)] \in {registry[Alias(s)], None}
    BY <1>1, <1>6 DEF StopStep, StopAllStep, StopTake, StopAwait, StopTerm, StopGrace, StopDrain,
                      StopRemove, ReadPending, ReadRegistry, NextAlias
  <2> QED
    BY <2>2, <2>3
<1>7. ASSUME NEW x \in Calls, StartStep(x)
      PROVE  /\ Started(s)' /\ req'[s] = req[s]
             /\ Settled(s) => Settled(s)'
             /\ registry[Alias(s)] = s => registry'[Alias(s)] = s
  <2>1. req' = req
    BY <1>7 DEF StartStep, ResolveModel, Reserve, Spawn, Healthy, Unhealthy, Recheck, Register,
                Kill, Drain, EndStart
  <2>2. CASE Register(x)
    BY <1>1, <1>3, <2>1, <2>2, CallAssumption DEF Register, Registrable
  <2>3. CASE ~Register(x)
    <3>1. UNCHANGED registry
      BY <1>7, <2>3 DEF StartStep, ResolveModel, Reserve, Spawn, Healthy, Unhealthy, Recheck,
                Kill, Drain, EndStart
    <3>2. pc'[s] \in Working \cup Registered \cup {"failed"}
      BY <1>1, <1>7, <2>3 DEF StartStep, ResolveModel, Reserve, Spawn, Healthy, Unhealthy, Recheck,
                Kill, Drain, EndStart
    <3>3. pc[s] \in Registered \cup {"failed"} => pc'[s] \in Registered \cup {"failed"}
      BY <1>1, <1>7, <2>3 DEF StartStep, ResolveModel, Reserve, Spawn, Healthy, Unhealthy, Recheck,
                Kill, Drain, EndStart
    <3> QED
      BY <2>1, <3>1, <3>2, <3>3
  <2> QED
    BY <2>2, <2>3
<1>8. CASE UNCHANGED vars
  BY <1>8 DEF vars
<1> QED
  BY <1>1, <1>3, <1>4, <1>5, <1>6, <1>7, <1>8, CallAssumption DEF Next, Quiet, CallStep

\* What a call has to stop, and its place, change only in its own steps.
LEMMA OthersKeep ==
    ASSUME Inv, NEW c \in Calls, [Next]_vars, ~StopStep(c), ~StopAllStep(c), ~Call(c)
    PROVE  /\ seen'[c] = seen[c] /\ todo'[c] = todo[c] /\ missed'[c] = missed[c]
           /\ req'[c] = req[c] /\ held'[c] = held[c]
           /\ req[c].verb = "stopall" => pc'[c] = pc[c]
<1>1. /\ pc \in [Calls -> PCs] /\ held \in [Calls -> Calls \cup {None}]
      /\ req \in [Calls -> [verb : {"none"} \cup Verbs, alias : Aliases \cup {None}]]
      /\ todo \in [Calls -> SUBSET Aliases] /\ missed \in [Calls -> SUBSET Aliases]
      /\ seen \in [Calls -> SUBSET Calls]
  BY DEF Inv, TypeOK
<1>2. pc[c] \in StartPCs => IsStart(c)
  BY DEF Inv, Roles
<1>3. ASSUME NEW x \in Calls, Call(x)
      PROVE  UNCHANGED <<seen, todo, missed, held>> /\ (x # c => req'[c] = req[c] /\ pc'[c] = pc[c])
  BY <1>1, <1>3 DEF Call
<1>4. ASSUME NEW x \in Calls, ClientLeaves(x) \/ ServerStep(x)
      PROVE  UNCHANGED <<seen, todo, missed, held, req, pc>>
  BY <1>4 DEF ClientLeaves, ServerStep, Bind, Exit, WaitReturns, ReapOnExit
<1>5. ASSUME NEW x \in Calls, StartStep(x)
      PROVE  UNCHANGED <<seen, todo, missed, held, req>> /\ (req[c].verb = "stopall" => pc'[c] = pc[c])
  <2>1. UNCHANGED <<seen, todo, missed, held, req>>
    BY <1>5 DEF StartStep, ResolveModel, Reserve, Spawn, Healthy, Unhealthy, Recheck, Register,
                Kill, Drain, EndStart
  <2>2. pc[x] \in StartPCs /\ (x # c => pc'[c] = pc[c])
    BY <1>1, <1>5 DEF StartStep, ResolveModel, Reserve, Spawn, Healthy, Unhealthy, Recheck, Register,
                Kill, Drain, EndStart
  <2> QED
    BY <1>2, <2>1, <2>2
<1>6. ASSUME NEW x \in Calls, x # c, StopStep(x)
      PROVE  /\ UNCHANGED <<seen, todo, req>> /\ pc'[c] = pc[c]
             /\ held'[c] = held[c] /\ missed'[c] = missed[c]
  <2>1. UNCHANGED <<seen, todo, req>>
    BY <1>6 DEF StopStep, StopTake, StopAwait, StopTerm, StopGrace, StopDrain, StopRemove
  <2>2. pc'[c] = pc[c] /\ missed'[c] = missed[c]
    BY <1>1, <1>6 DEF StopStep, StopTake, StopAwait, StopTerm, StopGrace, StopDrain, StopRemove,
                      Stopped, NotStopped
  <2>3. held'[c] = held[c]
    BY <1>1, <1>6 DEF StopStep, StopTake, StopAwait, StopTerm, StopGrace, StopDrain, StopRemove
  <2> QED
    BY <2>1, <2>2, <2>3
<1>7. ASSUME NEW x \in Calls, x # c, StopAllStep(x)
      PROVE  /\ UNCHANGED <<missed, held>> /\ pc'[c] = pc[c] /\ seen'[c] = seen[c]
             /\ todo'[c] = todo[c] /\ req'[c] = req[c]
  BY <1>1, <1>7 DEF StopAllStep, ReadPending, ReadRegistry, NextAlias
<1>8. CASE UNCHANGED vars
  BY <1>8 DEF vars
<1> QED
  BY <1>3, <1>4, <1>5, <1>6, <1>7, <1>8 DEF Next, Quiet, CallStep

\* A step of nobody's keeps what c has to stop.
LEMMA SweptByOthers ==
    ASSUME Inv, Swept, NEW c \in Calls, [Next]_vars, ~StopStep(c), ~StopAllStep(c), ~Call(c),
           req[c].verb = "stopall", NEW s \in seen[c]
    PROVE  Started(s)' /\ (Settled(s) \/ Sought(c, s))'
<1>1. s \in Calls /\ Started(s) /\ (Settled(s) \/ Sought(c, s))
  BY DEF Swept, Inv, TypeOK
<1>2. /\ Started(s)' /\ Alias(s)' = Alias(s)
      /\ Settled(s) => Settled(s)'
      /\ registry[Alias(s)] = s /\ registry'[Alias(s)] # s => Settled(s)'
  BY <1>1, StartedStays
<1>3. /\ todo'[c] = todo[c] /\ missed'[c] = missed[c] /\ req'[c] = req[c] /\ held'[c] = held[c]
      /\ pc'[c] = pc[c]
  BY OthersKeep
<1> QED
  BY <1>1, <1>2, <1>3 DEF Sought, Stopping

\* The stop of one alias: what it found there is what is to be stopped, or is over.
LEMMA SweptByStop ==
    ASSUME Inv, Swept, NEW c \in Calls, [Next]_vars, StopStep(c), req[c].verb = "stopall",
           NEW s \in seen[c]
    PROVE  Started(s)' /\ (Settled(s) \/ Sought(c, s))'
<1> DEFINE a == Alias(s)
<1>1. s \in Calls /\ Started(s) /\ (Settled(s) \/ Sought(c, s))
  BY DEF Swept, Inv, TypeOK
<1>2. /\ Started(s)' /\ Alias(s)' = Alias(s)
      /\ Settled(s) => Settled(s)'
      /\ registry[a] = s /\ registry'[a] # s => Settled(s)'
  BY <1>1, StartedStays
<1>3. /\ pc \in [Calls -> PCs] /\ held \in [Calls -> Calls \cup {None}]
      /\ missed \in [Calls -> SUBSET Aliases]
      /\ a \in Aliases
  BY <1>1 DEF Inv, TypeOK, Started
<1>4. /\ todo' = todo /\ req' = req /\ pc[c] \in StopPCs
      /\ missed[c] \subseteq missed'[c]
  <2>1. todo' = todo /\ req' = req /\ pc[c] \in StopPCs
    BY DEF StopStep, StopTake, StopAwait, StopTerm, StopGrace, StopDrain, StopRemove
  <2>2. missed[c] \subseteq missed'[c]
    BY <1>3 DEF StopStep, StopTake, StopAwait, StopTerm, StopGrace, StopDrain, StopRemove,
                Stopped, NotStopped
  <2> QED
    BY <2>1, <2>2
<1>5. CASE Settled(s) \/ a \in missed[c] \cup todo[c]
  BY <1>2, <1>4, <1>5 DEF Sought
<1>6. CASE ~Settled(s) /\ a \notin missed[c] \cup todo[c]
  <2>1. Alias(c) = a /\ (pc[c] = "stop" \/ ((pc[c] = "stop.await" \/ Stopping(c)) /\ held[c] = s))
    BY <1>1, <1>4, <1>6 DEF Sought
  <2>2. pc[s] \in Working \/ registry[a] = s
    BY <1>1, <1>6 DEF Settled, Started
  <2>3. CASE StopTake(c)
    <3>1. pc[s] \in Working => starting[a] = s
      BY <1>1 DEF Inv, Reserved
    <3>2. registry[a] = s => starting[a] = None /\ (children[a] # None => children[a] = s)
      BY <1>1, <1>3, CallAssumption DEF Inv, Listed, Tracked
    <3>3. CASE NotStopped(c) /\ starting[a] = None /\ children[a] = None
      BY <1>3, <1>2, <2>1, <3>3 DEF NotStopped, Sought
    <3>4. CASE starting[a] # None \/ children[a] # None
      <4>1. pc'[c] \in {"stop.await", "stop.term"} /\ held'[c] = s
        BY <1>1, <1>3, <2>1, <2>2, <2>3, <3>1, <3>2, <3>4, CallAssumption DEF StopTake
      <4> QED
        BY <1>2, <1>4, <2>1, <4>1 DEF Sought, Stopping
    <3> QED
      BY <2>1, <2>3, <3>3, <3>4 DEF StopTake
  <2>4. CASE StopAwait(c)
    <3>1. held[c] = s /\ pc[s] \in Working \cup {"failed"}
      BY <2>1, <2>4 DEF StopAwait, Inv, Awaited
    <3>2. registry[a] # s
      BY <1>1, <1>3, <3>1, CallAssumption DEF Inv, Listed
    <3>3. CASE Ended(s)
      BY <1>2, <3>1, <3>2, <3>3, <1>6 DEF Settled
    <3>4. CASE NotStopped(c)
      BY <1>2, <1>3, <2>1, <3>4 DEF NotStopped, Sought
    <3> QED
      BY <2>4, <3>1, <3>3, <3>4 DEF StopAwait
  <2>5. CASE StopTerm(c) /\ NotStopped(c)
    BY <1>2, <1>3, <2>1, <2>5 DEF NotStopped, Sought
  <2>6. CASE (StopTerm(c) /\ ~NotStopped(c)) \/ StopGrace(c) \/ StopDrain(c)
    <3>1. Stopping(c) /\ Stopping(c)' /\ held' = held
      BY <1>3, <2>6 DEF StopTerm, StopGrace, StopDrain, Stopping
    <3> QED
      BY <1>2, <1>4, <2>1, <3>1 DEF Sought, Stopping
  <2>7. CASE StopRemove(c)
    <3>1. held[c] = s /\ registry[a] = s
      BY <1>3, <2>1, <2>7 DEF StopRemove, Inv, Held, Stopping
    <3>2. registry'[a] = None
      BY <1>3, <2>1, <2>7 DEF StopRemove, Inv, TypeOK
    <3> QED
      BY <1>1, <1>2, <3>1, <3>2, CallAssumption
  <2> QED
    BY <2>3, <2>4, <2>5, <2>6, <2>7 DEF StopStep
<1> QED
  BY <1>5, <1>6

\* The two reads and the walk.
LEMMA SweptByWalk ==
    ASSUME Inv, Swept, NEW c \in Calls, [Next]_vars, StopAllStep(c), NEW s \in seen'[c]
    PROVE  Started(s)' /\ (Settled(s) \/ Sought(c, s))'
<1> DEFINE a == Alias(s)
<1>1. /\ pc \in [Calls -> PCs] /\ seen \in [Calls -> SUBSET Calls] /\ seen' \in [Calls -> SUBSET Calls]
      /\ todo \in [Calls -> SUBSET Aliases]
      /\ req \in [Calls -> [verb : {"none"} \cup Verbs, alias : Aliases \cup {None}]]
      /\ starting \in [Aliases -> Calls \cup {None}] /\ registry \in [Aliases -> Calls \cup {None}]
      /\ c \in Calls /\ req[c].verb = "stopall"
  <2>1. seen' \in [Calls -> SUBSET Calls]
    BY DEF StopAllStep, ReadPending, ReadRegistry, NextAlias, Inv, TypeOK
  <2>2. req[c].verb = "stopall"
    BY DEF StopAllStep, ReadPending, ReadRegistry, NextAlias, Inv, Roles
  <2> QED
    BY <2>1, <2>2 DEF Inv, TypeOK
<1>2. CASE ReadPending(c)
  <2>1. \E b \in Aliases : s \in {starting[b], registry[b]}
    BY <1>1, <1>2 DEF ReadPending
  <2>2. PICK b \in Aliases : s \in {starting[b], registry[b]}
    BY <2>1
  <2>3. s \in Calls /\ s # None
    BY <1>1, CallAssumption
  <2>4. Alias(s) = b /\ pc[s] \in Working \cup Registered
    BY <2>2, <2>3 DEF Inv, Reserved, Listed
  <2>5. IsStart(s)
    <3>1. pc[s] # "ok" => IsStart(s)
      BY <2>3, <2>4 DEF Inv, Roles
    <3>2. pc[s] = "ok" => proc[s] # "none"
      BY <2>2, <2>3, <2>4 DEF Inv, Reserved, Listed
    <3> QED
      BY <3>1, <3>2, <2>3 DEF Inv, Spawned
  <2>6. Started(s)
    BY <2>2, <2>4, <2>5 DEF Started
  <2>7. Started(s)' /\ Alias(s)' = Alias(s)
    BY <2>3, <2>6, StartedStays
  <2>8. starting[b] = s => b \in todo'[c]
    BY <1>1, <1>2, <2>3 DEF ReadPending, ReadOrder, Names
  <2>9. pc'[c] = "list" /\ registry' = registry
    BY <1>1, <1>2 DEF ReadPending
  <2> QED
    BY <2>2, <2>4, <2>7, <2>8, <2>9 DEF Sought
<1>3. CASE ~ReadPending(c)
  <2>1. seen' = seen /\ registry' = registry /\ missed' = missed
    BY <1>3 DEF StopAllStep, ReadRegistry, NextAlias
  <2>2. s \in Calls /\ Started(s) /\ (Settled(s) \/ Sought(c, s))
    BY <1>1, <2>1 DEF Swept
  <2>3. /\ Started(s)' /\ Alias(s)' = Alias(s)
        /\ Settled(s) => Settled(s)'
    BY <2>2, StartedStays
  <2>4. CASE ReadRegistry(c)
    <3>1. /\ todo'[c] = todo[c] \cup {b \in Aliases : registry[b] # None}
          /\ pc[c] = "list"
      BY <1>1, <2>4 DEF ReadRegistry, ReadOrder, Names
    <3>2. Sought(c, s) => a \in missed[c] \cup todo'[c]
      BY <2>2, <3>1, CallAssumption DEF Sought, Stopping, Started
    <3> QED
      BY <2>1, <2>2, <2>3, <3>2 DEF Sought
  <2>5. CASE NextAlias(c)
    <3>1. Sought(c, s) => a \in missed[c] \cup todo[c]
      BY <2>5 DEF Sought, Stopping, NextAlias
    <3>2. a \in todo[c] => a \in todo'[c] \/ (pc'[c] = "stop" /\ Alias(c)' = a)
      BY <1>1, <2>5 DEF NextAlias
    <3> QED
      BY <2>1, <2>2, <2>3, <3>1, <3>2 DEF Sought
  <2> QED
    BY <1>3, <2>4, <2>5 DEF StopAllStep
<1> QED
  BY <1>2, <1>3

\* A StopAll leaves out nothing it began with.
LEMMA SweptHolds == Spec => []Swept
<1>1. Init => Swept
  BY DEF Init, Swept
<1>2. Inv /\ Swept /\ [Next]_vars => Swept'
  <2> SUFFICES ASSUME Inv, Swept, [Next]_vars, NEW c \in Calls
               PROVE  /\ pc'[c] \in {"idle", "pending"} => seen'[c] = {}
                      /\ pc'[c] = "ok" /\ req'[c].verb = "stopall" => todo'[c] = {}
                      /\ req'[c].verb = "stopall" =>
                            \A s \in seen'[c] : Started(s)' /\ (Settled(s) \/ Sought(c, s))'
    BY DEF Swept
  <2>1. /\ pc \in [Calls -> PCs] /\ todo \in [Calls -> SUBSET Aliases]
        /\ seen \in [Calls -> SUBSET Calls]
        /\ req \in [Calls -> [verb : {"none"} \cup Verbs, alias : Aliases \cup {None}]]
    BY DEF Inv, TypeOK
  <2>2. CASE Call(c)
    BY <2>1, <2>2 DEF Call, Swept
  <2>3. CASE StopStep(c)
    <3>1. /\ seen' = seen /\ todo' = todo /\ req' = req
          /\ pc'[c] \notin {"idle", "pending"}
          /\ pc'[c] = "ok" => req[c].verb # "stopall"
      BY <2>1, <2>3 DEF StopStep, StopTake, StopAwait, StopTerm, StopGrace, StopDrain, StopRemove,
                        Stopped, NotStopped
    <3> QED
      BY <2>3, <3>1, SweptByStop
  <2>4. CASE StopAllStep(c)
    <3>1. /\ pc'[c] \notin {"idle", "pending"}
          /\ pc'[c] = "ok" => todo'[c] = {}
      BY <2>1, <2>4 DEF StopAllStep, ReadPending, ReadRegistry, NextAlias
    <3> QED
      BY <2>4, <3>1, SweptByWalk
  <2>5. CASE ~Call(c) /\ ~StopStep(c) /\ ~StopAllStep(c)
    <3>1. /\ seen'[c] = seen[c] /\ todo'[c] = todo[c] /\ req'[c] = req[c]
          /\ req[c].verb = "stopall" => pc'[c] = pc[c]
      BY <2>5, OthersKeep
    <3>2. pc'[c] \in {"idle", "pending"} => pc'[c] = pc[c]
      <4>1. ASSUME NEW x \in Calls, Call(x), x # c PROVE pc'[c] = pc[c]
        BY <2>1, <4>1 DEF Call
      <4>2. ASSUME NEW x \in Calls, StartStep(x) PROVE pc'[c] \in {"idle", "pending"} => pc'[c] = pc[c]
        BY <2>1, <4>2 DEF StartStep, ResolveModel, Reserve, Spawn, Healthy, Unhealthy, Recheck, Register,
                Kill, Drain, EndStart
      <4>3. ASSUME NEW x \in Calls, x # c, StopStep(x) \/ StopAllStep(x) PROVE pc'[c] = pc[c]
        BY <2>1, <4>3 DEF StopStep, StopTake, StopAwait, StopTerm, StopGrace, StopDrain, StopRemove,
                      Stopped, NotStopped, StopAllStep, ReadPending, ReadRegistry, NextAlias
      <4>4. ASSUME NEW x \in Calls, ClientLeaves(x) \/ ServerStep(x) PROVE pc' = pc
        BY <4>4 DEF ClientLeaves, ServerStep, Bind, Exit, WaitReturns, ReapOnExit
      <4> QED
        BY <2>5, <4>1, <4>2, <4>3, <4>4 DEF Next, Quiet, CallStep, vars
    <3> QED
      BY <2>5, <3>1, <3>2, SweptByOthers DEF Swept
  <2> QED
    BY <2>2, <2>3, <2>4, <2>5
<1> QED
  BY <1>1, <1>2, InvHolds, PTL DEF Spec

\* Once a StopAll has answered, each start that was pending or listed when it began is dead
\* and unlisted, or is under an alias it could not stop (StopAll, launcher.go).
THEOREM StopAllMissesNothing == Spec => []StopAllSweeps
<1>1. Inv /\ Swept => StopAllSweeps
  <2> SUFFICES ASSUME Inv, Swept, NEW c \in Calls, At(c, "ok"), req[c].verb = "stopall",
                      NEW s \in seen[c], Alias(s) \notin missed[c]
               PROVE  proc[s] # "up" /\ registry[Alias(s)] # s
    BY DEF StopAllSweeps
  <2>1. s \in Calls /\ Started(s) /\ Settled(s)
    BY DEF Swept, Inv, TypeOK, Sought, Stopping
  <2>2. children[Alias(s)] # s
    BY <2>1, CallAssumption DEF Settled, Started, Inv, Tracked
  <2>3. \A d \in Calls : Stopping(d) => held[d] # s
    BY <2>1 DEF Settled, Inv, Held
  <2> QED
    BY <2>1, <2>2, <2>3 DEF Settled, Inv, NoOrphanServer
<1> QED
  BY <1>1, InvHolds, SweptHolds, PTL

\* Every stop that answers holds, StopInstance's and StopAll's.
THEOREM StopsAreForGood == Spec => []StopsHold
<1>1. StoppedIsGone /\ StopAllSweeps => StopsHold
  BY DEF StopsHold
<1> QED
  BY <1>1, StopsAreFinal, StopAllMissesNothing, PTL

-----------------------------------------------------------------------------
(* The downloads of a model.                                               *)

Writing   == {"look", "fetch", "sync", "publish", "exists", "recheck", "rename", "syncDir"}
Checked   == {"publish", "exists", "recheck", "rename", "syncDir", "downloaded"}
Published == {"syncDir", "downloaded", "killed"}
Contents  == [by : Downloads \cup {"none", "hand"}, data : {"none", "dir", "right", "wrong", "torn"}]
Records   == [at : {"idle", "wait", "killed"} \cup Writing \cup Answers, sum : BOOLEAN,
              data : {"none", "right", "wrong"}, synced : BOOLEAN]

DownloadTypes ==
    /\ processOf \in [Downloads -> Processes]
    /\ dest \in Contents /\ durable \in Contents
    /\ slot \in [Processes -> Downloads \cup {"free"}]
    /\ dl \in [Downloads -> Records]
    /\ temps \subseteq Downloads
    /\ hardLinks \in BOOLEAN

\* The slot of a process is its one download's that looks, fetches or publishes.
OneAtATime ==
    /\ \A d \in Downloads : dl[d].at \in Writing <=> slot[processOf[d]] = d
    /\ \A p \in Processes, d \in Downloads : slot[p] = d => processOf[d] = p

\* A file a download left is what it wrote, synced and checked before.
Genuine(x) ==
    x.by \in Downloads => /\ dl[x.by].at \in Published /\ dl[x.by].synced
                          /\ dl[x.by].sum => x.data = "right"

\* Only without hard links is a name taken by a rename, and what came there since it was found free is
\* the operator's or of another process.
Renaming ==
    /\ \A d \in Downloads : dl[d].at \in {"recheck", "rename"} => ~hardLinks
    /\ \A d \in Downloads : dl[d].at = "rename" /\ dest.by \in Downloads => processOf[d] # processOf[dest.by]

DownloadInv ==
    /\ DownloadTypes /\ OneAtATime /\ Renaming
    /\ Genuine(dest) /\ Genuine(durable)
    /\ \A d \in Downloads : dl[d].at \in Checked => dl[d].synced /\ (dl[d].sum => dl[d].data = "right")
    /\ \A d \in Downloads : dl[d].at \in Answers => d \notin temps
    /\ \A r \in replaced : ~hardLinks /\ (r[2] \in Downloads => processOf[r[1]] # processOf[r[2]])

\* A step of one download that leaves the path as it is, and keeps a published download published.
LEMMA DownloadStep ==
    ASSUME DownloadInv, NEW d \in Downloads, WorldKept, PlaceKept,
           NEW r \in Records, dl' = [dl EXCEPT ![d] = r],
           slot' \in [Processes -> Downloads \cup {"free"}],
           \A p \in Processes : p # processOf[d] => slot'[p] = slot[p],
           \/ r.at \in Writing /\ slot'[processOf[d]] = d /\ slot[processOf[d]] \in {d, "free"}
           \/ r.at \notin Writing /\ slot'[processOf[d]] = IF slot[processOf[d]] = d THEN "free" ELSE slot[processOf[d]],
           temps' \in {temps, temps \ {d}} \/ (temps' = temps \cup {d} /\ r.at \notin Answers),
           r.at \in Answers => d \notin temps',
           dl[d].at \in Published => r.at \in Published /\ r.synced = dl[d].synced /\ r.sum = dl[d].sum,
           r.at \in {"recheck", "rename"} => ~hardLinks,
           r.at = "rename" => dest.by \notin Downloads,
           r.at \in Checked => r.synced /\ (r.sum => r.data = "right")
    PROVE  DownloadInv'
<1>1. /\ dl'[d] = r /\ \A e \in Downloads \ {d} : dl'[e] = dl[e]
      /\ UNCHANGED <<processOf, hardLinks, dest, durable, replaced>>
  BY DEF DownloadInv, DownloadTypes, WorldKept, PlaceKept
<1>2. DownloadTypes'
  BY <1>1 DEF DownloadInv, DownloadTypes
<1>3. OneAtATime'
  <2>1. ASSUME NEW e \in Downloads, e # d PROVE dl'[e].at \in Writing <=> slot'[processOf'[e]] = e
    <3>1. processOf[e] \in Processes /\ processOf[d] \in Processes /\ d # "free" /\ e # "free"
      BY DownloadsAssumption DEF DownloadInv, DownloadTypes
    <3>2. CASE processOf[e] # processOf[d]
      BY <1>1, <2>1, <3>1, <3>2 DEF DownloadInv, OneAtATime
    <3>3. CASE processOf[e] = processOf[d]
      BY <1>1, <2>1, <3>1, <3>3 DEF DownloadInv, OneAtATime
    <3> QED
      BY <3>2, <3>3
  <2>2. dl'[d].at \in Writing <=> slot'[processOf'[d]] = d
    BY <1>1, DownloadsAssumption
  <2>3. ASSUME NEW p \in Processes, NEW e \in Downloads, slot'[p] = e PROVE processOf'[e] = p
    BY <1>1, <2>3, DownloadsAssumption DEF DownloadInv, OneAtATime
  <2> QED
    BY <2>1, <2>2, <2>3 DEF OneAtATime
<1>4. Renaming'
  BY <1>1 DEF DownloadInv, Renaming
<1>5. Genuine(dest)' /\ Genuine(durable)'
  BY <1>1 DEF DownloadInv, Genuine
<1> QED
  BY <1>1, <1>2, <1>3, <1>4, <1>5 DEF DownloadInv

\* Every return of a download keeps the invariant (Download's defers).
LEMMA ReturnsKept ==
    ASSUME DownloadInv, NEW d \in Downloads, NEW answer \in Answers, Returns(d, answer), PlaceKept, WorldKept,
           dl[d].at \notin Published,
           answer # "downloaded"
    PROVE  DownloadInv'
<1> DEFINE r == [IdleDownload EXCEPT !.at = answer]
<1>1. r \in Records /\ r.at = answer
  BY DEF Records, IdleDownload, Answers
<1>2. /\ dl' = [dl EXCEPT ![d] = r] /\ temps' = temps \ {d}
      /\ slot' = [slot EXCEPT ![processOf[d]] = IF @ = d THEN "free" ELSE @]
  BY DEF Returns
<1>3. processOf[d] \in Processes /\ slot \in [Processes -> Downloads \cup {"free"}]
  BY DEF DownloadInv, DownloadTypes
<1>4. r.at \notin Writing /\ r.at \notin Checked /\ r.at \notin {"recheck", "rename"}
  BY <1>1 DEF Answers, Writing, Checked
<1>5. /\ slot' \in [Processes -> Downloads \cup {"free"}] /\ \A p \in Processes : p # processOf[d] => slot'[p] = slot[p]
      /\ slot'[processOf[d]] = IF slot[processOf[d]] = d THEN "free" ELSE slot[processOf[d]]
  BY <1>2, <1>3
<1> HIDE DEF r
<1> QED
  BY <1>1, <1>2, <1>4, <1>5, DownloadStep

\* A step of a download that keeps its slot.
LEMMA StageKept ==
    ASSUME DownloadInv, NEW d \in Downloads, PlaceKept, WorldKept, slot' = slot,
           NEW r \in Records, dl' = [dl EXCEPT ![d] = r],
           temps' = temps \/ (temps' = temps \cup {d} /\ dl[d].at \in Writing),
           (dl[d].at \in Writing /\ r.at \in Writing) \/ (dl[d].at = "idle" /\ r.at = "wait"),
           dl[d].at # "syncDir",
           r.at \in {"recheck", "rename"} => ~hardLinks,
           r.at = "rename" => dest.by \notin Downloads,
           r.at \in Checked => r.synced /\ (r.sum => r.data = "right")
    PROVE  DownloadInv'
<1>1. slot \in [Processes -> Downloads \cup {"free"}] /\ processOf[d] \in Processes
  BY DEF DownloadInv, DownloadTypes
<1>2. dl[d].at \in Writing <=> slot[processOf[d]] = d
  BY DEF DownloadInv, OneAtATime
<1>3. r.at \notin Answers /\ dl[d].at \notin Published
  BY DEF Answers, Writing, Published
<1>4. dl[d].at = "idle" /\ r.at = "wait" => dl[d].at \notin Writing /\ r.at \notin Writing
  BY DEF Writing
<1> QED
  BY <1>1, <1>2, <1>3, <1>4, DownloadStep

\* Up to the bytes: the request, the slot, the look, the body and its digest.
LEMMA FetchingKept ==
    ASSUME DownloadInv, NEW d \in Downloads,
           Asks(d) \/ TakesSlot(d) \/ Looks(d) \/ Fails(d) \/ Fetches(d) \/ SyncsAndVerifies(d)
    PROVE  DownloadInv'
<1>0. dl[d] \in Records /\ PlaceKept /\ WorldKept /\ DownloadTypes
  BY DEF DownloadInv, DownloadTypes, Asks, TakesSlot, Looks, Fails, Fetches, SyncsAndVerifies
<1>1. ASSUME NEW answer \in {"installed", "failed"}, Returns(d, answer),
             dl[d].at \in {"wait", "look", "fetch", "sync", "publish", "recheck", "rename"}
      PROVE  DownloadInv'
  BY <1>0, <1>1, ReturnsKept DEF Answers, Published
<1>2. CASE Asks(d)
  <2>1. PICK sum \in BOOLEAN : dl' = [dl EXCEPT ![d] = [@ EXCEPT !.at = "wait", !.sum = sum]]
    BY <1>2 DEF Asks
  <2>2. [dl[d] EXCEPT !.at = "wait", !.sum = sum] \in Records /\ [dl[d] EXCEPT !.at = "wait", !.sum = sum].at = "wait"
    BY <1>0 DEF Records
  <2>3. dl' = [dl EXCEPT ![d] = [dl[d] EXCEPT !.at = "wait", !.sum = sum]] /\ "wait" \notin Checked
    BY <1>0, <2>1 DEF DownloadTypes, Checked
  <2> QED
    BY <1>0, <1>2, <2>2, <2>3, StageKept DEF Asks
<1>3. CASE TakesSlot(d)
  <2> DEFINE r == [dl[d] EXCEPT !.at = "look"]
  <2>1. r \in Records /\ r.at = "look"
    BY <1>0 DEF Records, Writing
  <2>2. /\ dl' = [dl EXCEPT ![d] = r] /\ temps' = temps
        /\ slot' = [slot EXCEPT ![processOf[d]] = d] /\ slot[processOf[d]] = "free" /\ dl[d].at = "wait"
    BY <1>0, <1>3 DEF TakesSlot, Stage, DownloadTypes
  <2>3. /\ slot' \in [Processes -> Downloads \cup {"free"}] /\ slot'[processOf[d]] = d
        /\ \A p \in Processes : p # processOf[d] => slot'[p] = slot[p]
    BY <1>0, <2>2 DEF DownloadTypes
  <2>4. "look" \in Writing /\ "look" \notin Answers /\ "wait" \notin Published /\ "look" \notin Checked
    BY DEF Writing, Answers, Published, Checked
  <2> HIDE DEF r
  <2>5. /\ r.at \in Writing /\ slot'[processOf[d]] = d /\ slot[processOf[d]] \in {d, "free"}
        /\ r.at \notin Answers /\ r.at \notin Checked /\ r.at \notin {"recheck", "rename"} /\ dl[d].at \notin Published
    BY <2>1, <2>2, <2>3, <2>4
  <2> QED
    BY <1>0, <2>1, <2>2, <2>3, <2>5, DownloadStep
<1>4. CASE Looks(d)
  <2>1. CASE Found(d)
    BY <1>1, <1>4, <2>1 DEF Looks, Found
  <2>2. CASE Stage(d, "fetch") /\ temps' = temps \cup {d} /\ slot' = slot
    <3>1. [dl[d] EXCEPT !.at = "fetch"] \in Records /\ [dl[d] EXCEPT !.at = "fetch"].at = "fetch"
      BY <1>0 DEF Records, Writing
    <3>2. dl' = [dl EXCEPT ![d] = [dl[d] EXCEPT !.at = "fetch"]] /\ dl[d].at = "look"
      BY <1>0, <1>4, <2>2 DEF Looks, Stage, DownloadTypes
    <3>3. {"look", "fetch"} \subseteq Writing /\ "fetch" \notin Checked
      BY DEF Writing, Checked
    <3> QED
      BY <1>0, <2>2, <3>1, <3>2, <3>3, StageKept
  <2> QED
    BY <1>4, <2>1, <2>2 DEF Looks
<1>5. CASE Fails(d)
  BY <1>1, <1>5 DEF Fails
<1>6. CASE Fetches(d)
  <2>1. PICK bytes \in {"right", "wrong"} : dl' = [dl EXCEPT ![d] = [@ EXCEPT !.at = "sync", !.data = bytes]]
    BY <1>6 DEF Fetches
  <2>2. [dl[d] EXCEPT !.at = "sync", !.data = bytes] \in Records /\ [dl[d] EXCEPT !.at = "sync", !.data = bytes].at = "sync"
    BY <1>0 DEF Records, Writing
  <2>3. dl' = [dl EXCEPT ![d] = [dl[d] EXCEPT !.at = "sync", !.data = bytes]] /\ dl[d].at = "fetch"
        /\ UNCHANGED <<slot, temps>>
    BY <1>0, <1>6, <2>1 DEF Fetches, DownloadTypes
  <2>4. {"fetch", "sync"} \subseteq Writing /\ "sync" \notin Checked
    BY DEF Writing, Checked
  <2> QED
    BY <1>0, <2>2, <2>3, <2>4, StageKept
<1>7. CASE SyncsAndVerifies(d)
  <2>1. CASE Returns(d, "failed")
    BY <1>1, <1>7, <2>1 DEF SyncsAndVerifies
  <2>2. CASE /\ dl[d].sum => dl[d].data = "right"
             /\ dl' = [dl EXCEPT ![d] = [@ EXCEPT !.at = "publish", !.synced = SyncsBytes(d)]]
             /\ UNCHANGED <<slot, temps>>
    <3> DEFINE r == [dl[d] EXCEPT !.at = "publish", !.synced = TRUE]
    <3>1. r \in Records /\ r.at = "publish" /\ r.synced /\ (r.sum => r.data = "right")
      BY <1>0, <2>2 DEF Records, Writing
    <3>2. dl' = [dl EXCEPT ![d] = r] /\ dl[d].at = "sync" /\ UNCHANGED <<slot, temps>>
      BY <1>0, <1>7, <2>2 DEF SyncsAndVerifies, DownloadTypes, SyncsBytes
    <3>3. {"publish", "sync"} \subseteq Writing
      BY DEF Writing
    <3> HIDE DEF r
    <3> QED
      BY <1>0, <3>1, <3>2, <3>3, StageKept
  <2> QED
    BY <1>7, <2>1, <2>2 DEF SyncsAndVerifies
<1> QED
  BY <1>2, <1>3, <1>4, <1>5, <1>6, <1>7

\* A name is taken: what is there is the download's own, and no other download of its process is at work.
LEMMA TakenKept ==
    ASSUME DownloadInv, NEW d \in Downloads, WorldKept, UNCHANGED <<durable, slot>>,
           dl[d].at \in {"publish", "rename"}, dest' = File(d), Stage(d, "syncDir"),
           temps' \in {temps, temps \ {d}},
           \A r \in replaced' : r \in replaced \/ (r = <<d, dest.by>> /\ dl[d].at = "rename")
    PROVE  DownloadInv'
<1>0. DownloadTypes /\ dl[d] \in Records /\ UNCHANGED <<processOf, hardLinks>>
  BY DEF DownloadInv, DownloadTypes, WorldKept
<1>1. /\ dl'[d] = [dl[d] EXCEPT !.at = "syncDir"] /\ \A e \in Downloads \ {d} : dl'[e] = dl[e]
      /\ dl' = [dl EXCEPT ![d] = [dl[d] EXCEPT !.at = "syncDir"]]
  BY <1>0 DEF Stage, DownloadTypes
<1>2. /\ [dl[d] EXCEPT !.at = "syncDir"] \in Records /\ dl'[d].at = "syncDir" /\ dl'[d].synced = dl[d].synced
      /\ dl'[d].sum = dl[d].sum /\ dl'[d].data = dl[d].data
  BY <1>0, <1>1 DEF Records, Writing
<1>3. dl[d].synced /\ (dl[d].sum => dl[d].data = "right") /\ dl[d].at \in Writing /\ dl[d].at \notin Published
  BY DEF DownloadInv, Checked, Writing, Published
<1>4. dest' = [by |-> d, data |-> dl[d].data] /\ dl[d].data \in {"none", "right", "wrong"}
  BY <1>0 DEF File, Records
<1>5. DownloadTypes'
  <2>1. dest' \in Contents
    BY <1>4 DEF Contents
  <2> QED
    BY <1>0, <1>1, <1>2, <2>1 DEF DownloadTypes
<1>6. OneAtATime'
  BY <1>0, <1>1, <1>2, <1>3 DEF DownloadInv, OneAtATime, Writing
<1>7. Renaming'
  <2>1. ASSUME NEW e \in Downloads, dl'[e].at = "rename" PROVE processOf[e] # processOf[d]
    <3>1. e # d /\ dl[e].at = "rename" /\ "rename" \in Writing
      BY <1>1, <1>2, <2>1 DEF Writing
    <3> QED
      BY <1>3, <3>1 DEF DownloadInv, OneAtATime
  <2>2. dest'.by = d
    BY <1>4
  <2> QED
    BY <1>0, <1>1, <1>2, <2>1, <2>2 DEF DownloadInv, Renaming
<1>8. Genuine(dest)'
  <2>1. dest'.by = d /\ dest'.data = dl[d].data
    BY <1>4
  <2> QED
    BY <1>2, <1>3, <2>1 DEF Genuine, Published
<1>9. Genuine(durable)'
  BY <1>1, <1>3 DEF DownloadInv, Genuine
<1>10. \A r \in replaced' : ~hardLinks /\ (r[2] \in Downloads => processOf[r[1]] # processOf[r[2]])
  BY DEF DownloadInv, Renaming
<1>11. \A e \in Downloads : dl'[e].at \in Checked => dl'[e].synced /\ (dl'[e].sum => dl'[e].data = "right")
  BY <1>1, <1>2, <1>3 DEF DownloadInv
<1>12. \A e \in Downloads : dl'[e].at \in Answers => e \notin temps'
  BY <1>1, <1>2 DEF DownloadInv, Answers
<1> QED
  BY <1>0, <1>5, <1>6, <1>7, <1>8, <1>9, <1>10, <1>11, <1>12 DEF DownloadInv

\* publish: by a link or a rename, and the end of the download.
LEMMA PublishingKept ==
    ASSUME DownloadInv, NEW d \in Downloads, Links(d) \/ Exists(d) \/ Rechecks(d) \/ Renames(d) \/ SyncsDir(d)
    PROVE  DownloadInv'
<1>0. dl[d] \in Records /\ WorldKept /\ DownloadTypes
  BY DEF DownloadInv, DownloadTypes, Links, Exists, Rechecks, Renames, SyncsDir
<1>1. ASSUME NEW answer \in {"installed", "failed"}, Returns(d, answer), PlaceKept,
             dl[d].at \in {"publish", "exists", "recheck", "rename"}
      PROVE  DownloadInv'
  BY <1>0, <1>1, ReturnsKept DEF Answers, Published
<1>2. ASSUME NEW at \in {"recheck", "exists", "rename"}, Stage(d, at), UNCHANGED <<slot, temps>>, PlaceKept,
             dl[d].at \in {"publish", "recheck"},
             at \in {"recheck", "rename"} => ~hardLinks,
             at = "rename" => dest = Nothing
      PROVE  DownloadInv'
  <2> DEFINE r == [dl[d] EXCEPT !.at = at]
  <2>1. r \in Records /\ r.at = at /\ r.synced = dl[d].synced /\ r.sum = dl[d].sum /\ r.data = dl[d].data
    BY <1>0 DEF Records, Writing
  <2>2. dl' = [dl EXCEPT ![d] = r]
    BY <1>0, <1>2 DEF Stage, DownloadTypes
  <2>3. dl[d].at \in Writing /\ at \in Writing /\ dl[d].synced /\ (dl[d].sum => dl[d].data = "right")
    BY <1>2 DEF Writing, DownloadInv, Checked
  <2>4. at = "rename" => dest.by \notin Downloads
    BY <1>2, DownloadsAssumption DEF Nothing
  <2> HIDE DEF r
  <2> QED
    BY <1>0, <1>2, <2>1, <2>2, <2>3, <2>4, StageKept
<1>3. CASE Links(d)
  <2>1. CASE ~hardLinks /\ Stage(d, "recheck") /\ UNCHANGED dest
    BY <1>2, <1>3, <2>1 DEF Links, PlaceKept
  <2>2. CASE hardLinks /\ dest = Nothing /\ dest' = File(d) /\ Stage(d, "syncDir")
    BY <1>0, <1>3, <2>2, TakenKept DEF Links
  <2>3. CASE dest # Nothing /\ Stage(d, "exists") /\ UNCHANGED dest
    BY <1>2, <1>3, <2>3 DEF Links, PlaceKept
  <2> QED
    BY <1>3, <2>1, <2>2, <2>3 DEF Links
<1>4. CASE Exists(d)
  BY <1>1, <1>4 DEF Exists, Found
<1>5. CASE Rechecks(d)
  <2>1. ~hardLinks
    BY <1>5 DEF Rechecks, DownloadInv, Renaming
  <2> QED
    BY <1>1, <1>2, <1>5, <2>1 DEF Rechecks, Found
<1>6. CASE Renames(d)
  <2>1. CASE dest = InTheWay /\ Returns(d, "failed") /\ UNCHANGED <<dest, replaced>>
    BY <1>1, <1>6, <2>1 DEF Renames, PlaceKept
  <2>2. CASE /\ dest' = File(d) /\ temps' = temps \ {d} /\ Stage(d, "syncDir") /\ UNCHANGED slot
             /\ replaced' = IF IsModel(dest) THEN replaced \cup {<<d, dest.by>>} ELSE replaced
    <3>1. \A r \in replaced' : r \in replaced \/ (r = <<d, dest.by>> /\ dl[d].at = "rename")
      BY <1>6, <2>2 DEF Renames
    <3> QED
      BY <1>0, <1>6, <2>2, <3>1, TakenKept DEF Renames
  <2> QED
    BY <1>6, <2>1, <2>2 DEF Renames
<1>7. CASE SyncsDir(d)
  <2>1. /\ dl[d].at = "syncDir" /\ durable' \in {durable, dest} /\ UNCHANGED <<dest, replaced, processOf, hardLinks>>
        /\ dl' = [dl EXCEPT ![d] = [dl[d] EXCEPT !.at = "downloaded"]] /\ temps' = temps \ {d}
        /\ slot' = [slot EXCEPT ![processOf[d]] = IF @ = d THEN "free" ELSE @]
    BY <1>0, <1>7 DEF SyncsDir, Returns, DownloadTypes, WorldKept
  <2>2. /\ [dl[d] EXCEPT !.at = "downloaded"] \in Records /\ dl'[d].at = "downloaded" /\ dl'[d].synced = dl[d].synced
        /\ dl'[d].sum = dl[d].sum /\ dl'[d].data = dl[d].data /\ \A e \in Downloads \ {d} : dl'[e] = dl[e]
    BY <1>0, <2>1 DEF Records, Answers, DownloadTypes
  <2>3. slot' \in [Processes -> Downloads \cup {"free"}] /\ \A p \in Processes : slot'[p] = IF slot[p] = d THEN "free" ELSE slot[p]
    BY <1>0, <2>1 DEF DownloadTypes, DownloadInv, OneAtATime
  <2>4. DownloadTypes'
    BY <1>0, <2>1, <2>2, <2>3 DEF DownloadTypes
  <2>5. OneAtATime'
    <3>1. ASSUME NEW e \in Downloads PROVE dl'[e].at \in Writing <=> slot'[processOf[e]] = e
      <4>1. processOf[e] \in Processes /\ e # "free" /\ "downloaded" \notin Writing
        BY <1>0, DownloadsAssumption DEF DownloadTypes, Writing
      <4> QED
        BY <2>2, <2>3, <4>1 DEF DownloadInv, OneAtATime
    <3>2. ASSUME NEW p \in Processes, NEW e \in Downloads, slot'[p] = e PROVE processOf[e] = p
      BY <2>3, <3>2, DownloadsAssumption DEF DownloadInv, OneAtATime
    <3> QED
      BY <2>1, <3>1, <3>2 DEF OneAtATime
  <2>6. Genuine(dest)' /\ Genuine(durable)'
    <3>1. \A x \in {dest, durable} : Genuine(x)'
      <4> SUFFICES ASSUME NEW x \in {dest, durable}, x.by \in Downloads, dl[x.by].at \in Published, dl[x.by].synced,
                          dl[x.by].sum => x.data = "right"
                   PROVE  dl'[x.by].at \in Published /\ dl'[x.by].synced /\ (dl'[x.by].sum => x.data = "right")
        BY DEF DownloadInv, Genuine
      <4> QED
        BY <2>2 DEF Published
    <3> QED
      BY <2>1, <3>1 DEF Genuine
  <2>7. Renaming'
    BY <2>1, <2>2 DEF DownloadInv, Renaming
  <2>8. dl[d].synced /\ (dl[d].sum => dl[d].data = "right")
    BY <2>1 DEF DownloadInv, Checked
  <2> QED
    BY <2>1, <2>2, <2>4, <2>5, <2>6, <2>7, <2>8 DEF DownloadInv
<1> QED
  BY <1>3, <1>4, <1>5, <1>6, <1>7

\* The operator, a killed process or a crash of the machine leaves what stands true.
LEMMA AroundKept ==
    ASSUME DownloadInv, ByHand \/ ProcessKilled \/ MachineCrashes
    PROVE  DownloadInv'
<1>0. DownloadTypes /\ UNCHANGED <<processOf, hardLinks, replaced, temps>>
  BY DEF DownloadInv, ByHand, ProcessKilled, MachineCrashes
<1>1. CASE ByHand
  <2>1. UNCHANGED <<slot, dl>> /\ dest'.by \in {"none", "hand"} /\ dest' \in Contents /\ durable' \in {durable, dest'}
    BY <1>1 DEF ByHand, Nothing, InTheWay, Contents
  <2>2. DownloadTypes' /\ OneAtATime'
    BY <1>0, <2>1 DEF DownloadInv, DownloadTypes, OneAtATime
  <2>3. Genuine(dest)' /\ Genuine(durable)' /\ Renaming'
    BY <1>0, <2>1, DownloadsAssumption DEF DownloadInv, Genuine, Renaming
  <2> QED
    BY <1>0, <2>1, <2>2, <2>3 DEF DownloadInv
<1>2. ASSUME NEW P \in SUBSET Processes, Ends(P)
      PROVE  /\ DownloadTypes' \/ ~(dest' \in Contents /\ durable' \in Contents)
             /\ OneAtATime'
             /\ \A d \in Downloads : dl'[d] = dl[d]
                   \/ (/\ dl[d].at \notin Answers \cup {"killed", "idle"} /\ dl'[d] = [dl[d] EXCEPT !.at = "killed"]
                       /\ dl'[d].at = "killed" /\ dl'[d].sum = dl[d].sum /\ dl'[d].synced = dl[d].synced)
  <2>1. ASSUME NEW d \in Downloads
        PROVE  /\ dl'[d] = dl[d] \/ (dl[d].at \notin Answers \cup {"killed", "idle"} /\ dl'[d] = [dl[d] EXCEPT !.at = "killed"])
               /\ processOf[d] \in P /\ dl[d].at \in Writing => dl'[d] = [dl[d] EXCEPT !.at = "killed"]
               /\ processOf[d] \notin P => dl'[d] = dl[d]
    BY <1>2 DEF Ends, Over, Writing, Answers
  <2>2. \A d \in Downloads : [dl[d] EXCEPT !.at = "killed"] \in Records /\ [dl[d] EXCEPT !.at = "killed"].at = "killed"
           /\ [dl[d] EXCEPT !.at = "killed"].sum = dl[d].sum /\ [dl[d] EXCEPT !.at = "killed"].synced = dl[d].synced
    BY <1>0 DEF DownloadTypes, Records
  <2>3. \A p \in Processes : slot'[p] = IF p \in P THEN "free" ELSE slot[p]
    BY <1>2 DEF Ends
  <2>4. dl' \in [Downloads -> Records] /\ slot' \in [Processes -> Downloads \cup {"free"}]
    <3>1. slot' \in [Processes -> Downloads \cup {"free"}]
      BY <1>0, <1>2 DEF Ends, DownloadTypes
    <3>2. ASSUME NEW d \in Downloads PROVE dl'[d] \in Records
      <4>1. dl[d] \in Records /\ [dl[d] EXCEPT !.at = "killed"] \in Records
        BY <1>0, <2>2 DEF DownloadTypes
      <4>2. dl'[d] = dl[d] \/ dl'[d] = [dl[d] EXCEPT !.at = "killed"]
        BY <2>1
      <4> HIDE DEF Records
      <4> QED
        BY <4>1, <4>2
    <3>3. dl' = [d \in Downloads |-> dl'[d]]
      BY <1>2 DEF Ends
    <3> QED
      BY <3>1, <3>2, <3>3
  <2>5. OneAtATime'
    <3>1. ASSUME NEW d \in Downloads PROVE dl'[d].at \in Writing <=> slot'[processOf[d]] = d
      <4>1. processOf[d] \in Processes /\ d # "free" /\ "killed" \notin Writing
        BY <1>0, DownloadsAssumption DEF DownloadTypes, Writing
      <4>2. dl[d].at \in Writing <=> slot[processOf[d]] = d
        BY DEF DownloadInv, OneAtATime
      <4>3. CASE processOf[d] \in P
        <5>1. dl'[d].at \notin Writing
          <6>1. [dl[d] EXCEPT !.at = "killed"].at \notin Writing
            BY <2>2, <4>1
          <6>2. CASE dl'[d] = [dl[d] EXCEPT !.at = "killed"]
            BY <6>1, <6>2
          <6>3. CASE dl'[d] = dl[d]
            BY <2>1, <4>3, <6>1, <6>3
          <6> QED
            BY <2>1, <6>2, <6>3
        <5> QED
          BY <2>3, <4>1, <4>3, <5>1
      <4>4. CASE processOf[d] \notin P
        BY <2>1, <2>3, <4>1, <4>2, <4>4
      <4> QED
        BY <4>3, <4>4
    <3>2. ASSUME NEW p \in Processes, NEW d \in Downloads, slot'[p] = d PROVE processOf[d] = p
      BY <2>3, <3>2, DownloadsAssumption DEF DownloadInv, OneAtATime
    <3> QED
      BY <1>0, <3>1, <3>2 DEF OneAtATime
  <2>6. \A d \in Downloads : dl'[d] = dl[d]
           \/ (/\ dl[d].at \notin Answers \cup {"killed", "idle"} /\ dl'[d] = [dl[d] EXCEPT !.at = "killed"]
               /\ dl'[d].at = "killed" /\ dl'[d].sum = dl[d].sum /\ dl'[d].synced = dl[d].synced)
    BY <2>1, <2>2
  <2>7. DownloadTypes' \/ ~(dest' \in Contents /\ durable' \in Contents)
    BY <1>0, <2>4 DEF DownloadTypes
  <2> QED
    BY <2>5, <2>6, <2>7
<1>3. ASSUME NEW P \in SUBSET Processes, Ends(P), dest' \in {dest, durable}, durable' \in {dest, durable},
             dest' = dest \/ P = Processes
      PROVE  DownloadInv'
  <2>1. DownloadTypes' /\ OneAtATime'
    BY <1>0, <1>2, <1>3 DEF DownloadTypes
  <2>2. \A d \in Downloads : dl'[d] = dl[d]
           \/ (dl[d].at \notin Answers \cup {"killed", "idle"} /\ dl'[d].at = "killed" /\ dl'[d].sum = dl[d].sum /\ dl'[d].synced = dl[d].synced)
    BY <1>2, <1>3
  <2>3. ASSUME NEW x \in {dest, durable}, x.by \in Downloads
        PROVE  dl'[x.by].at \in Published /\ dl'[x.by].synced /\ (dl'[x.by].sum => x.data = "right")
    <3>1. dl[x.by].at \in Published /\ dl[x.by].synced /\ (dl[x.by].sum => x.data = "right")
      BY <2>3 DEF DownloadInv, Genuine
    <3> QED
      BY <2>2, <2>3, <3>1 DEF Published
  <2>4. Genuine(dest)' /\ Genuine(durable)'
    BY <1>3, <2>3 DEF Genuine
  <2>5. Renaming'
    <3>1. \A d \in Downloads : dl'[d].at \in {"recheck", "rename"} => dl'[d] = dl[d]
      BY <2>2
    <3>2. CASE dest' = dest
      BY <1>0, <3>1, <3>2 DEF DownloadInv, Renaming
    <3>3. CASE P = Processes
      <4>1. \A d \in Downloads : dl'[d].at # "rename"
        BY <1>0, <1>3, <3>3 DEF Ends, Over, Answers, DownloadTypes
      <4> QED
        BY <1>0, <3>1, <4>1 DEF DownloadInv, Renaming
    <3> QED
      BY <1>3, <3>2, <3>3
  <2>6. \A d \in Downloads : dl'[d].at \in Checked => dl'[d] = dl[d]
    BY <2>2 DEF Checked
  <2>7. \A d \in Downloads : dl'[d].at \in Answers => dl'[d] = dl[d]
    BY <2>2 DEF Answers
  <2> QED
    BY <1>0, <2>1, <2>4, <2>5, <2>6, <2>7 DEF DownloadInv
<1>4. CASE ProcessKilled
  BY <1>3, <1>4 DEF ProcessKilled
<1>5. CASE MachineCrashes
  <2>1. dest' \in {dest, durable} /\ durable' = dest'
    <3>1. PICK kept \in {dest, durable} :
             dest' \in {kept} \cup (IF kept.by \in Downloads /\ ~dl[kept.by].synced THEN {[kept EXCEPT !.data = "torn"]} ELSE {})
      BY <1>5 DEF MachineCrashes
    <3>2. ~(kept.by \in Downloads /\ ~dl[kept.by].synced)
      BY DEF DownloadInv, Genuine
    <3> QED
      BY <1>5, <3>1, <3>2 DEF MachineCrashes
  <2> QED
    BY <1>3, <1>5, <2>1 DEF MachineCrashes
<1> QED
  BY <1>1, <1>4, <1>5

\* What a behaviour of the daemon's launcher is a behaviour of: the downloads touch none of it.
THEOREM DaemonIsLauncher == JugglerSpec => Spec
<1>1. JugglerInit => Init
  BY DEF JugglerInit
<1>2. [JugglerNext]_jugglerVars => [Next]_vars
  BY DEF JugglerNext, jugglerVars
<1> QED
  BY <1>1, <1>2, PTL DEF JugglerSpec, Spec

\* A model is replaced only without hard links, by another process or over the operator's own; a
\* download that checked its digest leaves nothing but the model, after a crash too; and one that
\* returned keeps neither its slot nor a temporary file (Download, publish, acquireDownloadSlot).
THEOREM ModelAlwaysStands == JugglerSpec => []ModelStands
<1>1. JugglerInit => DownloadInv
  <2> SUFFICES ASSUME DownloadInit PROVE DownloadInv
    BY DEF JugglerInit
  <2>1. IdleDownload \in Records /\ IdleDownload.at = "idle" /\ Nothing \in Contents /\ Nothing.by = "none"
    BY DEF IdleDownload, Records, Nothing, Contents
  <2>2. DownloadTypes
    BY <2>1 DEF DownloadInit, DownloadTypes
  <2>3. OneAtATime
    BY <2>1, DownloadsAssumption DEF DownloadInit, OneAtATime, Writing
  <2>4. Renaming /\ Genuine(dest) /\ Genuine(durable)
    BY <2>1, DownloadsAssumption DEF DownloadInit, Renaming, Genuine
  <2> QED
    BY <2>1, <2>2, <2>3, <2>4 DEF DownloadInit, DownloadInv, Checked, Answers
<1>2. DownloadInv /\ [JugglerNext]_jugglerVars => DownloadInv'
  <2>1. DownloadInv /\ UNCHANGED downloadVars => DownloadInv'
    BY DEF downloadVars, DownloadInv, DownloadTypes, OneAtATime, Renaming, Genuine
  <2>2. DownloadInv /\ DownloadNext => DownloadInv'
    BY FetchingKept, PublishingKept, AroundKept DEF DownloadNext
  <2> QED
    BY <2>1, <2>2 DEF JugglerNext, jugglerVars, DownloadsDone
<1>3. DownloadInv => ModelStands
  <2> SUFFICES ASSUME DownloadInv PROVE ModelStands
    OBVIOUS
  <2>1. \A d \in Downloads : dl[d].at \in Answers => d \notin temps /\ slot[processOf[d]] # d
    BY DEF DownloadInv, OneAtATime, Answers, Writing
  <2> QED
    BY <2>1 DEF DownloadInv, Genuine, ModelStands
<1> QED
  BY <1>1, <1>2, <1>3, PTL DEF JugglerSpec
=============================================================================

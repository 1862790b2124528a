----------------------------- MODULE ScopeProofs ------------------------------
(***************************************************************************)
(* What is proved of the agent scope, for every number of launches,        *)
(* servers, readers, calls and frontends and every bound: the status file  *)
(* of a session key, the monitor lines, the unit's result, and what        *)
(* contains the unit.  Each part has an inductive invariant of its own; a  *)
(* step of the scope is a step of one part that leaves the others alone.   *)
(***************************************************************************)
EXTENDS Scope, FiniteSetTheorems, WellFoundedInduction, TLAPS

-----------------------------------------------------------------------------
(* The status file.                                                        *)

Timers == [known : {"none", "armed", "fired"}, armed : Nat, fired : Nat]
Gone   == {"removed", "unbound", "unlinking", "closed"}

StatusTypes ==
    /\ front \in [Frontends -> {"none", "off", "dialed", "bound", "serving", "dead"} \cup Gone]
    /\ timer \in [Frontends -> Timers]
    /\ DOMAIN status = Frontends
    /\ removed \in [Frontends -> BOOLEAN]
    /\ failed \in [Frontends -> BOOLEAN]
    /\ DOMAIN recent = Frontends

\* One frontend of the key may write, from its bind to its Remove, which stands; its timers go
\* with it; and what a Writer holds is in the file, or due, or could not be written.
StatusInv ==
    /\ StatusTypes
    /\ \A f, g \in Frontends : Writer(f) /\ Writer(g) => f = g
    /\ \A f \in Frontends : /\ removed[f] => front[f] \in Gone \cup {"dead"}
                            /\ front[f] \in Gone => removed[f]
                            /\ Due(f) => Armed(f)
    /\ StatusStands

\* The file changes for its writer only.
LEMMA StatusStep ==
    ASSUME StatusInv, NEW f \in Frontends, StatusTypes',
           \A g \in Frontends \ {f} : /\ front'[g] = front[g] /\ timer'[g] = timer[g] /\ removed'[g] = removed[g]
                                      /\ failed'[g] = failed[g] /\ status'[g] = status[g],
           Writer(f)' => Writer(f) \/ Alone(f),
           statusFile' = statusFile \/ ((Writer(f) \/ Alone(f)) /\ statusFile'.by \in {f, Nobody}),
           removed'[f] => front'[f] \in Gone \cup {"dead"}, front'[f] \in Gone => removed'[f],
           Due(f)' => Armed(f)',
           front'[f] = "serving" => statusFile' = Whole(f, status'[f]) \/ Due(f)' \/ failed'[f],
           removed'[f] /\ ~failed'[f] => statusFile'.by # f
    PROVE  StatusInv'
<1>1. \A g \in Frontends \ {f} : /\ Writer(g)' = Writer(g) /\ Armed(g)' = Armed(g) /\ Due(g)' = Due(g)
  BY DEF Writer, Armed, Due, Bound
<1>2. \A g, h \in Frontends : Writer(g)' /\ Writer(h)' => g = h
  BY <1>1 DEF StatusInv, Alone
<1>3. ASSUME NEW g \in Frontends \ {f}, front'[g] = "serving"
      PROVE  statusFile' = Whole(g, status'[g]) \/ Due(g)' \/ failed'[g]
  <2>1. front[g] = "serving" /\ Writer(g)
    BY <1>3 DEF Writer
  <2>2. ~Writer(f) /\ ~Alone(f)
    BY <2>1 DEF StatusInv, Alone
  <2> QED
    BY <1>1, <2>1, <2>2 DEF StatusInv, StatusStands
<1>4. ASSUME NEW g \in Frontends \ {f}, removed'[g] /\ ~failed'[g]
      PROVE  statusFile'.by # g
  BY <1>4, FrontendsAssumption DEF StatusInv, StatusStands
<1>5. StatusStands'
  BY <1>3, <1>4 DEF StatusStands
<1> QED
  BY <1>1, <1>2, <1>5 DEF StatusInv

\* Stopping the known timer, or forgetting it when it fired.
LEMMA TimerForgotten ==
    ASSUME StatusTypes, NEW f \in Frontends,
           timer' = [timer EXCEPT ![f].known = "none", ![f].fired = IF timer[f].known = "fired" THEN @ + 1 ELSE @]
    PROVE  timer' \in [Frontends -> Timers] /\ \A g \in Frontends \ {f} : timer'[g] = timer[g]
<1>1. timer[f] \in Timers /\ DOMAIN timer = Frontends
  BY DEF StatusTypes
<1>2. timer'[f] = [known |-> "none", armed |-> timer[f].armed,
                   fired |-> IF timer[f].known = "fired" THEN timer[f].fired + 1 ELSE timer[f].fired]
  BY <1>1 DEF Timers
<1>3. timer'[f] \in Timers
  BY <1>1, <1>2 DEF Timers
<1> QED
  BY <1>1, <1>3 DEF StatusTypes

\* The frontends of a key start with nothing served.
LEMMA StatusStarts == StatusInit => StatusInv
<1> SUFFICES ASSUME StatusInit PROVE StatusInv
  OBVIOUS
<1>1. StatusTypes
  BY DEF StatusInit, StatusTypes, Timers, AllFree
<1>2. \A f \in Frontends : front[f] = "none" /\ ~removed[f] /\ ~Due(f)
  BY DEF StatusInit, Due
<1> QED
  BY <1>1, <1>2 DEF StatusInv, StatusStands, Writer, Gone

\* A write, or one that a timer will make, or a failure.
LEMMA UpdateFacts ==
    ASSUME StatusInv, NEW f \in Frontends, NEW facts, NEW coalesce \in BOOLEAN,
           Bound(f) \/ front[f] \in {"unbound", "unlinking", "closed"}, Updates(f, facts, coalesce)
    PROVE  StatusInv'
<1>1. CASE removed[f]
  <2>1. UNCHANGED <<front, status, statusFile, removed, timer, failed>> /\ DOMAIN recent' = Frontends
    BY <1>1 DEF Updates, StatusInv, StatusTypes
  <2> QED
    BY <2>1 DEF StatusInv, StatusTypes, StatusStands, Writer, Armed, Bound, Due
<1>2. CASE ~removed[f]
  <2>1. front[f] \in {"bound", "serving"} /\ UNCHANGED <<front, removed>> /\ status' = [status EXCEPT ![f] = facts]
    BY <1>2 DEF Updates, StatusInv, Bound, Gone
  <2>2. timer[f] \in Timers /\ front[f] \notin Gone
    BY <2>1 DEF StatusInv, StatusTypes, Gone
  <2>3. CASE coalesce /\ recent[f]
    <3>1. /\ UNCHANGED <<statusFile, recent, failed>>
          /\ timer' = IF timer[f].known = "none" THEN [timer EXCEPT ![f].known = "armed"] ELSE timer
      BY <1>2, <2>3 DEF Updates, Coalesced
    <3>2. timer' \in [Frontends -> Timers] /\ timer'[f].known # "none" /\ \A g \in Frontends \ {f} : timer'[g] = timer[g]
      BY <2>2, <3>1 DEF StatusInv, StatusTypes, Timers
    <3>3. StatusTypes' /\ Due(f)' /\ Armed(f)' /\ Writer(f)
      BY <2>1, <3>1, <3>2 DEF StatusInv, StatusTypes, Due, AllFree, Armed, Bound, Writer
    <3> QED
      BY <1>2, <2>1, <2>2, <3>1, <3>2, <3>3, StatusStep DEF StatusInv, StatusTypes
  <2>4. CASE ~(coalesce /\ recent[f])
    <3>1. Flush(f, facts)
      BY <1>2, <2>4 DEF Updates
    <3>2. timer' \in [Frontends -> Timers] /\ \A g \in Frontends \ {f} : timer'[g] = timer[g]
      BY <3>1, TimerForgotten DEF Flush, StatusInv
    <3>3. /\ failed' \in [Frontends -> BOOLEAN] /\ \A g \in Frontends \ {f} : failed'[g] = failed[g]
          /\ (failed'[f] /\ statusFile' = statusFile) \/ statusFile' = Whole(f, facts)
      BY <3>1 DEF Flush, StatusInv, StatusTypes
    <3>4. StatusTypes' /\ Armed(f)' /\ Writer(f)
      BY <2>1, <3>1, <3>2, <3>3 DEF Flush, StatusInv, StatusTypes, Armed, Bound, Writer
    <3>5. statusFile' = statusFile \/ statusFile'.by = f
      BY <3>3 DEF Whole
    <3>6. status'[f] = facts /\ \A g \in Frontends \ {f} : status'[g] = status[g]
      BY <2>1 DEF StatusInv, StatusTypes
    <3> QED
      BY <1>2, <2>1, <2>2, <3>2, <3>3, <3>4, <3>5, <3>6, StatusStep
  <2> QED
    BY <2>3, <2>4
<1> QED
  BY <1>1, <1>2

\* Every step of a frontend of the key.
LEMMA StatusKept == StatusInv /\ StatusNext => StatusInv'
<1> SUFFICES ASSUME StatusInv, NEW f \in Frontends,
                    \/ DialsSocket(f) \/ BindsSocket(f) \/ StartsFile(f) \/ TurnStarted(f) \/ TurnEnded(f)
                    \/ TellsAtOnce(f) \/ IntervalPasses(f) \/ TimerFires(f) \/ FlushPending(f) \/ RemovesFile(f)
                    \/ ClosesSocket(f) \/ StatsPath(f) \/ UnlinksPath(f) \/ WriterDies(f) \/ WriteRestartRefusal(f)
             PROVE  StatusInv'
  BY DEF StatusNext
<1>0. StatusTypes /\ timer[f] \in Timers
  BY DEF StatusInv, StatusTypes
<1>1. CASE TurnStarted(f) \/ TurnEnded(f)
  BY <1>1, UpdateFacts DEF TurnStarted, TurnEnded, Receives
<1>2. CASE TellsAtOnce(f)
  BY <1>2, UpdateFacts DEF TellsAtOnce, Armed
\* The stages in which no file is written.
<1>3. CASE DialsSocket(f) \/ BindsSocket(f) \/ ClosesSocket(f) \/ StatsPath(f) \/ UnlinksPath(f)
  <2>1. UNCHANGED <<statusFile, status, removed, recent, timer, failed>>
    BY <1>3 DEF DialsSocket, BindsSocket, ClosesSocket, StatsPath, UnlinksPath, WriterKept
  <2>2. \/ front[f] = "none" /\ front' = [front EXCEPT ![f] = "off"]
        \/ front[f] = "none" /\ front' = [front EXCEPT ![f] = "dialed"]
        \/ front[f] = "dialed" /\ front' = [front EXCEPT ![f] = "bound"] /\ Alone(f)
        \/ front[f] = "dialed" /\ front' = [front EXCEPT ![f] = "off"]
        \/ front[f] = "removed" /\ front' = [front EXCEPT ![f] = "unbound"]
        \/ front[f] = "unbound" /\ front' = [front EXCEPT ![f] = "unlinking"]
        \/ front[f] \in {"unbound", "unlinking"} /\ front' = [front EXCEPT ![f] = "closed"]
    BY <1>3 DEF DialsSocket, BindsSocket, ClosesSocket, StatsPath, UnlinksPath, Moves
  <2>3. StatusTypes' /\ \A g \in Frontends \ {f} : front'[g] = front[g]
    BY <1>0, <2>1, <2>2 DEF StatusTypes, Gone
  <2>4. /\ Writer(f)' => Writer(f) \/ Alone(f)
        /\ removed'[f] => front'[f] \in Gone \cup {"dead"}
        /\ front'[f] \in Gone => removed'[f]
        /\ Due(f)' => Armed(f)'
        /\ front'[f] # "serving"
        /\ removed'[f] /\ ~failed'[f] => statusFile'.by # f
    BY <1>0, <2>1, <2>2 DEF StatusInv, StatusTypes, StatusStands, Writer, Armed, Bound, Due, Gone
  <2> QED
    BY <2>1, <2>3, <2>4, StatusStep
<1>4. CASE StartsFile(f)
  <2>1. front[f] = "bound" /\ front' = [front EXCEPT ![f] = "serving"] /\ Flush(f, status[f]) /\ UNCHANGED <<status, removed>>
    BY <1>4 DEF StartsFile, Moves
  <2>2. timer' \in [Frontends -> Timers] /\ \A g \in Frontends \ {f} : timer'[g] = timer[g]
    BY <1>0, <2>1, TimerForgotten DEF Flush
  <2>3. /\ failed' \in [Frontends -> BOOLEAN] /\ \A g \in Frontends \ {f} : failed'[g] = failed[g]
        /\ (failed'[f] /\ statusFile' = statusFile) \/ statusFile' = Whole(f, status[f])
    BY <1>0, <2>1 DEF Flush, StatusTypes
  <2>4. StatusTypes' /\ Armed(f)' /\ Writer(f) /\ front'[f] = "serving" /\ \A g \in Frontends \ {f} : front'[g] = front[g]
    BY <1>0, <2>1, <2>2, <2>3 DEF Flush, StatusTypes, Armed, Bound, Writer
  <2>5. statusFile' = statusFile \/ statusFile'.by = f
    BY <2>3 DEF Whole
  <2>6. ~removed'[f] /\ front'[f] \notin Gone
    BY <2>1, <2>4 DEF StatusInv, Gone
  <2> QED
    BY <2>1, <2>2, <2>3, <2>4, <2>5, <2>6, StatusStep
<1>5. CASE IntervalPasses(f)
  BY <1>5 DEF IntervalPasses, StatusInv, StatusTypes, StatusStands, Writer, Armed, Bound, Due
<1>6. CASE TimerFires(f)
  <2>1. UNCHANGED <<statusFile, front, status, removed, recent, failed>>
    BY <1>6 DEF TimerFires
  <2>2. /\ timer[f].known = "armed" \/ timer[f].armed > 0
        /\ timer' \in [Frontends -> Timers] /\ (timer'[f].known = "fired" \/ timer'[f].fired > 0)
        /\ \A g \in Frontends \ {f} : timer'[g] = timer[g]
    BY <1>0, <1>6 DEF TimerFires, StatusTypes, Timers
  <2>3. StatusTypes' /\ Due(f) /\ Due(f)'
    BY <1>0, <2>1, <2>2 DEF StatusTypes, Due, AllFree
  <2>4. Armed(f)'
    BY <2>1, <2>3 DEF StatusInv, Armed, Bound
  <2> QED
    BY <2>1, <2>2, <2>3, <2>4, StatusStep DEF StatusInv, StatusStands, Writer
<1>7. CASE FlushPending(f)
  <2>1. UNCHANGED <<front, status, removed>> /\ DOMAIN recent' = Frontends
    BY <1>0, <1>7 DEF FlushPending, StatusTypes
  <2>2. /\ timer' \in [Frontends -> Timers] /\ \A g \in Frontends \ {f} : timer'[g] = timer[g]
        /\ timer[f].known = "fired" \/ timer[f].fired > 0
    BY <1>0, <1>7 DEF FlushPending, Forgotten, StatusTypes, Timers
  <2>3. Due(f) /\ Armed(f) /\ Armed(f)'
    BY <1>0, <2>1, <2>2 DEF StatusInv, Due, AllFree, Armed, Bound
  <2>4. /\ failed' \in [Frontends -> BOOLEAN] /\ \A g \in Frontends \ {f} : failed'[g] = failed[g]
        /\ IF removed[f] THEN UNCHANGED <<statusFile, failed>>
           ELSE (failed'[f] /\ statusFile' = statusFile) \/ statusFile' = Whole(f, status[f])
    BY <1>0, <1>7 DEF FlushPending, MayWrite, StatusTypes
  <2>5. StatusTypes'
    BY <1>0, <2>1, <2>2, <2>4 DEF StatusTypes
  <2>6. ~removed[f] => Writer(f)
    BY <2>3 DEF StatusInv, Armed, Writer, Bound, Gone
  <2>7. statusFile' = statusFile \/ (~removed[f] /\ statusFile'.by = f)
    BY <2>4 DEF Whole
  <2>8. front[f] = "serving" => ~removed[f]
    BY DEF StatusInv, Gone
  <2>9. Writer(f)' = Writer(f)
    BY <2>1 DEF Writer
  <2>10. /\ removed[f] => front[f] \in Gone \cup {"dead"}
         /\ front[f] \in Gone => removed[f]
         /\ removed[f] /\ ~failed[f] => statusFile.by # f
    BY DEF StatusInv, StatusStands
  <2> QED
    BY <2>1, <2>2, <2>3, <2>4, <2>5, <2>6, <2>7, <2>8, <2>9, <2>10, StatusStep
<1>8. CASE RemovesFile(f)
  <2>1. /\ front[f] = "serving" /\ front' = [front EXCEPT ![f] = "removed"] /\ removed' = [removed EXCEPT ![f] = TRUE]
        /\ status' = [status EXCEPT ![f] = Unknown] /\ recent' = [recent EXCEPT ![f] = FALSE]
    BY <1>8 DEF RemovesFile, Moves
  <2>2. timer' \in [Frontends -> Timers] /\ \A g \in Frontends \ {f} : timer'[g] = timer[g]
    BY <1>0, <1>8, TimerForgotten DEF RemovesFile
  <2>3. /\ failed' \in [Frontends -> BOOLEAN] /\ \A g \in Frontends \ {f} : failed'[g] = failed[g]
        /\ (failed'[f] /\ statusFile' = statusFile) \/ statusFile'.by = Nobody
    <3>1. NoStatusFile.by = Nobody
      BY DEF NoStatusFile
    <3>2. \/ statusFile' = NoStatusFile /\ failed' = [failed EXCEPT ![f] = FALSE]
          \/ failed' = [failed EXCEPT ![f] = TRUE] /\ UNCHANGED statusFile
      BY <1>8 DEF RemovesFile
    <3> QED
      BY <1>0, <3>1, <3>2 DEF StatusTypes
  <2>4. /\ StatusTypes' /\ front'[f] = "removed" /\ removed'[f] /\ Armed(f)' /\ Writer(f) /\ ~Writer(f)'
        /\ \A g \in Frontends \ {f} : front'[g] = front[g] /\ removed'[g] = removed[g] /\ status'[g] = status[g]
    BY <1>0, <2>1, <2>2, <2>3 DEF StatusTypes, Armed, Bound, Writer, Gone
  <2> QED
    BY <2>2, <2>3, <2>4, StatusStep, FrontendsAssumption DEF Gone
<1>9. CASE WriterDies(f)
  <2>1. /\ Armed(f) /\ front' = [front EXCEPT ![f] = "dead"] /\ UNCHANGED <<statusFile, removed, failed>>
        /\ timer' = [timer EXCEPT ![f] = AllFree]
        /\ status' = [status EXCEPT ![f] = Unknown] /\ recent' = [recent EXCEPT ![f] = FALSE]
    BY <1>9 DEF WriterDies, Moves
  <2>2. AllFree \in Timers
    BY DEF AllFree, Timers
  <2>3. /\ StatusTypes' /\ ~Due(f)' /\ front'[f] = "dead" /\ ~Writer(f)'
        /\ \A g \in Frontends \ {f} : front'[g] = front[g] /\ timer'[g] = timer[g] /\ status'[g] = status[g]
    BY <1>0, <2>1, <2>2 DEF StatusTypes, Due, Writer
  <2> QED
    BY <2>1, <2>3, StatusStep DEF StatusInv, StatusStands, Gone
<1>10. CASE WriteRestartRefusal(f)
  <2>1. /\ front[f] = "none" /\ Alone(f) /\ front' = [front EXCEPT ![f] = "off"]
        /\ UNCHANGED <<status, removed, recent, timer, failed>>
        /\ statusFile' = statusFile \/ statusFile'.by = f
    BY <1>10 DEF WriteRestartRefusal, Moves, WriterKept, Whole
  <2>2. /\ StatusTypes' /\ front'[f] = "off" /\ ~Writer(f)' /\ \A g \in Frontends \ {f} : front'[g] = front[g]
    BY <1>0, <2>1 DEF StatusTypes, Writer
  <2>3. ~removed[f] /\ ~Due(f)
    BY <2>1 DEF StatusInv, Gone, Armed, Bound
  <2>4. ~Due(f)'
    BY <2>1, <2>3 DEF Due
  <2> QED
    BY <2>1, <2>2, <2>3, <2>4, StatusStep DEF Gone
<1> QED
  BY <1>1, <1>2, <1>3, <1>4, <1>5, <1>6, <1>7, <1>8, <1>9, <1>10

\* While a frontend serves its key the status file is its own and up to date, or about to be,
\* and the exit that removed it is the last word (Writer, startIdleListener).
THEOREM StatusFileStands == ScopeSpec => []StatusStands
<1>1. ScopeInit => StatusInv
  BY StatusStarts DEF ScopeInit
<1>2. StatusInv /\ [ScopeNext]_scopeVars => StatusInv'
  <2>1. StatusInv /\ UNCHANGED statusVars => StatusInv'
    BY DEF statusVars, StatusInv, StatusTypes, StatusStands, Writer, Armed, Bound, Due
  <2> QED
    BY <2>1, StatusKept DEF ScopeNext, scopeVars
<1>3. StatusInv => StatusStands
  BY DEF StatusInv
<1> QED
  BY <1>1, <1>2, <1>3, PTL DEF ScopeSpec

-----------------------------------------------------------------------------
(* The lines of a monitor.                                                 *)

Ordered(s)  == \A i, j \in 1..Len(s) : i < j => s[i] < s[j]
UpTo(s, n)  == \A i \in 1..Len(s) : s[i] <= n

\* Appending the next number.
LEMMA NextLine ==
    ASSUME NEW s \in Seq(Nat), NEW n \in Nat, Ordered(s), UpTo(s, n)
    PROVE  /\ Append(s, n + 1) \in Seq(Nat) /\ Len(Append(s, n + 1)) = Len(s) + 1
           /\ Ordered(Append(s, n + 1)) /\ UpTo(Append(s, n + 1), n + 1)
           /\ Append(s, n + 1)[Len(s) + 1] = n + 1
           /\ \A i \in 1..Len(s) : Append(s, n + 1)[i] = s[i]
<1> DEFINE t == Append(s, n + 1)
<1>1. /\ t \in Seq(Nat) /\ Len(t) = Len(s) + 1 /\ Len(s) \in Nat
      /\ t[Len(s) + 1] = n + 1 /\ \A i \in 1..Len(s) : t[i] = s[i] /\ t[i] \in Nat
  OBVIOUS
<1> HIDE DEF t
<1>2. \A i \in 1..Len(t) : t[i] \in Nat /\ (i = Len(s) + 1 \/ i \in 1..Len(s))
  BY <1>1
<1>3. UpTo(t, n + 1)
  <2> SUFFICES ASSUME NEW i \in 1..Len(t) PROVE t[i] <= n + 1
    BY DEF UpTo
  <2>1. CASE i = Len(s) + 1
    BY <1>1, <2>1
  <2>2. CASE i \in 1..Len(s)
    <3>1. t[i] = s[i] /\ s[i] <= n /\ t[i] \in Nat
      BY <1>1, <2>2 DEF UpTo
    <3> QED
      BY <3>1
  <2> QED
    BY <1>2, <2>1, <2>2
<1>4. Ordered(t)
  <2> SUFFICES ASSUME NEW i \in 1..Len(t), NEW j \in 1..Len(t), i < j PROVE t[i] < t[j]
    BY DEF Ordered
  <2>1. i \in 1..Len(s) /\ t[i] = s[i] /\ s[i] <= n /\ s[i] \in Nat
    BY <1>1 DEF UpTo
  <2>2. CASE j = Len(s) + 1
    BY <1>1, <2>1, <2>2
  <2>3. CASE j \in 1..Len(s)
    BY <1>1, <2>1, <2>3 DEF Ordered
  <2> QED
    BY <1>2, <2>2, <2>3
<1> QED
  BY <1>1, <1>3, <1>4 DEF t

\* Taking the first of two sequences' second part over to the first.
LEMMA MovedAcross ==
    ASSUME NEW s \in Seq(Nat), NEW t \in Seq(Nat)
    PROVE  /\ s \o t \in Seq(Nat) /\ Len(s \o t) = Len(s) + Len(t)
           /\ t # <<>> => /\ Append(s, Head(t)) \o Tail(t) = s \o t /\ Tail(t) \in Seq(Nat) /\ Append(s, Head(t)) \in Seq(Nat)
                          /\ Head(t) \in Nat
           /\ \A x \in Nat : s \o Append(t, x) = Append(s \o t, x)
           /\ <<>> \o t = t /\ s \o <<>> = s
           /\ \A i \in 1..Len(s) : (s \o t)[i] = s[i]
<1>1. s \o t \in Seq(Nat) /\ Len(s \o t) = Len(s) + Len(t)
  OBVIOUS
<1>2. ASSUME t # <<>>
      PROVE  /\ Append(s, Head(t)) \o Tail(t) = s \o t /\ Tail(t) \in Seq(Nat) /\ Append(s, Head(t)) \in Seq(Nat)
             /\ Head(t) \in Nat
  <2>1. Tail(t) \in Seq(Nat) /\ Head(t) \in Nat /\ Append(s, Head(t)) \in Seq(Nat)
    BY <1>2
  <2> QED
    BY <1>2, <2>1
<1>3. \A x \in Nat : s \o Append(t, x) = Append(s \o t, x)
  OBVIOUS
<1>4. <<>> \o t = t /\ s \o <<>> = s /\ \A i \in 1..Len(s) : (s \o t)[i] = s[i]
  OBVIOUS
<1> QED
  BY <1>1, <1>2, <1>3, <1>4

\* What is in a sequence.
LEMMA Members == ASSUME NEW s \in Seq(Nat)
                 PROVE  \A n : n \in ToSet(s) <=> \E i \in 1..Len(s) : s[i] = n
  BY DEF ToSet

\* The queue keeps the newest: all of a short one, all but the oldest of one over the buffer.
LEMMA KeptFacts ==
    ASSUME NEW q \in Seq(Nat), Len(q) <= BufferLines + 1, Ordered(q)
    PROVE  /\ Kept(q) \in Seq(Nat) /\ Len(Kept(q)) <= BufferLines /\ Ordered(Kept(q))
           /\ q # <<>> => Kept(q) # <<>> /\ Kept(q)[Len(Kept(q))] = q[Len(q)]
           /\ \A n \in ToSet(q) \ ToSet(Kept(q)), m \in ToSet(Kept(q)) : n < m
           /\ ToSet(Kept(q)) \subseteq ToSet(q)
<1>0. BufferLines \in Nat /\ BufferLines >= 1
  BY RelayBounds
<1>1. CASE Len(q) <= BufferLines
  BY <1>0, <1>1 DEF Kept
<1>2. CASE Len(q) > BufferLines
  <2> DEFINE k == Kept(q)
  <2>1. Len(q) = BufferLines + 1
    BY <1>0, <1>2
  <2>2. Kept(q) = SubSeq(q, 2, Len(q))
    BY <1>0, <1>2, <2>1 DEF Kept, Newest
  <2>3. k \in Seq(Nat) /\ Len(k) = BufferLines /\ \A i \in 1..BufferLines : k[i] = q[i + 1]
    BY <1>0, <2>1, <2>2
  <2> HIDE DEF k
  <2>4. \A i \in 1..Len(k) : i + 1 \in 1..Len(q) /\ k[i] = q[i + 1] /\ q[1] < k[i]
    BY <1>0, <2>1, <2>3 DEF Ordered
  <2>5. Ordered(k)
    BY <1>0, <2>1, <2>3 DEF Ordered
  <2>6. \A i \in 1..Len(q) : i = 1 \/ (i - 1 \in 1..Len(k) /\ k[i - 1] = q[i])
    BY <1>0, <2>1, <2>3
  <2>7. /\ \A n \in ToSet(q) : n = q[1] \/ n \in ToSet(k)
        /\ \A n \in ToSet(k) : n \in ToSet(q) /\ q[1] < n
    <3>1. /\ \A n : n \in ToSet(q) <=> \E i \in 1..Len(q) : q[i] = n
          /\ \A n : n \in ToSet(k) <=> \E i \in 1..Len(k) : k[i] = n
      BY <2>3, Members
    <3> QED
      BY <3>1, <2>4, <2>6
  <2>8. \A n \in ToSet(q) \ ToSet(k), m \in ToSet(k) : n < m
    BY <2>7
  <2>9. k # <<>> /\ k[Len(k)] = q[Len(q)]
    BY <1>0, <2>1, <2>3
  <2> QED
    BY <1>0, <2>3, <2>5, <2>7, <2>8, <2>9 DEF k
<1> QED
  BY <1>0, <1>1, <1>2

RelayTypes ==
    /\ sent \in Nat /\ queue \in Seq(Nat) /\ Len(queue) <= BufferLines
    /\ buf \in [Readers -> Seq(Nat)] /\ got \in [Readers -> Seq(Nat)]
    /\ reader \in [Readers -> {"out", "in", "ended"}]

\* What a reader has been given on its connection, printed or not.
Given(r) == got[r] \o buf[r]

\* The relay holds the connections of the readers that are in; lines are in the order of their
\* numbers wherever they wait, and what was dropped is older than what is queued.
RelayInv ==
    /\ RelayTypes
    /\ clients = {r \in Readers : reader[r] = "in"}
    /\ \A r \in Readers : /\ reader[r] = "out" => buf[r] = <<>>
                          /\ Ordered(Given(r)) /\ UpTo(Given(r), sent)
    /\ Ordered(queue) /\ UpTo(queue, sent)
    /\ queue # <<>> => clients = {} /\ queue[Len(queue)] = sent
    /\ over \subseteq 0..sent /\ \A n \in over, q \in ToSet(queue) : n < q
    /\ 1..sent \subseteq printed \cup InSockets \cup ToSet(queue) \cup over \cup unread

\* A line is in a socket when it is in some reader's (Hub.Emit).
LEMMA SomeSocket == /\ \A n : n \in InSockets <=> \E r \in Readers : n \in ToSet(buf[r])
                    /\ \A n : n \in InSockets' <=> \E r \in Readers : n \in ToSet(buf'[r])
  BY DEF InSockets

\* A line that is emitted is written to every reader that takes it, or queued.
LEMMA EmitKept ==
    ASSUME RelayInv, Emit(sent + 1), UNCHANGED <<got, printed, unread>>
    PROVE  RelayInv'
<1> DEFINE live == {c \in clients : Takes(c)}
           q == IF live = {} THEN Append(queue, sent + 1) ELSE queue
<1>1. /\ sent' = sent + 1 /\ clients' = live /\ queue' = Kept(q) /\ over' = over \cup (ToSet(q) \ ToSet(Kept(q)))
      /\ buf' = [r \in Readers |-> IF r \in live THEN Append(buf[r], sent + 1) ELSE buf[r]]
      /\ reader' = [r \in Readers |-> IF r \in clients \ live /\ reader[r] = "in" THEN "ended" ELSE reader[r]]
  BY DEF Emit
<1>2. sent \in Nat /\ sent + 1 \in Nat /\ BufferLines \in Nat /\ queue \in Seq(Nat) /\ Len(queue) <= BufferLines
  BY RelayBounds DEF RelayInv, RelayTypes
<1>q. live = {} => Len(q) = Len(queue) + 1
  BY <1>2
<1>3. live # {} => queue = <<>>
  BY DEF RelayInv
<1>4. /\ q \in Seq(Nat) /\ Len(q) <= BufferLines + 1 /\ Ordered(q) /\ UpTo(q, sent + 1)
      /\ q # <<>> => live = {} /\ q[Len(q)] = sent + 1
      /\ live = {} => q # <<>> /\ \A i \in 1..Len(queue) : q[i] = queue[i]
      /\ \A i \in 1..Len(q) : (i \in 1..Len(queue) /\ q[i] = queue[i]) \/ q[i] = sent + 1
  <2>1. CASE live = {}
    <3>1. q = Append(queue, sent + 1)
      BY <2>1
    <3>2. Ordered(queue) /\ UpTo(queue, sent)
      BY DEF RelayInv
    <3>3. \A i \in 1..Len(queue) + 1 : i \in 1..Len(queue) \/ i = Len(queue) + 1
      BY <1>2
    <3> HIDE DEF q, live
    <3> QED
      BY <1>2, <2>1, <3>1, <3>2, <3>3, NextLine
  <2>2. CASE live # {}
    <3>1. q = <<>>
      BY <1>3, <2>2
    <3> QED
      BY <1>2, <2>2, <3>1 DEF Ordered, UpTo
  <2> QED
    BY <2>1, <2>2
<1> HIDE DEF q
<1>5. /\ queue' \in Seq(Nat) /\ Len(queue') <= BufferLines /\ Ordered(queue')
      /\ q # <<>> => queue' # <<>> /\ queue'[Len(queue')] = q[Len(q)]
      /\ \A n \in ToSet(q) \ ToSet(queue'), m \in ToSet(queue') : n < m
      /\ ToSet(queue') \subseteq ToSet(q)
  BY <1>1, <1>4, KeptFacts
<1> HIDE DEF live
<1>m. /\ \A n : n \in ToSet(queue) <=> \E i \in 1..Len(queue) : queue[i] = n
      /\ \A n : n \in ToSet(q) <=> \E i \in 1..Len(q) : q[i] = n
      /\ \A n : n \in ToSet(queue') <=> \E i \in 1..Len(queue') : queue'[i] = n
  BY <1>2, <1>4, <1>5, Members
<1>6. \A n \in ToSet(q) : n \in ToSet(queue) \/ n = sent + 1
  BY <1>4, <1>m
<1>7. live = {} => ToSet(queue) \subseteq ToSet(q) /\ sent + 1 \in ToSet(q)
  <2> SUFFICES ASSUME live = {} PROVE ToSet(queue) \subseteq ToSet(q) /\ sent + 1 \in ToSet(q)
    OBVIOUS
  <2>1. q # <<>> /\ q[Len(q)] = sent + 1 /\ Len(q) \in 1..Len(q)
    BY <1>4
  <2>2. \A i \in 1..Len(queue) : q[i] = queue[i] /\ i \in 1..Len(q)
    BY <1>2, <1>4, <1>q
  <2> QED
    BY <1>m, <2>1, <2>2
<1>8. UpTo(queue', sent')
  <2>1. \A n \in ToSet(q) : n <= sent + 1
    BY <1>m, <1>4 DEF UpTo
  <2> QED
    BY <1>1, <1>5, <1>m, <2>1 DEF UpTo
<1>9. queue' # <<>> => clients' = {} /\ queue'[Len(queue')] = sent'
  <2>1. queue' # <<>> => q # <<>>
    <3> SUFFICES ASSUME queue' # <<>> PROVE q # <<>>
      OBVIOUS
    <3>1. 1 \in 1..Len(queue')
      BY <1>5
    <3>2. PICK i \in 1..Len(q) : q[i] = queue'[1]
      BY <1>5, <1>m, <3>1
    <3> QED
      BY <1>4, <3>2
  <2> QED
    BY <1>1, <1>4, <1>5, <2>1
<1>10. over' \subseteq 0..sent' /\ \A n \in over', m \in ToSet(queue') : n < m
  <2>1. \A n \in ToSet(q) : n \in 0..sent'
    <3>1. \A i \in 1..Len(q) : q[i] \in Nat /\ q[i] <= sent + 1
      BY <1>4 DEF UpTo
    <3> QED
      BY <1>1, <1>2, <1>m, <3>1
  <2>2. \A n \in over : n \in 0..sent /\ n < sent + 1 /\ \A m \in ToSet(queue) : n < m
    BY <1>2 DEF RelayInv
  <2> QED
    BY <1>1, <1>2, <1>5, <1>6, <2>1, <2>2
<1>11. buf' \in [Readers -> Seq(Nat)] /\ reader' \in [Readers -> {"out", "in", "ended"}]
  BY <1>1, <1>2 DEF RelayInv, RelayTypes
<1>12. \A r \in Readers : Ordered(Given(r)') /\ UpTo(Given(r)', sent')
  <2> SUFFICES ASSUME NEW r \in Readers PROVE Ordered(got[r] \o buf'[r]) /\ UpTo(got[r] \o buf'[r], sent')
    BY DEF Given
  <2>1. /\ got[r] \in Seq(Nat) /\ buf[r] \in Seq(Nat) /\ got[r] \o buf[r] \in Seq(Nat)
        /\ Ordered(got[r] \o buf[r]) /\ UpTo(got[r] \o buf[r], sent)
    <3>1. got[r] \in Seq(Nat) /\ buf[r] \in Seq(Nat)
      BY DEF RelayInv, RelayTypes
    <3>2. Ordered(Given(r)) /\ UpTo(Given(r), sent)
      BY DEF RelayInv
    <3>3. got[r] \o buf[r] \in Seq(Nat)
      BY <3>1
    <3> QED
      BY <3>1, <3>2, <3>3 DEF Given
  <2>2. CASE r \in live
    <3>1. buf'[r] = Append(buf[r], sent + 1)
      BY <1>1, <2>2
    <3>2. got[r] \o Append(buf[r], sent + 1) = Append(got[r] \o buf[r], sent + 1)
      <4> DEFINE g == got[r]
                 b == buf[r]
      <4>1. g \in Seq(Nat) /\ b \in Seq(Nat)
        BY <2>1
      <4> HIDE DEF g, b
      <4>2. g \o Append(b, sent + 1) = Append(g \o b, sent + 1)
        BY <1>2, <4>1, MovedAcross
      <4> QED
        BY <4>2 DEF g, b
    <3> QED
      <4> DEFINE s == got[r] \o buf[r]
      <4>1. s \in Seq(Nat) /\ Ordered(s) /\ UpTo(s, sent)
        BY <2>1
      <4> HIDE DEF s
      <4>2. Ordered(Append(s, sent + 1)) /\ UpTo(Append(s, sent + 1), sent + 1)
        BY <1>2, <4>1, NextLine
      <4> QED
        BY <1>1, <3>1, <3>2, <4>2 DEF s
  <2>3. CASE r \notin live
    <3> DEFINE s == got[r] \o buf[r]
    <3>1. s \in Seq(Nat) /\ Ordered(s) /\ UpTo(s, sent) /\ buf'[r] = buf[r]
      BY <1>1, <2>1, <2>3
    <3> HIDE DEF s
    <3>2. \A i \in 1..Len(s) : s[i] \in Nat /\ s[i] <= sent
      BY <3>1 DEF UpTo
    <3>3. UpTo(s, sent')
      BY <1>1, <1>2, <3>2 DEF UpTo
    <3> QED
      BY <3>1, <3>3 DEF s
  <2> QED
    BY <2>2, <2>3
<1>13. clients' = {r \in Readers : reader'[r] = "in"} /\ \A r \in Readers : reader'[r] = "out" => buf'[r] = <<>>
  BY <1>1 DEF RelayInv, live, Takes
<1>14. 1..sent' \subseteq printed' \cup InSockets' \cup ToSet(queue') \cup over' \cup unread'
  <2>1. \A r \in Readers : ToSet(buf[r]) \subseteq ToSet(buf'[r])
    <3> SUFFICES ASSUME NEW r \in Readers PROVE ToSet(buf[r]) \subseteq ToSet(buf'[r])
      OBVIOUS
    <3>1. buf[r] \in Seq(Nat)
      BY DEF RelayInv, RelayTypes
    <3>2. \A i \in 1..Len(buf[r]) : i \in 1..Len(Append(buf[r], sent + 1)) /\ Append(buf[r], sent + 1)[i] = buf[r][i]
      BY <1>2, <3>1
    <3>3. ToSet(buf[r]) \subseteq ToSet(Append(buf[r], sent + 1))
      <4>1. Append(buf[r], sent + 1) \in Seq(Nat)
        BY <1>2, <3>1
      <4>2. /\ \A n : n \in ToSet(buf[r]) <=> \E i \in 1..Len(buf[r]) : buf[r][i] = n
            /\ \A n : n \in ToSet(Append(buf[r], sent + 1)) <=>
                        \E i \in 1..Len(Append(buf[r], sent + 1)) : Append(buf[r], sent + 1)[i] = n
        BY <3>1, <4>1, Members
      <4> QED
        BY <3>2, <4>2
    <3> QED
      BY <1>1, <3>3
  <2>2. \A r \in live : sent + 1 \in ToSet(buf'[r])
    <3> SUFFICES ASSUME NEW r \in live PROVE sent + 1 \in ToSet(buf'[r])
      OBVIOUS
    <3>1. r \in Readers /\ buf[r] \in Seq(Nat) /\ buf'[r] = Append(buf[r], sent + 1)
      BY <1>1 DEF RelayInv, RelayTypes, live
    <3>2. Len(buf[r]) + 1 \in 1..Len(buf'[r]) /\ buf'[r][Len(buf[r]) + 1] = sent + 1 /\ buf'[r] \in Seq(Nat)
      BY <1>2, <3>1
    <3> QED
      BY <3>2 DEF ToSet
  <2>3. live = {} => ToSet(queue) \cup {sent + 1} \subseteq ToSet(queue') \cup over'
    BY <1>1, <1>7
  <2>4. live # {} => sent + 1 \in InSockets' /\ ToSet(queue) = {}
    <3>1. live \subseteq Readers
      BY DEF RelayInv, live
    <3> QED
      BY <1>3, <2>2, <3>1, SomeSocket DEF ToSet
  <2>5. InSockets \subseteq InSockets'
    BY <2>1, SomeSocket
  <2>6. \A n \in 1..sent' : n \in 1..sent \/ n = sent + 1
    BY <1>1, <1>2
  <2>7. 1..sent \subseteq printed \cup InSockets \cup ToSet(queue) \cup over \cup unread
    BY DEF RelayInv
  <2> QED
    BY <1>1, <2>3, <2>4, <2>5, <2>6, <2>7
<1> QED
  BY <1>1, <1>2, <1>5, <1>8, <1>9, <1>10, <1>11, <1>12, <1>13, <1>14 DEF RelayInv, RelayTypes

\* A reader is replayed the queue, whole or as far as its socket takes it.
LEMMA ReplayKept ==
    ASSUME RelayInv, NEW r \in Readers, AcceptReader(r)
    PROVE  RelayInv'
<1> DEFINE ok == Len(queue) <= SocketRoom
           line == IF ok THEN queue ELSE SubSeq(queue, 1, SocketRoom)
<1>1. /\ reader[r] = "out" /\ UNCHANGED <<sent, printed, over, unread>>
      /\ buf' = [buf EXCEPT ![r] = line] /\ got' = [got EXCEPT ![r] = <<>>]
      /\ reader' = [reader EXCEPT ![r] = IF ok THEN "in" ELSE "ended"]
      /\ clients' = IF ok THEN clients \cup {r} ELSE clients
      /\ queue' = IF ok THEN <<>> ELSE queue
  BY DEF AcceptReader, QueueAfter
<1>2. /\ queue \in Seq(Nat) /\ Ordered(queue) /\ UpTo(queue, sent) /\ sent \in Nat /\ SocketRoom \in Nat
      /\ buf[r] = <<>>
  BY <1>1, RelayBounds DEF RelayInv, RelayTypes
<1>3. line \in Seq(Nat) /\ Ordered(line) /\ UpTo(line, sent) /\ (ok => line = queue)
  <2>1. CASE ok
    BY <1>2, <2>1
  <2>2. CASE ~ok
    <3>1. Len(queue) \in Nat /\ SocketRoom \in 0..Len(queue) /\ line = SubSeq(queue, 1, SocketRoom)
      BY <1>2, <2>2
    <3>2. line \in Seq(Nat) /\ Len(line) = SocketRoom /\ \A i \in 1..SocketRoom : i \in 1..Len(queue) /\ line[i] = queue[i]
      BY <1>2, <3>1
    <3> HIDE DEF line
    <3>3. Ordered(line)
      BY <1>2, <3>2 DEF Ordered
    <3>4. UpTo(line, sent)
      BY <1>2, <3>2 DEF UpTo
    <3> QED
      BY <2>2, <3>2, <3>3, <3>4
  <2> QED
    BY <2>1, <2>2
<1> HIDE DEF line
<1>4. \A q \in Readers : Ordered(Given(q)') /\ UpTo(Given(q)', sent')
  <2>1. Given(r)' = line
    <3>1. got'[r] = <<>> /\ buf'[r] = line
      BY <1>1 DEF RelayInv, RelayTypes
    <3>2. <<>> \o line = line
      BY <1>3
    <3> QED
      BY <3>1, <3>2 DEF Given
  <2>2. \A q \in Readers \ {r} : Given(q)' = Given(q)
    BY <1>1 DEF Given, RelayInv, RelayTypes
  <2>3. \A q \in Readers : Ordered(Given(q)) /\ UpTo(Given(q), sent)
    BY DEF RelayInv
  <2> QED
    BY <1>1, <1>3, <2>1, <2>2, <2>3
<1>5. /\ RelayTypes' /\ clients' = {q \in Readers : reader'[q] = "in"}
      /\ \A q \in Readers : reader'[q] = "out" => buf'[q] = <<>>
  <2>1. Len(<<>>) <= BufferLines /\ <<>> \in Seq(Nat)
    BY RelayBounds
  <2>2. RelayTypes'
    BY <1>1, <1>3, <2>1 DEF RelayInv, RelayTypes
  <2>3. /\ clients' = {q \in Readers : reader'[q] = "in"}
        /\ \A q \in Readers : reader'[q] = "out" => buf'[q] = <<>>
    BY <1>1 DEF RelayInv, RelayTypes
  <2> QED
    BY <2>2, <2>3
<1>6. /\ Ordered(queue') /\ UpTo(queue', sent')
      /\ queue' # <<>> => clients' = {} /\ queue'[Len(queue')] = sent'
      /\ over' \subseteq 0..sent' /\ \A n \in over', q \in ToSet(queue') : n < q
  <2>1. CASE ok
    BY <1>1, <2>1 DEF Ordered, UpTo, ToSet, RelayInv
  <2>2. CASE ~ok
    BY <1>1, <2>2 DEF RelayInv
  <2> QED
    BY <2>1, <2>2
<1>7. 1..sent' \subseteq printed' \cup InSockets' \cup ToSet(queue') \cup over' \cup unread'
  <2>1. ToSet(buf[r]) = {}
    BY <1>2 DEF ToSet
  <2>2. \A q \in Readers \ {r} : buf'[q] = buf[q]
    BY <1>1 DEF RelayInv, RelayTypes
  <2>3. InSockets \subseteq InSockets'
    BY <2>1, <2>2, SomeSocket
  <2>4. ok => ToSet(queue) \subseteq InSockets'
    <3>1. buf'[r] = line
      BY <1>1 DEF RelayInv, RelayTypes
    <3> QED
      BY <1>3, <3>1, SomeSocket
  <2> QED
    BY <1>1, <2>3, <2>4 DEF RelayInv
<1> QED
  BY <1>4, <1>5, <1>6, <1>7 DEF RelayInv

\* The readers' own steps.
LEMMA ReaderKept ==
    ASSUME RelayInv, NEW r \in Readers, PrintLine(r) \/ Redial(r) \/ ReaderGoes(r)
    PROVE  RelayInv'
<1>0. /\ buf[r] \in Seq(Nat) /\ got[r] \in Seq(Nat) /\ Given(r) \in Seq(Nat)
      /\ Ordered(Given(r)) /\ UpTo(Given(r), sent)
  <2>1. buf[r] \in Seq(Nat) /\ got[r] \in Seq(Nat)
    BY DEF RelayInv, RelayTypes
  <2>2. got[r] \o buf[r] \in Seq(Nat)
    BY <2>1, MovedAcross
  <2> QED
    BY <2>1, <2>2 DEF RelayInv, Given
<1>1. CASE PrintLine(r)
  <2>1. /\ reader[r] # "out" /\ buf[r] # <<>> /\ UNCHANGED <<clients, queue, sent, reader, over, unread>>
        /\ buf' = [buf EXCEPT ![r] = Tail(buf[r])] /\ got' = [got EXCEPT ![r] = Append(got[r], Head(buf[r]))]
        /\ printed' = printed \cup {Head(buf[r])}
    BY <1>1 DEF PrintLine
  <2>2. /\ Append(got[r], Head(buf[r])) \o Tail(buf[r]) = Given(r)
        /\ Tail(buf[r]) \in Seq(Nat) /\ Append(got[r], Head(buf[r])) \in Seq(Nat)
    <3> DEFINE g == got[r]
               b == buf[r]
    <3>1. g \in Seq(Nat) /\ b \in Seq(Nat) /\ b # <<>>
      BY <1>0, <2>1
    <3> HIDE DEF g, b
    <3>2. /\ Append(g, Head(b)) \o Tail(b) = g \o b
          /\ Tail(b) \in Seq(Nat) /\ Append(g, Head(b)) \in Seq(Nat)
      BY <3>1, MovedAcross
    <3> QED
      BY <3>2 DEF g, b, Given
  <2>3. RelayTypes' /\ \A q \in Readers \ {r} : buf'[q] = buf[q] /\ got'[q] = got[q]
    BY <2>1, <2>2 DEF RelayInv, RelayTypes
  <2>4. buf'[r] = Tail(buf[r]) /\ got'[r] = Append(got[r], Head(buf[r]))
    BY <2>1 DEF RelayInv, RelayTypes
  <2>5. \A q \in Readers : Given(q)' = Given(q)
    BY <2>2, <2>3, <2>4 DEF Given
  <2>6. \A n \in ToSet(buf[r]) : n = Head(buf[r]) \/ n \in ToSet(Tail(buf[r]))
    <3>1. \A i \in 1..Len(buf[r]) : buf[r][i] = Head(buf[r]) \/ (i - 1 \in 1..Len(Tail(buf[r])) /\ Tail(buf[r])[i - 1] = buf[r][i])
      BY <1>0, <2>1
    <3>2. /\ \A n : n \in ToSet(buf[r]) <=> \E i \in 1..Len(buf[r]) : buf[r][i] = n
          /\ \A n : n \in ToSet(Tail(buf[r])) <=> \E i \in 1..Len(Tail(buf[r])) : Tail(buf[r])[i] = n
      BY <1>0, <2>2, Members
    <3> QED
      BY <3>1, <3>2
  <2>7. InSockets \subseteq InSockets' \cup printed'
    BY <2>1, <2>3, <2>4, <2>6, SomeSocket
  <2>8. 1..sent' \subseteq printed' \cup InSockets' \cup ToSet(queue') \cup over' \cup unread'
    BY <2>1, <2>7 DEF RelayInv
  <2> QED
    BY <2>1, <2>3, <2>5, <2>8 DEF RelayInv
<1>2. CASE Redial(r)
  <2>1. /\ reader[r] = "ended" /\ buf[r] = <<>> /\ reader' = [reader EXCEPT ![r] = "out"]
        /\ UNCHANGED <<clients, queue, sent, buf, got, printed, over, unread>>
    BY <1>2 DEF Redial
  <2>2. /\ RelayTypes' /\ clients' = {q \in Readers : reader'[q] = "in"}
        /\ \A q \in Readers : reader'[q] = "out" => buf'[q] = <<>>
    BY <2>1 DEF RelayInv, RelayTypes
  <2>3. InSockets' = InSockets /\ \A q \in Readers : Given(q)' = Given(q)
    BY <2>1 DEF InSockets, Given
  <2> QED
    BY <2>1, <2>2, <2>3 DEF RelayInv
<1>3. CASE ReaderGoes(r)
  <2>1. /\ reader' = [reader EXCEPT ![r] = "out"] /\ unread' = unread \cup ToSet(buf[r])
        /\ buf' = [buf EXCEPT ![r] = <<>>] /\ clients' = clients \ {r}
        /\ UNCHANGED <<queue, sent, got, printed, over>>
    BY <1>3 DEF ReaderGoes
  <2>2. /\ RelayTypes' /\ clients' = {q \in Readers : reader'[q] = "in"}
        /\ \A q \in Readers : reader'[q] = "out" => buf'[q] = <<>>
    BY <2>1 DEF RelayInv, RelayTypes
  <2>3. buf'[r] = <<>> /\ \A q \in Readers \ {r} : buf'[q] = buf[q]
    BY <2>1 DEF RelayInv, RelayTypes
  <2>4. Given(r)' = got[r] /\ \A q \in Readers \ {r} : Given(q)' = Given(q)
    <3>1. got[r] \o <<>> = got[r]
      BY <1>0
    <3> QED
      BY <2>1, <2>3, <3>1 DEF Given
  <2>5. Ordered(got[r]) /\ UpTo(got[r], sent)
    <3>1. /\ Len(Given(r)) = Len(got[r]) + Len(buf[r]) /\ Len(got[r]) \in Nat /\ Len(buf[r]) \in Nat
          /\ \A i \in 1..Len(got[r]) : Given(r)[i] = got[r][i]
      <4> DEFINE g == got[r]
                 b == buf[r]
      <4>1. g \in Seq(Nat) /\ b \in Seq(Nat)
        BY <1>0
      <4> HIDE DEF g, b
      <4>2. Len(g \o b) = Len(g) + Len(b) /\ Len(g) \in Nat /\ Len(b) \in Nat /\ \A i \in 1..Len(g) : (g \o b)[i] = g[i]
        BY <4>1, MovedAcross
      <4> QED
        BY <4>2 DEF g, b, Given
    <3>2. \A i \in 1..Len(got[r]) : i \in 1..Len(Given(r))
      <4> SUFFICES ASSUME NEW a \in Nat, NEW b \in Nat, NEW i \in 1..a PROVE i \in 1..(a + b)
        BY <3>1
      <4> QED
        OBVIOUS
    <3> QED
      BY <1>0, <3>1, <3>2 DEF Ordered, UpTo
  <2>6. \A q \in Readers : Ordered(Given(q)') /\ UpTo(Given(q)', sent')
    BY <2>1, <2>4, <2>5 DEF RelayInv
  <2>7. InSockets \subseteq InSockets' \cup unread'
    BY <2>1, <2>3, SomeSocket
  <2>8. 1..sent' \subseteq printed' \cup InSockets' \cup ToSet(queue') \cup over' \cup unread'
    BY <2>1, <2>7 DEF RelayInv
  <2>9. queue' # <<>> => clients' = {} /\ queue'[Len(queue')] = sent'
    BY <2>1 DEF RelayInv
  <2> QED
    BY <2>1, <2>2, <2>6, <2>8, <2>9 DEF RelayInv
<1> QED
  BY <1>1, <1>2, <1>3

\* Every step of the relay, its command and its readers.
LEMMA RelayKept == RelayInv /\ RelayNext => RelayInv'
<1> SUFFICES ASSUME RelayInv, RelayNext PROVE RelayInv'
  OBVIOUS
<1>1. CASE CommandPrints
  BY <1>1, EmitKept DEF CommandPrints
<1>2. ASSUME UNCHANGED <<clients, queue, sent, reader, buf, got, printed, over, unread>> PROVE RelayInv'
  <2>1. InSockets' = InSockets /\ \A q \in Readers : Given(q)' = Given(q)
    BY <1>2 DEF InSockets, Given
  <2> QED
    BY <1>2, <2>1 DEF RelayInv, RelayTypes
<1>3. CASE CommandExits
  <2>1. UNCHANGED <<got, printed, unread>> /\ (Emit(sent + 1) \/ NoEmit)
    BY <1>3 DEF CommandExits
  <2> QED
    BY <1>2, <2>1, EmitKept DEF NoEmit
<1>4. CASE Restarted
  BY <1>2, <1>4 DEF Restarted
<1>5. CASE CloseRelay
  <2>1. /\ clients' = {} /\ reader' = [r \in Readers |-> IF r \in clients THEN "ended" ELSE reader[r]]
        /\ UNCHANGED <<queue, sent, buf, got, printed, over, unread>>
    BY <1>5 DEF CloseRelay
  <2>2. /\ RelayTypes' /\ clients' = {q \in Readers : reader'[q] = "in"}
        /\ \A q \in Readers : reader'[q] = "out" => buf'[q] = <<>>
    BY <2>1 DEF RelayInv, RelayTypes
  <2>3. InSockets' = InSockets /\ \A q \in Readers : Given(q)' = Given(q)
    BY <2>1 DEF InSockets, Given
  <2> QED
    BY <2>1, <2>2, <2>3 DEF RelayInv
<1> QED
  BY <1>1, <1>3, <1>4, <1>5, ReplayKept, ReaderKept DEF RelayNext

\* Every line of a monitor is printed, on its way, queued, or accounted for, and each reader gets
\* its lines in order, across readers that come, go and are replayed the queue (relay.emit, accept).
THEOREM LinesAlwaysReach == ScopeSpec => []LinesReachReader
<1>1. RelayInit => RelayInv
  <2> SUFFICES ASSUME RelayInit PROVE RelayInv
    OBVIOUS
  <2>1. <<>> \in Seq(Nat) /\ Len(<<>>) <= BufferLines /\ <<>> \o <<>> = <<>> /\ Ordered(<<>>) /\ UpTo(<<>>, 0) /\ ToSet(<<>>) = {}
    BY RelayBounds DEF Ordered, UpTo, ToSet
  <2>2. RelayTypes /\ clients = {r \in Readers : reader[r] = "in"} /\ 1..sent = {}
    BY <2>1 DEF RelayInit, RelayTypes
  <2>3. \A r \in Readers : Given(r) = <<>> /\ buf[r] = <<>>
    BY <2>1 DEF RelayInit, Given
  <2> QED
    BY <2>1, <2>2, <2>3 DEF RelayInit, RelayInv
<1>2. RelayInv /\ [ScopeNext]_scopeVars => RelayInv'
  <2>1. RelayInv /\ UNCHANGED relayVars => RelayInv'
    <3> SUFFICES ASSUME RelayInv, UNCHANGED relayVars PROVE RelayInv'
      OBVIOUS
    <3>1. InSockets' = InSockets /\ \A q \in Readers : Given(q)' = Given(q)
      BY DEF InSockets, Given, relayVars
    <3> QED
      BY <3>1 DEF RelayInv, RelayTypes, relayVars
  <2> QED
    BY <2>1, RelayKept DEF ScopeNext, scopeVars
<1>3. RelayInv => LinesReachReader
  <2> SUFFICES ASSUME RelayInv PROVE LinesReachReader
    OBVIOUS
  <2>1. \A r \in Readers : LET s == got[r] \o buf[r] IN \A i \in 1..Len(s) - 1 : s[i] < s[i + 1]
    <3> SUFFICES ASSUME NEW r \in Readers PROVE \A i \in 1..Len(Given(r)) - 1 : Given(r)[i] < Given(r)[i + 1]
      BY DEF Given
    <3>1. got[r] \in Seq(Nat) /\ buf[r] \in Seq(Nat)
      BY DEF RelayInv, RelayTypes
    <3>2. Given(r) \in Seq(Nat)
      BY <3>1, MovedAcross DEF Given
    <3>3. Ordered(Given(r))
      BY DEF RelayInv
    <3> QED
      BY <3>2, <3>3 DEF Ordered
  <2>2. queue \in Seq(Nat) /\ Ordered(queue)
    BY DEF RelayInv, RelayTypes
  <2>3. \A i \in 1..Len(queue) - 1 : queue[i] < queue[i + 1]
    BY <2>2 DEF Ordered
  <2> QED
    BY <2>1, <2>3 DEF RelayInv, LinesReachReader
<1> QED
  BY <1>1, <1>2, <1>3, PTL DEF ScopeSpec, ScopeInit

-----------------------------------------------------------------------------
(* The calls to the endpoints.                                             *)

Admission == {"read", "lookup", "dial", "forward", "open", "rejected"}
CallRecords ==
    [at : Admission \cup {"idle"}, kind : Kinds \cup {Nothing}, peer : {"unit", "frontend", "other", Nothing},
     ask : Sites \cup {"not CONNECT"} \cup Shapes \cup {Nothing}, addrs : SUBSET Addresses,
     to : Addresses \cup {"its target", "every route", "tool routes", Nothing},
     auth : Bearers \cup {Unusable, Nothing}, since : SUBSET (Bearers \cup {Unusable})]

\* What is known of a call that its endpoint admitted, at each stage.
Bounded(k, tok, note) ==
    k.at # "idle" =>
       /\ k.peer = "unit" \/ (k.kind = "serve" /\ k.peer = "frontend")
       /\ k.at \in {"lookup", "dial"} => k.kind = "egress"
       /\ k.at \in {"forward", "rejected"} => k.kind = "model"
       /\ k.kind = "egress" /\ k.at # "read" => k.ask \in Allowed
       /\ k.at = "dial" => k.addrs \cap LoopbackAddresses = {}
       /\ k.kind = "egress" /\ k.at = "open" => k.to \notin LoopbackAddresses
       /\ k.kind = "model" /\ k.at = "read" => tok \in k.since
       /\ k.kind = "model" /\ k.at # "read" =>
             IF k.ask = "hello" THEN k.auth = Nothing ELSE k.auth \in k.since \ {Unusable}
       /\ k.to = "every route" => k.peer = "frontend" /\ k.at = "open"
       /\ k.at = "rejected" => note

CallsInv ==
    /\ token \in Bearers \cup {Unusable} /\ told \in BOOLEAN
    /\ call \in [Calls -> CallRecords]
    /\ \A c \in Calls : Bounded(call[c], token, told)

\* A step that makes a call a record that is as bounded keeps the invariant.
LEMMA CallChanged ==
    ASSUME CallsInv, NEW c \in Calls, NEW new \in CallRecords, call' = [call EXCEPT ![c] = new],
           token' = token, told' \in BOOLEAN, told => told', Bounded(new, token', told')
    PROVE  CallsInv'
<1>1. call' \in [Calls -> CallRecords] /\ call'[c] = new /\ \A d \in Calls \ {c} : call'[d] = call[d]
  BY DEF CallsInv
<1>2. \A d \in Calls : Bounded(call[d], token, told)
  BY DEF CallsInv
<1>3. \A d \in Calls : Bounded(call'[d], token', told')
  BY <1>1, <1>2, ZenonT(40) DEF Bounded
<1> QED
  BY <1>1, <1>3 DEF CallsInv

\* A call's own step.
LEMMA CallKept ==
    ASSUME CallsInv, NEW c \in Calls, CallStep(c)
    PROVE  CallsInv'
<1> DEFINE k == call[c]
<1>1. k \in CallRecords /\ Bounded(k, token, told) /\ told \in BOOLEAN /\ token \in Bearers \cup {Unusable}
  BY DEF CallsInv
<1>2. Idle \in CallRecords /\ Idle.at = "idle"
  BY DEF Idle, CallRecords, Nothing
<1>3. ASSUME Refuse(c), UNCHANGED <<token, told>> PROVE CallsInv'
  <2>1. Bounded(Idle, token', told')
    BY <1>2 DEF Bounded
  <2> QED
    BY <1>1, <1>2, <1>3, <2>1, CallChanged DEF Refuse
<1>4. CASE Arrive(c)
  <2>1. PICK kind \in Kinds, peer \in {"unit", "frontend", "other"} : \E ask \in Asks(kind) :
          IF Admitted(kind, peer)
          THEN call' = [call EXCEPT ![c] = [Idle EXCEPT !.at = "read", !.kind = kind, !.peer = peer, !.ask = ask,
                                                        !.since = IF kind = "model" THEN {token} ELSE {}]]
          ELSE Refuse(c)
    BY <1>4 DEF Arrive
  <2>2. PICK ask \in Asks(kind) :
          IF Admitted(kind, peer)
          THEN call' = [call EXCEPT ![c] = [Idle EXCEPT !.at = "read", !.kind = kind, !.peer = peer, !.ask = ask,
                                                        !.since = IF kind = "model" THEN {token} ELSE {}]]
          ELSE Refuse(c)
    BY <2>1
  <2>3. UNCHANGED <<token, told>>
    BY <1>4 DEF Arrive
  <2> DEFINE new == [at |-> "read", kind |-> kind, peer |-> peer, ask |-> ask, addrs |-> {}, to |-> Nothing,
                     auth |-> Nothing, since |-> IF kind = "model" THEN {token} ELSE {}]
  <2>4. CASE Admitted(kind, peer)
    <3>1. call' = [call EXCEPT ![c] = new]
      BY <2>2, <2>4 DEF Idle
    <3>2. new \in CallRecords
      BY <1>1, <2>2 DEF CallRecords, Asks, Admission, Kinds, Nothing
    <3>3. Bounded(new, token', told')
      BY <1>1, <2>3, <2>4 DEF Bounded, Admitted, authorizeServePeer, authorizeUnitPeer, Nothing
    <3> QED
      BY <1>1, <2>3, <3>1, <3>2, <3>3, CallChanged
  <2>5. CASE ~Admitted(kind, peer)
    BY <1>3, <2>2, <2>3, <2>5
  <2> QED
    BY <2>4, <2>5
<1>5. ASSUME NEW new \in CallRecords, call' = [call EXCEPT ![c] = new], UNCHANGED <<token, told>>, Bounded(new, token, told)
      PROVE  CallsInv'
  <2>1. Bounded(new, token', told')
    BY <1>5 DEF Bounded
  <2> QED
    BY <1>1, <1>5, <2>1, CallChanged
<1>6. CASE CheckTarget(c)
  <2>1. k.at = "read" /\ k.kind = "egress" /\ UNCHANGED <<token, told>>
        /\ (Refuse(c) \/ (k.ask \in Allowed /\ call' = [call EXCEPT ![c].at = "lookup"]))
    BY <1>6 DEF CheckTarget, Allows
  <2>2. ASSUME k.ask \in Allowed, call' = [call EXCEPT ![c].at = "lookup"] PROVE CallsInv'
    <3>1. call' = [call EXCEPT ![c] = [k EXCEPT !.at = "lookup"]]
      BY <2>2
    <3>2. [k EXCEPT !.at = "lookup"] \in CallRecords
      BY <1>1 DEF CallRecords, Admission
    <3>3. Bounded([k EXCEPT !.at = "lookup"], token, told)
      BY <1>1, <2>1, <2>2 DEF Bounded, CallRecords
    <3> QED
      BY <1>5, <2>1, <3>1, <3>2, <3>3
  <2> QED
    BY <1>3, <2>1, <2>2
<1>7. CASE resolveNonLoopback(c)
  <2>1. PICK answer \in SUBSET Addresses :
           IF answer = {} \/ answer \cap LoopbackAddresses # {} THEN Refuse(c)
           ELSE call' = [call EXCEPT ![c].at = "dial", ![c].addrs = answer]
    BY <1>7 DEF resolveNonLoopback
  <2>2. k.at = "lookup" /\ UNCHANGED <<token, told>>
    BY <1>7 DEF resolveNonLoopback
  <2>3. ASSUME answer \cap LoopbackAddresses = {}, call' = [call EXCEPT ![c].at = "dial", ![c].addrs = answer] PROVE CallsInv'
    <3>1. call' = [call EXCEPT ![c] = [k EXCEPT !.at = "dial", !.addrs = answer]]
      BY <2>3
    <3>2. [k EXCEPT !.at = "dial", !.addrs = answer] \in CallRecords
      BY <1>1 DEF CallRecords, Admission
    <3>3. Bounded([k EXCEPT !.at = "dial", !.addrs = answer], token, told)
      BY <1>1, <2>2, <2>3 DEF Bounded, CallRecords
    <3> QED
      BY <1>5, <2>2, <3>1, <3>2, <3>3
  <2> QED
    BY <1>3, <2>1, <2>2, <2>3
<1>8. CASE Dial(c)
  <2>1. k.at = "dial" /\ UNCHANGED <<token, told>>
        /\ (Refuse(c) \/ \E a \in k.addrs : call' = [call EXCEPT ![c].at = "open", ![c].to = a])
    BY <1>8 DEF Dial, Candidates
  <2>2. ASSUME NEW a \in k.addrs, call' = [call EXCEPT ![c].at = "open", ![c].to = a] PROVE CallsInv'
    <3>0. a \in Addresses /\ a \notin LoopbackAddresses /\ a # "every route"
      BY <1>1, <2>1, RoutesAssumption DEF CallRecords, Bounded
    <3>1. call' = [call EXCEPT ![c] = [k EXCEPT !.at = "open", !.to = a]]
      BY <2>2
    <3>2. [k EXCEPT !.at = "open", !.to = a] \in CallRecords
      BY <1>1, <3>0 DEF CallRecords, Admission
    <3>3. Bounded([k EXCEPT !.at = "open", !.to = a], token, told)
      BY <1>1, <2>1, <3>0 DEF Bounded, CallRecords
    <3> QED
      BY <1>5, <2>1, <3>1, <3>2, <3>3
  <2> QED
    BY <1>3, <2>1, <2>2
<1>9. CASE Inject(c)
  <2> DEFINE auth == IF k.ask = "hello" THEN Nothing ELSE token
  <2>1. /\ k.at = "read" /\ k.kind = "model" /\ UNCHANGED <<token, told>>
        /\ \/ Refuse(c)
           \/ (k.ask # "hello" => token # Unusable) /\ call' = [call EXCEPT ![c].at = "forward", ![c].auth = auth]
    BY <1>9 DEF Inject
  <2>2. ASSUME k.ask # "hello" => token # Unusable, call' = [call EXCEPT ![c].at = "forward", ![c].auth = auth] PROVE CallsInv'
    <3>1. call' = [call EXCEPT ![c] = [k EXCEPT !.at = "forward", !.auth = auth]]
      BY <2>2
    <3>2. [k EXCEPT !.at = "forward", !.auth = auth] \in CallRecords
      BY <1>1, ZenonT(40) DEF CallRecords, Admission
    <3>3. Bounded([k EXCEPT !.at = "forward", !.auth = auth], token, told)
      BY <1>1, <2>1, <2>2 DEF Bounded, CallRecords
    <3> QED
      BY <1>5, <2>1, <3>1, <3>2, <3>3
  <2> QED
    BY <1>3, <2>1, <2>2
<1>10. CASE Upstream(c)
  <2>1. /\ k.at = "forward" /\ token' = token
        /\ \/ Refuse(c) /\ told' = told
           \/ call' = [call EXCEPT ![c].at = "open"] /\ told' = told
           \/ call' = [call EXCEPT ![c].at = "rejected"] /\ told'
    BY <1>10 DEF Upstream
  <2>2. ASSUME call' = [call EXCEPT ![c].at = "open"], told' = told PROVE CallsInv'
    <3>1. call' = [call EXCEPT ![c] = [k EXCEPT !.at = "open"]]
      BY <2>2
    <3>2. [k EXCEPT !.at = "open"] \in CallRecords
      BY <1>1 DEF CallRecords, Admission
    <3>3. Bounded([k EXCEPT !.at = "open"], token, told)
      BY <1>1, <2>1 DEF Bounded, CallRecords
    <3> QED
      BY <1>5, <2>1, <2>2, <3>1, <3>2, <3>3
  <2>3. ASSUME call' = [call EXCEPT ![c].at = "rejected"], told' = TRUE PROVE CallsInv'
    <3>1. call' = [call EXCEPT ![c] = [k EXCEPT !.at = "rejected"]]
      BY <2>3
    <3>2. [k EXCEPT !.at = "rejected"] \in CallRecords
      BY <1>1 DEF CallRecords, Admission
    <3>3. Bounded([k EXCEPT !.at = "rejected"], token', told')
      BY <1>1, <2>1, <2>3 DEF Bounded, CallRecords
    <3> QED
      BY <1>1, <2>1, <2>3, <3>1, <3>2, <3>3, CallChanged
  <2> QED
    BY <1>3, <1>10, <2>1, <2>2, <2>3 DEF Upstream
<1>11. CASE Forward(c)
  <2>1. /\ k.at = "read" /\ k.kind \in {"forward", "statsd"} /\ UNCHANGED <<token, told>>
        /\ (Refuse(c) \/ call' = [call EXCEPT ![c].at = "open", ![c].to = "its target"])
    BY <1>11 DEF Forward
  <2>2. ASSUME call' = [call EXCEPT ![c].at = "open", ![c].to = "its target"] PROVE CallsInv'
    <3>1. call' = [call EXCEPT ![c] = [k EXCEPT !.at = "open", !.to = "its target"]]
      BY <2>2
    <3>2. [k EXCEPT !.at = "open", !.to = "its target"] \in CallRecords
      BY <1>1 DEF CallRecords, Admission
    <3>3. Bounded([k EXCEPT !.at = "open", !.to = "its target"], token, told)
      BY <1>1, <2>1 DEF Bounded, CallRecords
    <3> QED
      BY <1>5, <2>1, <3>1, <3>2, <3>3
  <2> QED
    BY <1>3, <2>1, <2>2
<1>12. CASE Served(c)
  <2> DEFINE to == IF k.peer = "frontend" THEN "every route" ELSE "tool routes"
  <2>1. k.at = "read" /\ k.kind = "serve" /\ UNCHANGED <<token, told>> /\ call' = [call EXCEPT ![c].at = "open", ![c].to = to]
    BY <1>12 DEF Served
  <2>2. call' = [call EXCEPT ![c] = [k EXCEPT !.at = "open", !.to = to]]
    BY <2>1
  <2>3. [k EXCEPT !.at = "open", !.to = to] \in CallRecords
    BY <1>1 DEF CallRecords, Admission
  <2>4. Bounded([k EXCEPT !.at = "open", !.to = to], token, told)
    BY <1>1, <2>1 DEF Bounded, CallRecords
  <2> QED
    BY <1>5, <2>1, <2>2, <2>3, <2>4
<1>13. CASE Ends(c)
  BY <1>3, <1>13 DEF Ends, Refuse
<1> QED
  BY <1>4, <1>6, <1>7, <1>8, <1>9, <1>10, <1>11, <1>12, <1>13 DEF CallStep

\* Calls, the token file and the parent.
LEMMA CallsKept == CallsInv /\ CallsNext => CallsInv'
<1> SUFFICES ASSUME CallsInv, CallsNext PROVE CallsInv'
  OBVIOUS
<1>1. CASE TokenChanges
  <2>1. /\ token' \in Bearers \cup {Unusable} /\ told' = told
        /\ call' = [c \in Calls |-> IF call[c].at = "read" /\ call[c].kind = "model"
                                    THEN [call[c] EXCEPT !.since = @ \cup {token'}] ELSE call[c]]
    BY <1>1 DEF TokenChanges
  <2>2. ASSUME NEW c \in Calls PROVE call'[c] \in CallRecords /\ Bounded(call'[c], token', told')
    <3>1. call[c] \in CallRecords /\ Bounded(call[c], token, told)
      BY DEF CallsInv
    <3>2. CASE call[c].at = "read" /\ call[c].kind = "model"
      <4>1. call'[c] = [call[c] EXCEPT !.since = call[c].since \cup {token'}]
        BY <2>1, <3>2
      <4>2. call'[c] \in CallRecords
        BY <2>1, <3>1, <4>1 DEF CallRecords
      <4>3. /\ call'[c].since = call[c].since \cup {token'} /\ call'[c].at = "read" /\ call'[c].kind = "model"
            /\ call'[c].to = call[c].to /\ call'[c].peer = call[c].peer
        BY <3>1, <3>2, <4>1 DEF CallRecords
      <4> QED
        BY <3>1, <3>2, <4>2, <4>3 DEF Bounded
    <3>3. CASE ~(call[c].at = "read" /\ call[c].kind = "model")
      BY <2>1, <3>1, <3>3 DEF Bounded
    <3> QED
      BY <3>2, <3>3
  <2> QED
    BY <2>1, <2>2 DEF CallsInv
<1>2. CASE ParentGoes
  BY <1>2 DEF ParentGoes, CallsInv, Bounded
<1> QED
  BY <1>1, <1>2, CallKept DEF CallsNext

\* A call reaches only what its endpoint is for, whatever the names, the token file and the
\* frontend do meanwhile (EgressProxy.handle, InjectProxy.serve, ServeConn).
THEOREM ReachStaysBounded == ScopeSpec => []ReachIsBounded
<1>1. CallsInit => CallsInv
  <2>1. Idle \in CallRecords /\ Idle.at = "idle"
    BY DEF Idle, CallRecords, Nothing
  <2> QED
    BY <2>1 DEF CallsInit, CallsInv, Bounded
<1>2. CallsInv /\ [ScopeNext]_scopeVars => CallsInv'
  <2>1. CallsInv /\ UNCHANGED callVars => CallsInv'
    BY DEF CallsInv, callVars
  <2> QED
    BY <2>1, CallsKept DEF ScopeNext, scopeVars
<1>3. CallsInv => ReachIsBounded
  <2> SUFFICES ASSUME CallsInv, NEW c \in Calls, Reached(c) PROVE
        /\ call[c].peer = "unit" \/ (call[c].kind = "serve" /\ call[c].peer = "frontend")
        /\ call[c].kind = "egress" => call[c].ask \in Allowed /\ call[c].to \notin LoopbackAddresses
        /\ call[c].kind = "model" =>
              IF call[c].ask = "hello" THEN call[c].auth = Nothing
              ELSE call[c].auth \in call[c].since \ {Unusable}
        /\ call[c].to = "every route" => call[c].peer = "frontend"
        /\ call[c].at = "rejected" => told
    BY DEF ReachIsBounded
  <2> QED
    BY DEF CallsInv, Bounded, Reached
<1> QED
  BY <1>1, <1>2, <1>3, PTL DEF ScopeSpec, ScopeInit

-----------------------------------------------------------------------------
(* The unit: the shim, the provider and systemd.                           *)

Codes  == 0..255
ShimLives == {"relays", "exec", "started", "init"}

UnitTypes ==
    /\ unit \in [state : {"none", "activating", "active", "failed", "collected"}, ran : BOOLEAN, killed : BOOLEAN, code : Codes]
    /\ shim \in {"none", "start", "exited"} \cup ShimLives
    /\ relay \in {"none", "serving", "ready", "dead"}
    /\ srv \in [Servers -> {"off", "starting", "up", "failed", "confirmed", "unconfirmed"}]
    /\ provider \in [state : {"none", "running", "zombie", "gone"}, code : Codes]
    /\ stop \in {"no", "term", "kill"}
    /\ conn \in {"none", "queued", "accepted", "held", "closed"}
    /\ launch \in Launches

Ended == unit.state \in {"failed", "collected"}

\* The shim lives as long as the unit, the provider within the shim's loop; nothing is started
\* before the connection and the relay's ready byte; and the unit's code is its provider's, unless
\* it was killed, the shim gave up, or the shim refused.
UnitSide ==
    /\ UnitTypes
    /\ shim = "exited" <=> unit.ran
    /\ Up <=> shim \in {"start"} \cup ShimLives
    /\ unit.state = "none" => shim = "none"
    /\ provider.state \in {"running", "zombie"} <=> shim \in {"started", "init"}
    /\ provider.state = "gone" => shim = "exited"
    /\ shim \in ShimLives => conn # "none"
    /\ shim \in {"exec", "started", "init"} => relay = "ready"
    /\ relay = "ready" => \A s \in launch.excluded : srv[s] \in {"confirmed", "failed", "off"}
    /\ unit.ran /\ ~unit.killed =>
          \/ Ran /\ (unit.code = provider.code \/ stop = "kill")
          \/ ~Ran /\ unit.code \in {ShimRefusal, NotFound}
    /\ Ended /\ ~unit.ran => unit.code = 1

\* What no step of the unit takes back.
Onward ==
    /\ launch' = launch
    /\ unit.ran => unit'.ran /\ UNCHANGED <<provider, stop>>
    /\ unit.state # "none" => unit'.state # "none"
    /\ Ended => Ended' /\ unit'.code = unit.code /\ unit'.killed = unit.killed /\ unit'.ran = unit.ran
    /\ Up => Up' \/ unit'.ran
    /\ Ran => Ran'

\* The end of a unit's shim, whatever brings it.
LEMMA UnitEnding ==
    ASSUME UnitSide, NEW code \in Codes, NEW killed \in BOOLEAN, EndUnit(code, killed),
           conn' = IF conn = "none" THEN "none" ELSE "closed", Up,
           killed \/ (Ran /\ (code = provider.code \/ stop = "kill")) \/ (~Ran /\ code \in {ShimRefusal, NotFound})
    PROVE  UnitSide' /\ Onward
<1>1. /\ unit' = [state |-> IF code = 0 THEN "collected" ELSE "failed", ran |-> TRUE, killed |-> killed, code |-> code]
      /\ shim' = "exited" /\ relay' \in {"none", "dead"} /\ srv' = [s \in Servers |-> "off"]
      /\ provider' = IF provider.state = "none" THEN provider ELSE [provider EXCEPT !.state = "gone"]
      /\ UNCHANGED <<stop, launch>>
  BY DEF EndUnit
<1>2. UnitTypes'
  BY <1>1 DEF UnitSide, UnitTypes, Codes
<1>3. provider'.code = provider.code /\ provider'.state \in {"none", "gone"} /\ Ran' = Ran
  BY <1>1 DEF UnitSide, UnitTypes, Ran
<1>4. /\ unit'.ran /\ Ended' /\ ~Up' /\ unit'.code = code /\ unit'.killed = killed
  BY <1>1 DEF Ended, Up
<1>5. ~unit.ran /\ ~Ended
  BY DEF UnitSide, Up, Ended, ShimLives
<1> QED
  BY <1>1, <1>2, <1>3, <1>4, <1>5 DEF UnitSide, Onward, ShimLives, Up, Ended

\* The steps of the shim, its children and the provider.
LEMMA ShimKept ==
    ASSUME UnitSide,
           \/ ShimSteps \/ Settle \/ Collect \/ KillUnit \/ UnitStarts
           \/ \E s \in Servers : ServerSettles(s) \/ ReadBack(s)
           \/ \E c \in ProviderCodes : ProviderExits(c)
    PROVE  UnitSide' /\ Onward
<1>0. UnitTypes
  BY DEF UnitSide
<1>c. ShimRefusal \in Codes /\ NotFound \in Codes /\ Killed \in Codes /\ provider.code \in Codes
  BY <1>0 DEF UnitTypes, Codes, ShimRefusal, NotFound, Killed
<1>1. ASSUME NEW code \in {ShimRefusal, NotFound}, ShimExits(code), shim \in {"start", "relays", "exec"}
      PROVE  UnitSide' /\ Onward
  <2>1. ~Ran /\ Up
    BY <1>0, <1>1 DEF UnitSide, UnitTypes, Ran, ShimLives
  <2> QED
    BY <1>c, <1>1, <2>1, UnitEnding DEF ShimExits
<1>2. CASE WatchFrontend
  <2>1. CASE shim' = "relays" /\ shim = "start" /\ UNCHANGED <<unit, provider, stop, launch>>
    <3>1. conn' = "queued" /\ relay' = "serving" /\ srv' = [s \in Servers |-> IF s \in launch.inUnit THEN "starting" ELSE "off"]
      BY <1>2, <2>1, <1>0 DEF WatchFrontend, Connects, ShimExits, EndUnit, UnitTypes
    <3>2. UnitTypes'
      BY <1>0, <2>1, <3>1 DEF UnitTypes, ShimLives
    <3> QED
      BY <2>1, <3>1, <3>2 DEF UnitSide, Onward, Up, Ended, Ran, ShimLives
  <2> QED
    BY <1>1, <1>2, <2>1 DEF WatchFrontend, Connects
<1>3. CASE RelayStarts
  <2>1. /\ relay = "serving" /\ relay' \in {"ready", "dead"} /\ UNCHANGED <<unit, shim, provider, stop, conn, launch>>
        /\ srv' \in [Servers -> {"off", "starting", "up", "failed", "confirmed", "unconfirmed"}]
        /\ relay' = "ready" => ExclusionsRefused = {} /\ Started /\ srv' = srv
    BY <1>0, <1>3 DEF RelayStarts, UnitTypes
  <2>2. ASSUME relay' = "ready", NEW s \in launch.excluded PROVE srv'[s] \in {"confirmed", "failed", "off"}
    <3>1. s \in Servers
      BY <1>0, LaunchesAssumption DEF UnitTypes
    <3>2. srv[s] # "starting" /\ srv[s] # "up" /\ srv[s] # "unconfirmed"
      BY <2>1, <2>2, <3>1 DEF Started, ExclusionsRefused, Unconfirmed
    <3> QED
      BY <1>0, <2>1, <2>2, <3>1, <3>2 DEF UnitTypes
  <2>3. UnitTypes' /\ shim \notin {"exec", "started", "init"}
    BY <1>0, <2>1 DEF UnitTypes, UnitSide
  <2> QED
    BY <2>1, <2>2, <2>3 DEF UnitSide, Onward, Up, Ended, Ran
<1>4. CASE RelaysUp
  <2>1. CASE relay = "dead" /\ ShimExits(ShimRefusal)
    BY <1>1, <1>4, <2>1 DEF RelaysUp
  <2>2. CASE relay = "ready" /\ shim = "relays" /\ shim' = "exec" /\ UNCHANGED <<unit, relay, srv, provider, stop, conn, open, launch>>
    BY <1>0, <2>2 DEF UnitTypes, UnitSide, Onward, Up, Ended, Ran, ShimLives
  <2> QED
    BY <1>4, <2>1, <2>2 DEF RelaysUp
<1>5. CASE StartProvider
  <2>1. CASE \E code \in {ShimRefusal, NotFound} : ShimExits(code)
    BY <1>1, <1>5, <2>1 DEF StartProvider
  <2>2. CASE /\ shim = "exec" /\ provider' = [provider EXCEPT !.state = "running"] /\ shim' = "started"
             /\ UNCHANGED <<unit, relay, srv, stop, conn, open, launch>>
    <3>1. provider' \in [state : {"none", "running", "zombie", "gone"}, code : Codes] /\ provider'.state = "running"
      BY <1>0, <2>2 DEF UnitTypes
    <3>2. UnitTypes'
      BY <1>0, <2>2, <3>1 DEF UnitTypes, ShimLives
    <3>3. ~unit.ran /\ ~Ran
      BY <1>0, <2>2 DEF UnitSide, Ran, ShimLives, UnitTypes
    <3> QED
      BY <2>2, <3>1, <3>2, <3>3 DEF UnitSide, Onward, Up, Ended, Ran, ShimLives
  <2> QED
    BY <1>5, <2>1, <2>2 DEF StartProvider
<1>6. CASE Rename
  BY <1>0, <1>6 DEF Rename, UnitTypes, UnitSide, Onward, Up, Ended, Ran, ShimLives
<1>7. CASE Reap
  <2>1. Ran /\ Up /\ ShimExits(provider.code)
    BY <1>7 DEF Reap, UnitSide, Ran, ShimLives
  <2> QED
    BY <1>c, <2>1, UnitEnding DEF ShimExits
<1>8. CASE FrontendGone \/ GraceOver
  <2>1. shim = "init" /\ stop' \in {"term", "kill"} /\ UNCHANGED <<unit, shim, relay, srv, provider, conn, launch>>
    BY <1>8 DEF FrontendGone, GraceOver
  <2>2. ~unit.ran /\ UnitTypes'
    BY <1>0, <2>1 DEF UnitSide, UnitTypes
  <2> QED
    BY <2>1, <2>2 DEF UnitSide, Onward, Up, Ended, Ran, ShimLives
<1>9. CASE GiveUp
  <2>1. Ran /\ Up /\ stop = "kill" /\ ShimExits(Killed)
    BY <1>9 DEF GiveUp, UnitSide, Ran, ShimLives
  <2> QED
    BY <1>c, <2>1, UnitEnding DEF ShimExits
<1>10. CASE KillUnit
  BY <1>c, <1>10, UnitEnding DEF KillUnit
<1>11. CASE Settle
  <2>1. unit.state = "activating" /\ unit' = [unit EXCEPT !.state = "active"] /\ UNCHANGED <<shim, relay, srv, provider, stop, conn, launch>>
    BY <1>11 DEF Settle
  <2>2. UnitTypes' /\ unit'.state = "active" /\ unit'.ran = unit.ran /\ unit'.killed = unit.killed /\ unit'.code = unit.code
    BY <1>0, <2>1 DEF UnitTypes
  <2> QED
    BY <2>1, <2>2 DEF UnitSide, Onward, Up, Ended, Ran
<1>12. CASE Collect
  <2>1. unit.state = "failed" /\ unit' = [unit EXCEPT !.state = "collected"] /\ UNCHANGED <<shim, relay, srv, provider, stop, conn, launch>>
    BY <1>12 DEF Collect
  <2>2. UnitTypes' /\ unit'.state = "collected" /\ unit'.ran = unit.ran /\ unit'.killed = unit.killed /\ unit'.code = unit.code
    BY <1>0, <2>1 DEF UnitTypes
  <2> QED
    BY <2>1, <2>2 DEF UnitSide, Onward, Up, Ended, Ran
<1>13. CASE UnitStarts
  <2>1. unit.state = "none" /\ UNCHANGED <<relay, srv, provider, stop, conn, launch>> /\ shim = "none" /\ ~unit.ran
    BY <1>13 DEF UnitStarts, UnitSide
  <2>2. CASE unit' = [unit EXCEPT !.state = "activating"] /\ shim' = "start"
    <3>1. UnitTypes' /\ unit'.state = "activating" /\ unit'.ran = unit.ran
      BY <1>0, <2>1, <2>2 DEF UnitTypes
    <3> QED
      BY <2>1, <2>2, <3>1 DEF UnitSide, Onward, Up, Ended, Ran, ShimLives
  <2>3. CASE unit' = [unit EXCEPT !.state = "failed", !.code = 1] /\ shim' = shim
    <3>1. UnitTypes' /\ unit'.state = "failed" /\ unit'.ran = unit.ran /\ unit'.code = 1
      <4>1. 1 \in Codes
        BY DEF Codes
      <4> QED
        BY <1>0, <2>1, <2>3, <4>1 DEF UnitTypes
    <3> QED
      BY <2>1, <2>3, <3>1 DEF UnitSide, Onward, Up, Ended, Ran, ShimLives
  <2> QED
    BY <1>13, <2>2, <2>3 DEF UnitStarts
<1>14. ASSUME NEW s \in Servers, ServerSettles(s) \/ ReadBack(s) PROVE UnitSide' /\ Onward
  <2>1. /\ relay = "serving" /\ UNCHANGED <<unit, shim, relay, provider, stop, conn, launch>>
        /\ \E r \in {"up", "failed", "confirmed", "unconfirmed"} : srv' = [srv EXCEPT ![s] = r]
    BY <1>14 DEF ServerSettles, ReadBack
  <2>2. UnitTypes'
    BY <1>0, <2>1 DEF UnitTypes
  <2> QED
    BY <2>1, <2>2 DEF UnitSide, Onward, Up, Ended, Ran
<1>15. ASSUME NEW c \in ProviderCodes, ProviderExits(c) PROVE UnitSide' /\ Onward
  <2>1. /\ provider.state = "running" /\ provider' = [state |-> "zombie", code |-> c] /\ c \in Codes
        /\ UNCHANGED <<unit, shim, relay, srv, stop, conn, launch>>
    BY <1>15, CodesAssumption DEF ProviderExits, Codes
  <2>2. UnitTypes' /\ ~unit.ran
    BY <1>0, <2>1 DEF UnitTypes, UnitSide
  <2> QED
    BY <2>1, <2>2 DEF UnitSide, Onward, Up, Ended, Ran
<1> QED
  BY <1>2, <1>3, <1>4, <1>5, <1>6, <1>7, <1>8, <1>9, <1>10, <1>11, <1>12, <1>13, <1>14, <1>15 DEF ShimSteps

-----------------------------------------------------------------------------
(* The unit: the frontend.                                                 *)

\* The endpoints of a unit.
Names == {"egress", "deadman", "model", "forward", "statsd", "ceiling", "monitor"}

FrontTypes ==
    /\ fe \in {"prepare", "endpoints", "wait", "outcome", "stop", "close", "returned", "killed"}
    /\ todo \in Seq(Names)
    /\ report \in [state : {"none", "polling", "done"}, err : {"none", "failed", "ended", "expired", "cancelled"}, seen : BOOLEAN]
    /\ ctx \in {"live", "expired", "cancelled"}
    /\ client \in [state : {"none", "running", "done"}, code : Codes]
    /\ file \in [exit : Codes \cup {NoCode}, error : BOOLEAN, started : BOOLEAN]

\* The stages of a launch; a unit exists for a client only, and a client for a launch whose spec was
\* honoured and whose ceiling holds.
Stages ==
    /\ fe \in {"prepare", "endpoints"} => report.state = "none" /\ client.state = "none"
    /\ fe = "endpoints" => Loaded /\ (CeilingHolds(launch) \/ \E i \in 1..Len(todo) : todo[i] = "ceiling")
    /\ client.state # "none" => Loaded /\ CeilingHolds(launch)
    /\ unit.state # "none" => client.state # "none"
    /\ report.state = "polling" => fe \in {"wait", "outcome", "killed"}
    /\ fe = "outcome" => client.state = "done"

\* What the client's code is: an interruption, the code of a unit that ended, or the refusal of one
\* that will never be.
ClientCode ==
    client.state = "done" =>
       \/ client.code = Interrupted
       \/ Ended /\ client.code = unit.code
       \/ unit.state = "none" /\ client.code = 1

\* What the report goroutine saw did happen.
Witnessed ==
    /\ report.state = "none" => report.err = "none" /\ ~report.seen
    /\ report.state = "polling" => report.err = "none"
    /\ report.seen => Up \/ unit.ran
    /\ report.err = "ended" => unit.ran
    /\ report.state = "done" /\ report.err = "none" => Ran

\* What the result says: each of its errors and starts, and the last word of a launch that returned.
Outcomes ==
    /\ file.started => Ran
    /\ report.state = "done" /\ report.err = "none" => ~file.error
    /\ report.state = "done" /\ report.err = "expired" => file.error
    /\ fe \in {"stop", "close", "returned"} /\ Loaded /\ ~file.error =>
         /\ client.state = "done" /\ file.exit = client.code
         /\ client.code = Interrupted \/ (Ended /\ client.code = unit.code /\ unit.ran /\ (unit.killed \/ Ran))

FrontSide == FrontTypes /\ Stages /\ ClientCode /\ Witnessed /\ Outcomes

UnitInv == UnitSide /\ FrontSide

\* A step of the unit leaves what the frontend knows true.
LEMMA FrontStands ==
    ASSUME UnitInv, UnitTypes', Onward,
           UNCHANGED <<cred, todo, report, ctx, client, file>>,
           fe' = fe \/ (fe = "stop" /\ fe' = "close"),
           unit.state = "none" /\ unit'.state # "none" => client.state = "running"
    PROVE  FrontSide'
<1>1. FrontTypes'
  BY DEF UnitInv, FrontSide, FrontTypes
<1>2. Loaded' = Loaded /\ CeilingHolds(launch)' = CeilingHolds(launch)
  BY DEF Onward, Loaded
<1>3. Stages'
  BY <1>2 DEF UnitInv, FrontSide, Stages, Onward
<1>4. ClientCode'
  BY DEF UnitInv, FrontSide, ClientCode, Onward
<1>5. Witnessed'
  BY DEF UnitInv, FrontSide, Witnessed, Onward
<1>6. Outcomes'
  <2>1. fe' \in {"stop", "close", "returned"} => fe \in {"stop", "close", "returned"}
    OBVIOUS
  <2>2. Ended => Ended' /\ unit'.code = unit.code /\ unit'.killed = unit.killed /\ unit'.ran = unit.ran
    BY DEF Onward
  <2> QED
    BY <1>2, <2>1, <2>2 DEF UnitInv, FrontSide, Outcomes, Onward
<1> QED
  BY <1>1, <1>3, <1>4, <1>5, <1>6 DEF FrontSide

\* A step of the frontend or its dead-man leaves the unit as it is, but for its connection.
LEMMA UnitStands ==
    ASSUME UnitSide, Inert, conn' \in {"none", "queued", "accepted", "held", "closed"}, conn # "none" => conn' # "none"
    PROVE  UnitSide' /\ Onward
<1>1. UNCHANGED <<unit, shim, relay, srv, provider, stop, launch>>
  BY DEF Inert, unitVars
<1>2. UnitTypes'
  BY <1>1 DEF UnitSide, UnitTypes
<1> QED
  BY <1>1, <1>2 DEF UnitSide, Onward, Up, Ended, Ran

\* Two sequences of endpoints put together: the parts stay where they are.
LEMMA Together ==
    ASSUME NEW s \in Seq(Names), NEW t \in Seq(Names), NEW e
    PROVE  /\ s \o t \in Seq(Names)
           /\ (\E i \in 1..Len(s) : s[i] = e) => \E i \in 1..Len(s \o t) : (s \o t)[i] = e
           /\ (\E i \in 1..Len(t) : t[i] = e) => \E i \in 1..Len(s \o t) : (s \o t)[i] = e
<1>1. s \o t \in Seq(Names) /\ Len(s \o t) = Len(s) + Len(t)
  OBVIOUS
<1>2. ASSUME NEW i \in 1..Len(s), s[i] = e
      PROVE  \E j \in 1..Len(s \o t) : (s \o t)[j] = e
  <2>1. i \in 1..Len(s \o t) /\ (s \o t)[i] = e
    BY <1>1, <1>2
  <2> QED
    BY <2>1
<1>3. ASSUME NEW i \in 1..Len(t), t[i] = e
      PROVE  \E j \in 1..Len(s \o t) : (s \o t)[j] = e
  <2>1. Len(s) + i \in 1..Len(s \o t) /\ (s \o t)[Len(s) + i] = e
    BY <1>1, <1>3
  <2> QED
    BY <2>1
<1> QED
  BY <1>1, <1>2, <1>3

\* The ceiling is among the endpoints of every unit, whatever its credential.
LEMMA CeilingIsServed ==
    ASSUME NEW l, NEW c
    PROVE  Endpoints(l, c) \in Seq(Names) /\ \E i \in 1..Len(Endpoints(l, c)) : Endpoints(l, c)[i] = "ceiling"
<1> DEFINE first == <<"egress", "deadman">>
<1> DEFINE middle == IF c = Proxy THEN <<"model">> ELSE <<>>
<1> DEFINE last == <<"forward", "statsd", "ceiling", "monitor">>
<1>1. first \in Seq(Names) /\ middle \in Seq(Names) /\ last \in Seq(Names)
  <2>1. first \in Seq(Names)
    BY DEF Names
  <2>2. middle \in Seq(Names)
    <3>1. <<"model">> \in Seq(Names) /\ <<>> \in Seq(Names)
      BY DEF Names
    <3> QED
      BY <3>1
  <2>3. last \in Seq(Names)
    BY DEF Names
  <2> QED
    BY <2>1, <2>2, <2>3
<1>2. \E i \in 1..Len(last) : last[i] = "ceiling"
  <2>1. 3 \in 1..Len(last) /\ last[3] = "ceiling"
    OBVIOUS
  <2> QED
    BY <2>1
<1>3. Endpoints(l, c) = (first \o middle) \o last
  BY DEF Endpoints
<1> HIDE DEF first, middle, last
<1>4. first \o middle \in Seq(Names)
  BY <1>1, Together
<1> QED
  BY <1>1, <1>2, <1>3, <1>4, Together, SMTT(30)

\* What is so until the client is started: nothing was reported, and nothing ran.
Quiet ==
    /\ report.state = "none" /\ report.err = "none" /\ ~report.seen
    /\ client.state = "none" /\ unit.state = "none" /\ ~Ran /\ ~file.started

\* The launch goes on towards its client, or gives up: with an error, or over a spec that names no
\* result file.
LEMMA QuietKept ==
    ASSUME UnitInv, FrontTypes', Quiet, UNCHANGED <<unit, provider, launch, client>>,
           \/ Fail /\ fe' \in {"close", "returned"} /\ report' = report
           \/ ~Loaded /\ fe' = "returned" /\ UNCHANGED <<file, report>>
           \/ /\ fe' = "endpoints" /\ Loaded /\ UNCHANGED <<file, report>>
              /\ CeilingHolds(launch) \/ \E i \in 1..Len(todo') : todo'[i] = "ceiling"
    PROVE  FrontSide'
<1>1. Ran' = Ran /\ Ended' = Ended /\ Loaded' = Loaded /\ CeilingHolds(launch)' = CeilingHolds(launch)
  BY DEF Ran, Ended, Loaded
<1>2. report' = report /\ ~file'.started /\ (Fail => file'.error)
  BY DEF Fail, Quiet
<1>3. Stages'
  BY <1>1, <1>2 DEF Stages, Quiet
<1>4. ClientCode' /\ Witnessed'
  BY <1>1, <1>2 DEF ClientCode, Witnessed, Quiet
<1>5. Outcomes'
  BY <1>1, <1>2 DEF Outcomes, Quiet
<1> QED
  BY <1>3, <1>4, <1>5 DEF FrontSide

\* The launch up to its client.
LEMMA PreparingKept ==
    ASSUME UnitInv, Prepare \/ OpenEndpoint \/ StartClient
    PROVE  UnitInv'
<1>0. UnitSide /\ FrontTypes /\ UnitTypes /\ Inert /\ ctx' = ctx
  BY DEF UnitInv, FrontSide, UnitSide, Prepare, OpenEndpoint, StartClient
<1>1. UNCHANGED <<unit, provider, launch>>
  BY <1>0 DEF Inert, unitVars
<1>2. conn' \in {"none", "queued", "accepted", "held", "closed"} /\ (conn # "none" => conn' # "none")
  BY <1>0 DEF Prepare, OpenEndpoint, StartClient, CloseAll, UnitTypes
<1>3. UnitSide'
  BY <1>0, <1>2, UnitStands
<1>4. Quiet /\ fe \in {"prepare", "endpoints"}
  <2>1. fe \in {"prepare", "endpoints"}
    BY DEF Prepare, OpenEndpoint, StartClient
  <2>2. report.state = "none" /\ client.state = "none" /\ unit.state = "none" /\ report.err = "none" /\ ~report.seen
    BY <2>1 DEF UnitInv, FrontSide, Stages, Witnessed
  <2>3. ~Ran
    BY <1>0, <2>2 DEF UnitSide, UnitTypes, Ran, ShimLives
  <2> QED
    BY <2>1, <2>2, <2>3 DEF Quiet, UnitInv, FrontSide, Outcomes
<1>5. Fail => file' \in [exit : Codes \cup {NoCode}, error : BOOLEAN, started : BOOLEAN]
  BY DEF Fail, NoCode
<1>6. CASE Prepare
  <2>1. UNCHANGED <<report, client>>
    BY <1>6 DEF Prepare
  <2>2. CASE fe' = "returned"
    <3>1. todo' = todo /\ (Fail \/ (~Loaded /\ file' = file))
      BY <1>6, <2>2 DEF Prepare, To, Loaded
    <3>2. FrontTypes'
      BY <1>0, <1>5, <2>1, <2>2, <3>1 DEF FrontTypes
    <3> QED
      BY <1>1, <1>3, <1>4, <2>1, <2>2, <3>1, <3>2, QuietKept DEF UnitInv
  <2>3. CASE fe' = "endpoints"
    <3>1. Loaded /\ file' = file /\ todo' = Endpoints(launch, cred')
      BY <1>6, <2>3 DEF Prepare, To, Loaded
    <3>2. todo' \in Seq(Names) /\ \E i \in 1..Len(todo') : todo'[i] = "ceiling"
      BY <3>1, CeilingIsServed
    <3>3. FrontTypes'
      BY <1>0, <2>1, <2>3, <3>1, <3>2 DEF FrontTypes
    <3> QED
      BY <1>1, <1>3, <1>4, <2>1, <2>3, <3>1, <3>2, <3>3, QuietKept DEF UnitInv
  <2> QED
    BY <1>6, <2>2, <2>3 DEF Prepare, To
<1>7. CASE OpenEndpoint
  <2>1. fe = "endpoints" /\ todo # <<>> /\ UNCHANGED <<report, client>>
    BY <1>7 DEF OpenEndpoint
  <2>2. CASE fe' = "returned"
    <3>1. todo' = todo /\ Fail
      BY <1>7, <2>1, <2>2 DEF OpenEndpoint, To
    <3>2. FrontTypes'
      BY <1>0, <1>5, <2>1, <2>2, <3>1 DEF FrontTypes
    <3> QED
      BY <1>1, <1>3, <1>4, <2>1, <2>2, <3>1, <3>2, QuietKept DEF UnitInv
  <2>3. CASE fe' # "returned"
    <3>1. fe' = "endpoints" /\ file' = file /\ todo' = Tail(todo) /\ (Head(todo) = "ceiling" => CeilingHolds(launch))
      BY <1>7, <2>1, <2>3 DEF OpenEndpoint, To, CanOpen
    <3>2. todo \in Seq(Names) /\ todo' \in Seq(Names)
      BY <1>0, <2>1, <3>1 DEF FrontTypes
    <3>3. Loaded /\ (CeilingHolds(launch) \/ \E i \in 1..Len(todo') : todo'[i] = "ceiling")
      <4>1. Loaded /\ (CeilingHolds(launch) \/ \E i \in 1..Len(todo) : todo[i] = "ceiling")
        BY <2>1 DEF UnitInv, FrontSide, Stages
      <4>2. ASSUME NEW i \in 1..Len(todo), todo[i] = "ceiling", ~CeilingHolds(launch)
            PROVE  \E j \in 1..Len(todo') : todo'[j] = "ceiling"
        <5>1. i # 1
          BY <2>1, <3>1, <3>2, <4>2
        <5>2. i - 1 \in 1..Len(todo') /\ todo'[i - 1] = "ceiling"
          BY <2>1, <3>1, <3>2, <4>2, <5>1
        <5> QED
          BY <5>2
      <4> QED
        BY <4>1, <4>2
    <3>4. FrontTypes'
      BY <1>0, <2>1, <3>1, <3>2 DEF FrontTypes
    <3> QED
      BY <1>1, <1>3, <1>4, <2>1, <3>1, <3>3, <3>4, QuietKept DEF UnitInv
  <2> QED
    BY <2>2, <2>3
<1>8. CASE StartClient
  <2>1. fe = "endpoints" /\ todo = <<>> /\ todo' = todo
    BY <1>8 DEF StartClient
  <2>2. CASE fe' = "close"
    <3>1. Fail /\ UNCHANGED <<client, report>>
      BY <1>8, <2>1, <2>2 DEF StartClient, To
    <3>2. FrontTypes'
      BY <1>0, <1>5, <2>1, <2>2, <3>1 DEF FrontTypes
    <3> QED
      BY <1>1, <1>3, <1>4, <2>1, <2>2, <3>1, <3>2, QuietKept DEF UnitInv
  <2>3. CASE fe' # "close"
    <3>1. /\ client' = [client EXCEPT !.state = "running"] /\ report' = [report EXCEPT !.state = "polling"]
          /\ fe' = "wait" /\ file' = file
      BY <1>8, <2>3 DEF StartClient, To
    <3>2. Loaded /\ CeilingHolds(launch)
      BY <2>1 DEF UnitInv, FrontSide, Stages
    <3>3. /\ FrontTypes' /\ client'.state = "running" /\ report'.state = "polling" /\ report'.err = "none" /\ ~report'.seen
      BY <1>0, <1>4, <2>1, <3>1 DEF FrontTypes, Quiet
    <3>4. Ran' = Ran /\ Loaded' /\ CeilingHolds(launch)'
      BY <1>1, <3>2 DEF Ran, Loaded
    <3>5. Stages' /\ ClientCode' /\ Witnessed'
      BY <1>1, <1>4, <3>1, <3>3, <3>4 DEF Stages, ClientCode, Witnessed, Quiet
    <3>6. Outcomes'
      BY <1>4, <3>1, <3>3, <3>4 DEF Outcomes, Quiet
    <3> QED
      BY <1>3, <3>3, <3>5, <3>6 DEF UnitInv, FrontSide
  <2> QED
    BY <2>2, <2>3
<1> QED
  BY <1>6, <1>7, <1>8

-----------------------------------------------------------------------------
(* The unit: its report, its client, and the end of Run.                   *)

\* What the goroutine and the launch write without a code is a result (Launch.fail).
LEMMA FailTyped ==
    /\ Fail => file' \in [exit : Codes \cup {NoCode}, error : BOOLEAN, started : BOOLEAN]
    /\ file' = [exit |-> NoCode, error |-> FALSE, started |-> TRUE] =>
         file' \in [exit : Codes \cup {NoCode}, error : BOOLEAN, started : BOOLEAN]
<1>1. [exit |-> NoCode, error |-> TRUE, started |-> FALSE] \in [exit : Codes \cup {NoCode}, error : BOOLEAN, started : BOOLEAN]
  OBVIOUS
<1>2. [exit |-> NoCode, error |-> FALSE, started |-> TRUE] \in [exit : Codes \cup {NoCode}, error : BOOLEAN, started : BOOLEAN]
  OBVIOUS
<1> QED
  BY <1>1, <1>2 DEF Fail

\* Every poll of the report goroutine, and its end, record what there is to see.
LEMMA ReportKept ==
    ASSUME UnitInv, Poll \/ StopPolling
    PROVE  UnitInv'
<1>0. UnitSide /\ FrontTypes /\ UnitTypes /\ Inert /\ UNCHANGED <<fe, todo, ctx, client, conn>>
  BY DEF UnitInv, FrontSide, UnitSide, Poll, StopPolling
<1>1. UnitSide' /\ UNCHANGED <<unit, shim, provider, launch>>
  BY <1>0, UnitStands DEF UnitTypes, Inert, unitVars
<1>2. Ran' = Ran /\ Ended' = Ended /\ Loaded' = Loaded /\ CeilingHolds(launch)' = CeilingHolds(launch) /\ Up' = Up
  BY <1>1 DEF Ran, Ended, Loaded, Up
<1>3. report.state = "polling" /\ report.err = "none" /\ fe \in {"wait", "outcome"}
  BY DEF Poll, StopPolling, UnitInv, FrontSide, Stages, Witnessed
<1>4. report' \in [state : {"polling", "done"}, err : {"none", "failed", "ended", "expired", "cancelled"}, seen : BOOLEAN]
  <2>1. report.seen \in BOOLEAN /\ ctx \in {"live", "expired", "cancelled"}
    BY <1>0 DEF FrontTypes
  <2>2. CASE report' = [report EXCEPT !.seen = TRUE]
    BY <1>0, <1>3, <2>2 DEF FrontTypes
  <2>3. CASE \E err \in {"none", "failed", "ended", "expired", "cancelled"}, seen \in BOOLEAN : Outcome(err, seen)
    BY <2>3 DEF Outcome
  <2>4. \/ report' = [report EXCEPT !.seen = TRUE]
        \/ \E err \in {"none", "failed", "ended", "expired", "cancelled"}, seen \in BOOLEAN : Outcome(err, seen)
    <3>1. CASE Poll
      BY <2>1, <3>1 DEF Poll
    <3>2. CASE StopPolling
      BY <2>1, <3>2 DEF StopPolling
    <3> QED
      BY <3>1, <3>2
  <2> QED
    BY <2>2, <2>3, <2>4
<1>5. FrontTypes'
  <2>1. file' = file \/ Fail \/ file' = [exit |-> NoCode, error |-> FALSE, started |-> TRUE]
    BY DEF Poll, StopPolling
  <2>2. file' \in [exit : Codes \cup {NoCode}, error : BOOLEAN, started : BOOLEAN]
    BY <1>0, <2>1, FailTyped DEF FrontTypes
  <2>3. report' \in [state : {"none", "polling", "done"}, err : {"none", "failed", "ended", "expired", "cancelled"}, seen : BOOLEAN]
    BY <1>4
  <2> QED
    BY <1>0, <2>2, <2>3 DEF FrontTypes
<1>6. Stages' /\ ClientCode'
  BY <1>0, <1>1, <1>2, <1>3, <1>4 DEF Stages, ClientCode, UnitInv, FrontSide
<1>7. Witnessed' /\ (report'.state = "done" /\ report'.err = "none" => Ran /\ ~file'.error)
      /\ (file'.started => Ran) /\ (report'.state = "done" /\ report'.err = "expired" => file'.error)
  <2>1. file.started => Ran
    BY DEF UnitInv, FrontSide, Outcomes
  <2>2. report.seen => Up \/ unit.ran
    BY DEF UnitInv, FrontSide, Witnessed
  <2>3. CASE Poll
    <3>1. CASE unit.state = "active" /\ shim = "init" /\ Outcome("none", TRUE) /\ file' = [exit |-> NoCode, error |-> FALSE, started |-> TRUE]
      <4>1. Ran /\ Up
        BY <1>0, <3>1 DEF UnitSide, Ran, ShimLives
      <4> QED
        BY <1>1, <1>2, <3>1, <4>1 DEF Outcome, Witnessed
    <3>2. CASE unit.state = "active" /\ report' = [report EXCEPT !.seen = TRUE] /\ file' = file
      <4>1. report'.state = "polling" /\ report'.err = "none" /\ Up
        BY <1>0, <1>3, <3>2 DEF FrontTypes, Up
      <4> QED
        BY <1>2, <2>1, <3>2, <4>1 DEF Witnessed
    <3>3. CASE Outcome("failed", report.seen) /\ Fail
      BY <1>1, <1>2, <2>2, <3>3 DEF Outcome, Fail, Witnessed
    <3>4. CASE unit.ran /\ Outcome("ended", report.seen) /\ file' = file
      BY <1>1, <1>2, <2>1, <2>2, <3>4 DEF Outcome, Witnessed
    <3> QED
      BY <2>3, <3>1, <3>2, <3>3, <3>4 DEF Poll
  <2>4. CASE StopPolling
    <3>1. report' = [state |-> "done", err |-> ctx, seen |-> report.seen] /\ ctx \in {"expired", "cancelled"}
      BY <1>0, <2>4 DEF StopPolling, Outcome, FrontTypes
    <3>2. (ctx = "expired" /\ Fail) \/ (ctx # "expired" /\ file' = file)
      BY <2>4 DEF StopPolling
    <3> QED
      BY <1>1, <1>2, <2>1, <2>2, <3>1, <3>2 DEF Fail, Witnessed
  <2> QED
    BY <2>3, <2>4
<1>8. Outcomes'
  BY <1>0, <1>2, <1>3, <1>7 DEF Outcomes
<1> QED
  BY <1>1, <1>5, <1>6, <1>7, <1>8 DEF UnitInv, FrontSide

\* The client ends with what its unit ended with, is refused before there is one, or is interrupted.
LEMMA ClientKept ==
    ASSUME UnitInv, ClientExits
    PROVE  UnitInv'
<1>0. UnitSide /\ FrontTypes /\ UnitTypes /\ Inert /\ UNCHANGED <<fe, todo, report, ctx, file, conn>>
  BY DEF UnitInv, FrontSide, UnitSide, ClientExits
<1>1. UnitSide' /\ UNCHANGED <<unit, shim, provider, launch>>
  BY <1>0, UnitStands DEF UnitTypes, Inert, unitVars
<1>2. Ran' = Ran /\ Ended' = Ended /\ Loaded' = Loaded /\ CeilingHolds(launch)' = CeilingHolds(launch) /\ Up' = Up
  BY <1>1 DEF Ran, Ended, Loaded, Up
<1>3. client.state = "running" /\ client'.state = "done"
      /\ \/ Ended /\ client'.code = unit.code
         \/ unit.state = "none" /\ client'.code = 1
         \/ client'.code = Interrupted
  BY DEF ClientExits, Ended
<1>4. FrontTypes'
  <2>1. client' \in [state : {"none", "running", "done"}, code : Codes]
    <3>1. unit.code \in Codes /\ 1 \in Codes /\ Interrupted \in Codes
      BY <1>0 DEF UnitTypes, Codes, Interrupted
    <3> QED
      BY <3>1 DEF ClientExits
  <2> QED
    BY <1>0, <2>1 DEF FrontTypes
<1>5. Stages' /\ ClientCode' /\ Witnessed'
  BY <1>0, <1>1, <1>2, <1>3 DEF UnitInv, FrontSide, Stages, ClientCode, Witnessed
<1>6. Outcomes'
  BY <1>0, <1>2, <1>3 DEF UnitInv, FrontSide, Outcomes
<1> QED
  BY <1>1, <1>4, <1>5, <1>6 DEF UnitInv, FrontSide

\* The steps of the frontend and the dead-man that decide nothing of the result.
LEMMA RestKept ==
    ASSUME UnitInv, Expire \/ Wait \/ StopEndpoints \/ Accept \/ Store \/ FrontendDies
    PROVE  UnitInv'
<1>0. UnitSide /\ FrontTypes /\ UnitTypes /\ Inert /\ UNCHANGED <<todo, report, client, file>>
  BY DEF UnitInv, FrontSide, UnitSide, Expire, Wait, StopEndpoints, Accept, Store, FrontendDies, feVars
<1>1. conn' \in {"none", "queued", "accepted", "held", "closed"} /\ (conn # "none" => conn' # "none")
  BY <1>0 DEF Expire, Wait, StopEndpoints, Accept, Store, Stored, FrontendDies, CloseAll, UnitTypes
<1>2. UnitSide' /\ UNCHANGED <<unit, shim, provider, launch>>
  BY <1>0, <1>1, UnitStands DEF Inert, unitVars
<1>3. Ran' = Ran /\ Ended' = Ended /\ Loaded' = Loaded /\ CeilingHolds(launch)' = CeilingHolds(launch) /\ Up' = Up
  BY <1>2 DEF Ran, Ended, Loaded, Up
<1>4. ctx' \in {"live", "expired", "cancelled"}
      /\ \/ fe' \in {fe, "killed"}
         \/ fe = "close" /\ fe' = "returned"
         \/ fe = "wait" /\ fe' = "outcome" /\ client.state = "done"
  BY <1>0 DEF Expire, Wait, StopEndpoints, Accept, Store, FrontendDies, To, feVars, FrontTypes
<1>5. FrontTypes'
  BY <1>0, <1>4 DEF FrontTypes
<1>6. Stages'
  BY <1>0, <1>2, <1>3, <1>4 DEF UnitInv, FrontSide, Stages
<1>7. ClientCode' /\ Witnessed' /\ Outcomes'
  BY <1>0, <1>2, <1>3, <1>4 DEF UnitInv, FrontSide, ClientCode, Witnessed, Outcomes
<1> QED
  BY <1>2, <1>5, <1>6, <1>7 DEF UnitInv, FrontSide

\* Settled: without an error the client was interrupted, or its code is that of a unit that ran to
\* its end, killed or with its provider. What never ran was never seen, and what the shim refused
\* the shim's code tells.
LEMMA SettledKept ==
    ASSUME UnitInv, Settled
    PROVE  UnitInv'
<1>0. UnitSide /\ FrontTypes /\ UnitTypes /\ Inert /\ UNCHANGED <<todo, report, ctx, client, conn>>
  BY DEF UnitInv, FrontSide, UnitSide, Settled
<1>1. UnitSide' /\ UNCHANGED <<unit, shim, provider, launch>>
  BY <1>0, UnitStands DEF UnitTypes, Inert, unitVars
<1>2. Ran' = Ran /\ Ended' = Ended /\ Loaded' = Loaded /\ CeilingHolds(launch)' = CeilingHolds(launch) /\ Up' = Up
  BY <1>1 DEF Ran, Ended, Loaded, Up
<1>3. fe = "outcome" /\ fe' = "stop" /\ client.state = "done" /\ report.state = "done"
  BY DEF Settled, To, UnitInv, FrontSide, Stages
<1>4. /\ report.seen => Up \/ unit.ran
      /\ report.err = "ended" => unit.ran
      /\ report.err = "none" => Ran
  BY <1>3 DEF UnitInv, FrontSide, Witnessed
<1> DEFINE bad == report.err \in {"failed", "expired"} \/ (report.err # "none" /\ (RefusedByShim \/ NothingSeen))
<1>5. IF bad THEN Fail ELSE file' = [exit |-> client.code, error |-> FALSE, started |-> report.err = "none"]
  BY DEF Settled, Code
<1>6. ASSUME ~bad
      PROVE  client.code = Interrupted \/ (Ended /\ client.code = unit.code /\ unit.ran /\ (unit.killed \/ Ran))
  <2>1. \/ client.code = Interrupted
        \/ Ended /\ client.code = unit.code
        \/ unit.state = "none" /\ client.code = 1
    BY <1>3 DEF UnitInv, FrontSide, ClientCode
  <2>2. ASSUME ~Up, ~unit.ran, client.code = 1
        PROVE  FALSE
    <3>1. ~Ran
      BY <1>0, <2>2 DEF UnitSide, UnitTypes, ShimLives, Ran
    <3>2. report.err # "none" /\ NothingSeen
      BY <1>4, <2>2, <3>1 DEF NothingSeen, Code
    <3> QED
      BY <1>6, <3>2
  <2>3. CASE unit.state = "none" /\ client.code = 1
    BY <1>0, <2>2, <2>3 DEF UnitSide, Up, ShimLives
  <2>4. CASE Ended /\ client.code = unit.code
    <3>1. unit.ran
      BY <1>0, <2>2, <2>4 DEF UnitSide, Ended, Up
    <3>2. unit.killed \/ Ran
      <4>1. SUFFICES ASSUME ~unit.killed, ~Ran PROVE FALSE
        OBVIOUS
      <4>2. RefusedByShim
        BY <1>0, <2>4, <3>1, <4>1 DEF UnitSide, RefusedByShim, ShimRefused, Code
      <4> QED
        BY <1>4, <1>6, <4>1, <4>2
    <3> QED
      BY <2>4, <3>1, <3>2
  <2> QED
    BY <2>1, <2>3, <2>4
<1>7. FrontTypes'
  <2>1. file' \in [exit : Codes \cup {NoCode}, error : BOOLEAN, started : BOOLEAN]
    <3>1. client.code \in Codes /\ (report.err = "none") \in BOOLEAN
      BY <1>0 DEF FrontTypes
    <3>2. CASE bad
      BY <1>5, <3>2, FailTyped
    <3>3. CASE ~bad
      <4>1. file' = [exit |-> client.code, error |-> FALSE, started |-> report.err = "none"]
        BY <1>5, <3>3
      <4> QED
        BY <3>1, <4>1
    <3> QED
      BY <3>2, <3>3
  <2> QED
    BY <1>0, <1>3, <2>1 DEF FrontTypes
<1>8. Stages' /\ ClientCode' /\ Witnessed'
  BY <1>0, <1>1, <1>2, <1>3 DEF UnitInv, FrontSide, Stages, ClientCode, Witnessed
<1>9. Outcomes'
  <2>1. CASE bad
    <3>1. file'.error /\ ~file'.started /\ report.err # "none"
      BY <1>5, <2>1 DEF Fail
    <3> QED
      BY <1>0, <3>1 DEF Outcomes
  <2>2. CASE ~bad
    <3>1. ~file'.error /\ file'.exit = client.code /\ file'.started = (report.err = "none") /\ report.err # "expired"
      BY <1>5, <2>2
    <3> QED
      BY <1>0, <1>1, <1>2, <1>3, <1>4, <1>6, <2>2, <3>1 DEF Outcomes
  <2> QED
    BY <2>1, <2>2
<1> QED
  BY <1>1, <1>7, <1>8, <1>9 DEF UnitInv, FrontSide

\* The unit starts for its client, runs on its own, and may be stopped once the result is settled.
LEMMA UnitKept ==
    ASSUME UnitInv, StartUnit \/ StopIfActive \/ (UnitStep /\ UNCHANGED feVars)
    PROVE  UnitInv'
<1>0. UnitSide /\ UnitTypes
  BY DEF UnitInv, UnitSide
<1>1. UNCHANGED <<cred, todo, report, ctx, client, file>> /\ (fe' = fe \/ (fe = "stop" /\ fe' = "close"))
  BY DEF StartUnit, StopIfActive, feVars, To
<1>2. UnitSide' /\ Onward
  <2>1. CASE StopIfActive /\ ~KillUnit
    <3>1. Inert /\ conn' = conn
      BY <2>1 DEF StopIfActive, Inert
    <3> QED
      BY <1>0, <3>1, UnitStands DEF UnitTypes
  <2>2. CASE KillUnit \/ StartUnit \/ UnitStep
    BY <1>0, <2>2, ShimKept DEF StartUnit, UnitStep
  <2> QED
    BY <2>1, <2>2
<1>3. unit.state = "none" /\ unit'.state # "none" => client.state = "running"
  <2>1. CASE StartUnit
    BY <2>1 DEF StartUnit
  <2>2. CASE StopIfActive
    BY <2>2 DEF StopIfActive, unitVars, Up
  <2>3. CASE UnitStep
    <3> SUFFICES ASSUME unit.state = "none" PROVE unit' = unit
      OBVIOUS
    <3>1. shim = "none" /\ provider.state \notin {"running", "zombie"} /\ ~Up
      BY <1>0 DEF UnitSide, ShimLives, Up
    <3> QED
      BY <2>3, <3>1 DEF UnitStep, ShimSteps, WatchFrontend, Connects, RelayStarts, RelaysUp, StartProvider, Rename, Reap, FrontendGone,
                        GraceOver, GiveUp, Settle, Collect, KillUnit, ServerSettles, ReadBack, ProviderExits
  <2> QED
    BY <2>1, <2>2, <2>3
<1>4. UnitTypes'
  BY <1>2 DEF UnitSide
<1>5. FrontSide'
  BY <1>1, <1>2, <1>3, <1>4, FrontStands
<1> QED
  BY <1>2, <1>5 DEF UnitInv

\* A launch starts with nothing seen and nothing said.
LEMMA UnitInitially == Init => UnitInv
<1> SUFFICES ASSUME Init PROVE UnitInv
  OBVIOUS
<1>1. 0 \in Codes
  BY DEF Codes
<1>2. unit = [state |-> "none", ran |-> FALSE, killed |-> FALSE, code |-> 0] /\ provider = [state |-> "none", code |-> 0]
  BY DEF Init, UnitInit
<1>3. UnitSide
  <2>1. UnitTypes
    <3>1. srv \in [Servers -> {"off", "starting", "up", "failed", "confirmed", "unconfirmed"}]
      BY DEF Init, UnitInit
    <3>2. unit \in [state : {"none", "activating", "active", "failed", "collected"}, ran : BOOLEAN, killed : BOOLEAN, code : Codes]
      BY <1>1, <1>2
    <3>3. provider \in [state : {"none", "running", "zombie", "gone"}, code : Codes]
      BY <1>1, <1>2
    <3>4. shim = "none" /\ relay = "none" /\ stop = "no" /\ conn = "none" /\ launch \in Launches
      BY DEF Init, UnitInit
    <3> QED
      BY <3>1, <3>2, <3>3, <3>4 DEF UnitTypes, ShimLives
  <2>2. shim = "none" /\ relay = "none"
    BY DEF Init, UnitInit
  <2>3. unit.state = "none" /\ ~unit.ran /\ provider.state = "none"
    BY <1>2
  <2> QED
    BY <2>1, <2>2, <2>3 DEF UnitSide, ShimLives, Up, Ended
<1>4. FrontTypes
  <2>1. todo \in Seq(Names)
    <3>1. <<>> \in Seq(Names)
      OBVIOUS
    <3> QED
      BY <3>1 DEF Init
  <2> QED
    BY <1>1, <2>1 DEF Init, FrontTypes, NoFile
<1>5. Stages /\ ClientCode /\ Witnessed /\ Outcomes
  BY <1>2 DEF Init, Stages, ClientCode, Witnessed, Outcomes, NoFile
<1> QED
  BY <1>3, <1>4, <1>5 DEF UnitInv, FrontSide

\* No step of a launch, its client, its dead-man or its unit breaks the invariant.
LEMMA UnitInvKept == UnitInv /\ [ScopeNext]_scopeVars => UnitInv'
<1>1. UnitInv /\ Next => UnitInv'
  BY PreparingKept, ReportKept, ClientKept, RestKept, SettledKept, UnitKept DEF Next
<1>2. UnitInv /\ UNCHANGED vars => UnitInv'
  <2> SUFFICES ASSUME UnitInv, UNCHANGED vars PROVE UnitInv'
    OBVIOUS
  <2>1. Inert /\ conn' = conn /\ UNCHANGED <<fe, cred, todo, report, ctx, client, file, unit>>
    BY DEF vars, feVars, Inert, unitVars
  <2>2. UnitSide' /\ Onward
    BY <2>1, UnitStands DEF UnitInv, UnitSide, UnitTypes
  <2>3. UnitTypes'
    BY <2>2 DEF UnitSide
  <2>4. FrontSide'
    BY <2>1, <2>2, <2>3, FrontStands
  <2> QED
    BY <2>2, <2>4 DEF UnitInv
<1> QED
  BY <1>1, <1>2 DEF ScopeNext, scopeVars

\* A result file says what became of the launch: its code is the client's own, and without an error
\* the provider ran and the code is its own, unless the unit was killed or the client interrupted
\* (Launch.Run, waitActive, stopIfActive).
THEOREM ResultStaysTrue == ScopeSpec => []ResultIsTrue
<1>1. UnitInv => ResultIsTrue
  <2> SUFFICES ASSUME UnitInv PROVE ResultIsTrue
    OBVIOUS
  <2>1. /\ file.started => Ran
        /\ report.state = "done" /\ report.err = "none" => ~file.error
        /\ report.state = "done" /\ report.err = "expired" => file.error
    BY DEF UnitInv, FrontSide, Outcomes
  <2>2. ASSUME fe = "returned", Loaded, ~file.error
        PROVE  /\ file.exit = client.code /\ file.exit # NoCode
               /\ ~unit.killed /\ client.code # Interrupted => Ran /\ (file.exit = provider.code \/ stop = "kill")
    <3>1. /\ client.state = "done" /\ file.exit = client.code
          /\ client.code = Interrupted \/ (Ended /\ client.code = unit.code /\ unit.ran /\ (unit.killed \/ Ran))
      BY <2>2 DEF UnitInv, FrontSide, Outcomes
    <3>2. client.code \in 0..255
      BY DEF UnitInv, FrontSide, FrontTypes, Codes
    <3>3. ASSUME ~unit.killed, client.code # Interrupted
          PROVE  Ran /\ (unit.code = provider.code \/ stop = "kill")
      BY <3>1, <3>3 DEF UnitInv, UnitSide
    <3> QED
      BY <3>1, <3>2, <3>3 DEF NoCode
  <2> QED
    BY <2>1, <2>2 DEF ResultIsTrue
<1>2. ScopeInit => UnitInv
  BY UnitInitially DEF ScopeInit
<1> QED
  BY <1>1, <1>2, UnitInvKept, PTL DEF ScopeSpec

-----------------------------------------------------------------------------
(* What contains the unit.                                                 *)

\* The credential's settings are the proxy's placeholders, whatever the spec and the frontend's
\* environment hold (environment).
LEMMA CredentialStaysOut ==
    ASSUME NEW l, NEW shimPath, NEW k \in DOMAIN environment(l, Proxy, shimPath) \cap CredentialKeys
    PROVE  environment(l, Proxy, shimPath)[k] \in {Placeholder, ModelEndpoint, ""}
<1> DEFINE proxied == [ANTHROPIC_BASE_URL |-> ModelEndpoint, CLAUDE_CODE_OAUTH_TOKEN |-> Placeholder, ANTHROPIC_API_KEY |-> ""]
<1>1. PICK all : environment(l, Proxy, shimPath) = Override(proxied, Only(all, DOMAIN all \ CredentialKeys))
  BY DEF environment
<1>2. k \in DOMAIN proxied
  BY <1>1 DEF Override, Only
<1>3. environment(l, Proxy, shimPath)[k] = proxied[k]
  BY <1>1, <1>2 DEF Override
<1>4. /\ k \in {"ANTHROPIC_BASE_URL", "CLAUDE_CODE_OAUTH_TOKEN", "ANTHROPIC_API_KEY"}
      /\ proxied["ANTHROPIC_BASE_URL"] = ModelEndpoint /\ proxied["CLAUDE_CODE_OAUTH_TOKEN"] = Placeholder
      /\ proxied["ANTHROPIC_API_KEY"] = ""
  BY <1>2
<1> HIDE DEF proxied
<1> QED
  BY <1>3, <1>4

\* The keys that say what unit it is are the frontend's own (environment).
LEMMA UnitNamed ==
    ASSUME NEW l, NEW c, NEW shimPath
    PROVE  environment(l, c, shimPath)["CLOWN_UNIT"] = "unit" /\ environment(l, c, shimPath)["CLOWN_BIN"] = shimPath
<1> DEFINE fixed == [HOME |-> l.spec.worktree, CLOWN_UNIT |-> "unit", CLOWN_BIN |-> shimPath, HTTPS_PROXY |-> "relay"]
<1> DEFINE proxied == [ANTHROPIC_BASE_URL |-> ModelEndpoint, CLAUDE_CODE_OAUTH_TOKEN |-> Placeholder, ANTHROPIC_API_KEY |-> ""]
<1>1. PICK others : environment(l, c, shimPath) =
         IF c = Proxy THEN Override(proxied, Only(Override(fixed, others), DOMAIN Override(fixed, others) \ CredentialKeys))
         ELSE Override(fixed, others)
  BY DEF environment
<1>2. /\ {"CLOWN_UNIT", "CLOWN_BIN"} \subseteq DOMAIN Override(fixed, others)
      /\ Override(fixed, others)["CLOWN_UNIT"] = "unit" /\ Override(fixed, others)["CLOWN_BIN"] = shimPath
  BY DEF Override
<1> DEFINE kept == Only(Override(fixed, others), DOMAIN Override(fixed, others) \ CredentialKeys)
<1>3. /\ {"CLOWN_UNIT", "CLOWN_BIN"} \subseteq DOMAIN kept
      /\ kept["CLOWN_UNIT"] = "unit" /\ kept["CLOWN_BIN"] = shimPath
  BY <1>2, CredentialKeysAssumption DEF Only
<1> HIDE DEF kept
<1>4. /\ Override(proxied, kept)["CLOWN_UNIT"] = "unit" /\ Override(proxied, kept)["CLOWN_BIN"] = shimPath
  BY <1>3 DEF Override
<1> QED
  BY <1>1, <1>2, <1>4 DEF kept

\* Once a provider runs its exclusions are confirmed and its frontend watched; with the proxy the
\* unit holds no credential and no way around the proxy; it can write nothing of clown's own; and
\* every call it makes reaches what its endpoint is for (startRelays, chooseModelCredential,
\* Spec.Validate, prepareInUnitMoxy).
THEOREM UnitStaysContained == ScopeSpec => []UnitIsContained
<1>1. UnitInv => UnitContained
  <2> SUFFICES ASSUME UnitInv PROVE UnitContained
    OBVIOUS
  <2>1. Covered
    BY DEF UnitInv, UnitSide, Covered, ShimLives
  <2>2. ASSUME Ran PROVE Loaded /\ CeilingHolds(launch)
    <3>1. unit.state # "none"
      BY <2>2 DEF UnitInv, UnitSide, UnitTypes, Ran, ShimLives
    <3> QED
      BY <3>1 DEF UnitInv, FrontSide, Stages
  <2>3. CredentialOutside
    <3> SUFFICES ASSUME cred = Proxy
                 PROVE  /\ \A k \in DOMAIN environment(launch, cred, "shim") \cap CredentialKeys :
                              environment(launch, cred, "shim")[k] \in {Placeholder, ModelEndpoint, ""}
                        /\ ~LoginBound(launch, cred)
                        /\ launch.spec.egress = {None} =>
                              agentEgressAllowlistFor({None}, launch.front.base, TRUE) \cap ModelHosts = {}
      BY DEF CredentialOutside
    <3>1. agentEgressAllowlistFor({None}, launch.front.base, TRUE) \cap ModelHosts = {}
      BY DEF agentEgressAllowlistFor
    <3> QED
      BY <3>1, CredentialStaysOut DEF LoginBound
  <2>4. Confined
    <3> SUFFICES ASSUME Ran
                 PROVE  /\ \A p \in Writable(launch.spec) : ~Touches(ResolvePath(p), ResolvePath(ClownState))
                        /\ launch.moxy # "widens"
      BY UnitNamed DEF Confined
    <3>1. Validate(launch.spec) /\ CeilingHolds(launch)
      BY <2>2 DEF Loaded, loadLaunchSpec
    <3> QED
      BY <3>1 DEF Validate, Exposes, CeilingHolds, None
  <2> QED
    BY <2>1, <2>3, <2>4 DEF UnitContained
<1>2. ScopeInit => UnitInv
  BY UnitInitially DEF ScopeInit
<1> QED
  BY <1>1, <1>2, UnitInvKept, ReachStaysBounded, PTL DEF ScopeSpec, UnitIsContained

-----------------------------------------------------------------------------
(* The prompts of a session.                                               *)

Asked == 1 .. Len(asked)

PromptTypes ==
    /\ named \in {NoName} \cup Inodes
    /\ content \in [Inodes -> Seq(Prompts)]
    /\ DOMAIN hook = HookRuns
    /\ asked \in Seq(ToolCalls) /\ Len(asked) <= MaxPrompts
    /\ settled \in [Prompts -> 0 .. 1]
    /\ lost \subseteq Prompts
    /\ sweptUs \in BOOLEAN

Opened  == {"lock", "check", "apply", "write", "remove"}
Holding == {"check", "apply", "write", "remove"}
Using   == {"apply", "write", "remove"}

Hooks == [at : {"idle", "open", "send"} \cup Opened, kind : {"ask", "ran", "end"}, call : ToolCalls \cup {""},
          prompt : Nat, ino : {NoName} \cup Inodes, tries : Nat, st : Seq(Prompts), out : SUBSET Prompts]

Distinct(s) == \A i, j \in DOMAIN s : s[i] = s[j] => i = j

\* A run r has its file open from the open to the close; of the files c, it has emptied the one it is
\* about to write, and what it takes from the one it is about to remove is still there.  n were asked.
HookForm(r, c, n) ==
    /\ r \in Hooks
    /\ r.ino \in IF r.at \in Opened THEN Inodes ELSE {NoName}
    /\ Distinct(r.st)
    /\ r.kind = "ask" => r.prompt \in 1 .. n /\ r.out = {}
    /\ r.at # "write" => r.st = <<>>
    /\ r.at \notin {"write", "remove", "send"} => r.out = {}
    /\ r.at = "idle" => r.kind = "end"
    /\ r.at = "apply" /\ r.kind = "ask" => r.prompt \notin ToSet(c[r.ino])
    /\ r.at = "remove" => r.kind = "end" /\ r.out = ToSet(c[r.ino])
    /\ r.at = "write" => /\ c[r.ino] = <<>> /\ ToSet(r.st) \cap r.out = {}
                         /\ r.kind = "ask" => r.prompt \in ToSet(r.st)

Own(r) == IF r.kind = "ask" /\ r.at \notin {"idle", "send"} THEN {r.prompt} ELSE {}

\* The prompts a run answers for: its own, those it took, and those in the file it has locked and checked.
Has(r, c) == ToSet(r.st) \cup r.out \cup Own(r) \cup (IF r.at \in Using THEN ToSet(c[r.ino]) ELSE {})

\* Those in the named file when no run uses it.
RestOf(k, c, x) ==
    IF (\E h \in HookRuns : k[h].at \in Using /\ k[h].ino = x) \/ x = NoName THEN {} ELSE ToSet(c[x])
Rest == RestOf(hook, content, named)

Spent == WithOutcome \cup lost

\* No prompt is in two places.
Apart ==
    /\ \A h, g \in HookRuns : h # g => Has(hook[h], content) \cap Has(hook[g], content) = {}
    /\ \A h \in HookRuns : Has(hook[h], content) \cap (Rest \cup Spent) = {} /\ Has(hook[h], content) \subseteq Asked
    /\ Rest \cap Spent = {} /\ Rest \subseteq Asked
    /\ WithOutcome \cap lost = {} /\ Spent \subseteq Asked

\* Every prompt is in one.
Placed == \A p \in Asked : p \in Rest \cup Spent \/ \E h \in HookRuns : p \in Has(hook[h], content)

\* One run at a time has a file's lock, and the file it uses is the one named unless that was swept.
Exclusive ==
    /\ \A h, g \in HookRuns : h # g /\ hook[h].at \in Holding /\ hook[g].at \in Holding => hook[h].ino # hook[g].ino
    /\ ~sweptUs => \A h \in HookRuns : hook[h].at \in Using => hook[h].ino = named

\* No prompt is twice in a file that is named or used.
Unrepeated ==
    /\ named # NoName => Distinct(content[named])
    /\ \A h \in HookRuns : hook[h].at \in Using => Distinct(content[hook[h].ino])

PromptInv ==
    /\ PromptTypes
    /\ \A h \in HookRuns : HookForm(hook[h], content, Len(asked))
    /\ Exclusive /\ Unrepeated /\ Apart
    /\ ~sweptUs => Placed

\* What a run answers for, by where it stands.
LEMMA HasIs ==
    ASSUME NEW r, NEW c, NEW n, HookForm(r, c, n)
    PROVE  /\ r.at = "idle" => Has(r, c) = {}
           /\ r.at \in {"open", "lock", "check"} => Has(r, c) = Own(r)
           /\ r.at = "apply" => Has(r, c) = Own(r) \cup ToSet(c[r.ino])
           /\ r.at = "write" => Has(r, c) = ToSet(r.st) \cup r.out
           /\ r.at \in {"remove", "send"} => Has(r, c) = r.out
<1>1. ToSet(<<>>) = {}
  BY DEF ToSet
<1> QED
  BY <1>1 DEF HookForm, Has, Own, Using, Opened, Hooks

\* Prompts move between run h, the named file and those that are spent; a new one joins them.
LEMMA PromptsMove ==
    ASSUME PromptInv, NEW h \in HookRuns, Asked \subseteq Asked', UNCHANGED sweptUs,
           \A g \in HookRuns \ {h} : Has(hook'[g], content') = Has(hook[g], content),
           Has(hook'[h], content') \cup Rest' \cup Spent'
               \subseteq Has(hook[h], content) \cup Rest \cup Spent \cup (Asked' \ Asked),
           ~sweptUs => Has(hook[h], content) \cup Rest \cup Spent \cup (Asked' \ Asked)
                           \subseteq Has(hook'[h], content') \cup Rest' \cup Spent',
           Has(hook'[h], content') \cap (Rest' \cup Spent') = {},
           Rest' \cap Spent' = {}, (WithOutcome \cap lost)' = {}
    PROVE  Apart' /\ (~sweptUs' => Placed')
<1> DEFINE M(g) == Has(hook[g], content)
           N(g) == Has(hook'[g], content')
<1>1. /\ \A f, g \in HookRuns : f # g => M(f) \cap M(g) = {}
      /\ \A f \in HookRuns : M(f) \cap (Rest \cup Spent) = {} /\ M(f) \subseteq Asked
      /\ Rest \subseteq Asked /\ Spent \subseteq Asked
      /\ ~sweptUs => \A p \in Asked : p \in Rest \cup Spent \/ \E g \in HookRuns : p \in M(g)
  BY DEF PromptInv, Apart, Placed
<1>2. \A g \in HookRuns \ {h} : N(g) = M(g)
  OBVIOUS
<1>3. /\ N(h) \cup Rest' \cup Spent' \subseteq M(h) \cup Rest \cup Spent \cup (Asked' \ Asked)
      /\ ~sweptUs => M(h) \cup Rest \cup Spent \cup (Asked' \ Asked) \subseteq N(h) \cup Rest' \cup Spent'
      /\ N(h) \cap (Rest' \cup Spent') = {}
  OBVIOUS
<1>4. Apart' <=> /\ \A f, g \in HookRuns : f # g => N(f) \cap N(g) = {}
                 /\ \A f \in HookRuns : N(f) \cap (Rest' \cup Spent') = {} /\ N(f) \subseteq Asked'
                 /\ Rest' \cap Spent' = {} /\ Rest' \subseteq Asked'
                 /\ (WithOutcome \cap lost)' = {} /\ Spent' \subseteq Asked'
  BY DEF Apart
<1>5. Placed' <=> \A p \in Asked' : p \in Rest' \cup Spent' \/ \E g \in HookRuns : p \in N(g)
  BY DEF Placed
<1> HIDE DEF M, N
<1>6. \A f, g \in HookRuns : f # g => N(f) \cap N(g) = {}
  <2> SUFFICES ASSUME NEW f \in HookRuns, NEW g \in HookRuns, f # g, NEW p, p \in N(f), p \in N(g) PROVE FALSE
    OBVIOUS
  <2>1. CASE f # h /\ g # h
    BY <1>1, <1>2, <2>1
  <2>2. CASE f = h
    BY <1>1, <1>2, <1>3, <2>2
  <2>3. CASE g = h
    BY <1>1, <1>2, <1>3, <2>3
  <2> QED
    BY <2>1, <2>2, <2>3
<1>7. \A f \in HookRuns : N(f) \cap (Rest' \cup Spent') = {} /\ N(f) \subseteq Asked'
  <2> SUFFICES ASSUME NEW f \in HookRuns PROVE N(f) \cap (Rest' \cup Spent') = {} /\ N(f) \subseteq Asked'
    OBVIOUS
  <2>1. CASE f # h
    BY <1>1, <1>2, <1>3, <2>1
  <2>2. CASE f = h
    BY <1>1, <1>3, <2>2
  <2> QED
    BY <2>1, <2>2
<1>8. Rest' \subseteq Asked' /\ Spent' \subseteq Asked'
  BY <1>1, <1>3
<1>9. ~sweptUs => \A p \in Asked' : p \in Rest' \cup Spent' \/ \E g \in HookRuns : p \in N(g)
  BY <1>1, <1>2, <1>3
<1> QED
  BY <1>4, <1>5, <1>6, <1>7, <1>8, <1>9

LEMMA RestIs ==
    ASSUME NEW k, NEW c, NEW x, NEW h \in HookRuns
    PROVE  RestOf(k, c, x) =
             IF \/ k[h].at \in Using /\ k[h].ino = x
                \/ \E g \in HookRuns \ {h} : k[g].at \in Using /\ k[g].ino = x
                \/ x = NoName
             THEN {} ELSE ToSet(c[x])
BY DEF RestOf

\* A step of run h that becomes r: the other runs answer for what they did, and what h, the named file
\* and the spent prompts have is moved among them.
LEMMA RunSteps ==
    ASSUME PromptInv, NEW h \in HookRuns, NEW r, HookIs(h, r), PromptTypes', UNCHANGED sweptUs,
           HookForm(r, content', Len(asked')), Len(asked) <= Len(asked'),
           \A g \in HookRuns \ {h} : hook[g].at \in Using =>
               content'[hook[g].ino] = content[hook[g].ino] /\ (~sweptUs => named' = named),
           r.at \in Holding => \A g \in HookRuns \ {h} : hook[g].at \in Holding => hook[g].ino # r.ino,
           r.at \in Using => Distinct(content'[r.ino]) /\ (~sweptUs => r.ino = named'),
           named' # NoName => Distinct(content'[named']),
           Has(r, content') \cup Rest' \cup Spent'
               \subseteq Has(hook[h], content) \cup Rest \cup Spent \cup (Asked' \ Asked),
           ~sweptUs => Has(hook[h], content) \cup Rest \cup Spent \cup (Asked' \ Asked)
                           \subseteq Has(r, content') \cup Rest' \cup Spent',
           Has(r, content') \cap (Rest' \cup Spent') = {},
           Rest' \cap Spent' = {}, (WithOutcome \cap lost)' = {}
    PROVE  PromptInv'
<1>1. /\ PromptTypes /\ DOMAIN hook = HookRuns
      /\ \A g \in HookRuns : HookForm(hook[g], content, Len(asked))
      /\ Exclusive /\ Unrepeated
  BY DEF PromptInv, PromptTypes
<1>2. hook'[h] = r /\ \A g \in HookRuns \ {h} : hook'[g] = hook[g]
  BY <1>1 DEF HookIs
<1>3. ASSUME NEW g \in HookRuns \ {h}
      PROVE  Has(hook'[g], content') = Has(hook[g], content)
  BY <1>2 DEF Has
<1>4. \A g \in HookRuns : HookForm(hook'[g], content', Len(asked'))
  <2> SUFFICES ASSUME NEW g \in HookRuns PROVE HookForm(hook'[g], content', Len(asked'))
    OBVIOUS
  <2>1. CASE g = h
    BY <1>2, <2>1
  <2>2. CASE g # h
    <3>1. HookForm(hook[g], content, Len(asked)) /\ Len(asked) \in Nat /\ Len(asked') \in Nat
      BY <1>1 DEF PromptTypes
    <3>2. hook[g].at \in {"apply", "remove", "write"} => content'[hook[g].ino] = content[hook[g].ino]
      BY <2>2 DEF Using
    <3> QED
      BY <1>2, <2>2, <3>1, <3>2 DEF HookForm
  <2> QED
    BY <2>1, <2>2
<1>5. Exclusive'
  <2>1. \A f, g \in HookRuns : f # g /\ hook'[f].at \in Holding /\ hook'[g].at \in Holding => hook'[f].ino # hook'[g].ino
    BY <1>1, <1>2 DEF Exclusive
  <2>2. ~sweptUs' => \A g \in HookRuns : hook'[g].at \in Using => hook'[g].ino = named'
    BY <1>1, <1>2 DEF Exclusive
  <2> QED
    BY <2>1, <2>2 DEF Exclusive
<1>6. Unrepeated'
  <2>1. \A g \in HookRuns : hook'[g].at \in Using => Distinct(content'[hook'[g].ino])
    BY <1>1, <1>2 DEF Unrepeated
  <2> QED
    BY <2>1 DEF Unrepeated
<1>7. Asked \subseteq Asked'
  BY <1>1 DEF Asked, PromptTypes
<1>8. Apart' /\ (~sweptUs' => Placed')
  BY <1>2, <1>3, <1>7, PromptsMove
<1> QED
  BY <1>4, <1>5, <1>6, <1>8 DEF PromptInv

LEMMA Suffix ==
    ASSUME NEW S, NEW s \in Seq(S), NEW k \in 1 .. Len(s) + 1
    PROVE  LET t == SubSeq(s, k, Len(s)) IN
           /\ t \in Seq(S) /\ ToSet(t) \subseteq ToSet(s)
           /\ Distinct(s) => Distinct(t)
           /\ k <= Len(s) => s[Len(s)] \in ToSet(t)
<1> DEFINE t == SubSeq(s, k, Len(s))
<1>1. t \in Seq(S) /\ Len(t) = Len(s) - k + 1 /\ \A i \in 1 .. Len(t) : t[i] = s[k + i - 1]
  OBVIOUS
<1>2. DOMAIN t = 1 .. Len(t) /\ DOMAIN s = 1 .. Len(s) /\ Len(t) \in Nat /\ Len(s) \in Nat
  BY <1>1
<1> HIDE DEF t
<1>3. \A i \in 1 .. Len(t) : k + i - 1 \in 1 .. Len(s)
  BY <1>1, <1>2
<1>4. ToSet(t) \subseteq ToSet(s)
  BY <1>1, <1>2, <1>3 DEF ToSet
<1>5. ASSUME Distinct(s) PROVE Distinct(t)
  <2> SUFFICES ASSUME NEW i \in 1 .. Len(t), NEW j \in 1 .. Len(t), t[i] = t[j] PROVE i = j
    BY <1>2 DEF Distinct
  <2>1. s[k + i - 1] = s[k + j - 1]
    BY <1>1
  <2>2. k + i - 1 = k + j - 1
    BY <1>2, <1>3, <1>5, <2>1 DEF Distinct
  <2> QED
    BY <2>2
<1>6. ASSUME k <= Len(s) PROVE s[Len(s)] \in ToSet(t)
  <2>1. Len(t) \in DOMAIN t /\ k + Len(t) - 1 = Len(s)
    BY <1>1, <1>2, <1>6
  <2>2. t[Len(t)] = s[Len(s)]
    BY <1>1, <1>2, <2>1
  <2> QED
    BY <2>1, <2>2 DEF ToSet
<1> QED
  BY <1>1, <1>4, <1>5, <1>6 DEF t

LEMMA OneMore ==
    ASSUME NEW S, NEW s \in Seq(S), NEW e \in S
    PROVE  /\ Append(s, e) \in Seq(S) /\ Len(Append(s, e)) = Len(s) + 1 /\ Append(s, e)[Len(s) + 1] = e
           /\ ToSet(Append(s, e)) = ToSet(s) \cup {e}
           /\ Distinct(s) /\ e \notin ToSet(s) => Distinct(Append(s, e))
<1> DEFINE t == Append(s, e)
<1>1. /\ t \in Seq(S) /\ Len(t) = Len(s) + 1 /\ t[Len(s) + 1] = e
      /\ \A i \in 1 .. Len(s) : t[i] = s[i]
      /\ DOMAIN s = 1 .. Len(s) /\ DOMAIN t = 1 .. Len(s) + 1 /\ Len(s) \in Nat
  OBVIOUS
<1> HIDE DEF t
<1>2. ToSet(t) = ToSet(s) \cup {e}
  BY <1>1 DEF ToSet
<1>3. ASSUME Distinct(s), e \notin ToSet(s) PROVE Distinct(t)
  BY <1>1, <1>3 DEF Distinct, ToSet
<1> QED
  BY <1>1, <1>2, <1>3 DEF t

LEMMA Joined ==
    ASSUME NEW S, NEW a \in Seq(S), NEW b \in Seq(S), NEW t, t = a \o b
    PROVE  /\ t \in Seq(S) /\ Len(t) = Len(a) + Len(b)
           /\ \A i \in 1 .. Len(a) : t[i] = a[i]
           /\ \A i \in 1 .. Len(b) : t[Len(a) + i] = b[i]
OBVIOUS

LEMMA OneLess ==
    ASSUME NEW S, NEW s \in Seq(S), Distinct(s), NEW k \in 1 .. Len(s)
    PROVE  /\ RemoveAt(s, k) \in Seq(S) /\ Distinct(RemoveAt(s, k))
           /\ ToSet(s) = ToSet(RemoveAt(s, k)) \cup {s[k]} /\ s[k] \notin ToSet(RemoveAt(s, k))
<1> DEFINE t == RemoveAt(s, k)
<1>1. /\ DOMAIN s = 1 .. Len(s) /\ Len(s) \in Nat
      /\ \A i, j \in 1 .. Len(s) : s[i] = s[j] => i = j
  BY DEF Distinct
<1>2. /\ t \in Seq(S) /\ DOMAIN t = 1 .. Len(s) - 1
      /\ \A i \in 1 .. Len(s) - 1 : (i < k => t[i] = s[i]) /\ (~(i < k) => t[i] = s[i + 1])
  <2> DEFINE a == SubSeq(s, 1, k - 1)
             b == SubSeq(s, k + 1, Len(s))
  <2>1. /\ a \in Seq(S) /\ Len(a) = k - 1 /\ \A i \in 1 .. k - 1 : a[i] = s[i]
        /\ b \in Seq(S) /\ Len(b) = Len(s) - k /\ \A i \in 1 .. Len(s) - k : b[i] = s[k + i]
    OBVIOUS
  <2>2. t = a \o b
    BY DEF RemoveAt
  <2> HIDE DEF t, a, b
  <2>3. /\ t \in Seq(S) /\ Len(t) = Len(a) + Len(b)
        /\ \A i \in 1 .. Len(a) : t[i] = a[i]
        /\ \A i \in 1 .. Len(b) : t[Len(a) + i] = b[i]
    <3>1. a \in Seq(S) /\ b \in Seq(S)
      BY <2>1
    <3> QED
      BY <2>2, <3>1, Joined
  <2>4. t \in Seq(S) /\ Len(t) = Len(s) - 1
    BY <1>1, <2>1, <2>2, <2>3
  <2>5. ASSUME NEW i \in 1 .. Len(s) - 1
        PROVE  /\ i < k => t[i] = s[i]
               /\ ~(i < k) => t[i] = s[i + 1]
    <3>1. ASSUME i < k PROVE t[i] = s[i]
      BY <1>1, <2>1, <2>2, <2>3, <3>1
    <3>2. ASSUME ~(i < k) PROVE t[i] = s[i + 1]
      <4>1. i - (k - 1) \in 1 .. Len(b) /\ Len(a) + (i - (k - 1)) = i /\ k + (i - (k - 1)) = i + 1
        BY <1>1, <2>1, <3>2
      <4>2. t[Len(a) + (i - (k - 1))] = b[i - (k - 1)]
        BY <2>3, <4>1
      <4>3. b[i - (k - 1)] = s[k + (i - (k - 1))]
        BY <2>1, <4>1
      <4> QED
        BY <2>2, <4>1, <4>2, <4>3
    <3> QED
      BY <3>1, <3>2
  <2> QED
    BY <1>1, <2>4, <2>5
<1> HIDE DEF t
<1>3. Distinct(t)
  BY <1>1, <1>2 DEF Distinct
<1>4. s[k] \notin ToSet(t)
  <2>1. ASSUME NEW i \in 1 .. Len(s) - 1 PROVE t[i] # s[k]
    <3>1. CASE i < k
      BY <1>1, <1>2, <3>1
    <3>2. CASE ~(i < k)
      BY <1>1, <1>2, <3>2
    <3> QED
      BY <3>1, <3>2
  <2> QED
    BY <1>2, <2>1 DEF ToSet
<1>5. ToSet(t) \subseteq ToSet(s)
  BY <1>1, <1>2 DEF ToSet
<1>6. ASSUME NEW i \in 1 .. Len(s) PROVE s[i] \in ToSet(t) \cup {s[k]}
  <2>1. CASE i < k
    <3>1. i \in DOMAIN t /\ t[i] = s[i]
      BY <1>2, <2>1
    <3> QED
      BY <3>1 DEF ToSet
  <2>2. CASE i > k
    <3>1. i - 1 \in DOMAIN t /\ t[i - 1] = s[i]
      BY <1>2, <2>2
    <3> QED
      BY <3>1 DEF ToSet
  <2> QED
    BY <2>1, <2>2
<1>7. s[k] \in ToSet(s)
  BY <1>1 DEF ToSet
<1>8. ToSet(s) \subseteq ToSet(t) \cup {s[k]}
  BY <1>1, <1>6 DEF ToSet
<1>9. ToSet(s) = ToSet(t) \cup {s[k]}
  BY <1>5, <1>7, <1>8
<1> QED
  BY <1>2, <1>3, <1>4, <1>9 DEF t

LEMMA FirstOf ==
    ASSUME NEW N \in SUBSET Nat, N # {}
    PROVE  Min(N) \in N /\ \A m \in N : Min(N) <= m
<1>1. PICK n \in N : \A m \in N : <<m, n>> \notin OpToRel(<, Nat)
  BY NatLessThanWellFounded, WFMin
<1>2. \A m \in N : n <= m
  <2> SUFFICES ASSUME NEW m \in N PROVE n <= m
    OBVIOUS
  <2>1. ~(m < n)
    BY <1>1 DEF OpToRel
  <2> QED
    BY <2>1
<1> QED
  BY <1>2 DEF Min

LEMMA LaterOf ==
    ASSUME NEW n \in Int
    PROVE  Max({1, n}) \in {1, n} /\ Max({1, n}) >= 1
<1> DEFINE N == {1, n}
<1>1. \E x \in N : \A y \in N : x >= y
  BY 1 >= n \/ n >= 1
<1> HIDE DEF N
<1>2. Max(N) \in N /\ \A y \in N : Max(N) >= y
  BY <1>1 DEF Max
<1> QED
  BY <1>2 DEF N

\* There is an inode more than there are runs.
LEMMA InodeIsFree ==
    ASSUME PromptInv, NEW h \in HookRuns, hook[h].ino = NoName, named = NoName
    PROVE  FreeInode \in Inodes /\ \A g \in HookRuns : hook[g].ino # FreeInode
<1>1. IsFiniteSet(HookRuns) /\ Cardinality(HookRuns) \in Nat
  BY PromptBounds, FS_CardinalityType
<1> DEFINE F == {i \in Inodes : i # named /\ \A g \in HookRuns : hook[g].ino # i}
<1>2. F # {}
  <2> SUFFICES ASSUME F = {} PROVE FALSE
    OBVIOUS
  <2>0. IsFiniteSet(Inodes) /\ Cardinality(Inodes) = Cardinality(HookRuns) + 1
    <3> DEFINE n == Cardinality(HookRuns) + 1
    <3>1. n \in Nat /\ Inodes = 1 .. n /\ n >= 1
      BY <1>1 DEF Inodes
    <3> HIDE DEF n
    <3>2. IsFiniteSet(1 .. n) /\ Cardinality(1 .. n) = n - 1 + 1
      BY <3>1, FS_Interval
    <3> QED
      BY <3>1, <3>2 DEF n
  <2>1. \A i \in Inodes : \E g \in HookRuns : hook[g].ino = i
    BY DEF Inodes, NoName
  <2> DEFINE w == [i \in Inodes |-> CHOOSE g \in HookRuns : hook[g].ino = i]
  <2>2. w \in [Inodes -> HookRuns] /\ \A i \in Inodes : hook[w[i]].ino = i
    BY <2>1
  <2> HIDE DEF w
  <2>3. PICK i, j \in Inodes : i # j /\ w[i] = w[j]
    BY <1>1, <2>0, <2>2, FS_PigeonHole
  <2> QED
    BY <2>2, <2>3
<1>3. F \in SUBSET Nat
  BY <1>1 DEF Inodes
<1>4. FreeInode \in F
  BY <1>2, <1>3, FirstOf DEF FreeInode
<1> QED
  BY <1>4

\* A run that uses no file, before or after, keeps what it carries or gives it up.
LEMMA RunKeeps ==
    ASSUME PromptInv, NEW h \in HookRuns, NEW r, HookIs(h, r),
           UNCHANGED <<named, content, asked, settled, sweptUs>>,
           HookForm(r, content, Len(asked)), hook[h].at \notin Using, r.at \notin Using,
           r.at \in Holding => \A g \in HookRuns \ {h} : hook[g].at \in Holding => hook[g].ino # r.ino,
           Has(r, content) \subseteq Has(hook[h], content),
           lost' = lost \cup (Has(hook[h], content) \ Has(r, content))
    PROVE  PromptInv'
<1>1. PromptTypes /\ Unrepeated /\ Apart /\ Exclusive
  BY DEF PromptInv
<1>2. hook'[h] = r /\ DOMAIN hook' = HookRuns /\ \A g \in HookRuns \ {h} : hook'[g] = hook[g]
  BY <1>1 DEF HookIs, PromptTypes
<1>3. Rest' = Rest
  <2>1. (\E g \in HookRuns : hook'[g].at \in Using /\ hook'[g].ino = named)
           <=> (\E g \in HookRuns : hook[g].at \in Using /\ hook[g].ino = named)
    BY <1>2
  <2> QED
    BY <2>1 DEF Rest, RestOf
<1>4. WithOutcome' = WithOutcome /\ Spent' = Spent \cup (Has(hook[h], content) \ Has(r, content))
  BY DEF Spent, WithOutcome
<1>5. Has(hook[h], content) \cap (Rest \cup Spent) = {} /\ Has(hook[h], content) \subseteq Asked /\ Rest \cap Spent = {}
      /\ WithOutcome \cap lost = {} /\ WithOutcome \subseteq Spent
  BY <1>1 DEF Apart, Spent
<1>6. Asked' = Asked /\ Asked \subseteq Prompts
  BY <1>1, PromptBounds DEF Asked, Prompts, PromptTypes
<1>7. PromptTypes'
  <2>1. lost' \subseteq Prompts
    BY <1>1, <1>5, <1>6 DEF PromptTypes
  <2> QED
    BY <1>1, <1>2, <2>1 DEF PromptTypes
<1>8. named' # NoName => Distinct(content'[named'])
  BY <1>1 DEF Unrepeated
<1>9. (WithOutcome \cap lost)' = {}
  BY <1>4, <1>5
<1>10. Has(r, content') = Has(r, content) /\ Len(asked') = Len(asked) /\ Len(asked) \in Nat
  BY <1>1 DEF PromptTypes
<1> DEFINE H == Has(hook[h], content)
           I == Has(r, content)
<1>11. /\ I \cup Rest' \cup Spent' \subseteq H \cup Rest \cup Spent \cup (Asked' \ Asked)
       /\ H \cup Rest \cup Spent \cup (Asked' \ Asked) \subseteq I \cup Rest' \cup Spent'
       /\ I \cap (Rest' \cup Spent') = {} /\ Rest' \cap Spent' = {}
  <2> HIDE DEF H, I
  <2>1. H \cap (Rest \cup Spent) = {} /\ Spent' = Spent \cup (H \ I) /\ I \subseteq H
    BY <1>4, <1>5 DEF H, I
  <2> QED
    BY <1>3, <1>5, <1>6, <2>1
<1> QED
  <2>1. HookForm(r, content', Len(asked')) /\ Len(asked) <= Len(asked')
    BY <1>10
  <2>2. r.at \in Using => Distinct(content'[r.ino]) /\ (~sweptUs => r.ino = named')
    OBVIOUS
  <2>3. \A g \in HookRuns \ {h} : hook[g].at \in Using =>
               content'[hook[g].ino] = content[hook[g].ino] /\ (~sweptUs => named' = named)
    OBVIOUS
  <2> HIDE DEF H, I
  <2>4. /\ Has(r, content') \cup Rest' \cup Spent' \subseteq Has(hook[h], content) \cup Rest \cup Spent \cup (Asked' \ Asked)
        /\ Has(hook[h], content) \cup Rest \cup Spent \cup (Asked' \ Asked) \subseteq Has(r, content') \cup Rest' \cup Spent'
        /\ Has(r, content') \cap (Rest' \cup Spent') = {}
    BY <1>10, <1>11 DEF H, I
  <2> QED
    BY <1>7, <1>8, <1>9, <1>11, <2>1, <2>2, <2>3, <2>4, RunSteps

LEMMA IdleForm ==
    ASSUME NEW c, NEW n
    PROVE  HookForm(IdleHook, c, n) /\ Has(IdleHook, c) = {}
<1>1. HookForm(IdleHook, c, n)
  <2>1. IdleHook \in Hooks
    <3>1. <<>> \in Seq(Prompts)
      OBVIOUS
    <3> QED
      BY <3>1 DEF IdleHook, Hooks
  <2>2. /\ IdleHook.at = "idle" /\ IdleHook.kind = "end" /\ IdleHook.ino = NoName
        /\ IdleHook.st = <<>> /\ IdleHook.out = {}
    BY DEF IdleHook
  <2> QED
    BY <2>1, <2>2 DEF HookForm, Opened, Distinct
<1> QED
  BY <1>1, HasIs DEF IdleHook

LEMMA GivesUpKept ==
    ASSUME PromptInv, NEW h \in HookRuns, hook[h].at \in {"open", "lock", "check"}, GivesUp(h),
           UNCHANGED <<named, content, asked, settled, sweptUs>>
    PROVE  PromptInv'
<1>1. Has(hook[h], content) = Own(hook[h])
  BY HasIs DEF PromptInv
<1>2. lost' = lost \cup (Has(hook[h], content) \ Has(IdleHook, content))
  BY <1>1, IdleForm DEF GivesUp, Own
<1>3. HookIs(h, IdleHook) /\ IdleHook.at = "idle"
  BY DEF GivesUp, IdleHook
<1> QED
  BY <1>2, <1>3, IdleForm, RunKeeps DEF Using, Holding

\* A run that starts or stops waiting for the lock, or has it.
LEMMA WaitsKept ==
    ASSUME PromptInv, NEW h \in HookRuns, hook[h].at \in {"open", "lock", "check"}, NEW r, HookIs(h, r),
           UNCHANGED <<named, content, asked, settled, lost, sweptUs>>,
           r \in Hooks, r.at \in {"open", "lock", "check"}, r.kind = hook[h].kind, r.prompt = hook[h].prompt,
           r.st = hook[h].st, r.out = hook[h].out, r.ino \in IF r.at = "open" THEN {NoName} ELSE Inodes,
           r.at = "check" => \A g \in HookRuns \ {h} : hook[g].at \in Holding => hook[g].ino # r.ino
    PROVE  PromptInv'
<1>1. HookForm(hook[h], content, Len(asked))
  BY DEF PromptInv
<1>2. HookForm(r, content, Len(asked))
  BY <1>1 DEF HookForm, Opened
<1>3. Own(r) = Own(hook[h])
  BY DEF Own
<1>4. Has(r, content) = Has(hook[h], content)
  BY <1>1, <1>2, <1>3, HasIs
<1> QED
  BY <1>2, <1>4, RunKeeps DEF Using, Holding

\* A prompt is asked, a call ran, or the turn ended.
LEMMA EventKept ==
    ASSUME PromptInv, NEW h \in HookRuns, HandleEvent(h)
    PROVE  PromptInv'
<1>1. PromptTypes /\ Apart /\ Unrepeated /\ HookForm(hook[h], content, Len(asked)) /\ hook[h].at = "idle"
  BY DEF PromptInv, HandleEvent
<1>2. UNCHANGED <<named, content, settled, lost, sweptUs>>
  BY DEF HandleEvent, HookKept
<1>3. Has(hook[h], content) = {}
  BY <1>1, HasIs
<1>4. CASE \E c \in ToolCalls :
             /\ Len(asked) < MaxPrompts
             /\ asked' = Append(asked, c)
             /\ HookIs(h, [IdleHook EXCEPT !.at = "open", !.kind = "ask", !.call = c, !.prompt = Len(asked) + 1])
  <2>1. PICK c \in ToolCalls :
             /\ Len(asked) < MaxPrompts
             /\ asked' = Append(asked, c)
             /\ HookIs(h, [IdleHook EXCEPT !.at = "open", !.kind = "ask", !.call = c, !.prompt = Len(asked) + 1])
    BY <1>4
  <2> DEFINE New == Len(asked) + 1
             r == [IdleHook EXCEPT !.at = "open", !.kind = "ask", !.call = c, !.prompt = New]
  <2>2. asked' \in Seq(ToolCalls) /\ Len(asked') = New /\ Len(asked) \in Nat /\ MaxPrompts \in Nat
    BY <1>1, <2>1, PromptBounds DEF PromptTypes
  <2>3. PromptTypes' /\ hook'[h] = r /\ \A g \in HookRuns \ {h} : hook'[g] = hook[g]
    BY <1>1, <1>2, <2>1, <2>2 DEF PromptTypes, HookIs
  <2>4. r.at = "open" /\ r.kind = "ask" /\ r.prompt = New /\ r.ino = NoName /\ r.st = <<>> /\ r.out = {}
    BY DEF IdleHook
  <2>5. HookForm(r, content', Len(asked'))
    <3>1. r \in Hooks
      <4>1. New \in Nat
        BY <2>2
      <4>2. IdleHook \in Hooks
        BY IdleForm DEF HookForm
      <4> HIDE DEF New
      <4> QED
        BY <4>1, <4>2 DEF Hooks
    <3>2. New \in 1 .. Len(asked')
      BY <2>2
    <3> QED
      BY <2>4, <3>1, <3>2 DEF HookForm, Opened, Distinct
  <2>6. Has(r, content') = {New}
    BY <2>4, <2>5, HasIs DEF Own
  <2>7. Asked' \ Asked = {New} /\ New \notin Asked
    BY <2>2 DEF Asked
  <2>8. Rest' = Rest
    <3>1. (\E g \in HookRuns : hook'[g].at \in Using /\ hook'[g].ino = named)
             <=> (\E g \in HookRuns : hook[g].at \in Using /\ hook[g].ino = named)
      BY <1>1, <2>3, <2>4 DEF Using
    <3> QED
      BY <1>2, <3>1 DEF Rest, RestOf
  <2>9. Spent' = Spent /\ (WithOutcome \cap lost)' = WithOutcome \cap lost
    BY <1>2 DEF Spent, WithOutcome
  <2>10. Rest \subseteq Asked /\ Spent \subseteq Asked /\ Rest \cap Spent = {} /\ WithOutcome \cap lost = {}
    BY <1>1 DEF Apart
  <2>11. named' # NoName => Distinct(content'[named'])
    BY <1>1, <1>2 DEF Unrepeated
  <2> HIDE DEF r, New
  <2>12. Has(r, content') \cup Rest' \cup Spent' = Has(hook[h], content) \cup Rest \cup Spent \cup (Asked' \ Asked)
    BY <1>3, <2>6, <2>7, <2>8, <2>9
  <2>13. Has(r, content') \cap (Rest' \cup Spent') = {} /\ Rest' \cap Spent' = {}
    BY <2>6, <2>7, <2>8, <2>9, <2>10
  <2>14. HookIs(h, r) /\ Len(asked) <= Len(asked') /\ r.at \notin Using /\ r.at \notin Holding
    BY <2>1, <2>2, <2>4 DEF r, New, Using, Holding
  <2> QED
    BY <1>2, <2>3, <2>5, <2>9, <2>10, <2>11, <2>12, <2>13, <2>14, RunSteps
<1>5. ASSUME NEW r \in Hooks, HookIs(h, r), UNCHANGED asked, r.at = "open", r.kind # "ask", r.kind \in {"ran", "end"},
             r.ino = NoName, r.st = <<>>, r.out = {}
      PROVE  PromptInv'
  <2>1. HookForm(r, content, Len(asked))
    BY <1>5 DEF HookForm, Opened, Distinct
  <2>2. Has(r, content) = {}
    BY <1>5, <2>1, HasIs DEF Own
  <2>3. lost' = lost \cup (Has(hook[h], content) \ Has(r, content))
    BY <1>2, <1>3
  <2> QED
    BY <1>1, <1>2, <1>3, <1>5, <2>1, <2>2, <2>3, RunKeeps DEF Using, Holding
<1>6. CASE \E c \in ToolCalls : HookIs(h, [IdleHook EXCEPT !.at = "open", !.kind = "ran", !.call = c]) /\ UNCHANGED asked
  <2>1. PICK c \in ToolCalls : HookIs(h, [IdleHook EXCEPT !.at = "open", !.kind = "ran", !.call = c]) /\ UNCHANGED asked
    BY <1>6
  <2> DEFINE r == [IdleHook EXCEPT !.at = "open", !.kind = "ran", !.call = c]
  <2>2. r \in Hooks
    BY IdleForm DEF HookForm, Hooks
  <2>3. r.at = "open" /\ r.kind = "ran" /\ r.ino = NoName /\ r.st = <<>> /\ r.out = {}
    BY DEF IdleHook
  <2> QED
    BY <1>5, <2>1, <2>2, <2>3
<1>7. CASE HookIs(h, [IdleHook EXCEPT !.at = "open"]) /\ UNCHANGED asked
  <2> DEFINE r == [IdleHook EXCEPT !.at = "open"]
  <2>1. r \in Hooks
    BY IdleForm DEF HookForm, Hooks
  <2>2. r.at = "open" /\ r.kind = "end" /\ r.ino = NoName /\ r.st = <<>> /\ r.out = {}
    BY DEF IdleHook
  <2> QED
    BY <1>5, <1>7, <2>1, <2>2
<1> QED
  BY <1>4, <1>6, <1>7 DEF HandleEvent

\* The open makes an empty file when none is named.
LEMMA OpensKept ==
    ASSUME PromptInv, NEW h \in HookRuns, OpensState(h)
    PROVE  PromptInv'
<1>1. /\ PromptTypes /\ Apart /\ Unrepeated /\ Exclusive
      /\ HookForm(hook[h], content, Len(asked)) /\ hook[h].at = "open"
  BY DEF PromptInv, OpensState
<1>2. UNCHANGED <<asked, settled, sweptUs>>
  BY DEF OpensState, HookKept
<1>3. hook[h].ino = NoName /\ hook[h].st = <<>> /\ hook[h].out = {}
  BY <1>1 DEF HookForm, Opened
<1>4. CASE GivesUp(h) /\ UNCHANGED <<named, content, age>>
  BY <1>1, <1>2, <1>4, GivesUpKept
<1>5. CASE named # NoName /\ HookIs(h, [hook[h] EXCEPT !.at = "lock", !.ino = named]) /\ UNCHANGED <<named, content, age, lost>>
  <2> DEFINE r == [hook[h] EXCEPT !.at = "lock", !.ino = named]
  <2>1. hook[h] \in Hooks /\ named \in Inodes
    BY <1>1, <1>5 DEF HookForm, PromptTypes
  <2>2. /\ r \in Hooks /\ r.at = "lock" /\ r.ino = named /\ r.kind = hook[h].kind /\ r.prompt = hook[h].prompt
        /\ r.st = hook[h].st /\ r.out = hook[h].out
    BY <2>1 DEF Hooks, Opened
  <2> HIDE DEF r
  <2>3. HookIs(h, r)
    BY <1>5 DEF r
  <2> QED
    BY <1>1, <1>2, <1>5, <2>1, <2>2, <2>3, WaitsKept
<1>6. CASE /\ named = NoName /\ hook[h].kind = "ask"
           /\ named' = FreeInode /\ age' = "new"
           /\ content' = [content EXCEPT ![FreeInode] = <<>>]
           /\ HookIs(h, [hook[h] EXCEPT !.at = "lock", !.ino = FreeInode])
           /\ UNCHANGED lost
  <2> DEFINE r == [hook[h] EXCEPT !.at = "lock", !.ino = FreeInode]
  <2>1. FreeInode \in Inodes /\ \A g \in HookRuns : hook[g].ino # FreeInode
    BY <1>3, <1>6, InodeIsFree
  <2>2. hook[h] \in Hooks
    BY <1>1 DEF HookForm
  <2>3. /\ r \in Hooks /\ r.at = "lock" /\ r.ino = FreeInode /\ r.kind = "ask" /\ r.prompt = hook[h].prompt
        /\ r.st = <<>> /\ r.out = {}
    BY <1>3, <1>6, <2>1, <2>2 DEF Hooks, Opened
  <2> HIDE DEF r
  <2>4. HookIs(h, r)
    BY <1>6 DEF r
  <2>5. hook'[h] = r /\ \A g \in HookRuns \ {h} : hook'[g] = hook[g]
    BY <1>1, <2>4 DEF PromptTypes, HookIs
  <2>6. content'[FreeInode] = <<>> /\ \A i \in Inodes \ {FreeInode} : content'[i] = content[i]
    BY <1>1, <1>6, <2>1 DEF PromptTypes
  <2>7. PromptTypes'
    <3>1. <<>> \in Seq(Prompts)
      OBVIOUS
    <3>2. content' \in [Inodes -> Seq(Prompts)]
      BY <1>1, <1>6, <2>1, <3>1 DEF PromptTypes
    <3>3. DOMAIN hook' = HookRuns
      BY <1>1, <2>4 DEF PromptTypes, HookIs
    <3> QED
      BY <1>1, <1>2, <1>6, <2>1, <3>2, <3>3 DEF PromptTypes
  <2>8. HookForm(r, content', Len(asked'))
    BY <1>1, <1>2, <1>6, <2>1, <2>3 DEF HookForm, Opened, Distinct
  <2>9. Has(r, content') = Has(hook[h], content)
    <3>1. Own(r) = Own(hook[h])
      BY <1>1, <1>6, <2>3 DEF Own
    <3> QED
      BY <1>1, <2>3, <2>8, <3>1, HasIs
  <2>10. Rest = {} /\ Rest' = {}
    <3>1. ToSet(content'[named']) = {}
      BY <1>6, <2>6 DEF ToSet
    <3> QED
      BY <1>6, <3>1 DEF Rest, RestOf
  <2>11. Spent' = Spent /\ (WithOutcome \cap lost)' = WithOutcome \cap lost /\ Asked' = Asked
    BY <1>2, <1>6 DEF Spent, WithOutcome, Asked
  <2>12. Has(hook[h], content) \cap (Rest \cup Spent) = {} /\ WithOutcome \cap lost = {}
    BY <1>1 DEF Apart
  <2>13. Distinct(content'[named'])
    BY <1>6, <2>6 DEF Distinct
  <2>14. \A g \in HookRuns \ {h} : hook[g].at \in Using =>
               content'[hook[g].ino] = content[hook[g].ino] /\ (~sweptUs => named' = named)
    <3> SUFFICES ASSUME NEW g \in HookRuns \ {h}, hook[g].at \in Using
                 PROVE  content'[hook[g].ino] = content[hook[g].ino] /\ (~sweptUs => named' = named)
      OBVIOUS
    <3>1. hook[g].ino \in Inodes
      BY DEF PromptInv, HookForm, Using, Opened
    <3>2. ~sweptUs => hook[g].ino = named
      BY <1>1 DEF Exclusive
    <3> QED
      BY <1>6, <2>1, <2>6, <3>1, <3>2 DEF Inodes, NoName
  <2>15. Len(asked) <= Len(asked') /\ r.at \notin Using /\ r.at \notin Holding
    BY <1>1, <1>2, <2>3 DEF PromptTypes, Using, Holding
  <2> QED
    BY <1>2, <2>4, <2>7, <2>8, <2>9, <2>10, <2>11, <2>12, <2>13, <2>14, <2>15, RunSteps
<1> QED
  BY <1>1, <1>4, <1>5, <1>6 DEF OpensState

LEMMA LocksKept ==
    ASSUME PromptInv, NEW h \in HookRuns, LocksState(h)
    PROVE  PromptInv'
<1>1. PromptTypes /\ HookForm(hook[h], content, Len(asked)) /\ hook[h].at = "lock"
  BY DEF PromptInv, LocksState
<1>2. UNCHANGED <<named, content, asked, settled, sweptUs>>
  BY DEF LocksState, HookKept
<1>3. CASE Locked(hook[h].ino) /\ GivesUp(h)
  BY <1>1, <1>2, <1>3, GivesUpKept
<1>4. CASE ~Locked(hook[h].ino) /\ HookIs(h, [hook[h] EXCEPT !.at = "check"]) /\ UNCHANGED lost
  <2> DEFINE r == [hook[h] EXCEPT !.at = "check"]
  <2>1. hook[h] \in Hooks /\ hook[h].ino \in Inodes
    BY <1>1 DEF HookForm, Opened
  <2>2. /\ r \in Hooks /\ r.at = "check" /\ r.ino = hook[h].ino /\ r.kind = hook[h].kind /\ r.prompt = hook[h].prompt
        /\ r.st = hook[h].st /\ r.out = hook[h].out
    BY <2>1 DEF Hooks, Opened
  <2> HIDE DEF r
  <2>3. HookIs(h, r)
    BY <1>4 DEF r
  <2>4. \A g \in HookRuns \ {h} : hook[g].at \in Holding => hook[g].ino # r.ino
    BY <1>4, <2>2 DEF Locked, Holding
  <2> QED
    BY <1>1, <1>2, <1>4, <2>1, <2>2, <2>3, <2>4, WaitsKept
<1> QED
  BY <1>3, <1>4 DEF LocksState

LEMMA ChecksKept ==
    ASSUME PromptInv, NEW h \in HookRuns, ChecksName(h)
    PROVE  PromptInv'
<1>1. /\ PromptTypes /\ Apart /\ Unrepeated /\ Exclusive
      /\ HookForm(hook[h], content, Len(asked)) /\ hook[h].at = "check"
  BY DEF PromptInv, ChecksName
<1>2. UNCHANGED <<named, content, asked, settled, sweptUs>>
  BY DEF ChecksName, HookKept
<1>3. /\ hook[h] \in Hooks /\ hook[h].ino \in Inodes /\ hook[h].st = <<>> /\ hook[h].out = {}
      /\ hook[h].kind = "ask" => hook[h].prompt \in 1 .. Len(asked)
  BY <1>1 DEF HookForm, Opened
<1>4. CASE GivesUp(h)
  BY <1>1, <1>2, <1>4, GivesUpKept
<1>5. CASE HookIs(h, [hook[h] EXCEPT !.at = "open", !.ino = NoName, !.tries = @ + 1]) /\ UNCHANGED lost
  <2> DEFINE t == hook[h].tries + 1
             r == [hook[h] EXCEPT !.at = "open", !.ino = NoName, !.tries = t]
  <2>1. /\ r \in Hooks /\ r.at = "open" /\ r.ino = NoName /\ r.kind = hook[h].kind /\ r.prompt = hook[h].prompt
        /\ r.st = hook[h].st /\ r.out = hook[h].out
    <3>1. t \in Nat
      <4>1. hook[h].tries \in Nat
        BY <1>3 DEF Hooks
      <4> QED
        BY <4>1
    <3> HIDE DEF t
    <3> QED
      BY <1>3, <3>1 DEF Hooks, Opened
  <2> HIDE DEF r
  <2>2. HookIs(h, r)
    BY <1>5 DEF r
  <2> QED
    BY <1>1, <1>2, <1>5, <2>1, <2>2, WaitsKept
<1>6. CASE StillNamed(h) /\ HookIs(h, [hook[h] EXCEPT !.at = "apply"]) /\ UNCHANGED lost
  <2> DEFINE r == [hook[h] EXCEPT !.at = "apply"]
  <2>1. /\ r \in Hooks /\ r.at = "apply" /\ r.ino = named /\ r.kind = hook[h].kind /\ r.prompt = hook[h].prompt
        /\ r.st = <<>> /\ r.out = {} /\ named \in Inodes
    BY <1>3, <1>6 DEF Hooks, Opened, StillNamed
  <2> HIDE DEF r
  <2>2. HookIs(h, r)
    BY <1>6 DEF r
  <2>3. hook'[h] = r /\ DOMAIN hook' = HookRuns /\ \A g \in HookRuns \ {h} : hook'[g] = hook[g]
    BY <1>1, <2>2 DEF PromptTypes, HookIs
  <2>4. PromptTypes'
    BY <1>1, <1>2, <1>6, <2>3 DEF PromptTypes
  <2>5. HookForm(r, content', Len(asked')) /\ HookForm(r, content, Len(asked))
    <3>1. hook[h].kind = "ask" => hook[h].prompt \in Has(hook[h], content)
      BY <1>1 DEF Has, Own
    <3>2. ToSet(content[named]) \subseteq Rest
      <4>1. ~\E g \in HookRuns : hook[g].at \in Using /\ hook[g].ino = named
        BY <1>1, <1>6 DEF Exclusive, Using, Holding, StillNamed
      <4> QED
        BY <2>1, <4>1 DEF Rest, RestOf, Inodes, NoName
    <3>3. hook[h].kind = "ask" => hook[h].prompt \notin ToSet(content[named])
      BY <1>1, <3>1, <3>2 DEF Apart
    <3> QED
      BY <1>2, <1>3, <2>1, <3>3 DEF HookForm, Opened, Distinct
  <2>6. Own(r) = Own(hook[h])
    BY <1>1, <2>1 DEF Own
  <2>7. Has(r, content') = Has(hook[h], content) \cup ToSet(content[named])
    BY <1>1, <1>2, <2>1, <2>5, <2>6, HasIs
  <2>8. \A g \in HookRuns \ {h} : hook[g].at \in Holding => hook[g].ino # named
    BY <1>1, <1>6 DEF Exclusive, Holding, StillNamed
  <2>9. named # NoName
    BY <2>1 DEF Inodes, NoName
  <2>10. Rest = ToSet(content[named]) /\ Rest' = {}
    <3>1. ~\E g \in HookRuns : hook[g].at \in Using /\ hook[g].ino = named
      BY <1>1, <2>8 DEF Using, Holding
    <3>2. hook'[h].at \in Using /\ hook'[h].ino = named'
      BY <1>2, <2>1, <2>3 DEF Using
    <3> QED
      BY <2>9, <3>1, <3>2 DEF Rest, RestOf
  <2>11. Spent' = Spent /\ (WithOutcome \cap lost)' = WithOutcome \cap lost /\ Asked' = Asked
    BY <1>2, <1>6 DEF Spent, WithOutcome, Asked
  <2>12. Has(hook[h], content) \cap (Rest \cup Spent) = {} /\ WithOutcome \cap lost = {} /\ Rest \cap Spent = {}
    BY <1>1 DEF Apart
  <2>13. Distinct(content'[named'])
    BY <1>1, <1>2, <2>9 DEF Unrepeated
  <2>14. Len(asked) <= Len(asked') /\ r.ino = named'
    BY <1>1, <1>2, <2>1 DEF PromptTypes
  <2>15. \A g \in HookRuns \ {h} : hook[g].at \in Using =>
               content'[hook[g].ino] = content[hook[g].ino] /\ (~sweptUs => named' = named)
    BY <1>2
  <2>16. \A g \in HookRuns \ {h} : hook[g].at \in Holding => hook[g].ino # r.ino
    BY <2>1, <2>8
  <2>17. /\ Has(r, content') \cup Rest' \cup Spent' = Has(hook[h], content) \cup Rest \cup Spent \cup (Asked' \ Asked)
         /\ Has(r, content') \cap (Rest' \cup Spent') = {} /\ Rest' \cap Spent' = {}
    BY <2>7, <2>10, <2>11, <2>12
  <2>18. r.at \in Using => Distinct(content'[r.ino]) /\ (~sweptUs => r.ino = named')
    BY <2>13, <2>14
  <2> QED
    BY <1>2, <2>2, <2>4, <2>5, <2>11, <2>12, <2>13, <2>14, <2>15, <2>16, <2>17, <2>18, RunSteps
<1> QED
  BY <1>4, <1>5, <1>6 DEF ChecksName

\* What a run that uses its file knows of it.
LEMMA InUse ==
    ASSUME PromptInv, NEW h \in HookRuns, hook[h].at \in Using
    PROVE  /\ hook[h] \in Hooks /\ hook[h].ino \in Inodes /\ hook[h].ino # NoName
           /\ Distinct(content[hook[h].ino]) /\ content[hook[h].ino] \in Seq(Prompts)
           /\ ~sweptUs => hook[h].ino = named
           /\ \A g \in HookRuns \ {h} : hook[g].at \in Holding => hook[g].ino # hook[h].ino
           /\ hook[h].ino = named => Rest = {}
           /\ ToSet(content[hook[h].ino]) \subseteq Has(hook[h], content)
           /\ Has(hook[h], content) \cap (Rest \cup Spent) = {} /\ Rest \cap Spent = {}
           /\ WithOutcome \cap lost = {} /\ Has(hook[h], content) \subseteq Asked
<1>1. PromptTypes /\ Apart /\ Unrepeated /\ Exclusive /\ HookForm(hook[h], content, Len(asked))
  BY DEF PromptInv
<1>2. hook[h] \in Hooks /\ hook[h].ino \in Inodes
  BY <1>1 DEF HookForm, Opened, Using
<1>3. hook[h].ino # NoName /\ content[hook[h].ino] \in Seq(Prompts)
  BY <1>1, <1>2 DEF Inodes, NoName, PromptTypes
<1>4. Distinct(content[hook[h].ino])
  BY <1>1 DEF Unrepeated
<1>5. /\ ~sweptUs => hook[h].ino = named
      /\ \A g \in HookRuns \ {h} : hook[g].at \in Holding => hook[g].ino # hook[h].ino
  BY <1>1 DEF Exclusive, Using, Holding
<1>6. hook[h].ino = named => Rest = {}
  BY DEF Rest, RestOf
<1>7. ToSet(content[hook[h].ino]) \subseteq Has(hook[h], content)
  BY DEF Has
<1> QED
  BY <1>1, <1>2, <1>3, <1>4, <1>5, <1>6, <1>7 DEF Apart

\* A step of a run that uses its file: what it had, with the named file and the spent prompts, is moved.
LEMMA UseSteps ==
    ASSUME PromptInv, NEW h \in HookRuns, hook[h].at \in Using, NEW r, HookIs(h, r),
           UNCHANGED <<asked, sweptUs>>, PromptTypes', HookForm(r, content', Len(asked)),
           \A i \in Inodes \ {hook[h].ino} : content'[i] = content[i],
           UNCHANGED named \/ named' = NoName,
           r.at \in Using => r.ino = hook[h].ino /\ UNCHANGED named /\ Distinct(content'[r.ino]),
           r.at \notin Using => r.at \notin Holding,
           named' = hook[h].ino => Distinct(content'[named']),
           Has(r, content') \cup Rest' \cup Spent' \subseteq Has(hook[h], content) \cup Rest \cup Spent,
           ~sweptUs => Has(hook[h], content) \cup Rest \cup Spent \subseteq Has(r, content') \cup Rest' \cup Spent',
           Has(r, content') \cap (Rest' \cup Spent') = {},
           Rest' \cap Spent' = {}, (WithOutcome \cap lost)' = {}
    PROVE  PromptInv'
<1>1. /\ \A g \in HookRuns \ {h} : hook[g].at \in Holding => hook[g].ino # hook[h].ino
      /\ ~sweptUs => hook[h].ino = named
  BY InUse
<1>2. /\ PromptTypes /\ Unrepeated /\ Exclusive /\ Len(asked) \in Nat
      /\ \A g \in HookRuns : hook[g].at \in Using => hook[g].ino \in Inodes
  BY DEF PromptInv, PromptTypes, HookForm, Using, Opened
<1>3. \A g \in HookRuns \ {h} : hook[g].at \in Using =>
               content'[hook[g].ino] = content[hook[g].ino] /\ (~sweptUs => named' = named)
  BY <1>1, <1>2 DEF Exclusive, Using, Holding
<1>4. r.at \in Holding => \A g \in HookRuns \ {h} : hook[g].at \in Holding => hook[g].ino # r.ino
  BY <1>1
<1>5. r.at \in Using => Distinct(content'[r.ino]) /\ (~sweptUs => r.ino = named')
  BY <1>1
<1>6. named' # NoName => Distinct(content'[named'])
  BY <1>2 DEF Unrepeated, PromptTypes
<1>7. Asked' = Asked /\ Len(asked') = Len(asked) /\ Len(asked) <= Len(asked')
  BY <1>2 DEF Asked
<1> QED
  BY <1>3, <1>4, <1>5, <1>6, <1>7, RunSteps

\* Where the named file's prompts are once h is r.
LEMMA RestThen ==
    ASSUME PromptInv, NEW h \in HookRuns, hook[h].at \in Using, NEW r, HookIs(h, r),
           \A i \in Inodes \ {hook[h].ino} : content'[i] = content[i],
           r.at \in Using => r.ino = hook[h].ino
    PROVE  /\ named' = NoName => Rest' = {}
           /\ UNCHANGED named /\ hook[h].ino # named => Rest' = Rest
           /\ UNCHANGED named /\ hook[h].ino = named /\ r.at \in Using /\ r.ino = named => Rest' = {}
           /\ UNCHANGED named /\ hook[h].ino = named /\ r.at \notin Using => Rest' = ToSet(content'[named])
<1>1. PromptTypes /\ named \in {NoName} \cup Inodes
  BY DEF PromptInv, PromptTypes
<1>2. hook'[h] = r /\ \A g \in HookRuns \ {h} : hook'[g] = hook[g]
  BY <1>1 DEF PromptTypes, HookIs
<1>3. /\ \A g \in HookRuns \ {h} : hook[g].at \in Holding => hook[g].ino # hook[h].ino
      /\ hook[h].ino # NoName
  BY InUse
<1>4. named' = NoName => Rest' = {}
  BY DEF Rest, RestOf
<1>5. ASSUME UNCHANGED named, hook[h].ino # named, r.at \in Using => r.ino = hook[h].ino
      PROVE  Rest' = Rest
  <2>1. (\E g \in HookRuns : hook'[g].at \in Using /\ hook'[g].ino = named)
           <=> (\E g \in HookRuns : hook[g].at \in Using /\ hook[g].ino = named)
    BY <1>2, <1>5
  <2>2. named # NoName => content'[named] = content[named]
    BY <1>1, <1>5
  <2> QED
    BY <1>5, <2>1, <2>2 DEF Rest, RestOf
<1>6. ASSUME UNCHANGED named, r.at \in Using, r.ino = named PROVE Rest' = {}
  BY <1>2, <1>6 DEF Rest, RestOf
<1>7. ASSUME UNCHANGED named, hook[h].ino = named, r.at \notin Using PROVE Rest' = ToSet(content'[named])
  <2>1. ~\E g \in HookRuns : hook'[g].at \in Using /\ hook'[g].ino = named
    BY <1>2, <1>3, <1>7 DEF Using, Holding
  <2> QED
    BY <1>3, <1>7, <2>1 DEF Rest, RestOf
<1> QED
  BY <1>4, <1>5, <1>6, <1>7

LEMMA AskKept ==
    ASSUME PromptInv, NEW h \in HookRuns, hook[h].at = "apply", AppliesAsk(h),
           UNCHANGED <<named, asked, settled, sweptUs>>
    PROVE  PromptInv'
<1>1. PromptTypes /\ HookForm(hook[h], content, Len(asked)) /\ hook[h].kind = "ask"
  BY DEF PromptInv, AppliesAsk
<1>2. hook[h].at \in Using
  BY DEF Using
<1> DEFINE i == hook[h].ino
           p == hook[h].prompt
           all == Append(content[i], p)
           k == Max({1, Len(all) - MaxPending + 1})
           kept == SubSeq(all, k, Len(all))
           r == [hook[h] EXCEPT !.at = "write", !.st = kept, !.out = {}]
<1>3. /\ hook[h] \in Hooks /\ i \in Inodes /\ i # NoName /\ Distinct(content[i]) /\ content[i] \in Seq(Prompts)
      /\ Has(hook[h], content) \cap (Rest \cup Spent) = {} /\ Rest \cap Spent = {}
      /\ WithOutcome \cap lost = {} /\ Has(hook[h], content) \subseteq Asked /\ (i = named => Rest = {})
  BY <1>2, InUse
<1>4. p \in 1 .. Len(asked) /\ p \notin ToSet(content[i]) /\ p \in Prompts
  BY <1>1, PromptBounds DEF HookForm, PromptTypes, Prompts
<1>5. content' = [content EXCEPT ![i] = <<>>] /\ HookIs(h, r) /\ lost' = lost \cup (ToSet(all) \ ToSet(kept))
  BY DEF AppliesAsk, Rewrites
<1>6. /\ all \in Seq(Prompts) /\ Len(all) \in Nat \ {0} /\ all[Len(all)] = p
      /\ ToSet(all) = ToSet(content[i]) \cup {p} /\ Distinct(all)
  BY <1>3, <1>4, OneMore
<1> HIDE DEF all
<1>7. k \in 1 .. Len(all)
  <2>1. Len(all) - MaxPending + 1 \in Int /\ Len(all) - MaxPending + 1 <= Len(all)
    BY <1>6, PromptBounds
  <2>2. k \in {1, Len(all) - MaxPending + 1} /\ k >= 1
    BY <2>1, LaterOf
  <2> QED
    BY <1>6, <2>1, <2>2
<1> HIDE DEF k
<1>8. /\ kept \in Seq(Prompts) /\ ToSet(kept) \subseteq ToSet(all) /\ Distinct(kept) /\ p \in ToSet(kept)
  BY <1>6, <1>7, Suffix
<1> HIDE DEF kept
<1>9. /\ r \in Hooks /\ r.at = "write" /\ r.kind = "ask" /\ r.prompt = p /\ r.ino = i /\ r.st = kept /\ r.out = {}
  BY <1>1, <1>3, <1>8 DEF Hooks, Opened
<1> HIDE DEF r
<1>10. content' \in [Inodes -> Seq(Prompts)] /\ content'[i] = <<>> /\ \A j \in Inodes \ {i} : content'[j] = content[j]
  <2>1. <<>> \in Seq(Prompts)
    OBVIOUS
  <2> QED
    BY <1>1, <1>3, <1>5, <2>1 DEF PromptTypes
<1>11. HookForm(r, content', Len(asked))
  BY <1>3, <1>4, <1>8, <1>9, <1>10 DEF HookForm, Opened
<1>12. Has(r, content') = ToSet(kept) /\ Has(hook[h], content) = ToSet(all)
  BY <1>1, <1>4, <1>6, <1>9, <1>11, HasIs DEF Own
<1>13. Rest' = Rest
  BY <1>2, <1>3, <1>5, <1>9, <1>10, RestThen DEF Using
<1>14. WithOutcome' = WithOutcome /\ Spent' = Spent \cup (ToSet(all) \ ToSet(kept))
  BY <1>5 DEF Spent, WithOutcome
<1>15. PromptTypes'
  <2>1. DOMAIN hook' = HookRuns
    BY <1>1, <1>5 DEF HookIs, PromptTypes
  <2>2. lost' \subseteq Prompts
    <3>1. ToSet(all) \subseteq Prompts
      BY <1>3, <1>12, <1>1, PromptBounds DEF Asked, Prompts, PromptTypes
    <3> QED
      BY <1>1, <1>5, <3>1 DEF PromptTypes
  <2> QED
    BY <1>1, <1>10, <2>1, <2>2 DEF PromptTypes
<1>16. Distinct(content'[i])
  BY <1>10 DEF Distinct
<1>17. (WithOutcome \cap lost)' = {}
  BY <1>3, <1>5, <1>12, <1>14 DEF Spent
<1>18. /\ Has(r, content') \cup Rest' \cup Spent' = Has(hook[h], content) \cup Rest \cup Spent
       /\ Has(r, content') \cap (Rest' \cup Spent') = {} /\ Rest' \cap Spent' = {}
  BY <1>3, <1>8, <1>12, <1>13, <1>14
<1>19. r.at \in Using
  BY <1>9 DEF Using
<1> HIDE DEF i
<1>20. r.ino = hook[h].ino /\ \A j \in Inodes \ {hook[h].ino} : content'[j] = content[j]
  BY <1>9, <1>10 DEF i
<1> QED
  BY <1>2, <1>5, <1>9, <1>11, <1>15, <1>16, <1>17, <1>18, <1>19, <1>20, UseSteps DEF i

LEMMA RanKept ==
    ASSUME PromptInv, NEW h \in HookRuns, hook[h].at = "apply", AppliesRan(h),
           UNCHANGED <<named, asked, settled, sweptUs>>
    PROVE  PromptInv'
<1>1. /\ PromptTypes /\ HookForm(hook[h], content, Len(asked)) /\ hook[h].kind = "ran"
      /\ UNCHANGED lost
  BY DEF PromptInv, AppliesRan
<1>2. hook[h].at \in Using
  BY DEF Using
<1> DEFINE i == hook[h].ino
           st == content[i]
           mine == {n \in 1 .. Len(st) : asked[st[n]] = hook[h].call}
           k == Min(mine)
<1>3. /\ hook[h] \in Hooks /\ i \in Inodes /\ i # NoName /\ Distinct(st) /\ st \in Seq(Prompts)
      /\ Has(hook[h], content) \cap (Rest \cup Spent) = {} /\ Rest \cap Spent = {}
      /\ WithOutcome \cap lost = {} /\ Has(hook[h], content) \subseteq Asked /\ (i = named => Rest = {})
      /\ (~sweptUs => i = named)
  BY <1>2, InUse
<1>4. Has(hook[h], content) = ToSet(st)
  <2>1. Own(hook[h]) = {}
    BY <1>1 DEF Own
  <2> QED
    BY <1>1, <2>1, HasIs
<1>5. WithOutcome' = WithOutcome /\ Spent' = Spent /\ (WithOutcome \cap lost)' = {}
  BY <1>1, <1>3 DEF Spent, WithOutcome
<1>6. CASE mine # {} /\ Rewrites(h, RemoveAt(st, k), {st[k]})
  <2> DEFINE left == RemoveAt(st, k)
             r == [hook[h] EXCEPT !.at = "write", !.st = left, !.out = {st[k]}]
  <2>1. content' = [content EXCEPT ![i] = <<>>] /\ HookIs(h, r)
    BY <1>6 DEF Rewrites
  <2>2. k \in 1 .. Len(st)
    <3>1. mine \in SUBSET Nat /\ mine # {}
      BY <1>6
    <3>2. k \in mine
      BY <3>1, FirstOf
    <3> QED
      BY <3>2
  <2> HIDE DEF k, mine
  <2>3. /\ left \in Seq(Prompts) /\ Distinct(left)
        /\ ToSet(st) = ToSet(left) \cup {st[k]} /\ st[k] \notin ToSet(left)
    BY <1>3, <2>2, OneLess
  <2>4. st[k] \in Prompts
    BY <1>3, <2>2
  <2> HIDE DEF left
  <2>5. /\ r \in Hooks /\ r.at = "write" /\ r.kind = "ran" /\ r.ino = i /\ r.st = left /\ r.out = {st[k]}
    BY <1>1, <1>3, <2>3, <2>4 DEF Hooks, Opened
  <2> HIDE DEF r
  <2>6. content' \in [Inodes -> Seq(Prompts)] /\ content'[i] = <<>> /\ \A j \in Inodes \ {i} : content'[j] = content[j]
    <3>1. <<>> \in Seq(Prompts)
      OBVIOUS
    <3> QED
      BY <1>1, <1>3, <2>1, <3>1 DEF PromptTypes
  <2>7. HookForm(r, content', Len(asked))
    BY <1>3, <2>3, <2>5, <2>6 DEF HookForm, Opened
  <2>8. Has(r, content') = ToSet(st)
    BY <2>3, <2>5, <2>7, HasIs
  <2>9. Rest' = Rest
    BY <1>2, <1>3, <2>1, <2>5, <2>6, RestThen DEF Using
  <2>10. PromptTypes'
    <3>1. DOMAIN hook' = HookRuns
      BY <1>1, <2>1 DEF HookIs, PromptTypes
    <3> QED
      BY <1>1, <2>6, <3>1 DEF PromptTypes
  <2>11. Distinct(content'[i])
    BY <2>6 DEF Distinct
  <2>12. /\ Has(r, content') \cup Rest' \cup Spent' = Has(hook[h], content) \cup Rest \cup Spent
         /\ Has(r, content') \cap (Rest' \cup Spent') = {} /\ Rest' \cap Spent' = {}
    BY <1>3, <1>4, <1>5, <2>8, <2>9
  <2>13. r.at \in Using
    BY <2>5 DEF Using
  <2> QED
    BY <1>2, <1>5, <2>1, <2>5, <2>6, <2>7, <2>10, <2>11, <2>12, <2>13, UseSteps
<1>7. CASE HookIs(h, IdleHook) /\ UNCHANGED <<content, age>>
  <2>1. IdleHook.at \notin Using /\ IdleHook.at \notin Holding
    BY DEF IdleHook, Using, Holding
  <2>2. (i = named => Rest' = ToSet(st)) /\ (i # named => Rest' = Rest)
    BY <1>2, <1>3, <1>7, <2>1, RestThen
  <2>3. PromptTypes'
    <3>1. DOMAIN hook' = HookRuns
      BY <1>1, <1>7 DEF HookIs, PromptTypes
    <3> QED
      BY <1>1, <1>7, <3>1 DEF PromptTypes
  <2>4. HookForm(IdleHook, content', Len(asked)) /\ Has(IdleHook, content') = {}
    BY IdleForm
  <2>5. /\ Has(IdleHook, content') \cup Rest' \cup Spent' \subseteq Has(hook[h], content) \cup Rest \cup Spent
        /\ ~sweptUs => Has(hook[h], content) \cup Rest \cup Spent \subseteq Has(IdleHook, content') \cup Rest' \cup Spent'
        /\ Has(IdleHook, content') \cap (Rest' \cup Spent') = {} /\ Rest' \cap Spent' = {}
    BY <1>3, <1>4, <1>5, <2>2, <2>4
  <2>6. named' = hook[h].ino => Distinct(content'[named'])
    BY <1>3, <1>7
  <2> QED
    BY <1>2, <1>5, <1>7, <2>1, <2>3, <2>4, <2>5, <2>6, UseSteps
<1> QED
  BY <1>6, <1>7 DEF AppliesRan

LEMMA EndKept ==
    ASSUME PromptInv, NEW h \in HookRuns, hook[h].at = "apply", AppliesEnd(h),
           UNCHANGED <<named, asked, settled, sweptUs>>
    PROVE  PromptInv'
<1>1. /\ PromptTypes /\ HookForm(hook[h], content, Len(asked)) /\ hook[h].kind = "end"
      /\ UNCHANGED <<content, lost>>
  BY DEF PromptInv, AppliesEnd
<1>2. hook[h].at \in Using
  BY DEF Using
<1> DEFINE i == hook[h].ino
           C == ToSet(content[i])
           r == [hook[h] EXCEPT !.at = "remove", !.out = C]
<1>3. /\ hook[h] \in Hooks /\ i \in Inodes /\ i # NoName /\ Distinct(content[i]) /\ content[i] \in Seq(Prompts)
      /\ Has(hook[h], content) \cap (Rest \cup Spent) = {} /\ Rest \cap Spent = {}
      /\ WithOutcome \cap lost = {} /\ Has(hook[h], content) \subseteq Asked /\ (i = named => Rest = {})
  BY <1>2, InUse
<1>4. Has(hook[h], content) = C
  <2>1. Own(hook[h]) = {}
    BY <1>1 DEF Own
  <2> QED
    BY <1>1, <2>1, HasIs
<1>5. C \subseteq Prompts
  BY <1>3 DEF ToSet
<1>6. hook[h].st = <<>> /\ HookIs(h, r)
  BY <1>1 DEF HookForm, AppliesEnd
<1> HIDE DEF C
<1>7. r \in Hooks /\ r.at = "remove" /\ r.kind = "end" /\ r.ino = i /\ r.st = <<>> /\ r.out = C
  BY <1>1, <1>3, <1>5, <1>6 DEF Hooks, Opened
<1> HIDE DEF r
<1>8. HookForm(r, content', Len(asked))
  BY <1>1, <1>3, <1>7 DEF HookForm, Opened, Distinct, C
<1>9. Has(r, content') = C
  BY <1>7, <1>8, HasIs
<1>10. Rest' = Rest
  BY <1>1, <1>2, <1>3, <1>6, <1>7, RestThen DEF Using
<1>11. Spent' = Spent /\ (WithOutcome \cap lost)' = {}
  BY <1>1, <1>3 DEF Spent, WithOutcome
<1>12. PromptTypes'
  <2>1. DOMAIN hook' = HookRuns
    BY <1>1, <1>6 DEF HookIs, PromptTypes
  <2> QED
    BY <1>1, <2>1 DEF PromptTypes
<1>13. r.at \in Using /\ Distinct(content'[i]) /\ r.ino = hook[h].ino
  BY <1>1, <1>3, <1>7 DEF Using
<1>14. /\ Has(r, content') \cup Rest' \cup Spent' = Has(hook[h], content) \cup Rest \cup Spent
       /\ Has(r, content') \cap (Rest' \cup Spent') = {} /\ Rest' \cap Spent' = {}
  BY <1>3, <1>4, <1>9, <1>10, <1>11
<1> QED
  BY <1>1, <1>2, <1>6, <1>8, <1>11, <1>12, <1>13, <1>14, UseSteps

LEMMA WritesKept ==
    ASSUME PromptInv, NEW h \in HookRuns, Writes(h)
    PROVE  PromptInv'
<1>1. /\ PromptTypes /\ HookForm(hook[h], content, Len(asked)) /\ hook[h].at = "write"
      /\ UNCHANGED <<named, asked, settled, lost, sweptUs>>
  BY DEF PromptInv, Writes, HookKept
<1>2. hook[h].at \in Using
  BY <1>1 DEF Using
<1> DEFINE i == hook[h].ino
           st == hook[h].st
           r == [hook[h] EXCEPT !.at = "send", !.ino = NoName, !.st = <<>>]
<1>3. /\ hook[h] \in Hooks /\ i \in Inodes /\ i # NoName /\ (~sweptUs => i = named)
      /\ Has(hook[h], content) \cap (Rest \cup Spent) = {} /\ Rest \cap Spent = {}
      /\ WithOutcome \cap lost = {} /\ Has(hook[h], content) \subseteq Asked /\ (i = named => Rest = {})
  BY <1>2, InUse
<1>4. Has(hook[h], content) = ToSet(st) \cup hook[h].out /\ ToSet(st) \cap hook[h].out = {}
  BY <1>1, HasIs DEF HookForm
<1>5. st \in Seq(Prompts) /\ Distinct(st) /\ (hook[h].kind = "ask" => hook[h].prompt \in 1 .. Len(asked) /\ hook[h].out = {})
  BY <1>1, <1>3 DEF HookForm, Hooks
<1>6. HookIs(h, r) /\ content' = [content EXCEPT ![i] = st]
  BY DEF Writes
<1>7. /\ r \in Hooks /\ r.at = "send" /\ r.kind = hook[h].kind /\ r.ino = NoName /\ r.st = <<>> /\ r.out = hook[h].out
      /\ r.prompt = hook[h].prompt
  <2>1. <<>> \in Seq(Prompts)
    OBVIOUS
  <2> QED
    BY <1>3, <2>1 DEF Hooks
<1> HIDE DEF r, st
<1>8. content' \in [Inodes -> Seq(Prompts)] /\ content'[i] = st /\ \A j \in Inodes \ {i} : content'[j] = content[j]
  BY <1>1, <1>3, <1>5, <1>6 DEF PromptTypes
<1>9. HookForm(r, content', Len(asked))
  BY <1>5, <1>7 DEF HookForm, Opened, Distinct
<1>10. Has(r, content') = hook[h].out
  BY <1>7, <1>9, HasIs
<1>11. (i = named => Rest' = ToSet(st)) /\ (i # named => Rest' = Rest)
  BY <1>1, <1>2, <1>3, <1>6, <1>7, <1>8, RestThen DEF Using
<1>12. Spent' = Spent /\ (WithOutcome \cap lost)' = {}
  BY <1>1, <1>3 DEF Spent, WithOutcome
<1>13. PromptTypes'
  <2>1. DOMAIN hook' = HookRuns
    BY <1>1, <1>6 DEF HookIs, PromptTypes
  <2> QED
    BY <1>1, <1>8, <2>1 DEF PromptTypes
<1>14. r.at \notin Using /\ r.at \notin Holding /\ Distinct(content'[i])
  BY <1>5, <1>7, <1>8 DEF Using, Holding
<1>15. /\ Has(r, content') \cup Rest' \cup Spent' \subseteq Has(hook[h], content) \cup Rest \cup Spent
       /\ ~sweptUs => Has(hook[h], content) \cup Rest \cup Spent \subseteq Has(r, content') \cup Rest' \cup Spent'
       /\ Has(r, content') \cap (Rest' \cup Spent') = {} /\ Rest' \cap Spent' = {}
  BY <1>3, <1>4, <1>10, <1>11, <1>12
<1> QED
  BY <1>1, <1>2, <1>6, <1>8, <1>9, <1>12, <1>13, <1>14, <1>15, UseSteps

LEMMA RemovesKept ==
    ASSUME PromptInv, NEW h \in HookRuns, Removes(h)
    PROVE  PromptInv'
<1>1. /\ PromptTypes /\ HookForm(hook[h], content, Len(asked)) /\ hook[h].at = "remove"
      /\ UNCHANGED <<content, asked, settled, lost, sweptUs>> /\ named' = NoName
  BY DEF PromptInv, Removes, HookKept
<1>2. hook[h].at \in Using
  BY <1>1 DEF Using
<1> DEFINE i == hook[h].ino
           r == [hook[h] EXCEPT !.at = "send", !.ino = NoName]
<1>3. /\ hook[h] \in Hooks /\ i \in Inodes /\ i # NoName /\ (~sweptUs => i = named)
      /\ Has(hook[h], content) \cap (Rest \cup Spent) = {} /\ Rest \cap Spent = {}
      /\ WithOutcome \cap lost = {} /\ Has(hook[h], content) \subseteq Asked /\ (i = named => Rest = {})
  BY <1>2, InUse
<1>4. Has(hook[h], content) = hook[h].out /\ hook[h].kind = "end" /\ hook[h].st = <<>>
  BY <1>1, HasIs DEF HookForm
<1>5. HookIs(h, r)
  BY DEF Removes
<1>6. r \in Hooks /\ r.at = "send" /\ r.kind = "end" /\ r.ino = NoName /\ r.st = <<>> /\ r.out = hook[h].out
  BY <1>3, <1>4 DEF Hooks
<1> HIDE DEF r
<1>7. HookForm(r, content', Len(asked))
  BY <1>6 DEF HookForm, Opened, Distinct
<1>8. Has(r, content') = hook[h].out
  BY <1>6, <1>7, HasIs
<1>9. Rest' = {}
  BY <1>1 DEF Rest, RestOf
<1>10. Spent' = Spent /\ (WithOutcome \cap lost)' = {}
  BY <1>1, <1>3 DEF Spent, WithOutcome
<1>11. PromptTypes'
  <2>1. DOMAIN hook' = HookRuns
    BY <1>1, <1>5 DEF HookIs, PromptTypes
  <2> QED
    BY <1>1, <2>1 DEF PromptTypes
<1>12. r.at \notin Using /\ r.at \notin Holding
  BY <1>6 DEF Using, Holding
<1>13. /\ Has(r, content') \cup Rest' \cup Spent' \subseteq Has(hook[h], content) \cup Rest \cup Spent
       /\ ~sweptUs => Has(hook[h], content) \cup Rest \cup Spent \subseteq Has(r, content') \cup Rest' \cup Spent'
       /\ Has(r, content') \cap (Rest' \cup Spent') = {} /\ Rest' \cap Spent' = {}
  BY <1>3, <1>4, <1>8, <1>9, <1>10
<1>14. named' # hook[h].ino
  BY <1>1, <1>3
<1> QED
  BY <1>1, <1>2, <1>5, <1>7, <1>10, <1>11, <1>12, <1>13, <1>14, UseSteps

LEMMA CountsKept ==
    ASSUME PromptInv, NEW h \in HookRuns, Counts(h)
    PROVE  PromptInv'
<1>1. /\ PromptTypes /\ Apart /\ Unrepeated /\ HookForm(hook[h], content, Len(asked)) /\ hook[h].at = "send"
      /\ UNCHANGED <<named, content, asked, lost, sweptUs>> /\ HookIs(h, IdleHook)
      /\ settled' = [p \in Prompts |-> IF p \in hook[h].out THEN settled[p] + 1 ELSE settled[p]]
  BY DEF PromptInv, Counts, HookKept
<1> DEFINE out == hook[h].out
<1>2. Has(hook[h], content) = out
  BY <1>1, HasIs
<1>3. /\ out \cap (Rest \cup Spent) = {} /\ out \subseteq Asked /\ Rest \cap Spent = {}
      /\ WithOutcome \cap lost = {} /\ Asked \subseteq Prompts
  BY <1>1, <1>2, PromptBounds DEF Apart, Asked, Prompts, PromptTypes
<1>4. \A p \in out : p \in Prompts /\ settled[p] = 0
  <2> SUFFICES ASSUME NEW p \in out PROVE p \in Prompts /\ settled[p] = 0
    OBVIOUS
  <2>1. p \in Prompts /\ p \notin WithOutcome
    BY <1>3 DEF Spent
  <2>2. settled[p] \in 0 .. 1
    BY <1>1, <2>1 DEF PromptTypes
  <2> QED
    BY <2>1, <2>2 DEF WithOutcome
<1>5. \A p \in Prompts : settled[p] \in 0 .. 1 /\ settled'[p] = IF p \in out THEN settled[p] + 1 ELSE settled[p]
  BY <1>1 DEF PromptTypes
<1> HIDE DEF out
<1>6. settled' \in [Prompts -> 0 .. 1]
  <2>1. DOMAIN settled' = Prompts /\ \A p \in Prompts : settled'[p] \in 0 .. 1
    BY <1>1, <1>4, <1>5
  <2> QED
    BY <1>1, <2>1
<1>7. WithOutcome' = WithOutcome \cup out
  BY <1>4, <1>5 DEF WithOutcome
<1>8. Spent' = Spent \cup out /\ (WithOutcome \cap lost)' = {}
  BY <1>1, <1>3, <1>7 DEF Spent
<1>9. hook'[h] = IdleHook /\ DOMAIN hook' = HookRuns /\ \A g \in HookRuns \ {h} : hook'[g] = hook[g]
  BY <1>1 DEF HookIs, PromptTypes
<1>10. IdleHook.at \notin Using /\ IdleHook.at \notin Holding
  BY DEF IdleHook, Using, Holding
<1>11. Rest' = Rest
  <2>1. (\E g \in HookRuns : hook'[g].at \in Using /\ hook'[g].ino = named)
           <=> (\E g \in HookRuns : hook[g].at \in Using /\ hook[g].ino = named)
    BY <1>1, <1>9, <1>10 DEF Using
  <2> QED
    BY <1>1, <2>1 DEF Rest, RestOf
<1>12. PromptTypes'
  BY <1>1, <1>6, <1>9 DEF PromptTypes
<1>13. HookForm(IdleHook, content', Len(asked')) /\ Has(IdleHook, content') = {}
  BY IdleForm
<1>14. /\ Has(IdleHook, content') \cup Rest' \cup Spent' = Has(hook[h], content) \cup Rest \cup Spent \cup (Asked' \ Asked)
       /\ Has(IdleHook, content') \cap (Rest' \cup Spent') = {} /\ Rest' \cap Spent' = {}
  BY <1>1, <1>2, <1>3, <1>8, <1>11, <1>13 DEF Asked
<1>15. Len(asked) <= Len(asked') /\ (named' # NoName => Distinct(content'[named']))
  BY <1>1 DEF PromptTypes, Unrepeated
<1>16. \A g \in HookRuns \ {h} : hook[g].at \in Using =>
               content'[hook[g].ino] = content[hook[g].ino] /\ (~sweptUs => named' = named)
  BY <1>1
<1> QED
  BY <1>1, <1>8, <1>10, <1>12, <1>13, <1>14, <1>15, <1>16, RunSteps

\* A run killed with its file in use leaves the file's prompts there; of those in the middle of a write
\* all are lost.
LEMMA KilledKept ==
    ASSUME PromptInv, NEW h \in HookRuns, HookKilled(h)
    PROVE  PromptInv'
<1>1. /\ PromptTypes /\ HookForm(hook[h], content, Len(asked)) /\ hook[h].at # "idle" /\ HookIs(h, IdleHook)
      /\ UNCHANGED <<named, content, asked, settled, sweptUs>>
  BY DEF PromptInv, HookKilled, HookKept
<1> DEFINE r == hook[h]
           C == ToSet(content[r.ino])
           L == (IF r.at = "write" THEN ToSet(r.st) ELSE {}) \cup (IF r.at \in {"write", "send"} THEN r.out ELSE {})
                \cup (IF r.kind = "ask" /\ r.at # "send" THEN {r.prompt} ELSE {})
<1>2. lost' = lost \cup L
  BY DEF HookKilled
<1>3. IdleHook.at \notin Using /\ IdleHook.at \notin Holding
  BY DEF IdleHook, Using, Holding
<1>4. HookForm(IdleHook, content', Len(asked)) /\ Has(IdleHook, content') = {} /\ Has(IdleHook, content) = {}
      /\ HookForm(IdleHook, content, Len(asked))
  BY IdleForm
<1>5. CASE r.at \notin Using
  <2>1. r.at \in {"open", "lock", "check", "send"}
    BY <1>1, <1>5 DEF HookForm, Hooks, Opened, Using
  <2>2. L = Has(hook[h], content)
    <3>1. CASE r.at = "send"
      BY <1>1, <3>1, HasIs
    <3>2. CASE r.at # "send"
      <4>1. L = Own(r)
        BY <2>1, <3>2 DEF Own
      <4> QED
        BY <1>1, <2>1, <3>2, <4>1, HasIs
    <3> QED
      BY <3>1, <3>2
  <2> HIDE DEF L
  <2>3. lost' = lost \cup (Has(hook[h], content) \ Has(IdleHook, content))
    BY <1>2, <1>4, <2>2
  <2> QED
    BY <1>1, <1>3, <1>4, <1>5, <2>3, RunKeeps
<1>6. CASE r.at \in Using
  <2>1. /\ r \in Hooks /\ r.ino \in Inodes /\ r.ino # NoName /\ Distinct(content[r.ino]) /\ (~sweptUs => r.ino = named)
        /\ Has(r, content) \cap (Rest \cup Spent) = {} /\ Rest \cap Spent = {}
        /\ WithOutcome \cap lost = {} /\ Has(r, content) \subseteq Asked /\ (r.ino = named => Rest = {})
    BY <1>6, InUse
  <2>2. L \cup C = Has(r, content) /\ L \cap C = {}
    <3>1. CASE r.at = "apply"
      <4>1. L = Own(r) /\ Has(r, content) = Own(r) \cup C
        BY <1>1, <3>1, HasIs DEF Own
      <4>2. Own(r) \cap C = {}
        BY <1>1, <3>1 DEF HookForm, Own
      <4> QED
        BY <4>1, <4>2
    <3>2. CASE r.at = "write"
      <4>1. C = {} /\ (r.kind = "ask" => r.prompt \in ToSet(r.st))
        BY <1>1, <3>2 DEF HookForm, ToSet
      <4>2. L = ToSet(r.st) \cup r.out
        BY <3>2, <4>1
      <4> QED
        BY <1>1, <3>2, <4>1, <4>2, HasIs
    <3>3. CASE r.at = "remove"
      <4>1. L = {} /\ r.out = C
        BY <1>1, <3>3 DEF HookForm
      <4> QED
        BY <1>1, <3>3, <4>1, HasIs
    <3> QED
      BY <1>6, <3>1, <3>2, <3>3 DEF Using
  <2> HIDE DEF L
  <2>3. (r.ino = named => Rest' = C) /\ (r.ino # named => Rest' = Rest)
    BY <1>1, <1>3, <1>6, RestThen
  <2> HIDE DEF C
  <2>4. WithOutcome' = WithOutcome /\ Spent' = Spent \cup L
    BY <1>1, <1>2 DEF Spent, WithOutcome
  <2>5. (WithOutcome \cap lost)' = {}
    BY <1>2, <2>1, <2>2, <2>4 DEF Spent
  <2>6. PromptTypes'
    <3>1. DOMAIN hook' = HookRuns
      BY <1>1 DEF HookIs, PromptTypes
    <3>2. L \subseteq Prompts
      BY <1>1, <2>1, <2>2, PromptBounds DEF Asked, Prompts, PromptTypes
    <3> QED
      BY <1>1, <1>2, <3>1, <3>2 DEF PromptTypes
  <2>7. /\ Has(IdleHook, content') \cup Rest' \cup Spent' \subseteq Has(r, content) \cup Rest \cup Spent
        /\ ~sweptUs => Has(r, content) \cup Rest \cup Spent \subseteq Has(IdleHook, content') \cup Rest' \cup Spent'
        /\ Has(IdleHook, content') \cap (Rest' \cup Spent') = {} /\ Rest' \cap Spent' = {}
    BY <1>4, <2>1, <2>2, <2>3, <2>4
  <2>8. named' = r.ino => Distinct(content'[named'])
    BY <1>1, <2>1
  <2> QED
    BY <1>1, <1>3, <1>4, <1>6, <2>5, <2>6, <2>7, <2>8, UseSteps
<1> QED
  BY <1>5, <1>6

\* The other session's sweep takes the name away.
LEMMA SweepKeeps ==
    ASSUME PromptInv, SweepKept, named' \in {named, NoName}, sweptUs' = (sweptUs \/ named' # named)
    PROVE  PromptInv'
<1>1. PromptTypes /\ Apart /\ Unrepeated /\ Exclusive
  BY DEF PromptInv
<1>2. UNCHANGED <<content, hook, asked, settled, lost>>
  BY DEF SweepKept
<1>3. CASE named' = named
  <2>1. sweptUs' = sweptUs
    BY <1>1, <1>3 DEF PromptTypes
  <2>2. PromptTypes' /\ Exclusive' /\ Unrepeated' /\ Rest' = Rest /\ Spent' = Spent
    BY <1>1, <1>2, <1>3, <2>1 DEF PromptTypes, Exclusive, Unrepeated, Rest, Spent, WithOutcome
  <2>3. Apart' /\ Asked' = Asked
    BY <1>1, <1>2, <2>2 DEF Apart, Asked, WithOutcome
  <2>4. ~sweptUs' => Placed'
    BY <1>2, <2>1, <2>2, <2>3 DEF Placed, PromptInv
  <2>5. \A h \in HookRuns : HookForm(hook'[h], content', Len(asked'))
    BY <1>2 DEF PromptInv
  <2> QED
    BY <2>2, <2>3, <2>4, <2>5 DEF PromptInv
<1>4. CASE named' = NoName /\ named' # named
  <2>1. sweptUs' = TRUE
    BY <1>4
  <2>2. PromptTypes' /\ Exclusive' /\ Unrepeated'
    BY <1>1, <1>2, <1>4, <2>1 DEF PromptTypes, Exclusive, Unrepeated
  <2>3. Rest' = {} /\ Spent' = Spent /\ Asked' = Asked /\ (WithOutcome \cap lost)' = WithOutcome \cap lost
    BY <1>2, <1>4 DEF Rest, RestOf, Spent, WithOutcome, Asked
  <2>4. Apart'
    BY <1>1, <1>2, <2>3 DEF Apart
  <2>5. \A h \in HookRuns : HookForm(hook'[h], content', Len(asked'))
    BY <1>2 DEF PromptInv
  <2> QED
    BY <2>1, <2>2, <2>4, <2>5 DEF PromptInv
<1> QED
  BY <1>3, <1>4

LEMMA PromptsKept == PromptInv /\ PromptNext => PromptInv'
<1> SUFFICES ASSUME PromptInv, PromptNext PROVE PromptInv'
  OBVIOUS
<1>1. ASSUME NEW h \in HookRuns, HandleEvent(h) PROVE PromptInv'
  BY <1>1, EventKept
<1>2. ASSUME NEW h \in HookRuns, OpensState(h) PROVE PromptInv'
  BY <1>2, OpensKept
<1>3. ASSUME NEW h \in HookRuns, LocksState(h) PROVE PromptInv'
  BY <1>3, LocksKept
<1>4. ASSUME NEW h \in HookRuns, ChecksName(h) PROVE PromptInv'
  BY <1>4, ChecksKept
<1>5. ASSUME NEW h \in HookRuns, Applies(h) PROVE PromptInv'
  <2>1. hook[h].at = "apply" /\ UNCHANGED <<named, asked, settled, sweptUs>>
    BY <1>5 DEF Applies, HookKept
  <2> QED
    BY <1>5, <2>1, AskKept, RanKept, EndKept DEF Applies
<1>6. ASSUME NEW h \in HookRuns, Writes(h) PROVE PromptInv'
  BY <1>6, WritesKept
<1>7. ASSUME NEW h \in HookRuns, Removes(h) PROVE PromptInv'
  BY <1>7, RemovesKept
<1>8. ASSUME NEW h \in HookRuns, Counts(h) PROVE PromptInv'
  BY <1>8, CountsKept
<1>9. ASSUME NEW h \in HookRuns, HookKilled(h) PROVE PromptInv'
  BY <1>9, KilledKept
<1>10. sweptUs \in BOOLEAN
  BY DEF PromptInv, PromptTypes
<1>11. CASE Ages
  BY <1>10, <1>11, SweepKeeps DEF Ages
<1>12. CASE SweepStats
  BY <1>10, <1>12, SweepKeeps DEF SweepStats
<1>13. CASE SweepLoads
  BY <1>10, <1>13, SweepKeeps DEF SweepLoads
<1>14. CASE SweepRemoves
  <2>1. SweepKept /\ named' = NoName /\ sweptUs' = (sweptUs \/ named # NoName)
    BY <1>14 DEF SweepRemoves
  <2> QED
    BY <1>10, <2>1, SweepKeeps
<1> QED
  BY <1>1, <1>2, <1>3, <1>4, <1>5, <1>6, <1>7, <1>8, <1>9, <1>11, <1>12, <1>13, <1>14 DEF PromptNext

LEMMA PromptsStart == PromptInit => PromptInv
<1> SUFFICES ASSUME PromptInit PROVE PromptInv
  OBVIOUS
<1>1. /\ Len(asked) = 0 /\ asked = <<>> /\ named = NoName /\ lost = {} /\ sweptUs = FALSE
      /\ \A h \in HookRuns : hook[h] = IdleHook
  BY DEF PromptInit
<1>2. PromptTypes
  <2>1. <<>> \in Seq(Prompts) /\ <<>> \in Seq(ToolCalls)
    OBVIOUS
  <2>2. content \in [Inodes -> Seq(Prompts)]
    BY <2>1 DEF PromptInit
  <2>3. settled \in [Prompts -> 0 .. 1]
    BY DEF PromptInit
  <2>4. DOMAIN hook = HookRuns
    BY DEF PromptInit
  <2>5. asked \in Seq(ToolCalls) /\ Len(asked) <= MaxPrompts
    BY <1>1, <2>1, PromptBounds
  <2> QED
    BY <1>1, <2>2, <2>3, <2>4, <2>5 DEF PromptTypes
<1>3. \A h \in HookRuns : HookForm(hook[h], content, Len(asked)) /\ Has(hook[h], content) = {}
  BY <1>1, IdleForm
<1>4. \A h \in HookRuns : hook[h].at = "idle"
  <2>1. IdleHook.at = "idle"
    BY DEF IdleHook
  <2> QED
    BY <1>1, <2>1
<1>5. WithOutcome = {} /\ Spent = {} /\ Rest = {} /\ Asked = {}
  <2>1. WithOutcome = {}
    BY DEF PromptInit, WithOutcome
  <2> QED
    BY <1>1, <2>1 DEF Spent, Rest, RestOf, Asked
<1>6. Exclusive /\ Unrepeated
  BY <1>1, <1>4 DEF Exclusive, Unrepeated, Holding, Using
<1>7. Apart /\ Placed
  BY <1>1, <1>3, <1>5 DEF Apart, Placed
<1> QED
  BY <1>2, <1>3, <1>6, <1>7 DEF PromptInv

LEMMA PromptsAreSettled == PromptInv => PromptsSettled
<1> SUFFICES ASSUME PromptInv PROVE PromptsSettled
  OBVIOUS
<1>1. PromptTypes /\ Apart /\ Exclusive
  BY DEF PromptInv
<1> DEFINE unsettled == Pending \cup UNION {PromptsOf(h) : h \in HookRuns}
<1>2. \A p \in Prompts : settled[p] <= 1
  BY <1>1 DEF PromptTypes
<1>3. ASSUME ~sweptUs
      PROVE  /\ 1..Len(asked) = unsettled \cup WithOutcome \cup lost
             /\ unsettled \cap (WithOutcome \cup lost) = {}
             /\ WithOutcome \cap lost = {}
  <2>1. \A h \in HookRuns : PromptsOf(h) \subseteq Has(hook[h], content)
    BY DEF PromptsOf, Has, Own
  <2>2. \A h \in HookRuns : Has(hook[h], content) \subseteq PromptsOf(h) \cup Pending
    <3> SUFFICES ASSUME NEW h \in HookRuns PROVE Has(hook[h], content) \subseteq PromptsOf(h) \cup Pending
      OBVIOUS
    <3>1. hook[h].at \in Using => hook[h].ino = named /\ named # NoName
      BY <1>3, InUse
    <3> QED
      BY <3>1 DEF PromptsOf, Has, Own, Pending
  <2>3. \A p \in Pending : p \in Rest \/ \E h \in HookRuns : p \in Has(hook[h], content)
    <3>1. CASE \E h \in HookRuns : hook[h].at \in Using /\ hook[h].ino = named
      <4>1. PICK h \in HookRuns : hook[h].at \in Using /\ hook[h].ino = named
        BY <3>1
      <4>2. Pending \subseteq Has(hook[h], content)
        BY <4>1 DEF Pending, Has
      <4> QED
        BY <4>2
    <3>2. CASE ~\E h \in HookRuns : hook[h].at \in Using /\ hook[h].ino = named
      BY <3>2 DEF Rest, RestOf, Pending
    <3> QED
      BY <3>1, <3>2
  <2>4. Rest \subseteq Pending
    BY DEF Rest, RestOf, Pending
  <2>5. /\ \A h \in HookRuns : Has(hook[h], content) \cap Spent = {} /\ Has(hook[h], content) \subseteq Asked
        /\ Rest \cap Spent = {} /\ Rest \subseteq Asked /\ WithOutcome \cap lost = {} /\ Spent \subseteq Asked
        /\ \A p \in Asked : p \in Rest \cup Spent \/ \E h \in HookRuns : p \in Has(hook[h], content)
    BY <1>1, <1>3 DEF Apart, PromptInv, Placed
  <2>6. \A p : p \in unsettled <=> p \in Rest \/ \E h \in HookRuns : p \in Has(hook[h], content)
    BY <2>1, <2>2, <2>3, <2>4
  <2> HIDE DEF unsettled
  <2>7. unsettled \cap Spent = {} /\ unsettled \subseteq Asked /\ Asked \subseteq unsettled \cup Spent
    BY <2>5, <2>6
  <2> QED
    BY <2>5, <2>7 DEF Spent, Asked
<1> QED
  BY <1>2, <1>3 DEF PromptsSettled

\* Parallel hooks, the turn's end and a sweep share the file: a prompt is settled once, and none is
\* forgotten (statsink, toolcost.Handle, sweepStale).
THEOREM PromptsAreCounted == ScopeSpec => []PromptsSettled
<1>1. ScopeInit => PromptInv
  BY PromptsStart DEF ScopeInit
<1>2. PromptInv /\ [ScopeNext]_scopeVars => PromptInv'
  <2>1. PromptInv /\ UNCHANGED promptVars => PromptInv'
    BY DEF promptVars, PromptInv, PromptTypes, Exclusive, Unrepeated, Apart, Placed, HookForm, Has, Own, Rest, RestOf,
           Asked, Spent, WithOutcome
  <2> QED
    BY <2>1, PromptsKept DEF ScopeNext, scopeVars
<1> QED
  BY <1>1, <1>2, PromptsAreSettled, PTL DEF ScopeSpec

-----------------------------------------------------------------------------
(* The transcript, and the replies posted from it.                         *)

Records == [type : {"assistant", "result", "prompt", "compact"}, id : Nat, what : Keys \cup {"text", ""}]

\* The records that are no reply, were posted, or belong to a turn before the first post.
Told == {i \in 1 .. Len(transcript) : IsReply(i) => posted[i] > 0 \/ i \in skipped}

Tees == [at : {"idle", "read", "post", "save"}, from : {NoCursor} \cup Nat, texts : SUBSET Nat, consumed : Nat]

TranscriptTypes ==
    transcript \in Seq(Records) /\ old \in Nat /\ old <= Len(transcript) /\ Len(transcript) <= old + MaxRecords

TeeTypes ==
    /\ TranscriptTypes
    /\ tee \in [TeeRuns -> Tees]
    /\ posted \in [1 .. old + MaxRecords -> 0 .. 2]
    /\ orderly \in BOOLEAN
    /\ cursor \in {NoCursor} \cup Nat

\* What a run r has read of n records, of which those in done are told: up to what it consumed, all but
\* those it is about to post.
TeeForm(r, n, done) ==
    /\ r.at = "read" => r.from <= n /\ 1 .. r.from \subseteq done
    /\ r.at = "post" => /\ r.from <= r.consumed /\ r.consumed <= n
                        /\ \A i \in r.texts : 1 <= i /\ r.from < i /\ i <= r.consumed
                        /\ 1 .. r.consumed \subseteq done \cup r.texts
    /\ r.at = "save" => r.from <= r.consumed /\ r.consumed <= n /\ 1 .. r.consumed \subseteq done

\* Runs that took turns: one of them at a time has work, from the cursor on, and what is posted is before
\* the cursor or about to be.
InTurn ==
    /\ \A t, u \in TeeRuns : tee[t].at # "idle" /\ tee[u].at # "idle" => t = u
    /\ \A t \in TeeRuns : tee[t].at # "idle" => tee[t].from = cursor
    /\ \A i \in DOMAIN posted :
          /\ posted[i] <= 1
          /\ posted[i] > 0 => i <= cursor \/ \E t \in TeeRuns : tee[t].at = "save" /\ i <= tee[t].consumed

TeeInv ==
    /\ TeeTypes
    /\ cursor <= Len(transcript) /\ 1 .. cursor \subseteq Told
    /\ \A t \in TeeRuns : TeeForm(tee[t], Len(transcript), Told)
    /\ orderly => InTurn

LEMMA TeePart == TeeInv => TeedOnce
<1> SUFFICES ASSUME TeeInv PROVE TeedOnce
  OBVIOUS
<1>1. \A i \in 1..cursor : IsReply(i) => posted[i] > 0 \/ i \in skipped
  BY DEF TeeInv, Told
<1>2. orderly => \A i \in DOMAIN posted : posted[i] <= 1
  BY DEF TeeInv, InTurn
<1> QED
  BY <1>1, <1>2 DEF TeedOnce

LEMMA LastOf ==
    ASSUME NEW S \in SUBSET Int, NEW n \in Int, NEW x \in S, \A y \in S : y <= n
    PROVE  Max(S) \in S /\ \A y \in S : y <= Max(S)
<1> DEFINE D == {n - y : y \in S}
<1>1. D \in SUBSET Nat /\ D # {}
  OBVIOUS
<1> HIDE DEF D
<1>2. PICK d \in D : \A e \in D : <<e, d>> \notin OpToRel(<, Nat)
  BY <1>1, NatLessThanWellFounded, WFMin
<1>3. \A e \in D : d <= e
  <2> SUFFICES ASSUME NEW e \in D PROVE d <= e
    OBVIOUS
  <2>1. ~(e < d)
    BY <1>1, <1>2 DEF OpToRel
  <2> QED
    BY <1>1, <2>1
<1>4. PICK z \in S : d = n - z
  BY DEF D
<1>5. \A y \in S : z >= y
  <2> SUFFICES ASSUME NEW y \in S PROVE z >= y
    OBVIOUS
  <2>1. n - y \in D
    BY DEF D
  <2>2. n - z <= n - y
    BY <1>3, <1>4, <2>1
  <2> QED
    BY <2>2
<1>6. \E w \in S : \A y \in S : w >= y
  BY <1>5
<1>7. Max(S) \in S /\ \A y \in S : Max(S) >= y
  BY <1>6 DEF Max
<1> QED
  BY <1>7

\* Some number bounds the ids of a transcript.
LEMMA IdsBounded ==
    ASSUME NEW s \in Seq(Records)
    PROVE  \E m \in Nat : \A i \in 1 .. Len(s) : s[i].id <= m
<1> DEFINE Bad == {n \in Nat : n <= Len(s) /\ ~\E m \in Nat : \A i \in 1 .. n : s[i].id <= m}
<1>1. SUFFICES ASSUME Bad # {} PROVE FALSE
  <2>1. Len(s) \in Nat
    OBVIOUS
  <2>2. Len(s) \notin Bad => \E m \in Nat : \A i \in 1 .. Len(s) : s[i].id <= m
    BY <2>1
  <2> HIDE DEF Bad
  <2> QED
    BY <2>2
<1>2. Bad \in SUBSET Nat
  OBVIOUS
<1> HIDE DEF Bad
<1>3. PICK n \in Bad : \A k \in Bad : <<k, n>> \notin OpToRel(<, Nat)
  BY <1>1, <1>2, NatLessThanWellFounded, WFMin
<1>4. n \in Nat /\ n <= Len(s) /\ ~\E m \in Nat : \A i \in 1 .. n : s[i].id <= m
  BY DEF Bad
<1>5. n # 0
  BY <1>4
<1>6. n - 1 \notin Bad
  <2>1. n - 1 \in Nat /\ n - 1 < n
    BY <1>4, <1>5
  <2>2. n - 1 \in Bad => <<n - 1, n>> \notin OpToRel(<, Nat)
    BY <1>3
  <2>3. <<n - 1, n>> \in OpToRel(<, Nat)
    BY <1>4, <2>1 DEF OpToRel
  <2> QED
    BY <2>2, <2>3
<1>7. PICK m \in Nat : \A i \in 1 .. n - 1 : s[i].id <= m
  <2>1. Len(s) \in Nat /\ n - 1 \in Nat /\ n - 1 <= Len(s)
    BY <1>4, <1>5
  <2> QED
    BY <1>6, <2>1 DEF Bad
<1>8. s[n] \in Records
  BY <1>4, <1>5
<1>9. s[n].id \in Nat /\ m + s[n].id \in Nat
  <2>1. s[n].id \in Nat
    BY <1>8 DEF Records
  <2> QED
    BY <2>1
<1>10. \A i \in 1 .. n : s[i].id <= m + s[n].id
  <2> SUFFICES ASSUME NEW i \in 1 .. n PROVE s[i].id <= m + s[n].id
    OBVIOUS
  <2>1. s[i] \in Records
    BY <1>4
  <2>2. s[i].id \in Nat
    BY <2>1 DEF Records
  <2>3. i = n \/ i \in 1 .. n - 1
    BY <1>4
  <2> QED
    BY <1>7, <1>9, <2>2, <2>3
<1> QED
  BY <1>4, <1>9, <1>10

\* claude appends a record: what the hooks read of the others stands.
LEMMA AppendedTypes ==
    ASSUME TranscriptTypes, Appends
    PROVE  /\ TranscriptTypes' /\ Len(transcript') = Len(transcript) + 1
           /\ \A i \in 1 .. Len(transcript) : transcript'[i] = transcript[i]
           /\ UNCHANGED <<old, costState, costLock, cost, counted, cuts, cursor, tee, posted, skipped, orderly>>
<1> DEFINE ids == {0} \cup {transcript[i].id : i \in {j \in 1..Len(transcript) : IsA(j)}}
<1>1. \E m \in Nat : \A i \in 1 .. Len(transcript) : transcript[i].id <= m
  BY IdsBounded DEF TranscriptTypes
<1>2. \A i \in 1 .. Len(transcript) : transcript[i] \in Records
  BY DEF TranscriptTypes
<1>3. \A i \in 1 .. Len(transcript) : transcript[i].id \in Nat
  BY <1>2 DEF Records
<1>4. ids \in SUBSET Int /\ 0 \in ids /\ \E m \in Int : \A y \in ids : y <= m
  BY <1>1, <1>3
<1>5. LastId = Max(ids)
  BY DEF LastId
<1> HIDE DEF ids
<1>6. LastId \in ids /\ 0 <= LastId
  BY <1>4, <1>5, LastOf
<1>7. LastId \in Nat /\ LastId + 1 \in Nat
  BY <1>4, <1>6
<1>8. \/ \E id \in Nat, what \in Keys \cup {"text"} : transcript' = Append(transcript, Assistant(id, what))
      \/ \E i \in 1..Len(transcript) : transcript' = Append(transcript, Result(i))
      \/ \E rec \in {Prompt, Compact} : transcript' = Append(transcript, rec)
  BY <1>7 DEF Appends
<1>9. \E rec \in Records : transcript' = Append(transcript, rec)
  <2>1. \A id \in Nat, what \in Keys \cup {"text"} : Assistant(id, what) \in Records
    BY DEF Assistant, Records
  <2>2. \A i \in 1..Len(transcript) : Result(i) \in Records
    BY DEF Result, Records
  <2>3. Prompt \in Records /\ Compact \in Records
    BY DEF Prompt, Compact, Records
  <2> QED
    BY <1>8, <2>1, <2>2, <2>3
<1>10. transcript' \in Seq(Records) /\ Len(transcript') = Len(transcript) + 1
       /\ \A i \in 1 .. Len(transcript) : transcript'[i] = transcript[i]
  BY <1>8, <1>9 DEF TranscriptTypes
<1>11. UNCHANGED <<old, costState, costLock, cost, counted, cuts, cursor, tee, posted, skipped, orderly>>
  BY DEF Appends
<1>12. Len(transcript) + 1 <= old + MaxRecords /\ old <= Len(transcript) + 1
  BY HooksAssumption DEF Appends, TranscriptTypes
<1> QED
  BY <1>10, <1>11, <1>12 DEF TranscriptTypes

LEMMA TranscriptStarts == HooksInit => TranscriptTypes
<1> SUFFICES ASSUME HooksInit PROVE TranscriptTypes
  OBVIOUS
<1>1. Prompt \in Records /\ Assistant(1, "text") \in Records /\ Assistant(2, "text") \in Records
  BY DEF Prompt, Assistant, Records
<1>2. Result(1) \in Records
  BY DEF Result, Records
<1>3. \A k \in Keys : Assistant(1, k) \in Records
  BY DEF Assistant, Records
<1>4. <<>> \in Seq(Records)
  OBVIOUS
<1>5. <<Prompt, Assistant(1, "text"), Prompt>> \in Seq(Records)
  BY <1>1
<1>6. \A k \in Keys : <<Assistant(1, k), Result(1), Assistant(2, "text")>> \in Seq(Records)
  BY <1>1, <1>2, <1>3
<1>7. transcript \in Seq(Records)
  BY <1>4, <1>5, <1>6 DEF HooksInit
<1>8. Len(transcript) \in Nat
  BY <1>7
<1> QED
  BY <1>7, <1>8, HooksAssumption DEF TranscriptTypes, HooksInit

LEMMA TeeStarts == HooksInit => TeeInv
<1> SUFFICES ASSUME HooksInit PROVE TeeInv
  OBVIOUS
<1>1. TranscriptTypes
  BY TranscriptStarts
<1>2. tee \in [TeeRuns -> Tees]
  BY DEF HooksInit, IdleTee, Tees, NoCursor
<1>3. posted \in [1 .. old + MaxRecords -> 0 .. 2] /\ \A i \in DOMAIN posted : posted[i] = 0
  BY DEF HooksInit
<1>4. cursor = NoCursor /\ orderly = TRUE /\ \A t \in TeeRuns : tee[t].at = "idle"
  BY DEF HooksInit, IdleTee
<1>5. cursor <= Len(transcript) /\ 1 .. cursor \subseteq Told
  BY <1>1, <1>4 DEF NoCursor, TranscriptTypes
<1>6. InTurn
  BY <1>3, <1>4 DEF InTurn
<1> QED
  BY <1>1, <1>2, <1>3, <1>4, <1>5, <1>6 DEF TeeInv, TeeTypes, TeeForm

\* More records, and more that is told, leave a run's form.
LEMMA FormStays ==
    ASSUME NEW r \in Tees, NEW n \in Nat, NEW m \in Nat, n <= m, NEW C, NEW D, C \subseteq D, TeeForm(r, n, C)
    PROVE  TeeForm(r, m, D)
<1>1. r.consumed \in Nat /\ r.from \in Int
  BY DEF Tees, NoCursor
<1>2. r.at = "read" => r.from <= m /\ 1 .. r.from \subseteq D
  BY <1>1 DEF TeeForm
<1>3. r.at = "post" => /\ r.from <= r.consumed /\ r.consumed <= m
                       /\ \A i \in r.texts : 1 <= i /\ r.from < i /\ i <= r.consumed
                       /\ 1 .. r.consumed \subseteq D \cup r.texts
  BY <1>1 DEF TeeForm
<1>4. r.at = "save" => r.from <= r.consumed /\ r.consumed <= m /\ 1 .. r.consumed \subseteq D
  BY <1>1 DEF TeeForm
<1> QED
  BY <1>2, <1>3, <1>4 DEF TeeForm

\* A step of run t that keeps what is told.
LEMMA TeeMoves ==
    ASSUME TeeInv, NEW t \in TeeRuns, NEW r \in Tees, Tee(t, r), TeeTypes',
           UNCHANGED <<transcript, old>>, Told \subseteq Told', cursor' <= Len(transcript), 1 .. cursor' \subseteq Told',
           TeeForm(r, Len(transcript), Told'), orderly' => InTurn'
    PROVE  TeeInv'
<1>1. TeeTypes /\ \A u \in TeeRuns : TeeForm(tee[u], Len(transcript), Told)
  BY DEF TeeInv
<1>2. tee' = [tee EXCEPT ![t] = r] /\ \A u \in TeeRuns : tee[u] \in Tees
  BY <1>1 DEF Tee, TeeTypes
<1>3. Len(transcript) \in Nat
  BY <1>1 DEF TeeTypes, TranscriptTypes
<1>4. \A u \in TeeRuns : TeeForm(tee'[u], Len(transcript), Told')
  <2> SUFFICES ASSUME NEW u \in TeeRuns PROVE TeeForm(tee'[u], Len(transcript), Told')
    OBVIOUS
  <2>1. CASE u = t
    <3>1. tee'[u] = r
      BY <1>1, <1>2, <2>1 DEF TeeTypes
    <3> QED
      BY <3>1
  <2>2. CASE u # t
    <3>1. tee'[u] = tee[u]
      BY <1>1, <1>2, <2>2 DEF TeeTypes
    <3>2. TeeForm(tee[u], Len(transcript), Told')
      BY <1>1, <1>2, <1>3, FormStays
    <3> QED
      BY <3>1, <3>2
  <2> QED
    BY <2>1, <2>2
<1> QED
  BY <1>4 DEF TeeInv

\* A post is counted once or more often.
LEMMA OnceOrMore ==
    ASSUME NEW n \in 0 .. 2
    PROVE  Min({n + 1, 2}) \in 1 .. 2 /\ (n = 0 => Min({n + 1, 2}) = 1)
<1> DEFINE S == {n + 1, 2}
<1>1. S \in SUBSET Nat /\ S # {} /\ n + 1 \in S /\ \A y \in S : y \in 1 .. 2 \/ n = 2
  OBVIOUS
<1>2. \A y \in S : y = n + 1 \/ y = 2
  OBVIOUS
<1>3. 2 \in S
  OBVIOUS
<1> HIDE DEF S
<1>4. Min(S) \in S /\ Min(S) <= n + 1 /\ Min(S) <= 2
  BY <1>1, <1>3, FirstOf
<1>5. Min(S) \in 1 .. 2 /\ (n = 0 => Min(S) = 1)
  BY <1>2, <1>4
<1> QED
  BY <1>5 DEF S

LEMMA TeeAppends == TeeInv /\ Appends => TeeInv'
<1> SUFFICES ASSUME TeeInv, Appends PROVE TeeInv'
  OBVIOUS
<1>1. TeeTypes /\ \A t \in TeeRuns : TeeForm(tee[t], Len(transcript), Told)
  BY DEF TeeInv
<1>2. /\ TranscriptTypes' /\ Len(transcript') = Len(transcript) + 1
      /\ \A i \in 1 .. Len(transcript) : transcript'[i] = transcript[i]
      /\ UNCHANGED <<old, cursor, tee, posted, skipped, orderly>>
  BY <1>1, AppendedTypes DEF TeeTypes
<1>3. Len(transcript) \in Nat /\ Len(transcript') \in Nat
  BY <1>1, <1>2 DEF TeeTypes, TranscriptTypes
<1>4. Told \subseteq Told'
  BY <1>2, <1>3 DEF Told, IsReply, IsA
<1>5. \A t \in TeeRuns : TeeForm(tee[t], Len(transcript'), Told')
  <2> SUFFICES ASSUME NEW t \in TeeRuns PROVE TeeForm(tee[t], Len(transcript'), Told')
    OBVIOUS
  <2>1. tee[t] \in Tees
    BY <1>1 DEF TeeTypes
  <2> QED
    BY <1>1, <1>2, <1>3, <1>4, <2>1, FormStays
<1>6. TeeTypes'
  BY <1>1, <1>2 DEF TeeTypes
<1>7. orderly => InTurn'
  BY <1>2 DEF TeeInv, InTurn
<1>8. cursor <= Len(transcript') /\ 1 .. cursor \subseteq Told'
  <2>1. cursor \in Int /\ cursor <= Len(transcript) /\ 1 .. cursor \subseteq Told
    BY <1>1 DEF TeeInv, TeeTypes, NoCursor
  <2> QED
    BY <1>2, <1>3, <1>4, <2>1
<1> QED
  BY <1>2, <1>5, <1>6, <1>7, <1>8 DEF TeeInv

\* A run that ends without a save leaves the rest as it is.
LEMMA TeeRests ==
    ASSUME TeeInv, NEW t \in TeeRuns, Tee(t, IdleTee), UNCHANGED <<transcript, old, cursor, posted, skipped>>,
           orderly' = FALSE \/ (orderly' = orderly /\ tee[t].at = "post")
    PROVE  TeeInv'
<1>1. /\ TeeTypes /\ cursor <= Len(transcript) /\ 1 .. cursor \subseteq Told /\ (orderly => InTurn)
  BY DEF TeeInv
<1>2. IdleTee \in Tees /\ IdleTee.at = "idle"
  BY DEF IdleTee, Tees, NoCursor
<1>3. tee' = [tee EXCEPT ![t] = IdleTee] /\ tee'[t] = IdleTee /\ \A u \in TeeRuns : u # t => tee'[u] = tee[u]
  BY <1>1 DEF Tee, TeeTypes
<1>4. Told' = Told
  BY DEF Told, IsReply, IsA
<1>5. TeeTypes'
  BY <1>1, <1>2, <1>3 DEF TeeTypes, TranscriptTypes
<1>6. orderly' => InTurn'
  <2> SUFFICES ASSUME orderly, tee[t].at = "post" PROVE InTurn'
    BY <1>1 DEF TeeTypes
  <2>1. /\ \A u \in TeeRuns : tee[u].at # "idle" => u = t
        /\ \A i \in DOMAIN posted : posted[i] <= 1 /\ (posted[i] > 0 => i <= cursor)
    BY <1>1 DEF InTurn
  <2> QED
    BY <1>2, <1>3, <2>1 DEF InTurn
<1>7. TeeForm(IdleTee, Len(transcript), Told')
  BY <1>2 DEF TeeForm
<1> QED
  BY <1>1, <1>2, <1>4, <1>5, <1>6, <1>7, TeeMoves

LEMMA RepliesKept == TeeInv /\ TeeNext => TeeInv'
<1> SUFFICES ASSUME TeeInv, TeeNext PROVE TeeInv'
  OBVIOUS
<1>1. /\ TeeTypes /\ TranscriptTypes /\ Len(transcript) \in Nat /\ cursor \in Int
      /\ cursor <= Len(transcript) /\ 1 .. cursor \subseteq Told /\ (orderly => InTurn)
  BY DEF TeeInv, TeeTypes, TranscriptTypes, NoCursor
<1>2. \A t \in TeeRuns : tee[t] \in Tees /\ TeeForm(tee[t], Len(transcript), Told)
  BY <1>1 DEF TeeInv, TeeTypes
<1>3. \A t \in TeeRuns : /\ tee[t].from \in {NoCursor} \cup Nat /\ tee[t].from \in Int /\ tee[t].consumed \in Nat
                         /\ tee[t].texts \in SUBSET Nat /\ tee[t].at \in {"idle", "read", "post", "save"}
  BY <1>2 DEF Tees, NoCursor
<1>4. CASE Appends
  BY <1>4, TeeAppends
<1>5. ASSUME NEW t \in TeeRuns, TeeLoads(t) PROVE TeeInv'
  <2> DEFINE r == [IdleTee EXCEPT !.at = "read", !.from = cursor]
  <2>1. r \in Tees /\ r.at = "read" /\ r.from = cursor
    BY <1>1 DEF IdleTee, Tees, TeeTypes, NoCursor
  <2>2. /\ Tee(t, r) /\ UNCHANGED <<transcript, old, cursor, posted, skipped>>
        /\ orderly' = (orderly /\ \A u \in TeeRuns : tee[u].at = "idle")
    BY <1>5 DEF TeeLoads, CostKept
  <2> HIDE DEF r
  <2>3. tee' = [tee EXCEPT ![t] = r] /\ tee'[t] = r /\ \A u \in TeeRuns : u # t => tee'[u] = tee[u]
    BY <1>1, <2>2 DEF Tee, TeeTypes
  <2>4. Told' = Told
    BY <2>2 DEF Told, IsReply, IsA
  <2>5. TeeTypes'
    BY <1>1, <2>1, <2>2, <2>3 DEF TeeTypes, TranscriptTypes
  <2>6. TeeForm(r, Len(transcript), Told')
    BY <1>1, <2>1, <2>4 DEF TeeForm
  <2>7. orderly' => InTurn'
    BY <1>1, <2>1, <2>2, <2>3 DEF InTurn
  <2> QED
    BY <1>1, <2>1, <2>2, <2>4, <2>5, <2>6, <2>7, TeeMoves
<1>6. ASSUME NEW t \in TeeRuns, TeeReads(t) PROVE TeeInv'
  <2> DEFINE texts == extractSince(tee[t].from)
             r == [tee[t] EXCEPT !.at = IF texts = {} THEN "save" ELSE "post", !.texts = texts,
                                 !.consumed = Len(transcript)]
             replies == {i \in 1..Len(transcript) : IsReply(i)}
  <2>1. /\ tee[t].at = "read" /\ Tee(t, r) /\ UNCHANGED <<transcript, old, cursor, posted, orderly>>
        /\ skipped' = IF tee[t].from # NoCursor THEN skipped ELSE skipped \cup (replies \ texts)
    BY <1>6 DEF TeeReads, CostKept
  <2>2. tee[t].from <= Len(transcript) /\ 1 .. tee[t].from \subseteq Told
    BY <1>2, <2>1 DEF TeeForm
  <2>3. PICK first \in Nat : /\ texts = {i \in first + 1..Len(transcript) : IsReply(i)}
                             /\ tee[t].from # NoCursor => first = tee[t].from
    <3> DEFINE S == {0} \cup {i \in 1..Len(transcript) : transcript[i].type = "prompt"}
    <3>1. S \in SUBSET Int /\ 0 \in S /\ \A y \in S : y <= Len(transcript) /\ y \in Nat
      BY <1>1
    <3>2. extractSince(tee[t].from) =
             LET first == IF tee[t].from # NoCursor THEN tee[t].from ELSE Max(S)
             IN {i \in first + 1..Len(transcript) : IsReply(i)}
      BY DEF extractSince
    <3> HIDE DEF S
    <3>3. Max(S) \in Nat
      <4>1. S \in SUBSET Int /\ Len(transcript) \in Int /\ \A y \in S : y <= Len(transcript)
        BY <1>1, <3>1
      <4>2. Max(S) \in S
        BY <3>1, <4>1, LastOf
      <4> QED
        BY <3>1, <4>2
    <3>4. tee[t].from # NoCursor => tee[t].from \in Nat
      BY <1>3
    <3> QED
      BY <3>2, <3>3, <3>4
  <2>4. texts \in SUBSET Nat /\ texts \subseteq replies /\ \A i \in texts : 1 <= i /\ i <= Len(transcript) /\ first < i
    BY <1>1, <2>3
  <2> HIDE DEF texts
  <2>5. /\ r \in Tees /\ r.at \in {"save", "post"} /\ (r.at = "save" <=> texts = {}) /\ r.texts = texts
        /\ r.consumed = Len(transcript) /\ r.from = tee[t].from
    BY <1>1, <1>2, <2>4 DEF Tees
  <2> HIDE DEF r
  <2>6. tee' = [tee EXCEPT ![t] = r] /\ tee'[t] = r /\ \A u \in TeeRuns : u # t => tee'[u] = tee[u]
    BY <1>1, <2>1 DEF Tee, TeeTypes
  <2>7. Told \subseteq Told'
    BY <2>1 DEF Told, IsReply, IsA
  <2>8. 1 .. Len(transcript) \subseteq Told' \cup texts
    <3> SUFFICES ASSUME NEW i \in 1 .. Len(transcript), i \notin texts PROVE i \in Told'
      OBVIOUS
    <3>1. CASE ~IsReply(i)
      BY <2>1, <3>1 DEF Told, IsReply, IsA
    <3>2. CASE IsReply(i) /\ tee[t].from = NoCursor
      BY <2>1, <3>2 DEF Told, IsReply, IsA
    <3>3. CASE IsReply(i) /\ tee[t].from # NoCursor
      <4>1. first = tee[t].from /\ ~(first < i)
        BY <2>3, <3>3
      <4>2. i \in 1 .. tee[t].from
        BY <1>3, <4>1
      <4> QED
        BY <2>2, <2>7, <4>2
    <3> QED
      BY <3>1, <3>2, <3>3
  <2>9. TeeForm(r, Len(transcript), Told')
    <3>1. tee[t].from <= Len(transcript) /\ \A i \in texts : tee[t].from < i
      BY <1>3, <2>2, <2>3, <2>4 DEF NoCursor
    <3>2. r.at = "post" => \A i \in r.texts : 1 <= i /\ r.from < i /\ i <= r.consumed
      BY <2>4, <2>5, <3>1
    <3>3. 1 .. r.consumed \subseteq Told' \cup r.texts /\ (r.at = "save" => 1 .. r.consumed \subseteq Told')
      BY <2>5, <2>8
    <3>4. r.from <= r.consumed /\ r.consumed <= Len(transcript) /\ r.at # "read"
      BY <1>1, <2>5, <3>1
    <3> QED
      BY <3>2, <3>3, <3>4 DEF TeeForm
  <2>10. TeeTypes'
    BY <1>1, <2>1, <2>5, <2>6 DEF TeeTypes, TranscriptTypes
  <2>11. orderly' => InTurn'
    <3> SUFFICES ASSUME orderly PROVE InTurn'
      BY <2>1
    <3>1. /\ \A u \in TeeRuns : tee[u].at # "idle" => u = t
          /\ tee[t].from = cursor
          /\ \A i \in DOMAIN posted : posted[i] <= 1 /\ (posted[i] > 0 => i <= cursor)
      BY <1>1, <2>1 DEF InTurn
    <3> QED
      BY <2>1, <2>5, <2>6, <3>1 DEF InTurn
  <2> QED
    BY <1>1, <2>1, <2>5, <2>7, <2>9, <2>10, <2>11, TeeMoves
<1>7. ASSUME NEW t \in TeeRuns, TeePosts(t) PROVE TeeInv'
  <2>1. tee[t].at = "post" /\ UNCHANGED <<transcript, old, cursor, skipped, orderly>>
    BY <1>7 DEF TeePosts, CostKept
  <2>2. /\ tee[t].from <= tee[t].consumed /\ tee[t].consumed <= Len(transcript)
        /\ \A i \in tee[t].texts : 1 <= i /\ tee[t].from < i /\ i <= tee[t].consumed
        /\ 1 .. tee[t].consumed \subseteq Told \cup tee[t].texts
    BY <1>2, <2>1 DEF TeeForm
  <2>3. ASSUME posted' = [i \in DOMAIN posted |-> IF i \in tee[t].texts THEN Min({posted[i] + 1, 2}) ELSE posted[i]],
               Tee(t, [tee[t] EXCEPT !.at = "save"])
        PROVE  TeeInv'
    <3> DEFINE r == [tee[t] EXCEPT !.at = "save"]
    <3>1. r \in Tees /\ r.at = "save" /\ r.from = tee[t].from /\ r.consumed = tee[t].consumed
      BY <1>2 DEF Tees
    <3>2. Tee(t, r)
      BY <2>3
    <3> HIDE DEF r
    <3>3. tee' = [tee EXCEPT ![t] = r] /\ tee'[t] = r /\ \A u \in TeeRuns : u # t => tee'[u] = tee[u]
      BY <1>1, <3>2 DEF Tee, TeeTypes
    <3>4. /\ DOMAIN posted' = DOMAIN posted /\ DOMAIN posted = 1 .. old + MaxRecords
          /\ \A i \in DOMAIN posted : posted[i] \in 0 .. 2
          /\ \A i \in DOMAIN posted : i \notin tee[t].texts => posted'[i] = posted[i]
          /\ \A i \in DOMAIN posted : i \in tee[t].texts => posted'[i] = Min({posted[i] + 1, 2})
      BY <1>1, <2>3 DEF TeeTypes
    <3>5. \A i \in DOMAIN posted : i \in tee[t].texts =>
             posted'[i] \in 1 .. 2 /\ (posted[i] = 0 => posted'[i] = 1)
      <4> SUFFICES ASSUME NEW i \in DOMAIN posted, i \in tee[t].texts
                   PROVE  posted'[i] \in 1 .. 2 /\ (posted[i] = 0 => posted'[i] = 1)
        OBVIOUS
      <4>1. posted'[i] = Min({posted[i] + 1, 2})
        BY <2>3
      <4>2. posted[i] \in 0 .. 2
        BY <3>4
      <4>3. Min({posted[i] + 1, 2}) \in 1 .. 2 /\ (posted[i] = 0 => Min({posted[i] + 1, 2}) = 1)
        BY <4>2, OnceOrMore
      <4> QED
        BY <4>1, <4>3
    <3>6. posted' \in [1 .. old + MaxRecords -> 0 .. 2]
      <4>1. \A i \in DOMAIN posted : posted'[i] \in 0 .. 2
        BY <3>4, <3>5
      <4> QED
        BY <2>3, <3>4, <4>1
    <3>7. Told \subseteq Told' /\ 1 .. tee[t].consumed \subseteq Told'
      <4>1. \A i \in 1 .. Len(transcript) : i \in DOMAIN posted
        BY <1>1, <3>4, HooksAssumption DEF TranscriptTypes
      <4>2. Told \subseteq Told'
        BY <2>1, <3>4, <3>5, <4>1 DEF Told, IsReply, IsA
      <4>3. \A i \in tee[t].texts : i \in 1 .. Len(transcript)
        BY <1>1, <1>3, <2>2
      <4>4. tee[t].texts \subseteq Told'
        BY <2>1, <3>5, <4>1, <4>3 DEF Told, IsReply, IsA
      <4> QED
        BY <2>2, <4>2, <4>4
    <3>8. TeeForm(r, Len(transcript), Told')
      BY <2>2, <3>1, <3>7 DEF TeeForm
    <3>9. TeeTypes'
      BY <1>1, <2>1, <3>1, <3>3, <3>6 DEF TeeTypes, TranscriptTypes
    <3>10. orderly' => InTurn'
      <4> SUFFICES ASSUME orderly PROVE InTurn'
        BY <2>1
      <4>1. /\ \A u \in TeeRuns : tee[u].at # "idle" => u = t
            /\ tee[t].from = cursor
            /\ \A i \in DOMAIN posted : posted[i] <= 1 /\ (posted[i] > 0 => i <= cursor)
        BY <1>1, <2>1 DEF InTurn
      <4>2. \A u \in TeeRuns : tee'[u].at # "idle" => u = t
        BY <3>3, <4>1
      <4>3. tee'[t].from = cursor' /\ tee'[t].at = "save" /\ tee'[t].consumed = tee[t].consumed
        BY <2>1, <3>1, <3>3, <4>1
      <4>4. \A i \in DOMAIN posted : i \in tee[t].texts => posted'[i] = 1 /\ i <= tee[t].consumed
        <5> SUFFICES ASSUME NEW i \in DOMAIN posted, i \in tee[t].texts PROVE posted'[i] = 1 /\ i <= tee[t].consumed
          OBVIOUS
        <5>1. i \in Nat /\ cursor < i /\ i <= tee[t].consumed
          BY <1>3, <2>2, <4>1
        <5>2. posted[i] = 0
          BY <1>1, <3>4, <4>1, <5>1
        <5> QED
          BY <3>5, <5>1, <5>2
      <4>5. \A i \in DOMAIN posted' : posted'[i] <= 1 /\ (posted'[i] > 0 => i <= cursor' \/ i <= tee'[t].consumed)
        BY <2>1, <3>4, <4>1, <4>3, <4>4
      <4>6. \A u \in TeeRuns : tee'[u].at # "idle" => tee'[u].from = cursor'
        BY <4>2, <4>3
      <4>7. \A i \in DOMAIN posted' :
               /\ posted'[i] <= 1
               /\ posted'[i] > 0 => i <= cursor' \/ \E u \in TeeRuns : tee'[u].at = "save" /\ i <= tee'[u].consumed
        BY <4>3, <4>5
      <4>8. \A u, v \in TeeRuns : tee'[u].at # "idle" /\ tee'[v].at # "idle" => u = v
        BY <4>2
      <4> QED
        BY <4>6, <4>7, <4>8 DEF InTurn
    <3> QED
      BY <1>1, <2>1, <3>1, <3>2, <3>7, <3>8, <3>9, <3>10, TeeMoves
  <2>4. CASE Tee(t, IdleTee) /\ UNCHANGED posted
    BY <1>1, <2>1, <2>4, TeeRests
  <2> QED
    BY <1>7, <2>3, <2>4 DEF TeePosts
<1>8. ASSUME NEW t \in TeeRuns, TeeSaves(t) PROVE TeeInv'
  <2>1. /\ tee[t].at = "save" /\ cursor' = tee[t].consumed /\ Tee(t, IdleTee)
        /\ UNCHANGED <<transcript, old, posted, skipped, orderly>>
    BY <1>8 DEF TeeSaves, CostKept
  <2>2. tee[t].from <= tee[t].consumed /\ tee[t].consumed <= Len(transcript) /\ 1 .. tee[t].consumed \subseteq Told
    BY <1>2, <2>1 DEF TeeForm
  <2>3. IdleTee \in Tees /\ IdleTee.at = "idle"
    BY DEF IdleTee, Tees, NoCursor
  <2>4. tee' = [tee EXCEPT ![t] = IdleTee] /\ tee'[t] = IdleTee /\ \A u \in TeeRuns : u # t => tee'[u] = tee[u]
    BY <1>1, <2>1 DEF Tee, TeeTypes
  <2>5. Told' = Told
    BY <2>1 DEF Told, IsReply, IsA
  <2>6. TeeTypes'
    BY <1>1, <1>3, <2>1, <2>3, <2>4 DEF TeeTypes, TranscriptTypes
  <2>7. orderly' => InTurn'
    <3> SUFFICES ASSUME orderly PROVE InTurn'
      BY <2>1
    <3>1. /\ \A u \in TeeRuns : tee[u].at # "idle" => u = t
          /\ tee[t].from = cursor
          /\ \A i \in DOMAIN posted : posted[i] <= 1 /\ (posted[i] > 0 => i <= cursor \/ i <= tee[t].consumed)
      BY <1>1, <2>1 DEF InTurn
    <3>2. \A i \in DOMAIN posted' : posted'[i] <= 1 /\ (posted'[i] > 0 => i <= cursor')
      <4>1. DOMAIN posted = 1 .. old + MaxRecords
        BY <1>1 DEF TeeTypes
      <4>2. \A i \in DOMAIN posted : i <= cursor => i <= tee[t].consumed
        BY <1>1, <1>3, <2>2, <3>1, <4>1
      <4> QED
        BY <2>1, <3>1, <4>2
    <3>3. \A u \in TeeRuns : tee'[u].at = "idle"
      BY <2>3, <2>4, <3>1
    <3> QED
      BY <3>2, <3>3 DEF InTurn
  <2>8. TeeForm(IdleTee, Len(transcript), Told')
    BY <2>3 DEF TeeForm
  <2>9. cursor' <= Len(transcript) /\ 1 .. cursor' \subseteq Told'
    BY <2>1, <2>2, <2>5
  <2> QED
    BY <2>1, <2>3, <2>5, <2>6, <2>7, <2>8, <2>9, TeeMoves
<1>9. ASSUME NEW t \in TeeRuns, TeeKilled(t) PROVE TeeInv'
  <2>1. orderly' = FALSE /\ Tee(t, IdleTee) /\ UNCHANGED <<transcript, old, cursor, posted, skipped>>
    BY <1>9 DEF TeeKilled, CostKept
  <2> QED
    BY <2>1, TeeRests
<1> QED
  BY <1>4, <1>5, <1>6, <1>7, <1>8, <1>9 DEF TeeNext

LEMMA TeeUntouched ==
    ASSUME TeeInv, UNCHANGED <<transcript, old, cursor, tee, posted, skipped, orderly>>
    PROVE  TeeInv'
BY DEF TeeInv, TeeTypes, TranscriptTypes, Told, IsReply, IsA, InTurn

\* The hook that counts leaves the other's cursor and posts alone.
LEMMA RepliesStay == TeeInv /\ CostNext => TeeInv'
<1> SUFFICES ASSUME TeeInv, CostNext PROVE TeeInv'
  OBVIOUS
<1>1. CASE Appends
  BY <1>1, TeeAppends
<1>2. ASSUME NEW c \in CostRuns,
             \/ CostStarts(c) \/ CostLocks(c) \/ CostReads(c) \/ CostScans(c) \/ CostSaves(c) \/ CostSends(c) \/ CostKilled(c)
      PROVE  TeeInv'
  BY <1>2, TeeUntouched DEF CostStarts, CostLocks, CostReads, CostScans, CostSaves, CostSends, CostKilled, TeeKept
<1> QED
  BY <1>1, <1>2 DEF CostNext

\* Every reply before the cursor was posted or belongs to a turn before the first post, and none is posted
\* twice by runs that took turns (extractSince, saveCursor).
THEOREM RepliesArePosted == ScopeSpec => []TeedOnce
<1>1. ScopeInit => TeeInv
  BY TeeStarts DEF ScopeInit
<1>2. TeeInv /\ [ScopeNext]_scopeVars => TeeInv'
  <2>1. TeeInv /\ UNCHANGED hookVars => TeeInv'
    BY TeeUntouched DEF hookVars
  <2> QED
    BY <2>1, RepliesKept, RepliesStay DEF ScopeNext, scopeVars
<1> QED
  BY <1>1, <1>2, TeePart, PTL DEF ScopeSpec
-----------------------------------------------------------------------------
(***************************************************************************)
(* The hook that counts. What the first n records of a transcript t are    *)
(* worth, with the cuts d, is said of every prefix, so that it can be      *)
(* followed record by record; a run of the hook holds what the records it  *)
(* has read are worth, less what is still open (RunnerAt).                 *)
(***************************************************************************)

Asst(t, i) == t[i].type = "assistant"
Res(t, i) == t[i].type = "result"
Comp(t, i) == t[i].type = "compact"
CallOf(t, k, i) == Asst(t, i) /\ t[i].what = k
ResultOf(t, k, i) == Res(t, i) /\ t[t[i].id].what = k

\* A response begins at a record whose id is new, or new since a compaction or a cut.
EndsAt(t, d, m) == m \in d \/ Comp(t, m)
Begin(t, d, i) ==
    /\ Asst(t, i)
    /\ \A j \in 1 .. i - 1 : Asst(t, j) /\ t[j].id = t[i].id => \E m \in j .. i - 1 : EndsAt(t, d, m)

\* Ids are in order, and a result is of an earlier call that no other result is of.
WellFormed(t) ==
    /\ t \in Seq(Records)
    /\ \A i, j \in 1 .. Len(t) : i < j /\ Asst(t, i) /\ Asst(t, j) => t[i].id <= t[j].id
    /\ \A i \in 1 .. Len(t) :
          /\ Asst(t, i) => t[i].id > 0
          /\ Res(t, i) => t[i].id \in 1 .. i - 1 /\ Asst(t, t[i].id) /\ t[t[i].id].what \in Keys
    /\ \A i, j \in 1 .. Len(t) : Res(t, i) /\ Res(t, j) /\ t[i].id = t[j].id => i = j

\* No response goes on past the first n records.
Fresh(t, d, n) ==
    \A j \in 1 .. n : Asst(t, j) =>
        \/ \E m \in j .. n : EndsAt(t, d, m)
        \/ n + 1 <= Len(t) /\ (Comp(t, n + 1) \/ (Asst(t, n + 1) /\ t[n + 1].id # t[j].id))

\* The last response of n records, and the tools it called.
LastBegin(t, d, g, n) == g \in 1 .. n /\ Begin(t, d, g) /\ \A s \in g + 1 .. n : ~Begin(t, d, s)
KeysAt(t, d, n) ==
    {k \in Keys : \E g \in 1 .. n : LastBegin(t, d, g, n) /\ \E c \in g .. n : CallOf(t, k, c)}

\* The calls without a result, and those whose result no response has read.
Unanswered(t, n) == {c \in 1 .. n : Asst(t, c) /\ t[c].what \in Keys /\ \A j \in 1 .. n : Res(t, j) => t[j].id # c}
Waits(t, d, i, n) == \A s \in i + 1 .. n : ~Begin(t, d, s)
Waiting(t, d, n) == {c \in 1 .. n : \E i \in 1 .. n : Res(t, i) /\ t[i].id = c /\ Waits(t, d, i, n)}

\* The results that the response at f was the first to read, and those read with no compaction since.
FirstRead(t, d, i, f) == i < f /\ Begin(t, d, f) /\ Waits(t, d, i, f - 1)
Live(t, d, k, n) ==
    {i \in 1 .. n : ResultOf(t, k, i) /\ \E f \in 1 .. n : FirstRead(t, d, i, f) /\ \A m \in f .. n : ~Comp(t, m)}

\* What is counted of each kind.
Begins(t, d, n) == {i \in 1 .. n : Begin(t, d, i)}
Boundaries(t, d, n) == {i \in 1 .. n : Comp(t, i) /\ \E s \in 1 .. i : Begin(t, d, s)}
Reads(t, d, k, n) == {i \in 1 .. n : ResultOf(t, k, i) /\ ~Waits(t, d, i, n)}
Carried(t, d, k, n) == {x \in (1 .. n) \X (1 .. n) : Begin(t, d, x[2]) /\ x[1] \in Live(t, d, k, x[2] - 1)}
Repeated(t, d, k, n) ==
    {j \in 1 .. n : CallOf(t, k, j) /\ \E g \in 1 .. j : LastBegin(t, d, g, j) /\ k \in KeysAt(t, d, g - 1)}

WorthOf(t, d, n) ==
    [m \in Metrics |->
        IF m[2] = "response" THEN Cardinality(Begins(t, d, n))
        ELSE IF m[2] = "floor" THEN 0
        ELSE IF m[2] = "compaction" THEN Cardinality(Boundaries(t, d, n))
        ELSE IF m[2] = "result" THEN Cardinality(Reads(t, d, m[1], n))
        ELSE IF m[2] = "carry" THEN Cardinality(Carried(t, d, m[1], n))
        ELSE Cardinality(Repeated(t, d, m[1], n))]

\* What a run of the hook is made of.
Works == [uses : SUBSET Nat, unconsumed : SUBSET Nat, prev : SUBSET Keys, live : [Keys -> Nat], floorDone : BOOLEAN,
          model : BOOLEAN]
Groups == [id : Nat, calls : SUBSET Nat, consumes : SUBSET Nat]
Counters == [Metrics -> Nat]
Costs == [offset : Nat, w : Works]
Runners == [w : Works, open : Groups, pending : Counters, committed : Costs, out : Counters]
Counting == [at : {"idle", "lock", "read", "scan", "save", "send"}, final : BOOLEAN, n : Nat, r : Runners,
             cut : BOOLEAN, st : Costs, out : Counters]

\* The working state w knows the first n records, and the responses among the first q.
WorkAt(t, d, w, n, q) ==
    /\ w.uses = Unanswered(t, n)
    /\ w.unconsumed = Waiting(t, d, n)
    /\ w.prev = KeysAt(t, d, q)
    /\ \A k \in Keys : w.live[k] = Cardinality(Live(t, d, k, q))
    /\ w.model <=> \E s \in 1 .. q : Begin(t, d, s)

SavedAt(t, d, st) == st.offset <= Len(t) /\ WorkAt(t, d, st.w, st.offset, st.offset)

\* What the open response will be worth once it is closed.
OfIn(t, calls, k) == Cardinality({c \in calls : t[c].what = k})
OpenWorth(t, r, m) ==
    IF r.open = Closed THEN 0
    ELSE IF m[2] = "response" THEN 1
    ELSE IF m[2] \in {"floor", "compaction"} THEN 0
    ELSE IF m[2] = "carry" THEN r.w.live[m[1]]
    ELSE IF m[2] = "result" THEN OfIn(t, r.open.consumes, m[1])
    ELSE IF m[1] \in r.w.prev THEN OfIn(t, r.open.calls, m[1]) ELSE 0

\* The open response of a run r that has read n records: it began at the first after what is committed.
OpenAt(t, d, r, n) ==
    LET o == r.committed.offset IN
    /\ LastBegin(t, d, o + 1, n)
    /\ \A m \in o + 1 .. n : ~Comp(t, m) /\ (Asst(t, m) => t[m].id = r.open.id)
    /\ r.open.calls = {c \in o + 1 .. n : Asst(t, c) /\ t[c].what \in Keys}
    /\ r.open.consumes = Waiting(t, d, o)
    /\ WorkAt(t, d, r.w, n, o)

\* A run r that has read n records, where ct is what was counted before it.
RunnerAt(t, d, ct, r, n) ==
    /\ r \in Runners
    /\ r.committed.offset <= n /\ n <= Len(t) /\ d \subseteq 0 .. r.committed.offset
    /\ SavedAt(t, d, r.committed) /\ Fresh(t, d, r.committed.offset)
    /\ \A m \in Metrics \ {Floor} :
          /\ ct[m] + r.out[m] = WorthOf(t, d, r.committed.offset)[m]
          /\ ct[m] + r.out[m] + r.pending[m] + OpenWorth(t, r, m) = WorthOf(t, d, n)[m]
    /\ r.open = Closed => WorkAt(t, d, r.w, n, n) /\ Fresh(t, d, n)
    /\ r.open # Closed => OpenAt(t, d, r, n)
    /\ ct[Floor] + r.out[Floor] + r.pending[Floor] <= 1
    /\ ct[Floor] + r.out[Floor] + r.pending[Floor] = 1 => r.w.floorDone
    /\ ct[Floor] + r.out[Floor] = 1 => r.committed.w.floorDone

\* All that was sent, or is about to be, is what the committed records are worth.
PaidFor(t, d, ct, out, st) ==
    /\ \A m \in Metrics \ {Floor} : ct[m] + out[m] = WorthOf(t, d, st.offset)[m]
    /\ ct[Floor] + out[Floor] <= 1
    /\ ct[Floor] + out[Floor] = 1 => st.w.floorDone

\* A run f of the hook that is at work has the lock.
CostForm(c, f) ==
    /\ f.at \notin {"idle", "lock"} => costLock = c
    /\ f.at = "scan" => costState.offset <= f.r.committed.offset /\ RunnerAt(transcript, cuts, counted, f.r, f.n)
    /\ f.at = "save" => /\ costState.offset <= f.st.offset /\ SavedAt(transcript, cuts, f.st)
                        /\ f.cut \/ Fresh(transcript, cuts, f.st.offset)
                        /\ PaidFor(transcript, cuts, counted, f.out, f.st)
    /\ f.at = "send" => PaidFor(transcript, cuts, counted, f.out, costState)

CostInv ==
    /\ TranscriptTypes /\ WellFormed(transcript)
    /\ cost \in [CostRuns -> Counting] /\ counted \in Counters /\ costState \in Costs
    /\ SavedAt(transcript, cuts, costState) /\ Fresh(transcript, cuts, costState.offset)
    /\ cuts \subseteq 0 .. costState.offset
    /\ \A c \in CostRuns : CostForm(c, cost[c])
    /\ (\A c \in CostRuns : cost[c].at # "send") => PaidFor(transcript, cuts, counted, NoMetrics, costState)

-----------------------------------------------------------------------------
(* Sizes of sets of positions.                                             *)

LEMMA SomeFinite ==
    ASSUME NEW n \in Nat, NEW S \in SUBSET (1 .. n)
    PROVE  IsFiniteSet(S) /\ Cardinality(S) \in Nat
<1>1. IsFiniteSet(1 .. n)
  BY FS_Interval
<1>2. IsFiniteSet(S)
  BY <1>1, FS_Subset
<1> QED
  BY <1>2, FS_CardinalityType

LEMMA FinitePairs ==
    ASSUME NEW n \in Nat, NEW S \in SUBSET ((1 .. n) \X (1 .. n))
    PROVE  IsFiniteSet(S) /\ Cardinality(S) \in Nat
<1>1. IsFiniteSet(1 .. n)
  BY FS_Interval
<1>2. IsFiniteSet((1 .. n) \X (1 .. n))
  BY <1>1, FS_Product
<1>3. IsFiniteSet(S)
  BY <1>2, FS_Subset
<1> QED
  BY <1>3, FS_CardinalityType

\* One position more.
LEMMA OneMoreIn ==
    ASSUME NEW n \in Nat, NEW S \in SUBSET (1 .. n), NEW T \in SUBSET (1 .. n + 1),
           \A i \in 1 .. n : i \in T <=> i \in S
    PROVE  Cardinality(T) = Cardinality(S) + (IF n + 1 \in T THEN 1 ELSE 0)
<1>1. IsFiniteSet(S) /\ Cardinality(S) \in Nat
  BY SomeFinite
<1>2. \A i \in 1 .. n + 1 : i \in 1 .. n \/ i = n + 1
  OBVIOUS
<1>3. n + 1 \notin S
  OBVIOUS
<1>4. CASE n + 1 \in T
  <2>1. T = S \cup {n + 1}
    BY <1>2, <1>4
  <2>2. Cardinality(S \cup {n + 1}) = Cardinality(S) + 1
    BY <1>1, <1>3, FS_AddElement
  <2> QED
    BY <1>4, <2>1, <2>2
<1>5. CASE n + 1 \notin T
  <2>1. T = S
    BY <1>2, <1>5
  <2> QED
    BY <1>1, <1>5, <2>1
<1> QED
  BY <1>4, <1>5

LEMMA ApartSum ==
    ASSUME NEW S, NEW T, IsFiniteSet(S), IsFiniteSet(T), S \cap T = {}
    PROVE  /\ IsFiniteSet(S \cup T)
           /\ Cardinality(S) \in Nat /\ Cardinality(T) \in Nat
           /\ Cardinality(S \cup T) = Cardinality(S) + Cardinality(T)
<1>1. Cardinality(S) \in Nat /\ Cardinality(T) \in Nat
  BY FS_CardinalityType
<1>2. /\ IsFiniteSet(S \cup T)
      /\ Cardinality(S \cup T) = Cardinality(S) + Cardinality(T) - Cardinality(S \cap T)
  BY FS_Union
<1>3. Cardinality(S \cap T) = 0
  BY FS_EmptySet
<1> QED
  BY <1>1, <1>2, <1>3

LEMMA SameSize ==
    ASSUME NEW S, NEW T, IsFiniteSet(S), NEW f \in [S -> T],
           \A x, y \in S : f[x] = f[y] => x = y, \A z \in T : \E x \in S : f[x] = z
    PROVE  IsFiniteSet(T) /\ Cardinality(T) = Cardinality(S)
<1>1. f \in Bijection(S, T)
  BY DEF Bijection, Injection, Surjection, IsInjective
<1>2. ExistsBijection(S, T)
  BY <1>1 DEF ExistsBijection
<1> QED
  BY <1>2, FS_Bijection

-----------------------------------------------------------------------------
(* What one record more adds to each of the counts.                        *)

LEMMA OneMoreBegins ==
    ASSUME NEW t, NEW d, NEW n \in Nat
    PROVE  Cardinality(Begins(t, d, n + 1)) = Cardinality(Begins(t, d, n)) + (IF Begin(t, d, n + 1) THEN 1 ELSE 0)
<1> DEFINE S == Begins(t, d, n)
           T == Begins(t, d, n + 1)
<1>1. S \in SUBSET (1 .. n) /\ T \in SUBSET (1 .. n + 1)
  BY DEF Begins
<1>2. \A i \in 1 .. n : i \in T <=> i \in S
  <2>1. \A i \in 1 .. n : i \in 1 .. n + 1
    OBVIOUS
  <2> QED
    BY <2>1 DEF Begins
<1>3. n + 1 \in T <=> Begin(t, d, n + 1)
  <2>1. n + 1 \in 1 .. n + 1
    OBVIOUS
  <2> QED
    BY <2>1 DEF Begins
<1> HIDE DEF S, T
<1>4. Cardinality(T) = Cardinality(S) + (IF n + 1 \in T THEN 1 ELSE 0)
  BY <1>1, <1>2, OneMoreIn
<1> QED
  BY <1>3, <1>4 DEF S, T

LEMMA OneMoreBoundary ==
    ASSUME NEW t, NEW d, NEW n \in Nat
    PROVE  Cardinality(Boundaries(t, d, n + 1)) =
           Cardinality(Boundaries(t, d, n)) + (IF Comp(t, n + 1) /\ \E s \in 1 .. n : Begin(t, d, s) THEN 1 ELSE 0)
<1> DEFINE S == Boundaries(t, d, n)
           T == Boundaries(t, d, n + 1)
<1>1. S \in SUBSET (1 .. n) /\ T \in SUBSET (1 .. n + 1)
  BY DEF Boundaries
<1>2. \A i \in 1 .. n : i \in T <=> i \in S
  <2>1. \A i \in 1 .. n : i \in 1 .. n + 1
    OBVIOUS
  <2> QED
    BY <2>1 DEF Boundaries
<1>3. n + 1 \in T <=> Comp(t, n + 1) /\ \E s \in 1 .. n : Begin(t, d, s)
  <2>1. n + 1 \in 1 .. n + 1
    OBVIOUS
  <2>2. Comp(t, n + 1) => ~Begin(t, d, n + 1)
    BY DEF Comp, Begin, Asst
  <2>3. \A s \in 1 .. n + 1 : s \in 1 .. n \/ s = n + 1
    OBVIOUS
  <2>4. \A s \in 1 .. n : s \in 1 .. n + 1
    OBVIOUS
  <2> QED
    BY <2>1, <2>2, <2>3, <2>4 DEF Boundaries
<1> HIDE DEF S, T
<1>4. Cardinality(T) = Cardinality(S) + (IF n + 1 \in T THEN 1 ELSE 0)
  BY <1>1, <1>2, OneMoreIn
<1> QED
  BY <1>3, <1>4 DEF S, T

Repeating(t, d, k, j) == CallOf(t, k, j) /\ \E g \in 1 .. j : LastBegin(t, d, g, j) /\ k \in KeysAt(t, d, g - 1)

LEMMA OneMoreRepeated ==
    ASSUME NEW t, NEW d, NEW k, NEW n \in Nat
    PROVE  Cardinality(Repeated(t, d, k, n + 1)) =
           Cardinality(Repeated(t, d, k, n)) + (IF Repeating(t, d, k, n + 1) THEN 1 ELSE 0)
<1> DEFINE S == Repeated(t, d, k, n)
           T == Repeated(t, d, k, n + 1)
<1>0. \A p : Repeated(t, d, k, p) = {j \in 1 .. p : Repeating(t, d, k, j)}
  BY DEF Repeated, Repeating
<1>1. S \in SUBSET (1 .. n) /\ T \in SUBSET (1 .. n + 1)
  BY <1>0
<1>2. \A i \in 1 .. n : i \in T <=> i \in S
  <2>1. \A i \in 1 .. n : i \in 1 .. n + 1
    OBVIOUS
  <2> QED
    BY <1>0, <2>1
<1>3. n + 1 \in T <=> Repeating(t, d, k, n + 1)
  <2>1. n + 1 \in 1 .. n + 1
    OBVIOUS
  <2> QED
    BY <1>0, <2>1
<1> HIDE DEF S, T
<1>4. Cardinality(T) = Cardinality(S) + (IF n + 1 \in T THEN 1 ELSE 0)
  BY <1>1, <1>2, OneMoreIn
<1> QED
  BY <1>3, <1>4 DEF S, T

\* The results of a tool that the next response will be the first to read.
WaitingOf(t, d, k, n) == {i \in 1 .. n : ResultOf(t, k, i) /\ Waits(t, d, i, n)}

LEMMA WaitsOn ==
    ASSUME NEW t, NEW d, NEW n \in Nat, NEW i \in Nat
    PROVE  /\ i <= n => (Waits(t, d, i, n + 1) <=> Waits(t, d, i, n) /\ ~Begin(t, d, n + 1))
           /\ i >= n => Waits(t, d, i, n)
<1>1. ASSUME i <= n PROVE Waits(t, d, i, n + 1) <=> Waits(t, d, i, n) /\ ~Begin(t, d, n + 1)
  <2>1. n + 1 \in i + 1 .. n + 1
    BY <1>1
  <2>2. \A s \in i + 1 .. n + 1 : s \in i + 1 .. n \/ s = n + 1
    BY <1>1
  <2>3. \A s \in i + 1 .. n : s \in i + 1 .. n + 1
    BY <1>1
  <2> QED
    BY <2>1, <2>2, <2>3 DEF Waits
<1>2. ASSUME i >= n PROVE Waits(t, d, i, n)
  <2>1. \A s \in i + 1 .. n : FALSE
    BY <1>2
  <2> QED
    BY <2>1 DEF Waits
<1> QED
  BY <1>1, <1>2

\* A response that begins reads what waited.
LEMMA OneMoreReads ==
    ASSUME NEW t, NEW d, NEW k, NEW n \in Nat, Begin(t, d, n + 1)
    PROVE  Cardinality(Reads(t, d, k, n + 1)) = Cardinality(Reads(t, d, k, n)) + Cardinality(WaitingOf(t, d, k, n))
<1> DEFINE S == Reads(t, d, k, n)
           W == WaitingOf(t, d, k, n)
           T == Reads(t, d, k, n + 1)
<1>1. S \in SUBSET (1 .. n) /\ W \in SUBSET (1 .. n)
  BY DEF Reads, WaitingOf
<1>2. IsFiniteSet(S) /\ IsFiniteSet(W)
  BY <1>1, SomeFinite
<1>3. S \cap W = {}
  BY DEF Reads, WaitingOf
<1>4. T = S \cup W
  <2>1. \A i \in 1 .. n : i \in 1 .. n + 1 /\ ~Waits(t, d, i, n + 1)
    BY WaitsOn
  <2>2. ~ResultOf(t, k, n + 1)
    BY DEF ResultOf, Res, Begin, Asst
  <2>3. \A i \in 1 .. n + 1 : i \in 1 .. n \/ i = n + 1
    OBVIOUS
  <2> QED
    BY <2>1, <2>2, <2>3 DEF Reads, WaitingOf
<1> HIDE DEF S, W, T
<1>5. Cardinality(T) = Cardinality(S) + Cardinality(W)
  BY <1>2, <1>3, <1>4, ApartSum
<1> QED
  BY <1>5 DEF S, W, T

LEMMA SameReads ==
    ASSUME NEW t, NEW d, NEW k, NEW n \in Nat, ~Begin(t, d, n + 1)
    PROVE  Reads(t, d, k, n + 1) = Reads(t, d, k, n)
<1>1. \A i \in 1 .. n : i \in 1 .. n + 1 /\ (Waits(t, d, i, n + 1) <=> Waits(t, d, i, n))
  BY WaitsOn
<1>2. Waits(t, d, n + 1, n + 1)
  <2>1. n + 1 \in Nat /\ n + 1 >= n + 1
    OBVIOUS
  <2> QED
    BY <2>1, WaitsOn
<1>3. \A i \in 1 .. n + 1 : i \in 1 .. n \/ i = n + 1
  OBVIOUS
<1> QED
  BY <1>1, <1>2, <1>3 DEF Reads

\* A response that begins carries what is live.
LEMMA OneMoreCarried ==
    ASSUME NEW t, NEW d, NEW k, NEW n \in Nat, Begin(t, d, n + 1)
    PROVE  Cardinality(Carried(t, d, k, n + 1)) = Cardinality(Carried(t, d, k, n)) + Cardinality(Live(t, d, k, n))
<1> DEFINE S == Carried(t, d, k, n)
           L == Live(t, d, k, n)
           W == {x \in (1 .. n + 1) \X (1 .. n + 1) : x[1] \in L /\ x[2] = n + 1}
           T == Carried(t, d, k, n + 1)
           f == [i \in L |-> <<i, n + 1>>]
<1>1. L \in SUBSET (1 .. n)
  BY DEF Live
<1>2. S \in SUBSET ((1 .. n) \X (1 .. n))
  BY DEF Carried
<1>3. IsFiniteSet(S) /\ IsFiniteSet(L)
  BY <1>1, <1>2, SomeFinite, FinitePairs
<1>4. \A i \in L : i \in 1 .. n + 1
  BY <1>1
<1>5. f \in [L -> W]
  <2>1. \A i \in L : <<i, n + 1>> \in (1 .. n + 1) \X (1 .. n + 1)
    BY <1>4
  <2> HIDE DEF L
  <2>2. \A i \in L : <<i, n + 1>> \in W
    BY <2>1
  <2> QED
    BY <2>2
<1>6. \A x, y \in L : f[x] = f[y] => x = y
  <2> HIDE DEF L
  <2> QED
    OBVIOUS
<1>7. \A z \in W : \E i \in L : f[i] = z
  <2> HIDE DEF L
  <2> QED
    OBVIOUS
<1>8. S \cap W = {}
  <2>1. \A x \in S : x[2] \in 1 .. n
    BY DEF Carried
  <2>2. \A x \in W : x[2] = n + 1
    OBVIOUS
  <2>3. n + 1 \notin 1 .. n
    OBVIOUS
  <2> QED
    BY <2>1, <2>2, <2>3
<1>9. T = S \cup W
  <2>1. \A x \in (1 .. n) \X (1 .. n) : x \in (1 .. n + 1) \X (1 .. n + 1)
    OBVIOUS
  <2>2. (n + 1) - 1 = n
    OBVIOUS
  <2>3. \A p : Live(t, d, k, p) \subseteq 1 .. p
    BY DEF Live
  <2>4. ASSUME NEW x \in T PROVE x \in S \cup W
    <3>1. x \in (1 .. n + 1) \X (1 .. n + 1) /\ Begin(t, d, x[2]) /\ x[1] \in Live(t, d, k, x[2] - 1)
      BY <2>4 DEF Carried
    <3>2. CASE x[2] = n + 1
      BY <2>2, <3>1, <3>2
    <3>3. CASE x[2] # n + 1
      <4>1. x[2] \in 1 .. n /\ x[1] \in 1 .. x[2] - 1
        BY <2>3, <3>1, <3>3
      <4>2. x[1] \in 1 .. n
        BY <4>1
      <4>3. x \in (1 .. n) \X (1 .. n)
        BY <3>1, <4>1, <4>2
      <4> QED
        BY <3>1, <4>3 DEF Carried
    <3> QED
      BY <3>2, <3>3
  <2>5. ASSUME NEW x \in S PROVE x \in T
    BY <2>1, <2>5 DEF Carried
  <2>6. ASSUME NEW x \in W PROVE x \in T
    <3>1. x \in (1 .. n + 1) \X (1 .. n + 1) /\ x[1] \in L /\ x[2] = n + 1
      BY <2>6
    <3>2. x[2] - 1 = n
      BY <3>1
    <3> QED
      BY <3>1, <3>2 DEF Carried
  <2> QED
    BY <2>4, <2>5, <2>6
<1> HIDE DEF S, L, W, T, f
<1>10. IsFiniteSet(W) /\ Cardinality(W) = Cardinality(L)
  BY <1>3, <1>5, <1>6, <1>7, SameSize
<1>11. Cardinality(T) = Cardinality(S) + Cardinality(W)
  BY <1>3, <1>8, <1>9, <1>10, ApartSum
<1> QED
  BY <1>10, <1>11 DEF S, L, T

LEMMA SameCarried ==
    ASSUME NEW t, NEW d, NEW k, NEW n \in Nat, ~Begin(t, d, n + 1)
    PROVE  Carried(t, d, k, n + 1) = Carried(t, d, k, n)
<1>1. \A x \in (1 .. n) \X (1 .. n) : x \in (1 .. n + 1) \X (1 .. n + 1)
  OBVIOUS
<1>2. \A p : Live(t, d, k, p) \subseteq 1 .. p
  BY DEF Live
<1>3. ASSUME NEW x \in Carried(t, d, k, n + 1) PROVE x \in Carried(t, d, k, n)
  <2>1. x \in (1 .. n + 1) \X (1 .. n + 1) /\ Begin(t, d, x[2]) /\ x[1] \in Live(t, d, k, x[2] - 1)
    BY <1>3 DEF Carried
  <2>2. x[2] # n + 1
    BY <2>1
  <2>3. x[2] \in 1 .. n /\ x[1] \in 1 .. x[2] - 1
    BY <1>2, <2>1, <2>2
  <2>4. x[1] \in 1 .. n
    BY <2>3
  <2>5. x \in (1 .. n) \X (1 .. n)
    BY <2>1, <2>3, <2>4
  <2> QED
    BY <2>1, <2>5 DEF Carried
<1>4. ASSUME NEW x \in Carried(t, d, k, n) PROVE x \in Carried(t, d, k, n + 1)
  BY <1>1, <1>4 DEF Carried
<1> QED
  BY <1>3, <1>4

\* What record n + 1 is worth.
Gain(t, d, n, m) ==
    IF m[2] = "response" THEN IF Begin(t, d, n + 1) THEN 1 ELSE 0
    ELSE IF m[2] = "compaction" THEN IF Comp(t, n + 1) /\ \E s \in 1 .. n : Begin(t, d, s) THEN 1 ELSE 0
    ELSE IF m[2] = "result" THEN IF Begin(t, d, n + 1) THEN Cardinality(WaitingOf(t, d, m[1], n)) ELSE 0
    ELSE IF m[2] = "carry" THEN IF Begin(t, d, n + 1) THEN Cardinality(Live(t, d, m[1], n)) ELSE 0
    ELSE IF Repeating(t, d, m[1], n + 1) THEN 1 ELSE 0

LEMMA MetricKinds ==
    ASSUME NEW m \in Metrics \ {Floor}
    PROVE  /\ m[2] # "floor"
           /\ \/ m[2] \in {"response", "compaction"}
              \/ m[1] \in Keys /\ m[2] \in {"result", "carry", "retry"}
<1>1. CASE m \in {"session"} \X {"response", "floor", "compaction"}
  <2>1. m = <<m[1], m[2]>> /\ m[1] = "session" /\ m[2] \in {"response", "floor", "compaction"}
    BY <1>1
  <2>2. m[2] # "floor"
    BY <2>1 DEF Floor
  <2> QED
    BY <2>1, <2>2
<1>2. CASE m \in Keys \X {"result", "carry", "retry"}
  BY <1>2
<1> QED
  BY <1>1, <1>2 DEF Metrics

LEMMA CountsAre ==
    ASSUME NEW t, NEW d, NEW n \in Nat
    PROVE  Cardinality(Begins(t, d, n)) \in Nat /\ Cardinality(Boundaries(t, d, n)) \in Nat
<1>1. Begins(t, d, n) \in SUBSET (1 .. n) /\ Boundaries(t, d, n) \in SUBSET (1 .. n)
  BY DEF Begins, Boundaries
<1> QED
  BY <1>1, SomeFinite

LEMMA KeyCountsAre ==
    ASSUME NEW t, NEW d, NEW k, NEW n \in Nat
    PROVE  /\ Cardinality(Reads(t, d, k, n)) \in Nat
           /\ Cardinality(Carried(t, d, k, n)) \in Nat
           /\ Cardinality(Repeated(t, d, k, n)) \in Nat
           /\ Cardinality(WaitingOf(t, d, k, n)) \in Nat
           /\ Cardinality(Live(t, d, k, n)) \in Nat
<1>1. /\ Reads(t, d, k, n) \in SUBSET (1 .. n)
      /\ Repeated(t, d, k, n) \in SUBSET (1 .. n)
      /\ WaitingOf(t, d, k, n) \in SUBSET (1 .. n)
      /\ Live(t, d, k, n) \in SUBSET (1 .. n)
  BY DEF Reads, Repeated, WaitingOf, Live
<1>2. Carried(t, d, k, n) \in SUBSET ((1 .. n) \X (1 .. n))
  BY DEF Carried
<1> QED
  BY <1>1, <1>2, SomeFinite, FinitePairs

LEMMA WorthGrows ==
    ASSUME NEW t, NEW d, NEW n \in Nat, NEW m \in Metrics \ {Floor}
    PROVE  /\ WorthOf(t, d, n)[m] \in Nat
           /\ Gain(t, d, n, m) \in Nat
           /\ WorthOf(t, d, n + 1)[m] = WorthOf(t, d, n)[m] + Gain(t, d, n, m)
<1>0. /\ m[2] # "floor"
      /\ \/ m[2] \in {"response", "compaction"}
         \/ m[1] \in Keys /\ m[2] \in {"result", "carry", "retry"}
  BY MetricKinds
<1>1. CASE m[2] = "response"
  <2>1. \A p \in Nat : WorthOf(t, d, p)[m] = Cardinality(Begins(t, d, p))
    BY <1>1 DEF WorthOf
  <2>2. Gain(t, d, n, m) = IF Begin(t, d, n + 1) THEN 1 ELSE 0
    BY <1>1 DEF Gain
  <2>3. Cardinality(Begins(t, d, n)) \in Nat /\ n + 1 \in Nat
    BY CountsAre
  <2>4. Cardinality(Begins(t, d, n + 1)) = Cardinality(Begins(t, d, n)) + (IF Begin(t, d, n + 1) THEN 1 ELSE 0)
    BY OneMoreBegins
  <2> QED
    BY <2>1, <2>2, <2>3, <2>4
<1>2. CASE m[2] = "compaction"
  <2>1. \A p \in Nat : WorthOf(t, d, p)[m] = Cardinality(Boundaries(t, d, p))
    BY <1>2 DEF WorthOf
  <2>2. Gain(t, d, n, m) = IF Comp(t, n + 1) /\ \E s \in 1 .. n : Begin(t, d, s) THEN 1 ELSE 0
    BY <1>2 DEF Gain
  <2>3. Cardinality(Boundaries(t, d, n)) \in Nat /\ n + 1 \in Nat
    BY CountsAre
  <2>4. Cardinality(Boundaries(t, d, n + 1)) = Cardinality(Boundaries(t, d, n)) + (IF Comp(t, n + 1) /\ \E s \in 1 .. n : Begin(t, d, s) THEN 1 ELSE 0)
    BY OneMoreBoundary
  <2> QED
    BY <2>1, <2>2, <2>3, <2>4
<1>3. CASE m[2] = "result"
  <2>1. \A p \in Nat : WorthOf(t, d, p)[m] = Cardinality(Reads(t, d, m[1], p))
    BY <1>3 DEF WorthOf
  <2>2. Gain(t, d, n, m) = IF Begin(t, d, n + 1) THEN Cardinality(WaitingOf(t, d, m[1], n)) ELSE 0
    BY <1>3 DEF Gain
  <2>3. Cardinality(Reads(t, d, m[1], n)) \in Nat /\ Cardinality(WaitingOf(t, d, m[1], n)) \in Nat /\ n + 1 \in Nat
    BY KeyCountsAre
  <2>4. CASE Begin(t, d, n + 1)
    <3>1. Cardinality(Reads(t, d, m[1], n + 1)) =
          Cardinality(Reads(t, d, m[1], n)) + Cardinality(WaitingOf(t, d, m[1], n))
      BY <2>4, OneMoreReads
    <3> QED
      BY <2>1, <2>2, <2>3, <2>4, <3>1
  <2>5. CASE ~Begin(t, d, n + 1)
    <3>1. Reads(t, d, m[1], n + 1) = Reads(t, d, m[1], n)
      BY <2>5, SameReads
    <3> QED
      BY <2>1, <2>2, <2>3, <2>5, <3>1
  <2> QED
    BY <2>4, <2>5
<1>4. CASE m[2] = "carry"
  <2>1. \A p \in Nat : WorthOf(t, d, p)[m] = Cardinality(Carried(t, d, m[1], p))
    BY <1>4 DEF WorthOf
  <2>2. Gain(t, d, n, m) = IF Begin(t, d, n + 1) THEN Cardinality(Live(t, d, m[1], n)) ELSE 0
    BY <1>4 DEF Gain
  <2>3. Cardinality(Carried(t, d, m[1], n)) \in Nat /\ Cardinality(Live(t, d, m[1], n)) \in Nat /\ n + 1 \in Nat
    BY KeyCountsAre
  <2>4. CASE Begin(t, d, n + 1)
    <3>1. Cardinality(Carried(t, d, m[1], n + 1)) =
          Cardinality(Carried(t, d, m[1], n)) + Cardinality(Live(t, d, m[1], n))
      BY <2>4, OneMoreCarried
    <3> QED
      BY <2>1, <2>2, <2>3, <2>4, <3>1
  <2>5. CASE ~Begin(t, d, n + 1)
    <3>1. Carried(t, d, m[1], n + 1) = Carried(t, d, m[1], n)
      BY <2>5, SameCarried
    <3> QED
      BY <2>1, <2>2, <2>3, <2>5, <3>1
  <2> QED
    BY <2>4, <2>5
<1>5. CASE m[2] = "retry"
  <2>1. \A p \in Nat : WorthOf(t, d, p)[m] = Cardinality(Repeated(t, d, m[1], p))
    BY <1>5 DEF WorthOf
  <2>2. Gain(t, d, n, m) = IF Repeating(t, d, m[1], n + 1) THEN 1 ELSE 0
    BY <1>5 DEF Gain
  <2>3. Cardinality(Repeated(t, d, m[1], n)) \in Nat /\ n + 1 \in Nat
    BY KeyCountsAre
  <2>4. Cardinality(Repeated(t, d, m[1], n + 1)) = Cardinality(Repeated(t, d, m[1], n)) + (IF Repeating(t, d, m[1], n + 1) THEN 1 ELSE 0)
    BY OneMoreRepeated
  <2> QED
    BY <2>1, <2>2, <2>3, <2>4
<1> QED
  BY <1>0, <1>1, <1>2, <1>3, <1>4, <1>5

\* A tool's waiting results are those of its waiting calls.
LEMMA WaitingBoth ==
    ASSUME NEW t, NEW d, NEW k, NEW n \in Nat, WellFormed(t), n <= Len(t)
    PROVE  Cardinality(WaitingOf(t, d, k, n)) = OfIn(t, Waiting(t, d, n), k)
<1> DEFINE W == WaitingOf(t, d, k, n)
           T == {b \in Waiting(t, d, n) : t[b].what = k}
           f == [i \in W |-> t[i].id]
<1>1. W \in SUBSET (1 .. n)
  BY DEF WaitingOf
<1>2. IsFiniteSet(W)
  BY <1>1, SomeFinite
<1>3. Len(t) \in Nat /\ \A i \in 1 .. n : i \in 1 .. Len(t)
  BY DEF WellFormed
<1>4. \A i \in 1 .. n : Res(t, i) => t[i].id \in 1 .. i - 1
  BY <1>3 DEF WellFormed
<1>5. \A i, j \in 1 .. n : Res(t, i) /\ Res(t, j) /\ t[i].id = t[j].id => i = j
  BY <1>3 DEF WellFormed
<1>6. \A i \in 1 .. n : Res(t, i) => t[i].id \in 1 .. n
  BY <1>4
<1>7. ASSUME NEW i \in W PROVE t[i].id \in T
  <2>1. i \in 1 .. n /\ Res(t, i) /\ t[t[i].id].what = k /\ Waits(t, d, i, n)
    BY <1>7 DEF WaitingOf, ResultOf
  <2>2. t[i].id \in 1 .. n
    BY <1>6, <2>1
  <2> QED
    BY <2>1, <2>2 DEF Waiting
<1>8. \A z \in T : \E i \in W : t[i].id = z
  BY DEF Waiting, WaitingOf, ResultOf
<1>9. \A i \in W : i \in 1 .. n /\ Res(t, i)
  BY DEF WaitingOf, ResultOf
<1> HIDE DEF W, T
<1>10. f \in [W -> T]
  BY <1>7
<1>11. \A x, y \in W : f[x] = f[y] => x = y
  BY <1>5, <1>9
<1>12. \A z \in T : \E x \in W : f[x] = z
  BY <1>8
<1> HIDE DEF f
<1>13. Cardinality(T) = Cardinality(W)
  BY <1>2, <1>10, <1>11, <1>12, SameSize
<1> QED
  BY <1>13 DEF W, T, OfIn

-----------------------------------------------------------------------------
(* What is said of the first p records is said of them alone.              *)

AlikeTo(t, d, u, e, p) == (\A i \in 1 .. p : t[i] = u[i]) /\ \A m \in 1 .. p - 1 : m \in d <=> m \in e

LEMMA AlikeRecords ==
    ASSUME NEW t, NEW d, NEW u, NEW e, NEW p \in Nat, WellFormed(t), p <= Len(t), AlikeTo(t, d, u, e, p)
    PROVE  /\ \A i \in 1 .. p : /\ Asst(t, i) <=> Asst(u, i)
                                /\ Res(t, i) <=> Res(u, i)
                                /\ Comp(t, i) <=> Comp(u, i)
                                /\ Begin(t, d, i) <=> Begin(u, e, i)
           /\ \A k : \A i \in 1 .. p : (CallOf(t, k, i) <=> CallOf(u, k, i)) /\ (ResultOf(t, k, i) <=> ResultOf(u, k, i))
<1>1. \A i \in 1 .. p : t[i] = u[i]
  BY DEF AlikeTo
<1>2. \A i \in 1 .. p : (Asst(t, i) <=> Asst(u, i)) /\ (Res(t, i) <=> Res(u, i)) /\ (Comp(t, i) <=> Comp(u, i))
  BY <1>1 DEF Asst, Res, Comp
<1>3. ASSUME NEW i \in 1 .. p PROVE Begin(t, d, i) <=> Begin(u, e, i)
  <2>1. \A j \in 1 .. i - 1 : j \in 1 .. p /\ \A m \in j .. i - 1 : m \in 1 .. p /\ m \in 1 .. p - 1
    OBVIOUS
  <2>2. \A j \in 1 .. i - 1 : \A m \in j .. i - 1 : EndsAt(t, d, m) <=> EndsAt(u, e, m)
    BY <1>2, <2>1 DEF EndsAt, AlikeTo
  <2>3. \A j \in 1 .. i - 1 : t[j] = u[j] /\ (Asst(t, j) <=> Asst(u, j))
    BY <1>1, <1>2, <2>1
  <2> QED
    BY <1>1, <1>2, <2>2, <2>3 DEF Begin
<1>4. Len(t) \in Nat /\ \A i \in 1 .. p : i \in 1 .. Len(t)
  BY DEF WellFormed
<1>5. \A i \in 1 .. p : Res(t, i) => t[i].id \in 1 .. i - 1
  BY <1>4 DEF WellFormed
<1>6. \A i \in 1 .. p : Res(t, i) => t[i].id \in 1 .. p
  BY <1>5
<1>7. ASSUME NEW k, NEW i \in 1 .. p
      PROVE  (CallOf(t, k, i) <=> CallOf(u, k, i)) /\ (ResultOf(t, k, i) <=> ResultOf(u, k, i))
  BY <1>1, <1>2, <1>6 DEF CallOf, ResultOf
<1> QED
  BY <1>2, <1>3, <1>7

LEMMA AlikeLive ==
    ASSUME NEW t, NEW d, NEW u, NEW e, NEW p \in Nat, WellFormed(t), p <= Len(t), AlikeTo(t, d, u, e, p),
           NEW k, NEW n \in 0 .. p
    PROVE  Live(t, d, k, n) = Live(u, e, k, n)
<1>1. \A i \in 1 .. n : i \in 1 .. p
  OBVIOUS
<1>2. \A i \in 1 .. n : /\ ResultOf(t, k, i) <=> ResultOf(u, k, i)
                        /\ Comp(t, i) <=> Comp(u, i)
                        /\ Begin(t, d, i) <=> Begin(u, e, i)
  BY <1>1, AlikeRecords
<1>3. \A i \in 1 .. n : \A f \in 1 .. n : FirstRead(t, d, i, f) <=> FirstRead(u, e, i, f)
  <2>1. \A i \in 1 .. n : \A f \in 1 .. n : \A s \in i + 1 .. f - 1 : s \in 1 .. n
    OBVIOUS
  <2> QED
    BY <1>2, <2>1 DEF FirstRead, Waits
<1>4. \A f \in 1 .. n : \A m \in f .. n : m \in 1 .. n
  OBVIOUS
<1>5. \A f \in 1 .. n : (\A m \in f .. n : ~Comp(t, m)) <=> (\A m \in f .. n : ~Comp(u, m))
  BY <1>2, <1>4
<1> QED
  BY <1>2, <1>3, <1>5 DEF Live

LEMMA AlikeKeys ==
    ASSUME NEW t, NEW d, NEW u, NEW e, NEW p \in Nat, WellFormed(t), p <= Len(t), AlikeTo(t, d, u, e, p),
           NEW n \in 0 .. p
    PROVE  /\ \A g : LastBegin(t, d, g, n) <=> LastBegin(u, e, g, n)
           /\ KeysAt(t, d, n) = KeysAt(u, e, n)
<1>1. \A i \in 1 .. n : i \in 1 .. p
  OBVIOUS
<1>2. \A i \in 1 .. n : Begin(t, d, i) <=> Begin(u, e, i)
  BY <1>1, AlikeRecords
<1>3. \A k : \A i \in 1 .. n : CallOf(t, k, i) <=> CallOf(u, k, i)
  BY <1>1, AlikeRecords
<1>4. \A g \in 1 .. n : \A s \in g .. n : s \in 1 .. n
  OBVIOUS
<1>5. \A g \in 1 .. n : \A s \in g + 1 .. n : s \in 1 .. n
  OBVIOUS
<1>6. \A g : LastBegin(t, d, g, n) <=> LastBegin(u, e, g, n)
  BY <1>2, <1>5 DEF LastBegin
<1>7. \A k : \A g \in 1 .. n : (\E b \in g .. n : CallOf(t, k, b)) <=> (\E b \in g .. n : CallOf(u, k, b))
  BY <1>3, <1>4
<1>8. \A k : (\E g \in 1 .. n : LastBegin(t, d, g, n) /\ \E b \in g .. n : CallOf(t, k, b)) <=>
             (\E g \in 1 .. n : LastBegin(u, e, g, n) /\ \E b \in g .. n : CallOf(u, k, b))
  BY <1>6, <1>7
<1>9. KeysAt(t, d, n) = KeysAt(u, e, n)
  BY <1>8, Zenon DEF KeysAt
<1> QED
  BY <1>6, <1>9

LEMMA AlikeCalls ==
    ASSUME NEW t, NEW d, NEW u, NEW e, NEW p \in Nat, WellFormed(t), p <= Len(t), AlikeTo(t, d, u, e, p),
           NEW n \in 0 .. p
    PROVE  Unanswered(t, n) = Unanswered(u, n) /\ Waiting(t, d, n) = Waiting(u, e, n)
<1>1. \A i \in 1 .. n : i \in 1 .. p
  OBVIOUS
<1>2. \A i \in 1 .. n : /\ t[i] = u[i]
                        /\ Asst(t, i) <=> Asst(u, i)
                        /\ Res(t, i) <=> Res(u, i)
                        /\ Begin(t, d, i) <=> Begin(u, e, i)
  BY <1>1, AlikeRecords DEF AlikeTo
<1>3. \A i \in 1 .. n : \A s \in i + 1 .. n : s \in 1 .. n
  OBVIOUS
<1>4. \A i \in 1 .. n : Waits(t, d, i, n) <=> Waits(u, e, i, n)
  BY <1>2, <1>3 DEF Waits
<1>5. Unanswered(t, n) = Unanswered(u, n)
  BY <1>2 DEF Unanswered
<1>6. Waiting(t, d, n) = Waiting(u, e, n)
  BY <1>2, <1>4 DEF Waiting
<1> QED
  BY <1>5, <1>6

LEMMA AlikeWorth ==
    ASSUME NEW t, NEW d, NEW u, NEW e, NEW p \in Nat, WellFormed(t), p <= Len(t), AlikeTo(t, d, u, e, p),
           NEW n \in 0 .. p
    PROVE  WorthOf(t, d, n) = WorthOf(u, e, n)
<1>1. \A i \in 1 .. n : i \in 1 .. p /\ i \in 0 .. p /\ i - 1 \in 0 .. p
  OBVIOUS
<1>2. \A i \in 1 .. n : (Comp(t, i) <=> Comp(u, i)) /\ (Begin(t, d, i) <=> Begin(u, e, i))
  BY <1>1, AlikeRecords
<1>3. \A k : \A i \in 1 .. n : (CallOf(t, k, i) <=> CallOf(u, k, i)) /\ (ResultOf(t, k, i) <=> ResultOf(u, k, i))
  BY <1>1, AlikeRecords
<1>4. Begins(t, d, n) = Begins(u, e, n)
  BY <1>2 DEF Begins
<1>5. Boundaries(t, d, n) = Boundaries(u, e, n)
  <2>1. \A i \in 1 .. n : \A s \in 1 .. i : s \in 1 .. n
    OBVIOUS
  <2> QED
    BY <1>2, <2>1 DEF Boundaries
<1>6. ASSUME NEW k PROVE Reads(t, d, k, n) = Reads(u, e, k, n)
  <2>1. \A i \in 1 .. n : \A s \in i + 1 .. n : s \in 1 .. n
    OBVIOUS
  <2>2. \A i \in 1 .. n : Waits(t, d, i, n) <=> Waits(u, e, i, n)
    BY <1>2, <2>1 DEF Waits
  <2> QED
    BY <1>3, <2>2 DEF Reads
<1>7. ASSUME NEW k PROVE Carried(t, d, k, n) = Carried(u, e, k, n)
  <2>1. \A i \in 1 .. n : Live(t, d, k, i - 1) = Live(u, e, k, i - 1)
    BY <1>1, AlikeLive
  <2>2. \A x \in (1 .. n) \X (1 .. n) : x[2] \in 1 .. n
    OBVIOUS
  <2>3. \A x \in (1 .. n) \X (1 .. n) :
           Begin(t, d, x[2]) /\ x[1] \in Live(t, d, k, x[2] - 1) <=> Begin(u, e, x[2]) /\ x[1] \in Live(u, e, k, x[2] - 1)
    BY <1>2, <2>1, <2>2
  <2> QED
    BY <2>3 DEF Carried
<1>8. ASSUME NEW k PROVE Repeated(t, d, k, n) = Repeated(u, e, k, n)
  <2>1. \A j \in 1 .. n : \A g : LastBegin(t, d, g, j) <=> LastBegin(u, e, g, j)
    BY <1>1, AlikeKeys
  <2>2. \A g \in 1 .. n : KeysAt(t, d, g - 1) = KeysAt(u, e, g - 1)
    BY <1>1, AlikeKeys
  <2>3. \A j \in 1 .. n : \A g \in 1 .. j : g \in 1 .. n
    OBVIOUS
  <2>4. \A j \in 1 .. n :
          (\E g \in 1 .. j : LastBegin(t, d, g, j) /\ k \in KeysAt(t, d, g - 1)) <=>
          (\E g \in 1 .. j : LastBegin(u, e, g, j) /\ k \in KeysAt(u, e, g - 1))
    BY <2>1, <2>2, <2>3
  <2> QED
    BY <1>3, <2>4 DEF Repeated
<1> QED
  BY <1>4, <1>5, <1>6, <1>7, <1>8 DEF WorthOf

-----------------------------------------------------------------------------
(* What one record more changes in the working state.                      *)

LEMMA OnlyAssistantsBegin ==
    ASSUME NEW t, NEW d, NEW i
    PROVE  (Begin(t, d, i) => Asst(t, i)) /\ (Comp(t, i) => ~Asst(t, i)) /\ (Res(t, i) => ~Asst(t, i) /\ ~Comp(t, i))
BY DEF Begin, Asst, Comp, Res

LEMMA LastBeginOn ==
    ASSUME NEW t, NEW d, NEW n \in Nat, NEW g
    PROVE  /\ ~Begin(t, d, n + 1) => (LastBegin(t, d, g, n + 1) <=> LastBegin(t, d, g, n))
           /\ Begin(t, d, n + 1) => (LastBegin(t, d, g, n + 1) <=> g = n + 1)
<1>1. ASSUME ~Begin(t, d, n + 1) PROVE LastBegin(t, d, g, n + 1) <=> LastBegin(t, d, g, n)
  <2>1. ASSUME LastBegin(t, d, g, n + 1) PROVE LastBegin(t, d, g, n)
    <3>1. g \in 1 .. n + 1 /\ Begin(t, d, g) /\ \A s \in g + 1 .. n + 1 : ~Begin(t, d, s)
      BY <2>1 DEF LastBegin
    <3>2. g \in 1 .. n
      BY <1>1, <3>1
    <3>3. \A s \in g + 1 .. n : s \in g + 1 .. n + 1
      BY <3>2
    <3> QED
      BY <3>1, <3>2, <3>3 DEF LastBegin
  <2>2. ASSUME LastBegin(t, d, g, n) PROVE LastBegin(t, d, g, n + 1)
    <3>1. g \in 1 .. n /\ Begin(t, d, g) /\ \A s \in g + 1 .. n : ~Begin(t, d, s)
      BY <2>2 DEF LastBegin
    <3>2. \A s \in g + 1 .. n + 1 : s \in g + 1 .. n \/ s = n + 1
      BY <3>1
    <3> QED
      BY <1>1, <3>1, <3>2 DEF LastBegin
  <2> QED
    BY <2>1, <2>2
<1>2. ASSUME Begin(t, d, n + 1) PROVE LastBegin(t, d, g, n + 1) <=> g = n + 1
  <2>1. ASSUME LastBegin(t, d, g, n + 1) PROVE g = n + 1
    <3>1. g \in 1 .. n + 1 /\ \A s \in g + 1 .. n + 1 : ~Begin(t, d, s)
      BY <2>1 DEF LastBegin
    <3>2. g # n + 1 => n + 1 \in g + 1 .. n + 1
      BY <3>1
    <3> QED
      BY <1>2, <3>1, <3>2
  <2>2. ASSUME g = n + 1 PROVE LastBegin(t, d, g, n + 1)
    <3>1. n + 1 \in 1 .. n + 1 /\ \A s \in (n + 1) + 1 .. n + 1 : FALSE
      OBVIOUS
    <3> QED
      BY <1>2, <2>2, <3>1 DEF LastBegin
  <2> QED
    BY <2>1, <2>2
<1> QED
  BY <1>1, <1>2

LEMMA LastBeginOne ==
    ASSUME NEW t, NEW d, NEW n \in Nat, NEW g, NEW h, LastBegin(t, d, g, n), LastBegin(t, d, h, n)
    PROVE  g = h
<1>1. /\ g \in 1 .. n /\ h \in 1 .. n /\ Begin(t, d, g) /\ Begin(t, d, h)
      /\ \A s \in g + 1 .. n : ~Begin(t, d, s)
      /\ \A s \in h + 1 .. n : ~Begin(t, d, s)
  BY DEF LastBegin
<1>2. g < h => h \in g + 1 .. n
  BY <1>1
<1>3. h < g => g \in h + 1 .. n
  BY <1>1
<1> QED
  BY <1>1, <1>2, <1>3

LEMMA SameKeys ==
    ASSUME NEW t, NEW d, NEW n \in Nat, ~Asst(t, n + 1)
    PROVE  KeysAt(t, d, n + 1) = KeysAt(t, d, n)
<1>1. ~Begin(t, d, n + 1)
  BY OnlyAssistantsBegin
<1>2. \A g : LastBegin(t, d, g, n + 1) <=> LastBegin(t, d, g, n)
  BY <1>1, LastBeginOn
<1>3. \A k : ~CallOf(t, k, n + 1)
  BY DEF CallOf
<1>4. \A g : LastBegin(t, d, g, n) => g \in 1 .. n
  BY DEF LastBegin
<1>5. \A g \in 1 .. n : /\ g \in 1 .. n + 1
                        /\ \A b \in g .. n + 1 : b \in g .. n \/ b = n + 1
                        /\ \A b \in g .. n : b \in g .. n + 1
  OBVIOUS
<1>6. \A k : (\E g \in 1 .. n + 1 : LastBegin(t, d, g, n + 1) /\ \E b \in g .. n + 1 : CallOf(t, k, b)) <=>
             (\E g \in 1 .. n : LastBegin(t, d, g, n) /\ \E b \in g .. n : CallOf(t, k, b))
  BY <1>2, <1>3, <1>4, <1>5
<1> QED
  BY <1>6, Zenon DEF KeysAt

LEMMA SameLive ==
    ASSUME NEW t, NEW d, NEW k, NEW n \in Nat, ~Begin(t, d, n + 1), ~Comp(t, n + 1)
    PROVE  Live(t, d, k, n + 1) = Live(t, d, k, n)
<1>1. \A i \in 1 .. n + 1 : i \in 1 .. n \/ i = n + 1
  OBVIOUS
<1>2. \A i \in 1 .. n : i \in 1 .. n + 1
  OBVIOUS
<1>3. \A i : ~FirstRead(t, d, i, n + 1)
  BY DEF FirstRead
<1>4. \A f \in 1 .. n : ~FirstRead(t, d, n + 1, f)
  BY DEF FirstRead
<1>5. \A f \in 1 .. n : (\A m \in f .. n + 1 : ~Comp(t, m)) <=> (\A m \in f .. n : ~Comp(t, m))
  <2>1. \A f \in 1 .. n : \A m \in f .. n + 1 : m \in f .. n \/ m = n + 1
    OBVIOUS
  <2>2. \A f \in 1 .. n : \A m \in f .. n : m \in f .. n + 1
    OBVIOUS
  <2> QED
    BY <2>1, <2>2
<1>6. ASSUME NEW i \in Live(t, d, k, n + 1) PROVE i \in Live(t, d, k, n)
  <2>1. PICK f \in 1 .. n + 1 : FirstRead(t, d, i, f) /\ \A m \in f .. n + 1 : ~Comp(t, m)
    BY <1>6 DEF Live
  <2>2. i \in 1 .. n + 1 /\ ResultOf(t, k, i)
    BY <1>6 DEF Live
  <2>3. f \in 1 .. n
    BY <1>1, <1>3, <2>1
  <2>4. i \in 1 .. n
    BY <1>1, <1>4, <2>1, <2>2, <2>3
  <2> QED
    BY <1>5, <2>1, <2>2, <2>3, <2>4 DEF Live
<1>7. ASSUME NEW i \in Live(t, d, k, n) PROVE i \in Live(t, d, k, n + 1)
  <2>1. PICK f \in 1 .. n : FirstRead(t, d, i, f) /\ \A m \in f .. n : ~Comp(t, m)
    BY <1>7 DEF Live
  <2>2. i \in 1 .. n /\ ResultOf(t, k, i)
    BY <1>7 DEF Live
  <2> QED
    BY <1>2, <1>5, <2>1, <2>2 DEF Live
<1> QED
  BY <1>6, <1>7

LEMMA NoneLive ==
    ASSUME NEW t, NEW d, NEW k, NEW n \in Nat, Comp(t, n + 1)
    PROVE  Live(t, d, k, n + 1) = {}
<1>1. \A f \in 1 .. n + 1 : n + 1 \in f .. n + 1
  OBVIOUS
<1> QED
  BY <1>1 DEF Live

LEMMA UnansweredOn ==
    ASSUME NEW t, NEW n \in Nat, WellFormed(t), n + 1 <= Len(t)
    PROVE  Unanswered(t, n + 1) =
             IF Asst(t, n + 1) /\ t[n + 1].what \in Keys THEN Unanswered(t, n) \cup {n + 1}
             ELSE IF Res(t, n + 1) THEN Unanswered(t, n) \ {t[n + 1].id} ELSE Unanswered(t, n)
<1>1. \A i \in 1 .. n + 1 : i \in 1 .. n \/ i = n + 1
  OBVIOUS
<1>2. n + 1 \in 1 .. n + 1 /\ \A i \in 1 .. n : i \in 1 .. n + 1 /\ i # n + 1
  OBVIOUS
<1>3. \A i \in 1 .. n : i \in 1 .. Len(t)
  BY DEF WellFormed
<1>4. \A i \in 1 .. n : Res(t, i) => t[i].id \in 1 .. i - 1
  BY <1>3 DEF WellFormed
<1>5. \A i \in 1 .. n : Res(t, i) => t[i].id # n + 1
  BY <1>4
<1>6. Asst(t, n + 1) => ~Res(t, n + 1)
  BY OnlyAssistantsBegin
<1>7. CASE Asst(t, n + 1) /\ t[n + 1].what \in Keys
  BY <1>1, <1>2, <1>5, <1>6, <1>7 DEF Unanswered
<1>8. CASE ~(Asst(t, n + 1) /\ t[n + 1].what \in Keys) /\ Res(t, n + 1)
  BY <1>1, <1>2, <1>5, <1>6, <1>8 DEF Unanswered
<1>9. CASE ~(Asst(t, n + 1) /\ t[n + 1].what \in Keys) /\ ~Res(t, n + 1)
  BY <1>1, <1>2, <1>5, <1>6, <1>9 DEF Unanswered
<1> QED
  BY <1>7, <1>8, <1>9

LEMMA WaitingNext ==
    ASSUME NEW t, NEW d, NEW n \in Nat, WellFormed(t), n + 1 <= Len(t)
    PROVE  Waiting(t, d, n + 1) =
             IF Begin(t, d, n + 1) THEN {}
             ELSE IF Res(t, n + 1) THEN Waiting(t, d, n) \cup {t[n + 1].id} ELSE Waiting(t, d, n)
<1>1. \A i \in 1 .. n + 1 : i \in 1 .. n \/ i = n + 1
  OBVIOUS
<1>2. n + 1 \in 1 .. n + 1 /\ \A i \in 1 .. n : i \in 1 .. n + 1
  OBVIOUS
<1>3. Len(t) \in Nat /\ \A i \in 1 .. n + 1 : i \in 1 .. Len(t)
  BY DEF WellFormed
<1>4. \A i \in 1 .. n + 1 : Res(t, i) => t[i].id \in 1 .. i - 1
  BY <1>3 DEF WellFormed
<1>5. \A i \in 1 .. n + 1 : Res(t, i) => t[i].id \in 1 .. n /\ t[i].id \in 1 .. n + 1
  BY <1>4
<1>6. \A i \in 1 .. n : Waits(t, d, i, n + 1) <=> Waits(t, d, i, n) /\ ~Begin(t, d, n + 1)
  <2> SUFFICES ASSUME NEW i \in 1 .. n PROVE Waits(t, d, i, n + 1) <=> Waits(t, d, i, n) /\ ~Begin(t, d, n + 1)
    OBVIOUS
  <2>1. i \in Nat /\ i <= n
    OBVIOUS
  <2> QED
    BY <2>1, WaitsOn
<1>7. Waits(t, d, n + 1, n + 1)
  <2>1. n + 1 \in Nat /\ n + 1 >= n + 1
    OBVIOUS
  <2> QED
    BY <2>1, WaitsOn
<1>8. Begin(t, d, n + 1) => ~Res(t, n + 1)
  BY OnlyAssistantsBegin
<1>9. CASE Begin(t, d, n + 1)
  <2>1. \A i \in 1 .. n + 1 : ~(Res(t, i) /\ Waits(t, d, i, n + 1))
    BY <1>1, <1>6, <1>8, <1>9
  <2> QED
    BY <1>9, <2>1 DEF Waiting
<1>10. CASE ~Begin(t, d, n + 1) /\ Res(t, n + 1)
  <2>1. \A x : (\E i \in 1 .. n + 1 : Res(t, i) /\ t[i].id = x /\ Waits(t, d, i, n + 1)) <=>
               (\E i \in 1 .. n : Res(t, i) /\ t[i].id = x /\ Waits(t, d, i, n)) \/ x = t[n + 1].id
    BY <1>1, <1>2, <1>6, <1>7, <1>10
  <2>2. \A x : (\E i \in 1 .. n : Res(t, i) /\ t[i].id = x /\ Waits(t, d, i, n)) => x \in 1 .. n /\ x \in 1 .. n + 1
    BY <1>2, <1>5
  <2>3. t[n + 1].id \in 1 .. n + 1
    BY <1>2, <1>5, <1>10
  <2>4. \A x : x \in Waiting(t, d, n) <=> \E i \in 1 .. n : Res(t, i) /\ t[i].id = x /\ Waits(t, d, i, n)
    BY <2>2 DEF Waiting
  <2>5. \A x : x \in Waiting(t, d, n + 1) <=>
               (\E i \in 1 .. n : Res(t, i) /\ t[i].id = x /\ Waits(t, d, i, n)) \/ x = t[n + 1].id
    BY <2>1, <2>2, <2>3 DEF Waiting
  <2> QED
    BY <1>10, <2>4, <2>5
<1>11. CASE ~Begin(t, d, n + 1) /\ ~Res(t, n + 1)
  <2>1. \A x : (\E i \in 1 .. n + 1 : Res(t, i) /\ t[i].id = x /\ Waits(t, d, i, n + 1)) <=>
               (\E i \in 1 .. n : Res(t, i) /\ t[i].id = x /\ Waits(t, d, i, n))
    BY <1>1, <1>2, <1>6, <1>11
  <2>2. \A x : (\E i \in 1 .. n : Res(t, i) /\ t[i].id = x /\ Waits(t, d, i, n)) => x \in 1 .. n /\ x \in 1 .. n + 1
    BY <1>2, <1>5
  <2> QED
    BY <1>11, <2>1, <2>2 DEF Waiting
<1> QED
  BY <1>9, <1>10, <1>11

LEMMA FreshBegins ==
    ASSUME NEW t, NEW d, NEW n \in Nat, Fresh(t, d, n), Asst(t, n + 1)
    PROVE  Begin(t, d, n + 1)
<1>1. ~Comp(t, n + 1)
  BY OnlyAssistantsBegin
<1>2. (n + 1) - 1 = n
  OBVIOUS
<1>3. \A j \in 1 .. n : Asst(t, j) /\ t[j].id = t[n + 1].id => \E m \in j .. n : EndsAt(t, d, m)
  BY <1>1 DEF Fresh
<1> QED
  BY <1>2, <1>3 DEF Begin

LEMMA FreshOn ==
    ASSUME NEW t, NEW d, NEW n \in Nat, Fresh(t, d, n), ~Asst(t, n + 1)
    PROVE  Fresh(t, d, n + 1)
<1> SUFFICES ASSUME NEW j \in 1 .. n + 1, Asst(t, j) PROVE \E m \in j .. n + 1 : EndsAt(t, d, m)
  BY DEF Fresh
<1>1. j \in 1 .. n
  OBVIOUS
<1>2. (\E m \in j .. n : EndsAt(t, d, m)) \/ Comp(t, n + 1)
  BY <1>1 DEF Fresh
<1>3. n + 1 \in j .. n + 1 /\ \A m \in j .. n : m \in j .. n + 1
  BY <1>1
<1> QED
  BY <1>2, <1>3 DEF EndsAt

\* The records after the first o are of one response, with this id.
OneResponse(t, d, o, n, id) ==
    LastBegin(t, d, o + 1, n) /\ \A m \in o + 1 .. n : ~Comp(t, m) /\ (Asst(t, m) => t[m].id = id)

LEMMA GoesOn ==
    ASSUME NEW t, NEW d, NEW o \in Nat, NEW n \in Nat, NEW id, OneResponse(t, d, o, n, id), d \subseteq 0 .. o,
           t[n + 1].id = id
    PROVE  ~Begin(t, d, n + 1)
<1> SUFFICES ASSUME Begin(t, d, n + 1) PROVE FALSE
  OBVIOUS
<1>1. o + 1 \in 1 .. n /\ Begin(t, d, o + 1)
  BY DEF OneResponse, LastBegin
<1>2. o + 1 \in o + 1 .. n
  BY <1>1
<1>3. Asst(t, o + 1) /\ t[o + 1].id = id
  BY <1>1, <1>2, OnlyAssistantsBegin DEF OneResponse
<1>4. (n + 1) - 1 = n
  OBVIOUS
<1>5. \E m \in o + 1 .. n : EndsAt(t, d, m)
  BY <1>1, <1>3, <1>4 DEF Begin
<1>6. \A m \in o + 1 .. n : m \notin d
  OBVIOUS
<1> QED
  BY <1>5, <1>6 DEF EndsAt, OneResponse

LEMMA NextIsFresh ==
    ASSUME NEW t, NEW d, NEW o \in Nat, NEW n \in Nat, NEW id, WellFormed(t), OneResponse(t, d, o, n, id),
           n + 1 <= Len(t), Comp(t, n + 1) \/ (Asst(t, n + 1) /\ t[n + 1].id # id)
    PROVE  Fresh(t, d, n)
<1>1. CASE Comp(t, n + 1)
  BY <1>1 DEF Fresh
<1>2. CASE Asst(t, n + 1) /\ t[n + 1].id # id
  <2>1. o + 1 \in 1 .. n /\ Begin(t, d, o + 1)
    BY DEF OneResponse, LastBegin
  <2>2. Asst(t, o + 1) /\ t[o + 1].id = id
    <3>1. o + 1 \in o + 1 .. n
      BY <2>1
    <3> QED
      BY <2>1, <3>1, OnlyAssistantsBegin DEF OneResponse
  <2>3. Len(t) \in Nat /\ \A i \in 1 .. n + 1 : i \in 1 .. Len(t) /\ t[i] \in Records
    BY DEF WellFormed
  <2>4. \A i \in 1 .. n + 1 : t[i].id \in Nat
    BY <2>3 DEF Records
  <2>5. n + 1 \in 1 .. n + 1 /\ \A i \in 1 .. n : i \in 1 .. n + 1
    OBVIOUS
  <2>6. ASSUME NEW j \in 1 .. n, Asst(t, j) PROVE t[n + 1].id # t[j].id
    <3>1. CASE j \in o + 1 .. n
      <4>1. t[j].id = id
        BY <2>6, <3>1 DEF OneResponse
      <4> QED
        BY <1>2, <4>1
    <3>2. CASE j \notin o + 1 .. n
      <4>1. j < o + 1
        BY <3>2
      <4>2. t[j].id <= t[o + 1].id
        BY <2>1, <2>2, <2>3, <2>5, <2>6, <4>1 DEF WellFormed
      <4>3. t[o + 1].id <= t[n + 1].id
        <5>1. o + 1 < n + 1
          BY <2>1
        <5> QED
          BY <1>2, <2>1, <2>2, <2>3, <2>5, <5>1 DEF WellFormed
      <4>4. t[j].id \in Nat /\ t[o + 1].id \in Nat /\ t[n + 1].id \in Nat
        BY <2>1, <2>4, <2>5
      <4>5. t[o + 1].id # t[n + 1].id
        BY <1>2, <2>2
      <4> HIDE DEF OneResponse
      <4> QED
        BY <4>2, <4>3, <4>4, <4>5
    <3> QED
      BY <3>1, <3>2
  <2> QED
    BY <1>2, <2>6 DEF Fresh
<1> QED
  BY <1>1, <1>2

\* Once a response is over, what waited when it began is live.
LEMMA LiveClosed ==
    ASSUME NEW t, NEW d, NEW k, NEW o \in Nat, NEW n \in Nat, NEW id, OneResponse(t, d, o, n, id)
    PROVE  Cardinality(Live(t, d, k, n)) = Cardinality(Live(t, d, k, o)) + Cardinality(WaitingOf(t, d, k, o))
<1> DEFINE L == Live(t, d, k, o)
           W == WaitingOf(t, d, k, o)
           T == Live(t, d, k, n)
<1>1. L \in SUBSET (1 .. o) /\ W \in SUBSET (1 .. o)
  BY DEF Live, WaitingOf
<1>2. IsFiniteSet(L) /\ IsFiniteSet(W)
  BY <1>1, SomeFinite
<1>3. /\ o + 1 \in 1 .. n /\ Begin(t, d, o + 1)
      /\ \A s \in (o + 1) + 1 .. n : ~Begin(t, d, s)
      /\ \A m \in o + 1 .. n : ~Comp(t, m)
  BY DEF OneResponse, LastBegin
<1>4. \A i \in 1 .. o : i \in 1 .. n
  BY <1>3
<1>5. L \cap W = {}
  <2>1. ASSUME NEW i \in L PROVE ~Waits(t, d, i, o)
    <3>1. i \in 1 .. o
      BY <2>1 DEF Live
    <3>2. PICK f \in 1 .. o : FirstRead(t, d, i, f)
      BY <2>1 DEF Live
    <3>3. f \in i + 1 .. o /\ Begin(t, d, f)
      BY <3>1, <3>2 DEF FirstRead
    <3> QED
      BY <3>3 DEF Waits
  <2> QED
    BY <2>1 DEF WaitingOf
<1>6. ASSUME NEW i \in T PROVE i \in L \cup W
  <2>1. i \in 1 .. n /\ ResultOf(t, k, i)
    BY <1>6 DEF Live
  <2>2. PICK f \in 1 .. n : FirstRead(t, d, i, f) /\ \A m \in f .. n : ~Comp(t, m)
    BY <1>6 DEF Live
  <2>3. i < f /\ Begin(t, d, f) /\ Waits(t, d, i, f - 1)
    BY <2>2 DEF FirstRead
  <2>4. f \notin (o + 1) + 1 .. n
    BY <1>3, <2>3
  <2>5. f \in 1 .. o \/ f = o + 1
    BY <1>3, <2>2, <2>4
  <2>6. CASE f = o + 1
    <3>1. f - 1 = o /\ i \in 1 .. o
      BY <2>1, <2>3, <2>6
    <3> QED
      BY <2>1, <2>3, <3>1 DEF WaitingOf
  <2>7. CASE f \in 1 .. o
    <3>1. i \in 1 .. o /\ \A m \in f .. o : m \in f .. n
      BY <1>3, <2>1, <2>3, <2>7
    <3> QED
      BY <2>1, <2>2, <2>7, <3>1 DEF Live
  <2> QED
    BY <2>5, <2>6, <2>7
<1>7. ASSUME NEW i \in L PROVE i \in T
  <2>1. i \in 1 .. o /\ ResultOf(t, k, i)
    BY <1>7 DEF Live
  <2>2. PICK f \in 1 .. o : FirstRead(t, d, i, f) /\ \A m \in f .. o : ~Comp(t, m)
    BY <1>7 DEF Live
  <2>3. \A m \in f .. n : m \in f .. o \/ m \in o + 1 .. n
    OBVIOUS
  <2>4. \A m \in f .. n : ~Comp(t, m)
    BY <1>3, <2>2, <2>3
  <2> QED
    BY <1>4, <2>1, <2>2, <2>4 DEF Live
<1>8. ASSUME NEW i \in W PROVE i \in T
  <2>1. i \in 1 .. o /\ ResultOf(t, k, i) /\ Waits(t, d, i, o)
    BY <1>8 DEF WaitingOf
  <2>2. i < o + 1 /\ (o + 1) - 1 = o
    BY <2>1
  <2>3. FirstRead(t, d, i, o + 1)
    BY <1>3, <2>1, <2>2 DEF FirstRead
  <2> QED
    BY <1>3, <1>4, <2>1, <2>3 DEF Live
<1> HIDE DEF L, W, T
<1>9. T = L \cup W
  BY <1>6, <1>7, <1>8
<1>10. Cardinality(T) = Cardinality(L) + Cardinality(W)
  BY <1>2, <1>5, <1>9, ApartSum
<1> QED
  BY <1>10 DEF L, W, T

\* And its tools are those it called.
LEMMA KeysClosed ==
    ASSUME NEW t, NEW d, NEW o \in Nat, NEW n \in Nat, LastBegin(t, d, o + 1, n)
    PROVE  KeysAt(t, d, n) = {t[b].what : b \in {h \in o + 1 .. n : Asst(t, h) /\ t[h].what \in Keys}}
<1>1. \A g : LastBegin(t, d, g, n) => g = o + 1
  BY LastBeginOne
<1>2. o + 1 \in 1 .. n
  BY DEF LastBegin
<1>3. \A k : (\E g \in 1 .. n : LastBegin(t, d, g, n) /\ \E b \in g .. n : CallOf(t, k, b)) <=>
             (\E b \in o + 1 .. n : CallOf(t, k, b))
  BY <1>1, <1>2
<1>4. \A k : k \in KeysAt(t, d, n) <=> k \in Keys /\ \E b \in o + 1 .. n : CallOf(t, k, b)
  BY <1>3, Zenon DEF KeysAt
<1> QED
  BY <1>4, Zenon DEF CallOf

-----------------------------------------------------------------------------
(* A run that has read one record more.                                    *)

LEMMA FloorIn == Floor \in Metrics
BY DEF Floor, Metrics

LEMMA OfInNat ==
    ASSUME NEW t, NEW n \in Nat, NEW S \in SUBSET (1 .. n), NEW k
    PROVE  OfIn(t, S, k) \in Nat
<1>1. {b \in S : t[b].what = k} \in SUBSET (1 .. n)
  OBVIOUS
<1> QED
  BY <1>1, SomeFinite DEF OfIn

LEMMA OpenWorthNat ==
    ASSUME NEW t, NEW d, NEW n \in Nat, NEW r \in Runners, r.open = Closed \/ OpenAt(t, d, r, n),
           r.committed.offset <= n, NEW m \in Metrics \ {Floor}
    PROVE  OpenWorth(t, r, m) \in Nat
<1>0. /\ m[2] # "floor"
      /\ \/ m[2] \in {"response", "compaction"}
         \/ m[1] \in Keys /\ m[2] \in {"result", "carry", "retry"}
  BY MetricKinds
<1>1. CASE r.open = Closed
  BY <1>1 DEF OpenWorth
<1>2. CASE r.open # Closed
  <2>1. OpenAt(t, d, r, n)
    BY <1>2
  <2>2. r.committed \in Costs /\ r.w \in Works
    BY DEF Runners
  <2>3. r.committed.offset \in Nat /\ r.w.live \in [Keys -> Nat]
    BY <2>2 DEF Costs, Works
  <2> DEFINE b == r.committed.offset
  <2>4. r.open.calls = {h \in b + 1 .. n : Asst(t, h) /\ t[h].what \in Keys} /\ r.open.consumes = Waiting(t, d, b)
    BY <2>1 DEF OpenAt
  <2>5. Waiting(t, d, b) \in SUBSET (1 .. b)
    BY DEF Waiting
  <2> HIDE DEF b
  <2>6. b \in Nat /\ b <= n
    BY <2>3 DEF b
  <2>7. r.open.calls \in SUBSET (1 .. n) /\ r.open.consumes \in SUBSET (1 .. n)
    BY <2>4, <2>5, <2>6
  <2>8. \A k : OfIn(t, r.open.calls, k) \in Nat /\ OfIn(t, r.open.consumes, k) \in Nat
    BY <2>7, OfInNat
  <2>9. m[1] \in Keys => r.w.live[m[1]] \in Nat
    BY <2>3
  <2> QED
    BY <1>0, <1>2, <2>8, <2>9 DEF OpenWorth
<1> QED
  BY <1>1, <1>2

LEMMA RunnerMoves ==
    ASSUME NEW t, NEW d, NEW ct \in Counters, NEW r, NEW n \in Nat, RunnerAt(t, d, ct, r, n), WellFormed(t),
           n + 1 <= Len(t), NEW q \in Runners, q.committed = r.committed, q.out = r.out,
           \A m \in Metrics \ {Floor} :
              q.pending[m] + OpenWorth(t, q, m) = r.pending[m] + OpenWorth(t, r, m) + Gain(t, d, n, m),
           q.pending[Floor] = r.pending[Floor],
           r.w.floorDone => q.w.floorDone,
           q.open = Closed => WorkAt(t, d, q.w, n + 1, n + 1) /\ Fresh(t, d, n + 1),
           q.open # Closed => OpenAt(t, d, q, n + 1)
    PROVE  RunnerAt(t, d, ct, q, n + 1)
<1>1. /\ r \in Runners /\ r.committed.offset <= n /\ d \subseteq 0 .. r.committed.offset
      /\ SavedAt(t, d, r.committed) /\ Fresh(t, d, r.committed.offset)
      /\ r.open # Closed => OpenAt(t, d, r, n)
      /\ ct[Floor] + r.out[Floor] + r.pending[Floor] <= 1
      /\ ct[Floor] + r.out[Floor] + r.pending[Floor] = 1 => r.w.floorDone
      /\ ct[Floor] + r.out[Floor] = 1 => r.committed.w.floorDone
  BY DEF RunnerAt
<1>2. \A m \in Metrics \ {Floor} :
         /\ ct[m] + r.out[m] = WorthOf(t, d, r.committed.offset)[m]
         /\ ct[m] + r.out[m] + r.pending[m] + OpenWorth(t, r, m) = WorthOf(t, d, n)[m]
  BY DEF RunnerAt
<1>3. r.committed.offset \in Nat
  BY <1>1 DEF Runners, Costs
<1>4. r.committed.offset <= n + 1
  BY <1>1, <1>3
<1>5. ASSUME NEW m \in Metrics \ {Floor}
      PROVE  ct[m] + q.out[m] + q.pending[m] + OpenWorth(t, q, m) = WorthOf(t, d, n + 1)[m]
  <2> DEFINE a == ct[m]
             b == r.out[m]
             u == r.pending[m]
             v == OpenWorth(t, r, m)
             x == q.pending[m]
             y == OpenWorth(t, q, m)
             g == Gain(t, d, n, m)
             w == WorthOf(t, d, n)[m]
             z == WorthOf(t, d, n + 1)[m]
  <2>1. a \in Nat /\ b \in Nat /\ u \in Nat /\ x \in Nat
    BY <1>1 DEF Runners, Counters
  <2>2. v \in Nat
    BY <1>1, OpenWorthNat
  <2>3. n + 1 \in Nat
    OBVIOUS
  <2>4. y \in Nat
    BY <1>4, <2>3, OpenWorthNat
  <2>5. w \in Nat /\ g \in Nat /\ z = w + g
    BY WorthGrows
  <2>6. x + y = u + v + g
    OBVIOUS
  <2>7. a + b + u + v = w
    BY <1>2
  <2> HIDE DEF a, b, u, v, x, y, g, w, z
  <2>8. a + b + x + y = z
    BY <2>1, <2>2, <2>4, <2>5, <2>6, <2>7
  <2> QED
    BY <2>8 DEF a, b, x, y, z
<1>6. q.committed.offset <= n + 1 /\ n + 1 <= Len(t)
  BY <1>4
<1> QED
  BY <1>1, <1>2, <1>5, <1>6 DEF RunnerAt

LEMMA ClosedFields ==
    ASSUME NEW w \in Works, NEW K, NEW L, NEW v,
           v = [w EXCEPT !.floorDone = TRUE, !.model = TRUE, !.prev = K, !.live = L]
    PROVE  v = [uses |-> w.uses, unconsumed |-> w.unconsumed, prev |-> K, live |-> L, floorDone |-> TRUE,
                model |-> TRUE]
BY DEF Works

\* What closing the open response makes of a run.
LEMMA CloseFields ==
    ASSUME NEW r \in Runners, r.open # Closed
    PROVE  /\ closeOpen(r) =
                [w |-> closeOpen(r).w, open |-> Closed, pending |-> Plus(r.pending, ResponseMetrics(r.w, r.open)),
                 committed |-> r.committed, out |-> r.out]
           /\ closeOpen(r).w =
                [uses |-> r.w.uses, unconsumed |-> r.w.unconsumed, prev |-> {KeyOf(b) : b \in r.open.calls},
                 live |-> [k \in Keys |-> r.w.live[k] + Of(r.open.consumes, k)], floorDone |-> TRUE, model |-> TRUE]
           /\ closeOpen(r).w.floorDone
<1> DEFINE P == Plus(r.pending, ResponseMetrics(r.w, r.open))
           L == [k \in Keys |-> r.w.live[k] + Of(r.open.consumes, k)]
           K == {KeyOf(b) : b \in r.open.calls}
<1>1. closeOpen(r) = [r EXCEPT !.pending = P, !.w = [@ EXCEPT !.floorDone = TRUE, !.model = TRUE, !.prev = K, !.live = L],
                               !.open = Closed]
  BY Zenon DEF closeOpen
<1> HIDE DEF P, L, K
<1>2. r = [w |-> r.w, open |-> r.open, pending |-> r.pending, committed |-> r.committed, out |-> r.out]
  BY DEF Runners
<1>3. r.w \in Works
  BY DEF Runners
<1> DEFINE v == [r.w EXCEPT !.floorDone = TRUE, !.model = TRUE, !.prev = K, !.live = L]
<1>5. closeOpen(r) = [r EXCEPT !.pending = P, !.w = v, !.open = Closed]
  BY <1>1
<1>4. v = [uses |-> r.w.uses, unconsumed |-> r.w.unconsumed, prev |-> K, live |-> L, floorDone |-> TRUE, model |-> TRUE]
  BY <1>3, ClosedFields
<1> HIDE DEF v
<1>6. closeOpen(r) = [w |-> v, open |-> Closed, pending |-> P, committed |-> r.committed, out |-> r.out]
  BY <1>5 DEF Runners
<1>7. closeOpen(r).w = v
  BY <1>6
<1>8. v.floorDone
  BY <1>4
<1> QED
  BY <1>4, <1>6, <1>7, <1>8 DEF P, L, K

\* A response that is closed is worth what it was open.
LEMMA ResponseWorth ==
    ASSUME NEW r, r.open # Closed, NEW m \in Metrics \ {Floor}
    PROVE  ResponseMetrics(r.w, r.open)[m] = OpenWorth(transcript, r, m)
<1>1. /\ m[2] # "floor"
      /\ \/ m[2] \in {"response", "compaction"}
         \/ m[1] \in Keys /\ m[2] \in {"result", "carry", "retry"}
  BY MetricKinds
<1>2. \A S, k : Of(S, k) = OfIn(transcript, S, k)
  BY DEF Of, OfIn, KeyOf
<1> QED
  BY <1>1, <1>2 DEF ResponseMetrics, OpenWorth

LEMMA FloorWorth ==
    ASSUME NEW w, NEW g
    PROVE  ResponseMetrics(w, g)[Floor] = IF w.floorDone THEN 0 ELSE 1
<1>1. Floor[2] = "floor" /\ Floor \in Metrics
  BY FloorIn DEF Floor
<1> QED
  BY <1>1 DEF ResponseMetrics

\* Its working state knows it.
LEMMA ClosedWork ==
    ASSUME NEW d, NEW n \in Nat, NEW r \in Runners, r.open # Closed, OpenAt(transcript, d, r, n),
           r.committed.offset <= n, n <= Len(transcript), WellFormed(transcript)
    PROVE  closeOpen(r).w \in Works /\ WorkAt(transcript, d, closeOpen(r).w, n, n)
<1> DEFINE b == r.committed.offset
           v == closeOpen(r).w
           K == {KeyOf(h) : h \in r.open.calls}
           L == [k \in Keys |-> r.w.live[k] + Of(r.open.consumes, k)]
<1>1. v = [uses |-> r.w.uses, unconsumed |-> r.w.unconsumed, prev |-> K, live |-> L, floorDone |-> TRUE, model |-> TRUE]
  BY CloseFields
<1>2. r.w \in Works /\ r.committed \in Costs
  BY DEF Runners
<1>3. b \in Nat
  BY <1>2 DEF Costs
<1>4. /\ LastBegin(transcript, d, b + 1, n)
      /\ \A m \in b + 1 .. n : ~Comp(transcript, m) /\ (Asst(transcript, m) => transcript[m].id = r.open.id)
      /\ r.open.calls = {h \in b + 1 .. n : Asst(transcript, h) /\ transcript[h].what \in Keys}
      /\ r.open.consumes = Waiting(transcript, d, b)
      /\ WorkAt(transcript, d, r.w, n, b)
  BY DEF OpenAt
<1>5. OneResponse(transcript, d, b, n, r.open.id)
  BY <1>4 DEF OneResponse
<1>6. /\ r.w.uses = Unanswered(transcript, n) /\ r.w.unconsumed = Waiting(transcript, d, n)
      /\ \A k \in Keys : r.w.live[k] = Cardinality(Live(transcript, d, k, b))
  BY <1>4 DEF WorkAt
<1> HIDE DEF b, v, K, L
<1>7. b <= n /\ b <= Len(transcript)
  <2>1. Len(transcript) \in Nat
    BY DEF WellFormed
  <2> QED
    BY <1>3, <2>1 DEF b
<1>8. K = KeysAt(transcript, d, n)
  <2>1. KeysAt(transcript, d, n) =
          {transcript[h].what : h \in {e \in b + 1 .. n : Asst(transcript, e) /\ transcript[e].what \in Keys}}
    BY <1>3, <1>4, KeysClosed
  <2> QED
    BY <1>4, <2>1 DEF K, KeyOf
<1>9. ASSUME NEW k \in Keys PROVE L[k] = Cardinality(Live(transcript, d, k, n)) /\ L[k] \in Nat
  <2>1. L[k] = r.w.live[k] + OfIn(transcript, r.open.consumes, k)
    BY DEF L, Of, OfIn, KeyOf
  <2>2. Cardinality(WaitingOf(transcript, d, k, b)) = OfIn(transcript, Waiting(transcript, d, b), k)
    BY <1>3, <1>7, WaitingBoth
  <2>3. Cardinality(Live(transcript, d, k, n)) =
          Cardinality(Live(transcript, d, k, b)) + Cardinality(WaitingOf(transcript, d, k, b))
    BY <1>3, <1>5, LiveClosed
  <2>4. Cardinality(Live(transcript, d, k, n)) \in Nat
    BY KeyCountsAre
  <2> QED
    BY <1>4, <1>6, <2>1, <2>2, <2>3, <2>4
<1>10. L \in [Keys -> Nat]
  BY <1>9 DEF L
<1>11. K \in SUBSET Keys
  BY <1>8 DEF KeysAt
<1>12. v \in Works
  BY <1>1, <1>2, <1>10, <1>11 DEF Works
<1>13. \E s \in 1 .. n : Begin(transcript, d, s)
  BY <1>4 DEF LastBegin
<1>14. WorkAt(transcript, d, v, n, n)
  BY <1>1, <1>6, <1>8, <1>9, <1>13 DEF WorkAt
<1> QED
  BY <1>12, <1>14 DEF v

LEMMA PlusCounts ==
    ASSUME NEW a \in Counters, NEW b \in Counters
    PROVE  Plus(a, b) \in Counters /\ \A m \in Metrics : Plus(a, b)[m] = a[m] + b[m]
<1>1. \A m \in Metrics : a[m] \in Nat /\ b[m] \in Nat
  BY DEF Counters
<1>2. \A m \in Metrics : a[m] + b[m] \in Nat
  BY <1>1
<1> QED
  BY <1>2 DEF Plus, Counters

LEMMA NothingCounts == NoMetrics \in Counters /\ \A m \in Metrics : NoMetrics[m] = 0
BY DEF NoMetrics, Counters

\* Closing what is open leaves nothing of the n records uncounted.
LEMMA ClosesAll ==
    ASSUME NEW d, NEW ct \in Counters, NEW r, NEW n \in Nat, RunnerAt(transcript, d, ct, r, n), WellFormed(transcript),
           NEW x, x = closeOpen(r)
    PROVE  /\ x \in Runners /\ x.open = Closed /\ x.out = r.out /\ x.committed = r.committed
           /\ WorkAt(transcript, d, x.w, n, n)
           /\ \A m \in Metrics \ {Floor} : ct[m] + x.out[m] + x.pending[m] = WorthOf(transcript, d, n)[m]
           /\ ct[Floor] + x.out[Floor] + x.pending[Floor] <= 1
           /\ ct[Floor] + x.out[Floor] + x.pending[Floor] = 1 => x.w.floorDone
<1>1. /\ r \in Runners /\ r.committed.offset <= n /\ n <= Len(transcript)
      /\ r.open = Closed => WorkAt(transcript, d, r.w, n, n)
      /\ r.open # Closed => OpenAt(transcript, d, r, n)
      /\ ct[Floor] + r.out[Floor] + r.pending[Floor] <= 1
      /\ ct[Floor] + r.out[Floor] + r.pending[Floor] = 1 => r.w.floorDone
  BY DEF RunnerAt
<1>2. \A m \in Metrics \ {Floor} :
         ct[m] + r.out[m] + r.pending[m] + OpenWorth(transcript, r, m) = WorthOf(transcript, d, n)[m]
  BY DEF RunnerAt
<1>3. r.pending \in Counters /\ r.out \in Counters /\ r.w \in Works
  BY <1>1 DEF Runners
<1>4. \A m \in Metrics : ct[m] \in Nat /\ r.out[m] \in Nat /\ r.pending[m] \in Nat
  BY <1>3 DEF Counters
<1>5. CASE r.open = Closed
  <2>1. x = r
    BY <1>5 DEF closeOpen
  <2>2. \A m \in Metrics \ {Floor} : OpenWorth(transcript, r, m) = 0
    BY <1>5 DEF OpenWorth
  <2>3. \A m \in Metrics \ {Floor} : ct[m] + r.out[m] + r.pending[m] = WorthOf(transcript, d, n)[m]
    <3> SUFFICES ASSUME NEW m \in Metrics \ {Floor}
                 PROVE  ct[m] + r.out[m] + r.pending[m] = WorthOf(transcript, d, n)[m]
      OBVIOUS
    <3>1. ct[m] + r.out[m] + r.pending[m] + 0 = WorthOf(transcript, d, n)[m]
      BY <1>2, <2>2
    <3>2. ct[m] + r.out[m] + r.pending[m] \in Nat
      BY <1>4
    <3> QED
      BY <3>1, <3>2
  <2> QED
    BY <1>1, <1>5, <2>1, <2>3
<1>6. CASE r.open # Closed
  <2> DEFINE R == ResponseMetrics(r.w, r.open)
  <2>0. x.w.floorDone
    BY <1>1, <1>6, CloseFields, Zenon
  <2>1. x = [w |-> x.w, open |-> Closed, pending |-> Plus(r.pending, R), committed |-> r.committed, out |-> r.out]
    BY <1>1, <1>6, CloseFields, Zenon
  <2>2. x.w \in Works /\ WorkAt(transcript, d, x.w, n, n)
    BY <1>1, <1>6, ClosedWork
  <2>3. \A m \in Metrics \ {Floor} : R[m] = OpenWorth(transcript, r, m) /\ R[m] \in Nat
    BY <1>1, <1>6, ResponseWorth, OpenWorthNat
  <2>4. R[Floor] = IF r.w.floorDone THEN 0 ELSE 1
    BY FloorWorth
  <2>5. R = [m \in Metrics |-> R[m]]
    BY DEF ResponseMetrics
  <2> HIDE DEF R
  <2>6. \A m \in Metrics : R[m] \in Nat
    BY <2>3, <2>4
  <2>7. R \in Counters
    BY <2>5, <2>6 DEF Counters
  <2>8. Plus(r.pending, R) \in Counters /\ \A m \in Metrics : Plus(r.pending, R)[m] = r.pending[m] + R[m]
    BY <1>3, <2>7, PlusCounts
  <2>9. x.open = Closed /\ x.out = r.out /\ x.committed = r.committed /\ x.pending = Plus(r.pending, R)
    BY <2>1
  <2>10. x \in Runners
    <3>1. Closed \in Groups /\ r.committed \in Costs
      BY <1>1 DEF Closed, Groups, Runners
    <3> QED
      BY <1>3, <2>1, <2>2, <2>8, <3>1 DEF Runners
  <2>11. ASSUME NEW m \in Metrics \ {Floor}
         PROVE  ct[m] + x.out[m] + x.pending[m] = WorthOf(transcript, d, n)[m]
    <3> DEFINE v == OpenWorth(transcript, r, m)
               z == WorthOf(transcript, d, n)[m]
    <3>1. ct[m] + r.out[m] + r.pending[m] + v = z
      BY <1>2
    <3>2. x.out[m] = r.out[m] /\ x.pending[m] = r.pending[m] + v /\ v \in Nat
      BY <2>3, <2>8, <2>9
    <3> HIDE DEF v, z
    <3>3. ct[m] + x.out[m] + x.pending[m] = z
      BY <1>4, <3>1, <3>2
    <3> QED
      BY <3>3 DEF z
  <2>12. ct[Floor] + x.out[Floor] + x.pending[Floor] <= 1
    <3>1. x.out[Floor] = r.out[Floor] /\ x.pending[Floor] = r.pending[Floor] + R[Floor]
      BY <2>8, <2>9, FloorIn
    <3>2. ct[Floor] \in Nat /\ r.out[Floor] \in Nat /\ r.pending[Floor] \in Nat
      BY <1>4, FloorIn
    <3> QED
      BY <1>1, <2>4, <3>1, <3>2
  <2> QED
    BY <2>0, <2>2, <2>9, <2>10, <2>11, <2>12
<1> QED
  BY <1>5, <1>6

LEMMA CommitFields ==
    ASSUME NEW r \in Runners, NEW p, NEW c, c = commit(r, p)
    PROVE  c = [w |-> r.w, open |-> r.open, pending |-> NoMetrics, committed |-> [offset |-> p, w |-> r.w],
                out |-> Plus(r.out, r.pending)]
<1> DEFINE P == Plus(r.out, r.pending)
           S == [offset |-> p, w |-> r.w]
<1>1. c = [r EXCEPT !.committed = S, !.out = P, !.pending = NoMetrics]
  BY Zenon DEF commit
<1> HIDE DEF P, S
<1>2. c = [w |-> r.w, open |-> r.open, pending |-> NoMetrics, committed |-> S, out |-> P]
  BY <1>1 DEF Runners
<1> QED
  BY <1>2 DEF P, S

\* Committing all of the n records, as a final run does.
LEMMA CommitsAll ==
    ASSUME NEW d, NEW ct \in Counters, NEW r, NEW n \in Nat, RunnerAt(transcript, d, ct, r, n), WellFormed(transcript),
           NEW c, c = commit(closeOpen(r), n)
    PROVE  /\ c \in Runners /\ c.open = Closed /\ c.pending = NoMetrics /\ c.committed = [offset |-> n, w |-> c.w]
           /\ WorkAt(transcript, d, c.w, n, n)
           /\ SavedAt(transcript, d, c.committed)
           /\ PaidFor(transcript, d, ct, c.out, c.committed)
<1> DEFINE x == closeOpen(r)
<1>1. /\ x \in Runners /\ x.open = Closed /\ x.out = r.out /\ x.committed = r.committed
      /\ WorkAt(transcript, d, x.w, n, n)
      /\ \A m \in Metrics \ {Floor} : ct[m] + x.out[m] + x.pending[m] = WorthOf(transcript, d, n)[m]
      /\ ct[Floor] + x.out[Floor] + x.pending[Floor] <= 1
      /\ ct[Floor] + x.out[Floor] + x.pending[Floor] = 1 => x.w.floorDone
  BY ClosesAll
<1> HIDE DEF x
<1>2. c = [w |-> x.w, open |-> x.open, pending |-> NoMetrics, committed |-> [offset |-> n, w |-> x.w],
           out |-> Plus(x.out, x.pending)]
  BY <1>1, CommitFields DEF x
<1>3. /\ c.w = x.w /\ c.open = Closed /\ c.pending = NoMetrics /\ c.committed = [offset |-> n, w |-> c.w]
      /\ c.out = Plus(x.out, x.pending)
  BY <1>1, <1>2
<1>4. x.w \in Works /\ x.open \in Groups /\ x.out \in Counters /\ x.pending \in Counters
  BY <1>1 DEF Runners
<1>5. Plus(x.out, x.pending) \in Counters /\ \A m \in Metrics : Plus(x.out, x.pending)[m] = x.out[m] + x.pending[m]
  BY <1>4, PlusCounts
<1>6. \A m \in Metrics : ct[m] \in Nat /\ x.out[m] \in Nat /\ x.pending[m] \in Nat
  BY <1>4 DEF Counters
<1>7. \A m \in Metrics : ct[m] + c.out[m] = ct[m] + x.out[m] + x.pending[m]
  BY <1>3, <1>5, <1>6
<1>8. c \in Runners
  <2>1. [offset |-> n, w |-> x.w] \in Costs
    BY <1>4 DEF Costs
  <2> QED
    BY <1>2, <1>4, <1>5, <2>1, NothingCounts DEF Runners
<1>9. c.committed.offset = n /\ c.committed.w = c.w
  BY <1>3
<1>10. SavedAt(transcript, d, c.committed)
  <2>1. n <= Len(transcript)
    BY DEF RunnerAt
  <2> QED
    BY <1>1, <1>3, <1>9, <2>1 DEF SavedAt
<1>11. PaidFor(transcript, d, ct, c.out, c.committed)
  <2>1. ct[Floor] + c.out[Floor] = ct[Floor] + x.out[Floor] + x.pending[Floor]
    BY <1>7, FloorIn
  <2> QED
    BY <1>1, <1>3, <1>7, <1>9, <2>1 DEF PaidFor
<1> QED
  BY <1>1, <1>3, <1>8, <1>10, <1>11

LEMMA CommitsFresh ==
    ASSUME NEW d, NEW ct \in Counters, NEW r, NEW n \in Nat, RunnerAt(transcript, d, ct, r, n), WellFormed(transcript),
           Fresh(transcript, d, n), NEW c, c = commit(closeOpen(r), n)
    PROVE  RunnerAt(transcript, d, ct, c, n) /\ c.open = Closed /\ c.committed.offset = n
<1>1. /\ c \in Runners /\ c.open = Closed /\ c.pending = NoMetrics /\ c.committed = [offset |-> n, w |-> c.w]
      /\ WorkAt(transcript, d, c.w, n, n)
      /\ SavedAt(transcript, d, c.committed)
      /\ PaidFor(transcript, d, ct, c.out, c.committed)
  BY CommitsAll
<1>2. c.committed.offset = n /\ c.committed.w = c.w
  BY <1>1
<1>3. r \in Runners /\ r.committed.offset <= n /\ n <= Len(transcript) /\ d \subseteq 0 .. r.committed.offset
  BY DEF RunnerAt
<1>4. r.committed.offset \in Nat
  BY <1>3 DEF Runners, Costs
<1>5. d \subseteq 0 .. n
  BY <1>3, <1>4
<1>6. \A m \in Metrics : ct[m] \in Nat /\ c.out[m] \in Nat /\ c.pending[m] = 0
  BY <1>1, NothingCounts DEF Runners, Counters
<1>7. \A m \in Metrics : ct[m] + c.out[m] + c.pending[m] = ct[m] + c.out[m]
  BY <1>6
<1>8. \A m \in Metrics \ {Floor} :
         /\ ct[m] + c.out[m] = WorthOf(transcript, d, n)[m]
         /\ ct[m] + c.out[m] + c.pending[m] + OpenWorth(transcript, c, m) = WorthOf(transcript, d, n)[m]
  <2> SUFFICES ASSUME NEW m \in Metrics \ {Floor}
               PROVE  /\ ct[m] + c.out[m] = WorthOf(transcript, d, n)[m]
                      /\ ct[m] + c.out[m] + c.pending[m] + OpenWorth(transcript, c, m) = WorthOf(transcript, d, n)[m]
    OBVIOUS
  <2>1. ct[m] + c.out[m] = WorthOf(transcript, d, n)[m]
    BY <1>1, <1>2 DEF PaidFor
  <2>2. OpenWorth(transcript, c, m) = 0
    BY <1>1 DEF OpenWorth
  <2> QED
    BY <1>6, <1>7, <2>1, <2>2
<1>9. /\ ct[Floor] + c.out[Floor] + c.pending[Floor] = ct[Floor] + c.out[Floor]
      /\ ct[Floor] + c.out[Floor] <= 1
      /\ ct[Floor] + c.out[Floor] = 1 => c.w.floorDone
  BY <1>1, <1>2, <1>7, FloorIn DEF PaidFor
<1> QED
  BY <1>1, <1>2, <1>3, <1>5, <1>8, <1>9 DEF RunnerAt

\* A prompt or a result is worth nothing yet.
LEMMA QuietGain ==
    ASSUME NEW t, NEW d, NEW n \in Nat, ~Asst(t, n + 1), ~Comp(t, n + 1), NEW m \in Metrics \ {Floor}
    PROVE  Gain(t, d, n, m) = 0
<1>1. ~Begin(t, d, n + 1)
  BY OnlyAssistantsBegin
<1>2. ~Repeating(t, d, m[1], n + 1)
  BY DEF Repeating, CallOf
<1> QED
  BY <1>1, <1>2 DEF Gain

LEMMA QuietWork ==
    ASSUME NEW t, NEW d, NEW n \in Nat, ~Asst(t, n + 1), ~Comp(t, n + 1), NEW w, WorkAt(t, d, w, n, n), NEW v,
           v.uses = Unanswered(t, n + 1), v.unconsumed = Waiting(t, d, n + 1), v.prev = w.prev, v.live = w.live,
           v.model = w.model
    PROVE  WorkAt(t, d, v, n + 1, n + 1)
<1>1. ~Begin(t, d, n + 1)
  BY OnlyAssistantsBegin
<1>2. KeysAt(t, d, n + 1) = KeysAt(t, d, n)
  BY SameKeys
<1>3. \A k : Live(t, d, k, n + 1) = Live(t, d, k, n)
  BY <1>1, SameLive
<1>4. (\E s \in 1 .. n + 1 : Begin(t, d, s)) <=> (\E s \in 1 .. n : Begin(t, d, s))
  <2>1. \A s \in 1 .. n + 1 : s \in 1 .. n \/ s = n + 1
    OBVIOUS
  <2>2. \A s \in 1 .. n : s \in 1 .. n + 1
    OBVIOUS
  <2> QED
    BY <1>1, <2>1, <2>2
<1> QED
  BY <1>2, <1>3, <1>4 DEF WorkAt

LEMMA QuietOpen ==
    ASSUME NEW t, NEW d, NEW n \in Nat, ~Asst(t, n + 1), ~Comp(t, n + 1), NEW r, OpenAt(t, d, r, n),
           r.committed.offset \in Nat, NEW q, q.open = r.open, q.committed = r.committed,
           q.w.uses = Unanswered(t, n + 1), q.w.unconsumed = Waiting(t, d, n + 1), q.w.prev = r.w.prev,
           q.w.live = r.w.live, q.w.model = r.w.model
    PROVE  OpenAt(t, d, q, n + 1)
<1> DEFINE b == r.committed.offset
<1>1. /\ LastBegin(t, d, b + 1, n)
      /\ \A m \in b + 1 .. n : ~Comp(t, m) /\ (Asst(t, m) => t[m].id = r.open.id)
      /\ r.open.calls = {h \in b + 1 .. n : Asst(t, h) /\ t[h].what \in Keys}
      /\ r.open.consumes = Waiting(t, d, b)
      /\ WorkAt(t, d, r.w, n, b)
  BY DEF OpenAt
<1> HIDE DEF b
<1>2. b \in Nat
  BY DEF b
<1>3. ~Begin(t, d, n + 1)
  BY OnlyAssistantsBegin
<1>4. LastBegin(t, d, b + 1, n + 1)
  BY <1>1, <1>3, LastBeginOn
<1>5. \A m \in b + 1 .. n + 1 : m \in b + 1 .. n \/ m = n + 1
  BY <1>2
<1>6. \A m \in b + 1 .. n : m \in b + 1 .. n + 1
  BY <1>2
<1>7. \A m \in b + 1 .. n + 1 : ~Comp(t, m) /\ (Asst(t, m) => t[m].id = r.open.id)
  BY <1>1, <1>5
<1>8. r.open.calls = {h \in b + 1 .. n + 1 : Asst(t, h) /\ t[h].what \in Keys}
  BY <1>1, <1>5, <1>6
<1>9. WorkAt(t, d, q.w, n + 1, b)
  BY <1>1 DEF WorkAt
<1>10. q.committed.offset = b
  BY DEF b
<1> QED
  BY <1>1, <1>4, <1>7, <1>8, <1>9, <1>10 DEF OpenAt

LEMMA QuietRecord ==
    ASSUME NEW t, NEW d, NEW ct \in Counters, NEW r, NEW n \in Nat, RunnerAt(t, d, ct, r, n), WellFormed(t),
           n + 1 <= Len(t), ~Asst(t, n + 1), ~Comp(t, n + 1), NEW q \in Runners, q.open = r.open,
           q.pending = r.pending, q.committed = r.committed, q.out = r.out, q.w.uses = Unanswered(t, n + 1),
           q.w.unconsumed = Waiting(t, d, n + 1), q.w.prev = r.w.prev, q.w.live = r.w.live,
           q.w.floorDone = r.w.floorDone, q.w.model = r.w.model
    PROVE  RunnerAt(t, d, ct, q, n + 1)
<1>1. /\ r \in Runners /\ r.committed.offset <= n
      /\ r.open = Closed => WorkAt(t, d, r.w, n, n) /\ Fresh(t, d, n)
      /\ r.open # Closed => OpenAt(t, d, r, n)
  BY DEF RunnerAt
<1>2. r.committed.offset \in Nat /\ r.pending \in Counters
  BY <1>1 DEF Runners, Costs
<1>3. ASSUME NEW m \in Metrics \ {Floor}
      PROVE  q.pending[m] + OpenWorth(t, q, m) = r.pending[m] + OpenWorth(t, r, m) + Gain(t, d, n, m)
  <2>1. OpenWorth(t, q, m) = OpenWorth(t, r, m)
    BY DEF OpenWorth
  <2>2. OpenWorth(t, r, m) \in Nat /\ r.pending[m] \in Nat
    BY <1>1, <1>2, OpenWorthNat DEF Counters
  <2>3. Gain(t, d, n, m) = 0
    BY QuietGain
  <2> QED
    BY <2>1, <2>2, <2>3
<1>4. q.open = Closed => WorkAt(t, d, q.w, n + 1, n + 1) /\ Fresh(t, d, n + 1)
  BY <1>1, QuietWork, FreshOn
<1>5. q.open # Closed => OpenAt(t, d, q, n + 1)
  BY <1>1, <1>2, QuietOpen
<1>6. q.pending[Floor] = r.pending[Floor] /\ (r.w.floorDone => q.w.floorDone)
  OBVIOUS
<1> QED
  BY <1>3, <1>4, <1>5, <1>6, RunnerMoves

LEMMA WorkNow ==
    ASSUME NEW t, NEW d, NEW ct, NEW r, NEW n, RunnerAt(t, d, ct, r, n)
    PROVE  r.w.uses = Unanswered(t, n) /\ r.w.unconsumed = Waiting(t, d, n)
BY DEF RunnerAt, OpenAt, WorkAt

LEMMA PromptKeeps ==
    ASSUME NEW t, NEW d, NEW ct \in Counters, NEW r, NEW n \in Nat, RunnerAt(t, d, ct, r, n), WellFormed(t),
           n + 1 <= Len(t), t[n + 1].type = "prompt"
    PROVE  RunnerAt(t, d, ct, r, n + 1)
<1>1. ~Asst(t, n + 1) /\ ~Comp(t, n + 1) /\ ~Res(t, n + 1)
  BY DEF Asst, Comp, Res
<1>2. ~Begin(t, d, n + 1)
  BY <1>1, OnlyAssistantsBegin
<1>3. r.w.uses = Unanswered(t, n) /\ r.w.unconsumed = Waiting(t, d, n)
  BY WorkNow
<1>4. Unanswered(t, n + 1) = Unanswered(t, n)
  BY <1>1, UnansweredOn
<1>5. Waiting(t, d, n + 1) = Waiting(t, d, n)
  BY <1>1, <1>2, WaitingNext
<1>6. r \in Runners
  BY DEF RunnerAt
<1> QED
  BY <1>1, <1>3, <1>4, <1>5, <1>6, QuietRecord

\* A call that has its result.
Taken(r, ref) == [r EXCEPT !.w.uses = @ \ {ref}, !.w.unconsumed = @ \cup {ref}]

LEMMA TakenRunner ==
    ASSUME NEW from \in Runners, NEW answered \in Nat, NEW to, to = Taken(from, answered)
    PROVE  /\ to \in Runners /\ to.open = from.open /\ to.pending = from.pending
           /\ to.committed = from.committed /\ to.out = from.out
           /\ to.w.uses = from.w.uses \ {answered} /\ to.w.unconsumed = from.w.unconsumed \cup {answered}
           /\ to.w.prev = from.w.prev /\ to.w.live = from.w.live
           /\ to.w.floorDone = from.w.floorDone /\ to.w.model = from.w.model
<1> DEFINE a == from.w.uses \ {answered}
           b == from.w.unconsumed \cup {answered}
           v == [from.w EXCEPT !.uses = a, !.unconsumed = b]
<1>1. from.w \in Works
  BY DEF Runners
<1>2. a \in SUBSET Nat /\ b \in SUBSET Nat
  BY <1>1 DEF Works
<1>3. to = [from EXCEPT !.w = v]
  BY <1>1 DEF Taken, Runners, Works
<1> HIDE DEF a, b
<1>0. v = [from.w EXCEPT !.uses = a, !.unconsumed = b]
  OBVIOUS
<1> HIDE DEF v
<1>4. /\ v \in Works /\ v.uses = a /\ v.unconsumed = b /\ v.prev = from.w.prev /\ v.live = from.w.live
      /\ v.floorDone = from.w.floorDone /\ v.model = from.w.model
  BY <1>0, <1>1, <1>2 DEF Works
<1>5. to = [w |-> v, open |-> from.open, pending |-> from.pending, committed |-> from.committed, out |-> from.out]
  BY <1>3 DEF Runners
<1>6. to \in Runners
  BY <1>4, <1>5 DEF Runners
<1>7. to.w = v /\ to.open = from.open /\ to.pending = from.pending /\ to.committed = from.committed /\ to.out = from.out
  BY <1>5
<1> QED
  BY <1>4, <1>6, <1>7 DEF a, b

LEMMA TakenFields ==
    ASSUME NEW from \in Runners, NEW answered \in Nat, NEW to, to = Taken(from, answered)
    PROVE  /\ to.open = from.open /\ to.pending = from.pending
           /\ to.committed = from.committed /\ to.out = from.out
           /\ to.w.uses = from.w.uses \ {answered} /\ to.w.unconsumed = from.w.unconsumed \cup {answered}
           /\ to.w.prev = from.w.prev /\ to.w.live = from.w.live
           /\ to.w.floorDone = from.w.floorDone /\ to.w.model = from.w.model
BY TakenRunner, SMT

LEMMA ResultKeeps ==
    ASSUME NEW d, NEW ct \in Counters, NEW r, NEW n \in Nat, RunnerAt(transcript, d, ct, r, n), WellFormed(transcript),
           n + 1 <= Len(transcript), Res(transcript, n + 1), NEW q, q = user(r, n + 1)
    PROVE  RunnerAt(transcript, d, ct, q, n + 1) /\ q.committed = r.committed
<1> DEFINE ref == transcript[n + 1].id
<1>1. ~Asst(transcript, n + 1) /\ ~Comp(transcript, n + 1)
  BY OnlyAssistantsBegin
<1>2. ~Begin(transcript, d, n + 1)
  BY <1>1, OnlyAssistantsBegin
<1>3. r.w.uses = Unanswered(transcript, n) /\ r.w.unconsumed = Waiting(transcript, d, n)
  BY WorkNow
<1>4. Len(transcript) \in Nat /\ \A i \in 1 .. n + 1 : i \in 1 .. Len(transcript)
  BY DEF WellFormed
<1>5. n + 1 \in 1 .. n + 1 /\ \A i \in 1 .. n : i \in 1 .. n + 1 /\ i # n + 1
  OBVIOUS
<1>6. ref \in 1 .. (n + 1) - 1 /\ Asst(transcript, ref) /\ transcript[ref].what \in Keys
  BY <1>4, <1>5 DEF WellFormed
<1>7. \A j \in 1 .. n : Res(transcript, j) => transcript[j].id # ref
  BY <1>4, <1>5 DEF WellFormed
<1>8. ref \in Nat /\ ref \in 1 .. n
  BY <1>6
<1>9. ref \in Unanswered(transcript, n)
  BY <1>6, <1>7, <1>8 DEF Unanswered
<1>10. Unanswered(transcript, n + 1) = Unanswered(transcript, n) \ {ref}
  BY <1>1, UnansweredOn
<1>11. Waiting(transcript, d, n + 1) = Waiting(transcript, d, n) \cup {ref}
  BY <1>2, WaitingNext
<1>12. q = Taken(r, ref)
  BY <1>3, <1>9 DEF user, Taken
<1>13. r \in Runners
  BY DEF RunnerAt
<1> HIDE DEF ref
<1>14. /\ q \in Runners /\ q.open = r.open /\ q.pending = r.pending /\ q.committed = r.committed /\ q.out = r.out
       /\ q.w.uses = r.w.uses \ {ref} /\ q.w.unconsumed = r.w.unconsumed \cup {ref}
       /\ q.w.prev = r.w.prev /\ q.w.live = r.w.live /\ q.w.floorDone = r.w.floorDone /\ q.w.model = r.w.model
  <2>1. q \in Runners
    BY <1>8, <1>12, <1>13, TakenRunner, Zenon
  <2> QED
    BY <1>8, <1>12, <1>13, <2>1, TakenFields
<1>15. RunnerAt(transcript, d, ct, q, n + 1)
  BY <1>1, <1>3, <1>10, <1>11, <1>14, QuietRecord
<1> QED
  BY <1>14, <1>15

\* A boundary, once nothing is open.
Compaction == <<"session", "compaction">>

LEMMA CompactionOne ==
    /\ One(Compaction) \in Counters
    /\ \A m \in Metrics : /\ One(Compaction)[m] = IF m[2] = "compaction" THEN 1 ELSE 0
                          /\ m[2] = "compaction" => m = Compaction
<1>1. Compaction \in Metrics /\ Compaction[2] = "compaction" /\ Floor # Compaction
  BY DEF Compaction, Metrics, Floor
<1>2. ASSUME NEW m \in Metrics, m[2] = "compaction" PROVE m = Compaction
  <2>1. CASE m \in {"session"} \X {"response", "floor", "compaction"}
    <3>1. m = <<m[1], m[2]>> /\ m[1] = "session"
      BY <2>1
    <3> QED
      BY <1>2, <3>1 DEF Compaction
  <2>2. CASE m \in Keys \X {"result", "carry", "retry"}
    BY <1>2, <2>2
  <2> QED
    BY <2>1, <2>2 DEF Metrics
<1>3. One(Compaction) = [m \in Metrics |-> IF m = Compaction THEN 1 ELSE 0]
  BY <1>1 DEF One, NoMetrics
<1>4. \A m \in Metrics : m = Compaction <=> m[2] = "compaction"
  BY <1>1, <1>2
<1> HIDE DEF Compaction
<1>5. One(Compaction) \in Counters
  BY <1>3 DEF Counters
<1>6. \A m \in Metrics : One(Compaction)[m] = IF m[2] = "compaction" THEN 1 ELSE 0
  BY <1>3, <1>4
<1> QED
  BY <1>4, <1>5, <1>6

Dropped(c) ==
    [c EXCEPT !.w.live = [k \in Keys |-> 0],
              !.pending = IF c.w.model THEN Plus(@, One(<<"session", "compaction">>)) ELSE @]

LEMMA DroppedFields ==
    ASSUME NEW r \in Runners, NEW q, q = Dropped(r)
    PROVE  /\ q \in Runners /\ q.open = r.open /\ q.committed = r.committed /\ q.out = r.out
           /\ q.pending = IF r.w.model THEN Plus(r.pending, One(Compaction)) ELSE r.pending
           /\ q.w.uses = r.w.uses /\ q.w.unconsumed = r.w.unconsumed
           /\ q.w.prev = r.w.prev /\ q.w.floorDone = r.w.floorDone /\ q.w.model = r.w.model
           /\ \A k \in Keys : q.w.live[k] = 0
<1> DEFINE L == [k \in Keys |-> 0]
           P == IF r.w.model THEN Plus(r.pending, One(Compaction)) ELSE r.pending
           v == [r.w EXCEPT !.live = L]
<1>1. r.w \in Works /\ r.pending \in Counters
  BY DEF Runners
<1>2. P \in Counters
  BY <1>1, PlusCounts, CompactionOne
<1>3. L \in [Keys -> Nat] /\ \A k \in Keys : L[k] = 0
  OBVIOUS
<1> HIDE DEF L
<1>4. q = [r EXCEPT !.w = v, !.pending = P]
  BY <1>1 DEF Dropped, Runners, Works, Compaction, L
<1> HIDE DEF P
<1>5. v = [r.w EXCEPT !.live = L]
  OBVIOUS
<1> HIDE DEF v
<1>6. /\ v \in Works /\ v.uses = r.w.uses /\ v.unconsumed = r.w.unconsumed /\ v.prev = r.w.prev /\ v.live = L
      /\ v.floorDone = r.w.floorDone /\ v.model = r.w.model
  BY <1>1, <1>3, <1>5 DEF Works
<1>7. q = [w |-> v, open |-> r.open, pending |-> P, committed |-> r.committed, out |-> r.out]
  BY <1>4 DEF Runners
<1>8. q \in Runners
  BY <1>2, <1>6, <1>7 DEF Runners
<1>9. q.w = v /\ q.open = r.open /\ q.pending = P /\ q.committed = r.committed /\ q.out = r.out
  BY <1>7
<1> QED
  BY <1>3, <1>6, <1>8, <1>9 DEF P

LEMMA BoundaryKeeps ==
    ASSUME NEW t, NEW d, NEW ct \in Counters, NEW r, NEW n \in Nat, RunnerAt(t, d, ct, r, n), r.open = Closed,
           WellFormed(t), n + 1 <= Len(t), Comp(t, n + 1), NEW q, q = Dropped(r)
    PROVE  RunnerAt(t, d, ct, q, n + 1) /\ q.committed = r.committed
<1>1. r \in Runners /\ WorkAt(t, d, r.w, n, n) /\ Fresh(t, d, n)
  BY DEF RunnerAt
<1>2. /\ q \in Runners /\ q.open = r.open /\ q.committed = r.committed /\ q.out = r.out
      /\ q.pending = IF r.w.model THEN Plus(r.pending, One(Compaction)) ELSE r.pending
      /\ q.w.uses = r.w.uses /\ q.w.unconsumed = r.w.unconsumed
      /\ q.w.prev = r.w.prev /\ q.w.floorDone = r.w.floorDone /\ q.w.model = r.w.model
      /\ \A k \in Keys : q.w.live[k] = 0
  BY <1>1, DroppedFields
<1>3. ~Asst(t, n + 1) /\ ~Res(t, n + 1)
  BY OnlyAssistantsBegin
<1>4. ~Begin(t, d, n + 1)
  BY <1>3, OnlyAssistantsBegin
<1>5. /\ r.w.uses = Unanswered(t, n) /\ r.w.unconsumed = Waiting(t, d, n) /\ r.w.prev = KeysAt(t, d, n)
      /\ r.w.model <=> \E s \in 1 .. n : Begin(t, d, s)
  BY <1>1 DEF WorkAt
<1>6. Unanswered(t, n + 1) = Unanswered(t, n) /\ Waiting(t, d, n + 1) = Waiting(t, d, n)
  BY <1>3, <1>4, UnansweredOn, WaitingNext
<1>7. KeysAt(t, d, n + 1) = KeysAt(t, d, n)
  BY <1>3, SameKeys
<1>8. \A k : Cardinality(Live(t, d, k, n + 1)) = 0
  BY NoneLive, FS_EmptySet
<1>9. (\E s \in 1 .. n + 1 : Begin(t, d, s)) <=> (\E s \in 1 .. n : Begin(t, d, s))
  <2>1. \A s \in 1 .. n + 1 : s \in 1 .. n \/ s = n + 1
    OBVIOUS
  <2>2. \A s \in 1 .. n : s \in 1 .. n + 1
    OBVIOUS
  <2> QED
    BY <1>4, <2>1, <2>2
<1>10. WorkAt(t, d, q.w, n + 1, n + 1)
  BY <1>2, <1>5, <1>6, <1>7, <1>8, <1>9 DEF WorkAt
<1>11. Fresh(t, d, n + 1)
  BY <1>1, <1>3, FreshOn
<1>12. r.pending \in Counters /\ One(Compaction) \in Counters
  BY <1>1, CompactionOne DEF Runners
<1>13. \A m \in Metrics : Plus(r.pending, One(Compaction))[m] = r.pending[m] + One(Compaction)[m]
  BY <1>12, PlusCounts
<1>14. \A m \in Metrics : r.pending[m] \in Nat /\ One(Compaction)[m] = IF m[2] = "compaction" THEN 1 ELSE 0
  BY <1>12, CompactionOne DEF Counters
<1>15. \A m \in Metrics : q.pending[m] = r.pending[m] + IF r.w.model /\ m[2] = "compaction" THEN 1 ELSE 0
  BY <1>2, <1>13, <1>14
<1>16. ASSUME NEW m \in Metrics \ {Floor}
       PROVE  q.pending[m] + OpenWorth(t, q, m) = r.pending[m] + OpenWorth(t, r, m) + Gain(t, d, n, m)
  <2>1. OpenWorth(t, q, m) = 0 /\ OpenWorth(t, r, m) = 0
    BY <1>2 DEF OpenWorth
  <2>2. ~Repeating(t, d, m[1], n + 1)
    BY <1>3 DEF Repeating, CallOf
  <2>3. Gain(t, d, n, m) = IF r.w.model /\ m[2] = "compaction" THEN 1 ELSE 0
    BY <1>4, <1>5, <2>2 DEF Gain
  <2> QED
    BY <1>14, <1>15, <2>1, <2>3
<1>17. q.pending[Floor] = r.pending[Floor]
  <2>1. Floor \in Metrics /\ Floor[2] # "compaction"
    BY FloorIn DEF Floor
  <2> QED
    BY <1>14, <1>15, <2>1
<1>18. RunnerAt(t, d, ct, q, n + 1)
  BY <1>2, <1>10, <1>11, <1>16, <1>17, RunnerMoves
<1> QED
  BY <1>2, <1>18

LEMMA OpenIsOne ==
    ASSUME NEW t, NEW d, NEW r, NEW n, OpenAt(t, d, r, n)
    PROVE  OneResponse(t, d, r.committed.offset, n, r.open.id)
BY DEF OpenAt, OneResponse

LEMMA CompactKeeps ==
    ASSUME NEW d, NEW ct \in Counters, NEW r, NEW n \in Nat, RunnerAt(transcript, d, ct, r, n), WellFormed(transcript),
           n + 1 <= Len(transcript), Comp(transcript, n + 1), NEW q, q = compact(r, n + 1)
    PROVE  RunnerAt(transcript, d, ct, q, n + 1) /\ r.committed.offset <= q.committed.offset
<1>1. r \in Runners /\ r.committed.offset <= n /\ (r.open # Closed => OpenAt(transcript, d, r, n))
  BY DEF RunnerAt
<1>2. r.committed.offset \in Nat
  BY <1>1 DEF Runners, Costs
<1>3. CASE r.open = Closed
  <2>1. q = Dropped(r)
    BY <1>3 DEF compact, Dropped
  <2>2. RunnerAt(transcript, d, ct, q, n + 1) /\ q.committed = r.committed
    BY <1>3, <2>1, BoundaryKeeps
  <2> QED
    BY <1>2, <2>2
<1>4. CASE r.open # Closed
  <2> DEFINE h == commit(closeOpen(r), n)
  <2>1. (n + 1) - 1 = n
    OBVIOUS
  <2>2. q = Dropped(h)
    BY <1>4, <2>1 DEF compact, Dropped
  <2>3. OneResponse(transcript, d, r.committed.offset, n, r.open.id)
    BY <1>1, <1>4, OpenIsOne
  <2>4. Fresh(transcript, d, n)
    BY <1>2, <2>3, NextIsFresh
  <2>5. RunnerAt(transcript, d, ct, h, n) /\ h.open = Closed /\ h.committed.offset = n
    BY <2>4, CommitsFresh
  <2> HIDE DEF h
  <2>6. RunnerAt(transcript, d, ct, q, n + 1) /\ q.committed = h.committed
    BY <2>2, <2>5, BoundaryKeeps
  <2> QED
    BY <1>1, <2>5, <2>6
<1> QED
  BY <1>3, <1>4

\* A record of the open response.
CalledAt(r, i) == IF ~IsCall(i) THEN r ELSE [r EXCEPT !.w.uses = @ \cup {i}, !.open.calls = @ \cup {i}]

NewCall(i) == IF IsCall(i) THEN {i} ELSE {}

LEMMA CalledRunner ==
    ASSUME NEW from \in Runners, NEW rec \in Nat, NEW to, to = CalledAt(from, rec)
    PROVE  /\ to \in Runners /\ to.pending = from.pending /\ to.committed = from.committed /\ to.out = from.out
           /\ to.open.id = from.open.id /\ to.open.consumes = from.open.consumes
           /\ to.open.calls = from.open.calls \cup NewCall(rec)
           /\ to.w.uses = from.w.uses \cup NewCall(rec)
           /\ to.w.unconsumed = from.w.unconsumed /\ to.w.prev = from.w.prev /\ to.w.live = from.w.live
           /\ to.w.floorDone = from.w.floorDone /\ to.w.model = from.w.model
<1>1. CASE ~IsCall(rec)
  <2>1. to = from
    BY <1>1 DEF CalledAt
  <2> QED
    BY <1>1, <2>1 DEF NewCall
<1>2. CASE IsCall(rec)
  <2> DEFINE a == from.w.uses \cup {rec}
             b == from.open.calls \cup {rec}
             v == [from.w EXCEPT !.uses = a]
             g == [from.open EXCEPT !.calls = b]
  <2>1. from.w \in Works /\ from.open \in Groups
    BY DEF Runners
  <2>2. a \in SUBSET Nat /\ b \in SUBSET Nat
    BY <2>1 DEF Works, Groups
  <2>3. to = [from EXCEPT !.w.uses = @ \cup {rec}, !.open.calls = @ \cup {rec}]
    BY <1>2 DEF CalledAt
  <2>4. to = [from EXCEPT !.w = v, !.open = g]
    BY <2>1, <2>3 DEF Runners, Works, Groups
  <2> HIDE DEF a, b
  <2>5. v = [from.w EXCEPT !.uses = a] /\ g = [from.open EXCEPT !.calls = b]
    OBVIOUS
  <2> HIDE DEF v, g
  <2>6. /\ v \in Works /\ v.uses = a /\ v.unconsumed = from.w.unconsumed /\ v.prev = from.w.prev /\ v.live = from.w.live
        /\ v.floorDone = from.w.floorDone /\ v.model = from.w.model
    BY <2>1, <2>2, <2>5 DEF Works
  <2>7. g \in Groups /\ g.id = from.open.id /\ g.consumes = from.open.consumes /\ g.calls = b
    BY <2>1, <2>2, <2>5 DEF Groups
  <2>8. to = [w |-> v, open |-> g, pending |-> from.pending, committed |-> from.committed, out |-> from.out]
    BY <2>4 DEF Runners
  <2>9. to \in Runners
    BY <2>6, <2>7, <2>8 DEF Runners
  <2>10. to.w = v /\ to.open = g /\ to.pending = from.pending /\ to.committed = from.committed /\ to.out = from.out
    BY <2>8
  <2> QED
    BY <1>2, <2>6, <2>7, <2>9, <2>10 DEF a, b, NewCall
<1> QED
  BY <1>1, <1>2

LEMMA CalledFields ==
    ASSUME NEW from \in Runners, NEW rec \in Nat, NEW to, to = CalledAt(from, rec)
    PROVE  /\ to.pending = from.pending /\ to.committed = from.committed /\ to.out = from.out
           /\ to.open.id = from.open.id /\ to.open.consumes = from.open.consumes
           /\ to.open.calls = from.open.calls \cup NewCall(rec)
           /\ to.w.uses = from.w.uses \cup NewCall(rec)
           /\ to.w.unconsumed = from.w.unconsumed /\ to.w.prev = from.w.prev /\ to.w.live = from.w.live
           /\ to.w.floorDone = from.w.floorDone /\ to.w.model = from.w.model
BY CalledRunner, SMT

LEMMA OneMoreOf ==
    ASSUME NEW t, NEW n \in Nat, NEW S \in SUBSET (1 .. n), NEW k
    PROVE  /\ OfIn(t, S, k) \in Nat
           /\ OfIn(t, S \cup {n + 1}, k) = OfIn(t, S, k) + IF t[n + 1].what = k THEN 1 ELSE 0
<1> DEFINE A == {b \in S : t[b].what = k}
           B == {b \in S \cup {n + 1} : t[b].what = k}
<1>1. A \in SUBSET (1 .. n) /\ B \in SUBSET (1 .. n + 1)
  <2>1. n + 1 \in 1 .. n + 1 /\ \A i \in 1 .. n : i \in 1 .. n + 1
    OBVIOUS
  <2> QED
    BY <2>1
<1>2. \A i \in 1 .. n : i \in B <=> i \in A
  OBVIOUS
<1>3. n + 1 \in B <=> t[n + 1].what = k
  OBVIOUS
<1> HIDE DEF A, B
<1>4. Cardinality(B) = Cardinality(A) + (IF n + 1 \in B THEN 1 ELSE 0)
  BY <1>1, <1>2, OneMoreIn
<1>5. Cardinality(A) \in Nat
  BY <1>1, SomeFinite
<1> QED
  BY <1>3, <1>4, <1>5 DEF A, B, OfIn

LEMMA SameResponse ==
    ASSUME NEW d, NEW ct \in Counters, NEW r, NEW n \in Nat, RunnerAt(transcript, d, ct, r, n), r.open # Closed,
           WellFormed(transcript), n + 1 <= Len(transcript), Asst(transcript, n + 1),
           transcript[n + 1].id = r.open.id, NEW q, q = CalledAt(r, n + 1)
    PROVE  RunnerAt(transcript, d, ct, q, n + 1) /\ q.committed = r.committed
<1> DEFINE o == r.committed.offset
           i == n + 1
           N == NewCall(i)
<1>1. /\ r \in Runners /\ o <= n /\ d \subseteq 0 .. o /\ OpenAt(transcript, d, r, n)
  BY DEF RunnerAt
<1>2. o \in Nat /\ i \in Nat
  BY <1>1 DEF Runners, Costs
<1>3. /\ LastBegin(transcript, d, o + 1, n)
      /\ \A m \in o + 1 .. n : ~Comp(transcript, m) /\ (Asst(transcript, m) => transcript[m].id = r.open.id)
      /\ r.open.calls = {h \in o + 1 .. n : Asst(transcript, h) /\ transcript[h].what \in Keys}
      /\ r.open.consumes = Waiting(transcript, d, o)
      /\ WorkAt(transcript, d, r.w, n, o)
  BY <1>1 DEF OpenAt
<1>4. OneResponse(transcript, d, o, n, r.open.id)
  BY <1>3 DEF OneResponse
<1> HIDE DEF o
<1>5. ~Begin(transcript, d, i)
  BY <1>1, <1>2, <1>4, GoesOn
<1>6. IsCall(i) <=> transcript[i].what \in Keys
  BY DEF IsCall, IsA, Asst
<1>7. ~Comp(transcript, i) /\ ~Res(transcript, i)
  BY OnlyAssistantsBegin
<1>0. q = CalledAt(r, i)
  OBVIOUS
<1> HIDE DEF i
<1>8. /\ q \in Runners /\ q.pending = r.pending /\ q.committed = r.committed /\ q.out = r.out
      /\ q.open.id = r.open.id /\ q.open.consumes = r.open.consumes
      /\ q.open.calls = r.open.calls \cup N /\ q.w.uses = r.w.uses \cup N
      /\ q.w.unconsumed = r.w.unconsumed /\ q.w.prev = r.w.prev /\ q.w.live = r.w.live
      /\ q.w.floorDone = r.w.floorDone /\ q.w.model = r.w.model
  <2>0. r \in Runners /\ i \in Nat
    BY <1>1, <1>2
  <2>1. q \in Runners
    BY <2>0, <1>0, CalledRunner, Zenon
  <2> QED
    BY <2>0, <1>0, <2>1, CalledFields
<1> HIDE DEF N
<1>9. q.open # Closed
  <2>1. Len(transcript) \in Nat /\ n + 1 \in 1 .. Len(transcript)
    BY DEF WellFormed
  <2>2. transcript[n + 1].id > 0
    BY <2>1 DEF WellFormed
  <2>3. q.open.id > 0
    BY <1>8, <2>2
  <2> QED
    BY <2>3 DEF Closed
<1>10. Unanswered(transcript, i) = r.w.uses \cup N
  <2>1. r.w.uses = Unanswered(transcript, n)
    BY <1>3 DEF WorkAt
  <2>2. Unanswered(transcript, n + 1) =
           IF transcript[n + 1].what \in Keys THEN Unanswered(transcript, n) \cup {n + 1} ELSE Unanswered(transcript, n)
    BY <1>7, UnansweredOn DEF i
  <2> QED
    BY <1>6, <2>1, <2>2 DEF i, N, NewCall
<1>11. Waiting(transcript, d, i) = r.w.unconsumed
  <2>1. r.w.unconsumed = Waiting(transcript, d, n)
    BY <1>3 DEF WorkAt
  <2> QED
    BY <1>5, <1>7, <2>1, WaitingNext DEF i
<1>12. WorkAt(transcript, d, q.w, i, o)
  BY <1>3, <1>8, <1>10, <1>11 DEF WorkAt
<1>13. LastBegin(transcript, d, o + 1, i)
  BY <1>3, <1>5, LastBeginOn DEF i
<1>14. i \in o + 1 .. i /\ (\A m \in o + 1 .. i : m \in o + 1 .. n \/ m = i) /\ \A m \in o + 1 .. n : m \in o + 1 .. i
  BY <1>1, <1>2 DEF i
<1>15. \A m \in o + 1 .. i : ~Comp(transcript, m) /\ (Asst(transcript, m) => transcript[m].id = q.open.id)
  BY <1>3, <1>7, <1>8, <1>14 DEF i
<1>16. q.open.calls = {h \in o + 1 .. i : Asst(transcript, h) /\ transcript[h].what \in Keys}
  <2>1. Asst(transcript, i)
    BY DEF i
  <2> QED
    BY <1>3, <1>6, <1>8, <1>14, <2>1 DEF N, NewCall
<1>17. OpenAt(transcript, d, q, i)
  BY <1>3, <1>8, <1>12, <1>13, <1>15, <1>16 DEF OpenAt, o
<1>18. ASSUME NEW m \in Metrics \ {Floor}
       PROVE  q.pending[m] + OpenWorth(transcript, q, m) =
                r.pending[m] + OpenWorth(transcript, r, m) + Gain(transcript, d, n, m)
  <2>0. /\ m[2] # "floor"
        /\ \/ m[2] \in {"response", "compaction"}
           \/ m[1] \in Keys /\ m[2] \in {"result", "carry", "retry"}
    BY MetricKinds
  <2>1. r.pending[m] \in Nat
    BY <1>1 DEF Runners, Counters
  <2>2. OpenWorth(transcript, r, m) \in Nat
    BY <1>1, OpenWorthNat DEF o
  <2>3. CASE m[2] # "retry"
    <3>1. OpenWorth(transcript, q, m) = OpenWorth(transcript, r, m)
      BY <1>8, <1>9, <2>0, <2>3 DEF OpenWorth
    <3>2. Gain(transcript, d, n, m) = 0
      BY <1>5, <1>7, <2>0, <2>3 DEF Gain, i
    <3> QED
      BY <1>8, <2>1, <2>2, <3>1, <3>2
  <2>4. CASE m[2] = "retry"
    <3>1. m[1] \in Keys
      BY <2>0, <2>4
    <3>2. OpenWorth(transcript, r, m) = IF m[1] \in r.w.prev THEN OfIn(transcript, r.open.calls, m[1]) ELSE 0
      BY <2>4 DEF OpenWorth
    <3>3. OpenWorth(transcript, q, m) = IF m[1] \in r.w.prev THEN OfIn(transcript, q.open.calls, m[1]) ELSE 0
      BY <1>8, <1>9, <2>4 DEF OpenWorth
    <3>4. Repeating(transcript, d, m[1], i) <=> transcript[i].what = m[1] /\ m[1] \in r.w.prev
      <4>1. \A g : LastBegin(transcript, d, g, i) <=> g = o + 1
        BY <1>13, <1>2, LastBeginOne
      <4>2. o + 1 \in 1 .. i /\ (o + 1) - 1 = o
        BY <1>1, <1>2 DEF i
      <4>3. r.w.prev = KeysAt(transcript, d, o)
        BY <1>3 DEF WorkAt
      <4>4. CallOf(transcript, m[1], i) <=> transcript[i].what = m[1]
        BY DEF CallOf, i
      <4>5. (\E g \in 1 .. i : LastBegin(transcript, d, g, i) /\ m[1] \in KeysAt(transcript, d, g - 1)) <=>
              m[1] \in KeysAt(transcript, d, o)
        BY <4>1, <4>2
      <4> QED
        BY <4>3, <4>4, <4>5 DEF Repeating
    <3>5. Gain(transcript, d, n, m) = IF transcript[i].what = m[1] /\ m[1] \in r.w.prev THEN 1 ELSE 0
      BY <2>4, <3>4 DEF Gain, i
    <3>6. OfIn(transcript, q.open.calls, m[1]) =
             OfIn(transcript, r.open.calls, m[1]) + IF transcript[i].what = m[1] THEN 1 ELSE 0
      <4>1. r.open.calls \in SUBSET (1 .. n)
        <5>1. \A h \in o + 1 .. n : h \in 1 .. n
          BY <1>2
        <5> QED
          BY <1>3, <5>1
      <4>2. /\ OfIn(transcript, r.open.calls, m[1]) \in Nat
            /\ OfIn(transcript, r.open.calls \cup {n + 1}, m[1]) =
                 OfIn(transcript, r.open.calls, m[1]) + IF transcript[n + 1].what = m[1] THEN 1 ELSE 0
        BY <4>1, OneMoreOf
      <4>3. CASE IsCall(i)
        BY <1>8, <4>2, <4>3 DEF N, i, NewCall
      <4>4. CASE ~IsCall(i)
        <5>1. q.open.calls = r.open.calls
          BY <1>8, <4>4 DEF N, NewCall
        <5> QED
          BY <1>6, <3>1, <4>2, <4>4, <5>1
      <4> QED
        BY <4>3, <4>4
    <3>7. m[1] \in r.w.prev => OfIn(transcript, r.open.calls, m[1]) \in Nat
      BY <2>2, <3>2
    <3> QED
      BY <1>8, <2>1, <3>2, <3>3, <3>5, <3>6, <3>7
  <2> QED
    BY <2>3, <2>4
<1>19. RunnerAt(transcript, d, ct, q, n + 1)
  BY <1>8, <1>9, <1>17, <1>18, RunnerMoves DEF i
<1> QED
  BY <1>8, <1>19

\* The first record of the next response.
OpensAt(r, i) ==
    [r EXCEPT !.open = [Closed EXCEPT !.id = transcript[i].id, !.consumes = r.w.unconsumed], !.w.unconsumed = {}]

LEMMA OpenedGroup ==
    ASSUME NEW g \in Groups, NEW a \in Nat, NEW b \in SUBSET Nat, NEW e, e = [g EXCEPT !.id = a, !.consumes = b]
    PROVE  e = [id |-> a, calls |-> g.calls, consumes |-> b]
BY DEF Groups

LEMMA OpenedFields ==
    ASSUME NEW r \in Runners, NEW j, transcript[j].id \in Nat, NEW q, q = OpensAt(r, j)
    PROVE  /\ q \in Runners /\ q.pending = r.pending /\ q.committed = r.committed /\ q.out = r.out
           /\ q.open.id = transcript[j].id /\ q.open.consumes = r.w.unconsumed /\ q.open.calls = {}
           /\ q.w.uses = r.w.uses /\ q.w.unconsumed = {} /\ q.w.prev = r.w.prev /\ q.w.live = r.w.live
           /\ q.w.floorDone = r.w.floorDone /\ q.w.model = r.w.model
<1> DEFINE g == [id |-> transcript[j].id, calls |-> {}, consumes |-> r.w.unconsumed]
           v == [r.w EXCEPT !.unconsumed = {}]
<1>1. r.w \in Works
  BY DEF Runners
<1>2. [Closed EXCEPT !.id = transcript[j].id, !.consumes = r.w.unconsumed] = g
  <2>1. Closed \in Groups /\ Closed.calls = {}
    BY DEF Closed, Groups
  <2>2. r.w.unconsumed \in SUBSET Nat
    BY <1>1 DEF Works
  <2> DEFINE z == [Closed EXCEPT !.id = transcript[j].id, !.consumes = r.w.unconsumed]
  <2>3. z = [Closed EXCEPT !.id = transcript[j].id, !.consumes = r.w.unconsumed]
    OBVIOUS
  <2> HIDE DEF z
  <2>4. z = [id |-> transcript[j].id, calls |-> Closed.calls, consumes |-> r.w.unconsumed]
    BY <2>1, <2>2, <2>3, OpenedGroup
  <2> QED
    BY <2>1, <2>3, <2>4
<1>3. q = [r EXCEPT !.open = g, !.w.unconsumed = {}]
  BY <1>2 DEF OpensAt
<1> HIDE DEF g
<1>4. q = [r EXCEPT !.open = g, !.w = v]
  BY <1>1, <1>3 DEF Runners, Works
<1>5. v = [r.w EXCEPT !.unconsumed = {}]
  OBVIOUS
<1> HIDE DEF v
<1>6. /\ v \in Works /\ v.uses = r.w.uses /\ v.unconsumed = {} /\ v.prev = r.w.prev /\ v.live = r.w.live
      /\ v.floorDone = r.w.floorDone /\ v.model = r.w.model
  BY <1>1, <1>5 DEF Works
<1>7. g \in Groups /\ g.id = transcript[j].id /\ g.consumes = r.w.unconsumed /\ g.calls = {}
  BY <1>1 DEF g, Groups, Works
<1>8. q = [w |-> v, open |-> g, pending |-> r.pending, committed |-> r.committed, out |-> r.out]
  BY <1>4 DEF Runners
<1>9. q \in Runners
  BY <1>6, <1>7, <1>8 DEF Runners
<1>10. q.w = v /\ q.open = g /\ q.pending = r.pending /\ q.committed = r.committed /\ q.out = r.out
  BY <1>8
<1> QED
  BY <1>6, <1>7, <1>9, <1>10

\* Runner q is the runner r, that has opened the response of record i and taken the record's call.
Begun(r, q, i) ==
    /\ q.pending = r.pending /\ q.committed = r.committed /\ q.out = r.out
    /\ q.open.id = transcript[i].id /\ q.open.consumes = r.w.unconsumed /\ q.open.calls = NewCall(i)
    /\ q.w.uses = r.w.uses \cup NewCall(i) /\ q.w.unconsumed = {} /\ q.w.prev = r.w.prev /\ q.w.live = r.w.live
    /\ q.w.floorDone = r.w.floorDone /\ q.w.model = r.w.model

LEMMA NewResponse ==
    ASSUME NEW d, NEW ct \in Counters, NEW from, NEW n \in Nat, RunnerAt(transcript, d, ct, from, n), from.open = Closed,
           from.committed.offset = n, WellFormed(transcript), n + 1 <= Len(transcript), Asst(transcript, n + 1),
           NEW to \in Runners, Begun(from, to, n + 1)
    PROVE  RunnerAt(transcript, d, ct, to, n + 1) /\ to.committed = from.committed
<1> DEFINE i == n + 1
           N == NewCall(i)
<1>1. from \in Runners /\ WorkAt(transcript, d, from.w, n, n) /\ Fresh(transcript, d, n)
  BY DEF RunnerAt
<1>2. i \in Nat /\ i \in i .. i /\ \A m \in i .. i : m = i
  OBVIOUS
<1>3. Begin(transcript, d, i)
  BY <1>1, FreshBegins
<1>4. IsCall(i) <=> transcript[i].what \in Keys
  BY DEF IsCall, IsA, Asst
<1>5. ~Comp(transcript, i) /\ ~Res(transcript, i) /\ Asst(transcript, i)
  BY OnlyAssistantsBegin
<1>6. transcript[i].id \in Nat /\ transcript[i].id > 0
  <2>1. Len(transcript) \in Nat /\ n + 1 \in 1 .. Len(transcript)
    BY DEF WellFormed
  <2>2. transcript[n + 1].id > 0 /\ transcript[n + 1] \in Records
    BY <2>1 DEF WellFormed
  <2> QED
    BY <2>2 DEF Records
<1> HIDE DEF i
<1>10. /\ to \in Runners /\ to.pending = from.pending /\ to.committed = from.committed /\ to.out = from.out
       /\ to.open.id = transcript[i].id /\ to.open.consumes = from.w.unconsumed /\ to.open.calls = N
       /\ to.w.uses = from.w.uses \cup N /\ to.w.unconsumed = {} /\ to.w.prev = from.w.prev /\ to.w.live = from.w.live
       /\ to.w.floorDone = from.w.floorDone /\ to.w.model = from.w.model
  BY DEF Begun, i
<1> HIDE DEF N
<1>11. to.open # Closed
  <2>1. to.open.id > 0
    BY <1>6, <1>10
  <2> QED
    BY <2>1 DEF Closed
<1>12. /\ from.w.uses = Unanswered(transcript, n) /\ from.w.unconsumed = Waiting(transcript, d, n)
       /\ from.w.prev = KeysAt(transcript, d, n)
       /\ \A k \in Keys : from.w.live[k] = Cardinality(Live(transcript, d, k, n))
       /\ from.w.model <=> \E s \in 1 .. n : Begin(transcript, d, s)
  BY <1>1 DEF WorkAt
<1>13. Unanswered(transcript, i) = from.w.uses \cup N
  <2>1. Unanswered(transcript, n + 1) =
           IF transcript[n + 1].what \in Keys THEN Unanswered(transcript, n) \cup {n + 1} ELSE Unanswered(transcript, n)
    BY <1>5, UnansweredOn DEF i
  <2> QED
    BY <1>4, <1>12, <2>1 DEF i, N, NewCall
<1>14. Waiting(transcript, d, i) = {}
  BY <1>3, WaitingNext DEF i
<1>15. WorkAt(transcript, d, to.w, i, n)
  BY <1>10, <1>12, <1>13, <1>14 DEF WorkAt
<1>16. \A g : LastBegin(transcript, d, g, i) <=> g = i
  BY <1>3, LastBeginOn DEF i
<1>17. to.open.calls = {h \in i .. i : Asst(transcript, h) /\ transcript[h].what \in Keys}
  BY <1>2, <1>4, <1>5, <1>10 DEF N, NewCall
<1>18. OpenAt(transcript, d, to, i)
  <2>1. to.committed.offset = n /\ n + 1 = i
    BY <1>10 DEF i
  <2> QED
    BY <1>2, <1>5, <1>10, <1>12, <1>15, <1>16, <1>17, <2>1 DEF OpenAt
<1>19. ASSUME NEW m \in Metrics \ {Floor}
       PROVE  to.pending[m] + OpenWorth(transcript, to, m) =
                from.pending[m] + OpenWorth(transcript, from, m) + Gain(transcript, d, n, m)
  <2>0. /\ m[2] # "floor"
        /\ \/ m[2] \in {"response", "compaction"}
           \/ m[1] \in Keys /\ m[2] \in {"result", "carry", "retry"}
    BY MetricKinds
  <2>1. from.pending[m] \in Nat /\ to.pending[m] = from.pending[m]
    BY <1>1, <1>10 DEF Runners, Counters
  <2>2. OpenWorth(transcript, from, m) = 0
    BY DEF OpenWorth
  <2>3. Gain(transcript, d, n, m) \in Nat
    BY WorthGrows
  <2>4. OpenWorth(transcript, to, m) = Gain(transcript, d, n, m)
    <3>1. CASE m[2] \in {"response", "compaction"}
      BY <1>3, <1>5, <1>11, <3>1 DEF OpenWorth, Gain, i
    <3>2. CASE m[2] = "carry"
      <4>1. OpenWorth(transcript, to, m) = from.w.live[m[1]]
        BY <1>10, <1>11, <3>2 DEF OpenWorth
      <4>2. Gain(transcript, d, n, m) = Cardinality(Live(transcript, d, m[1], n))
        BY <1>3, <3>2 DEF Gain, i
      <4> QED
        BY <1>12, <2>0, <3>2, <4>1, <4>2
    <3>3. CASE m[2] = "result"
      <4>1. OpenWorth(transcript, to, m) = OfIn(transcript, Waiting(transcript, d, n), m[1])
        BY <1>10, <1>11, <1>12, <3>3 DEF OpenWorth
      <4>2. Gain(transcript, d, n, m) = Cardinality(WaitingOf(transcript, d, m[1], n))
        BY <1>3, <3>3 DEF Gain, i
      <4>3. n <= Len(transcript)
        BY DEF RunnerAt
      <4>4. Cardinality(WaitingOf(transcript, d, m[1], n)) = OfIn(transcript, Waiting(transcript, d, n), m[1])
        BY <4>3, WaitingBoth
      <4> QED
        BY <4>1, <4>2, <4>4
    <3>4. CASE m[2] = "retry"
      <4>1. m[1] \in Keys
        BY <2>0, <3>4
      <4>2. OpenWorth(transcript, to, m) = IF m[1] \in from.w.prev THEN OfIn(transcript, N, m[1]) ELSE 0
        BY <1>10, <1>11, <3>4 DEF OpenWorth
      <4>3. Repeating(transcript, d, m[1], i) <=> transcript[i].what = m[1] /\ m[1] \in from.w.prev
        <5>1. i \in 1 .. i /\ i - 1 = n
          BY DEF i
        <5>2. CallOf(transcript, m[1], i) <=> transcript[i].what = m[1]
          BY <1>5 DEF CallOf
        <5> QED
          BY <1>12, <1>16, <5>1, <5>2 DEF Repeating
      <4>4. Gain(transcript, d, n, m) = IF transcript[i].what = m[1] /\ m[1] \in from.w.prev THEN 1 ELSE 0
        BY <3>4, <4>3 DEF Gain, i
      <4>5. OfIn(transcript, N, m[1]) = IF transcript[i].what = m[1] THEN 1 ELSE 0
        <5>1. OfIn(transcript, {} \cup {n + 1}, m[1]) =
                 OfIn(transcript, {}, m[1]) + IF transcript[n + 1].what = m[1] THEN 1 ELSE 0
          BY OneMoreOf
        <5>2. OfIn(transcript, {}, m[1]) = 0
          BY FS_EmptySet DEF OfIn
        <5>3. CASE IsCall(i)
          <6>1. N = {} \cup {n + 1}
            BY <5>3 DEF N, NewCall, i
          <6> QED
            BY <5>1, <5>2, <6>1 DEF i
        <5>4. CASE ~IsCall(i)
          <6>1. N = {}
            BY <5>4 DEF N, NewCall
          <6> QED
            BY <1>4, <4>1, <5>2, <5>4, <6>1
        <5> QED
          BY <5>3, <5>4
      <4> QED
        BY <4>2, <4>4, <4>5
    <3> QED
      BY <2>0, <3>1, <3>2, <3>3, <3>4
  <2> QED
    BY <2>1, <2>2, <2>3, <2>4
<1>20. RunnerAt(transcript, d, ct, to, n + 1)
  <2>1. to.pending[Floor] = from.pending[Floor] /\ (from.w.floorDone => to.w.floorDone)
    BY <1>10
  <2> QED
    BY <1>10, <1>11, <1>18, <1>19, <2>1, RunnerMoves DEF i
<1> QED
  BY <1>10, <1>20

LEMMA AssistantKeeps ==
    ASSUME NEW d, NEW ct \in Counters, NEW r, NEW n \in Nat, RunnerAt(transcript, d, ct, r, n), WellFormed(transcript),
           n + 1 <= Len(transcript), Asst(transcript, n + 1), NEW q, q = assistant(r, n + 1)
    PROVE  RunnerAt(transcript, d, ct, q, n + 1) /\ r.committed.offset <= q.committed.offset
<1>1. /\ r \in Runners /\ r.committed.offset <= n
      /\ r.open = Closed => Fresh(transcript, d, n)
      /\ r.open # Closed => OpenAt(transcript, d, r, n)
  BY DEF RunnerAt
<1>2. r.committed.offset \in Nat
  BY <1>1 DEF Runners, Costs
<1>3. CASE r.open.id = transcript[n + 1].id
  <2>1. r.open # Closed
    <3>1. Len(transcript) \in Nat /\ n + 1 \in 1 .. Len(transcript)
      BY DEF WellFormed
    <3>2. transcript[n + 1].id > 0
      BY <3>1 DEF WellFormed
    <3> QED
      BY <1>3, <3>2 DEF Closed
  <2>2. q = CalledAt(r, n + 1)
    BY <1>3 DEF assistant, CalledAt
  <2>3. RunnerAt(transcript, d, ct, q, n + 1) /\ q.committed = r.committed
    BY <1>3, <2>1, <2>2, SameResponse
  <2> QED
    BY <1>2, <2>3
<1>4. CASE r.open.id # transcript[n + 1].id
  <2> DEFINE h == commit(closeOpen(r), n)
  <2>1. (n + 1) - 1 = n
    OBVIOUS
  <2>2. Opens(r, n + 1) = OpensAt(h, n + 1)
    BY <2>1 DEF Opens, OpensAt
  <2>3. q = CalledAt(OpensAt(h, n + 1), n + 1)
    BY <1>4, <2>2 DEF assistant, CalledAt
  <2>4. Fresh(transcript, d, n)
    <3>1. CASE r.open = Closed
      BY <1>1, <3>1
    <3>2. CASE r.open # Closed
      <4>1. OneResponse(transcript, d, r.committed.offset, n, r.open.id)
        BY <1>1, <3>2, OpenIsOne
      <4> QED
        BY <1>2, <1>4, <4>1, NextIsFresh
    <3> QED
      BY <3>1, <3>2
  <2>5. RunnerAt(transcript, d, ct, h, n) /\ h.open = Closed /\ h.committed.offset = n
    BY <2>4, CommitsFresh
  <2> HIDE DEF h
  <2>6. transcript[n + 1].id \in Nat /\ n + 1 \in Nat
    <3>1. Len(transcript) \in Nat /\ n + 1 \in 1 .. Len(transcript)
      BY DEF WellFormed
    <3>2. transcript[n + 1] \in Records
      BY <3>1 DEF WellFormed
    <3>3. transcript[n + 1].id \in Nat
      BY <3>2 DEF Records
    <3> QED
      BY <3>3
  <2> DEFINE i == n + 1
             z == OpensAt(h, i)
  <2>7. z = OpensAt(h, i) /\ h \in Runners /\ i \in Nat /\ transcript[i].id \in Nat
    BY <2>5, <2>6 DEF RunnerAt
  <2>8. q = CalledAt(z, i)
    BY <2>3
  <2> HIDE DEF z, i
  <2>9. /\ z \in Runners /\ z.pending = h.pending /\ z.committed = h.committed /\ z.out = h.out
        /\ z.open.id = transcript[i].id /\ z.open.consumes = h.w.unconsumed /\ z.open.calls = {}
        /\ z.w.uses = h.w.uses /\ z.w.unconsumed = {} /\ z.w.prev = h.w.prev /\ z.w.live = h.w.live
        /\ z.w.floorDone = h.w.floorDone /\ z.w.model = h.w.model
    BY <2>7, OpenedFields
  <2>10. z \in Runners /\ i \in Nat
    BY <2>7, <2>9
  <2> DEFINE y == CalledAt(z, i)
  <2>14. y = CalledAt(z, i)
    OBVIOUS
  <2> HIDE DEF y
  <2>11. /\ y \in Runners /\ y.pending = z.pending /\ y.committed = z.committed /\ y.out = z.out
         /\ y.open.id = z.open.id /\ y.open.consumes = z.open.consumes
         /\ y.open.calls = z.open.calls \cup NewCall(i) /\ y.w.uses = z.w.uses \cup NewCall(i)
         /\ y.w.unconsumed = z.w.unconsumed /\ y.w.prev = z.w.prev /\ y.w.live = z.w.live
         /\ y.w.floorDone = z.w.floorDone /\ y.w.model = z.w.model
    <3>1. y \in Runners
      BY <2>10, <2>14, CalledRunner, Zenon
    <3> QED
      BY <2>10, <2>14, <3>1, CalledFields
  <2>12. q \in Runners /\ Begun(h, q, n + 1)
    <3>1. q = y
      BY <2>8, <2>14
    <3>2. y \in Runners /\ Begun(h, y, i)
      BY <2>9, <2>11 DEF Begun
    <3> QED
      BY <3>1, <3>2 DEF i
  <2>13. RunnerAt(transcript, d, ct, q, n + 1) /\ q.committed = h.committed
    <3>1. RunnerAt(transcript, d, ct, h, n) /\ h.open = Closed /\ h.committed.offset = n
      BY <2>5
    <3>2. q \in Runners /\ Begun(h, q, n + 1)
      BY <2>12
    <3>3. RunnerAt(transcript, d, ct, q, n + 1)
      BY <3>1, <3>2, NewResponse, Zenon
    <3>4. q.committed = h.committed
      BY <3>2 DEF Begun
    <3> QED
      BY <3>3, <3>4
  <2> QED
    BY <1>1, <2>5, <2>13
<1> QED
  BY <1>3, <1>4

\* The next record, whatever it is.
LEMMA HandlesNext ==
    ASSUME NEW d, NEW ct \in Counters, NEW r, NEW n \in Nat, RunnerAt(transcript, d, ct, r, n), WellFormed(transcript),
           n + 1 <= Len(transcript), NEW q, q = handle(r, n + 1)
    PROVE  RunnerAt(transcript, d, ct, q, n + 1) /\ r.committed.offset <= q.committed.offset
<1>1. r.committed.offset \in Nat
  BY DEF RunnerAt, Runners, Costs
<1>2. transcript[n + 1].type \in {"assistant", "result", "prompt", "compact"}
  <2>1. Len(transcript) \in Nat /\ n + 1 \in 1 .. Len(transcript)
    BY DEF WellFormed
  <2>2. transcript[n + 1] \in Records
    BY <2>1 DEF WellFormed
  <2> QED
    BY <2>2 DEF Records
<1>3. CASE transcript[n + 1].type = "assistant"
  <2>1. q = assistant(r, n + 1) /\ Asst(transcript, n + 1)
    BY <1>3 DEF handle, Asst
  <2> QED
    BY <2>1, AssistantKeeps
<1>4. CASE transcript[n + 1].type = "result"
  <2>1. q = user(r, n + 1) /\ Res(transcript, n + 1)
    BY <1>4 DEF handle, Res
  <2>2. RunnerAt(transcript, d, ct, q, n + 1) /\ q.committed = r.committed
    BY <2>1, ResultKeeps
  <2> QED
    BY <1>1, <2>2
<1>5. CASE transcript[n + 1].type = "compact"
  <2>1. q = compact(r, n + 1) /\ Comp(transcript, n + 1)
    BY <1>5 DEF handle, Comp
  <2> QED
    BY <2>1, CompactKeeps
<1>6. CASE transcript[n + 1].type = "prompt"
  <2>1. q = r
    BY <1>6 DEF handle
  <2> QED
    BY <1>1, <1>6, <2>1, PromptKeeps
<1> QED
  BY <1>2, <1>3, <1>4, <1>5, <1>6

-----------------------------------------------------------------------------
(* What the records are worth, said of the whole transcript at once and of every prefix. *)

LEMMA StartsAre ==
    ASSUME NEW p \in Nat
    PROVE  /\ Starts(p) = Begins(transcript, cuts, p) /\ Starts(p) \in SUBSET Nat
           /\ \A g : g \in Starts(p) <=> g \in 1 .. p /\ Begin(transcript, cuts, g)
<1>1. \A i, m : m \in cuts \/ transcript[m].type = "compact" <=> EndsAt(transcript, cuts, m)
  BY DEF EndsAt, Comp
<1>2. \A i : (/\ IsA(i)
              /\ \A j \in 1..i - 1 : IsA(j) /\ transcript[j].id = transcript[i].id =>
                    \E m \in j..i - 1 : m \in cuts \/ transcript[m].type = "compact") <=> Begin(transcript, cuts, i)
  BY <1>1 DEF IsA, Asst, Begin
<1>3. \A g : g \in Starts(p) <=> g \in 1 .. p /\ Begin(transcript, cuts, g)
  BY <1>2 DEF Starts
<1> QED
  BY <1>3 DEF Begins

LEMMA ResultsAre ==
    ASSUME NEW p \in Nat, NEW k
    PROVE  \A i : i \in ResultsOf(k, p) <=> i \in 1 .. p /\ ResultOf(transcript, k, i)
BY DEF ResultsOf, ResultOf, Res, KeyOf

LEMMA ReadByAre ==
    ASSUME NEW p \in Nat, NEW i \in Nat
    PROVE  /\ ReadBy(i, p) \in SUBSET Nat
           /\ \A g : g \in ReadBy(i, p) <=> g \in i + 1 .. p /\ Begin(transcript, cuts, g)
           /\ ReadBy(i, p) # {} <=> ~Waits(transcript, cuts, i, p)
<1>1. \A g : g \in ReadBy(i, p) <=> g \in 1 .. p /\ Begin(transcript, cuts, g) /\ g > i
  BY StartsAre DEF ReadBy
<1>2. \A g : g \in i + 1 .. p <=> g \in 1 .. p /\ g > i
  OBVIOUS
<1>3. \A g : g \in ReadBy(i, p) <=> g \in i + 1 .. p /\ Begin(transcript, cuts, g)
  BY <1>1, <1>2
<1> QED
  BY <1>3 DEF Waits

LEMMA ReadsAre ==
    ASSUME NEW p \in Nat, NEW k
    PROVE  {i \in ResultsOf(k, p) : ReadBy(i, p) # {}} = Reads(transcript, cuts, k, p)
<1>1. \A i \in 1 .. p : ReadBy(i, p) # {} <=> ~Waits(transcript, cuts, i, p)
  BY ReadByAre
<1> QED
  BY <1>1, ResultsAre DEF Reads

LEMMA FirstReader ==
    ASSUME NEW p \in Nat, NEW i \in Nat, NEW f \in 1 .. p
    PROVE  FirstRead(transcript, cuts, i, f) <=> ReadBy(i, p) # {} /\ f = Min(ReadBy(i, p))
<1> DEFINE R == ReadBy(i, p)
           t == transcript
           d == cuts
<1>1. R \in SUBSET Nat /\ \A g : g \in R <=> g \in i + 1 .. p /\ Begin(t, d, g)
  BY ReadByAre
<1>2. \A s : s \in i + 1 .. f - 1 <=> s \in i + 1 .. p /\ s < f
  OBVIOUS
<1>3. FirstRead(t, d, i, f) <=> f \in R /\ \A s \in R : f <= s
  <2>1. f \in R <=> i < f /\ Begin(t, d, f)
    BY <1>1
  <2>2. Waits(t, d, i, f - 1) <=> \A s \in R : ~(s < f)
    BY <1>1, <1>2 DEF Waits
  <2>3. \A s \in R : ~(s < f) <=> f <= s
    BY <1>1
  <2> QED
    BY <2>1, <2>2, <2>3 DEF FirstRead
<1> HIDE DEF R
<1>4. R # {} => Min(R) \in R /\ \A s \in R : Min(R) <= s
  BY <1>1, FirstOf
<1>5. \A a, b \in R : a <= b /\ b <= a => a = b
  BY <1>1
<1> QED
  BY <1>3, <1>4, <1>5 DEF R

LEMMA CarriedAre ==
    ASSUME NEW p \in Nat, NEW k
    PROVE  {x \in Reads(transcript, cuts, k, p) \X Starts(p) : x[2] \in CarriedBy(x[1], p)} =
             Carried(transcript, cuts, k, p)
<1> DEFINE t == transcript
           d == cuts
<1>1. ASSUME NEW i \in 1 .. p, NEW g \in 1 .. p
      PROVE  i \in Reads(t, d, k, p) /\ g \in Starts(p) /\ g \in CarriedBy(i, p) <=>
               Begin(t, d, g) /\ i \in Live(t, d, k, g - 1)
  <2> DEFINE R == ReadBy(i, p)
             first == Min(R)
  <2>1. R \in SUBSET Nat /\ (\A h : h \in R <=> h \in i + 1 .. p /\ Begin(t, d, h)) /\ (R # {} <=> ~Waits(t, d, i, p))
    BY ReadByAre
  <2>2. \A f \in 1 .. p : FirstRead(t, d, i, f) <=> R # {} /\ f = first
    BY FirstReader
  <2>3. g \in CarriedBy(i, p) <=> g \in R /\ g # first /\ \A m \in first .. g : ~Comp(t, m)
    BY DEF CarriedBy, Comp
  <2>4. g \in Starts(p) <=> Begin(t, d, g)
    BY StartsAre
  <2>5. i \in Reads(t, d, k, p) <=> ResultOf(t, k, i) /\ R # {}
    BY <2>1 DEF Reads
  <2>6. Begin(t, d, g) => ~Comp(t, g)
    BY OnlyAssistantsBegin
  <2>7. R # {} => first \in R /\ \A s \in R : first <= s
    BY <2>1, FirstOf
  <2> HIDE DEF R, first
  <2>8. ASSUME g \in R, g # first, Begin(t, d, g), ResultOf(t, k, i), \A m \in first .. g : ~Comp(t, m)
        PROVE  i \in Live(t, d, k, g - 1)
    <3>1. first \in R /\ first <= g /\ first \in Nat /\ g \in i + 1 .. p /\ first \in i + 1 .. p
      BY <2>1, <2>7, <2>8
    <3>2. first \in 1 .. g - 1 /\ i \in 1 .. g - 1 /\ \A m \in first .. g - 1 : m \in first .. g
      BY <2>8, <3>1
    <3>3. FirstRead(t, d, i, first)
      BY <2>2, <2>8, <3>2
    <3> QED
      BY <2>8, <3>2, <3>3 DEF Live
  <2>9. ASSUME Begin(t, d, g), i \in Live(t, d, k, g - 1)
        PROVE  g \in R /\ g # first /\ ResultOf(t, k, i) /\ \A m \in first .. g : ~Comp(t, m)
    <3>1. i \in 1 .. g - 1 /\ ResultOf(t, k, i)
      BY <2>9 DEF Live
    <3>2. PICK f \in 1 .. g - 1 : FirstRead(t, d, i, f) /\ \A m \in f .. g - 1 : ~Comp(t, m)
      BY <2>9 DEF Live
    <3>3. f \in 1 .. p
      OBVIOUS
    <3>4. f = first /\ R # {}
      BY <2>2, <3>2, <3>3
    <3>5. g \in i + 1 .. p /\ g # f
      BY <3>1
    <3>6. \A m \in f .. g : m \in f .. g - 1 \/ m = g
      OBVIOUS
    <3> QED
      BY <2>1, <2>6, <2>9, <3>1, <3>2, <3>4, <3>5, <3>6
  <2> QED
    BY <2>1, <2>3, <2>4, <2>5, <2>8, <2>9
<1>2. Reads(t, d, k, p) \in SUBSET (1 .. p) /\ Starts(p) \in SUBSET (1 .. p)
  BY StartsAre DEF Reads
<1>3. ASSUME NEW x \in (1 .. p) \X (1 .. p)
      PROVE  x \in Reads(t, d, k, p) \X Starts(p) /\ x[2] \in CarriedBy(x[1], p) <=>
               Begin(t, d, x[2]) /\ x[1] \in Live(t, d, k, x[2] - 1)
  <2>1. x[1] \in 1 .. p /\ x[2] \in 1 .. p
    OBVIOUS
  <2>2. x \in Reads(t, d, k, p) \X Starts(p) <=> x[1] \in Reads(t, d, k, p) /\ x[2] \in Starts(p)
    OBVIOUS
  <2> QED
    BY <1>1, <2>1, <2>2
<1>4. \A x \in Reads(t, d, k, p) \X Starts(p) : x \in (1 .. p) \X (1 .. p)
  BY <1>2
<1> QED
  BY <1>3, <1>4 DEF Carried

LEMMA CallsAre ==
    ASSUME NEW p \in Nat, NEW k \in Keys, NEW g \in 1 .. p, Begin(transcript, cuts, g), NEW j
    PROVE  j \in CallsOf(g, k, p) <=>
             j \in 1 .. p /\ CallOf(transcript, k, j) /\ LastBegin(transcript, cuts, g, j)
<1>1. \A s : s \in Starts(p) <=> s \in 1 .. p /\ Begin(transcript, cuts, s)
  BY StartsAre
<1>2. j \in CallsOf(g, k, p) <=> j \in g .. p /\ CallOf(transcript, k, j) /\ \A s \in Starts(p) : s > g => j < s
  BY DEF CallsOf, IsCall, IsA, CallOf, Asst
<1>3. j \in g .. p <=> j \in 1 .. p /\ g \in 1 .. j
  OBVIOUS
<1>4. ASSUME j \in g .. p
      PROVE  (\A s \in Starts(p) : s > g => j < s) <=> \A s \in g + 1 .. j : ~Begin(transcript, cuts, s)
  <2>1. \A s : s \in g + 1 .. j <=> s \in 1 .. p /\ s > g /\ ~(j < s)
    BY <1>4
  <2> QED
    BY <1>1, <2>1
<1> QED
  BY <1>2, <1>3, <1>4 DEF LastBegin

LEMMA KeysBefore ==
    ASSUME NEW p \in Nat, NEW k \in Keys, NEW g \in 1 .. p, Begin(transcript, cuts, g)
    PROVE  k \in KeysAt(transcript, cuts, g - 1) <=>
             Before(g, p) # {} /\ CallsOf(Max(Before(g, p)), k, p) # {}
<1> DEFINE B == Before(g, p)
           t == transcript
           d == cuts
           h == Max(B)
<1>1. \A s : s \in B <=> s \in 1 .. p /\ Begin(t, d, s) /\ s < g
  BY StartsAre DEF Before
<1>2. B \in SUBSET Int /\ p \in Int /\ \A s \in B : s <= p
  BY <1>1
<1>3. k \in KeysAt(t, d, g - 1) <=>
        \E s \in 1 .. g - 1 : LastBegin(t, d, s, g - 1) /\ \E b \in s .. g - 1 : CallOf(t, k, b)
  BY DEF KeysAt
<1> HIDE DEF B
<1>4. B # {} => h \in B /\ \A s \in B : s <= h
  <2> SUFFICES ASSUME B # {} PROVE h \in B /\ \A s \in B : s <= h
    OBVIOUS
  <2>1. PICK b \in B : TRUE
    OBVIOUS
  <2> QED
    BY <1>2, <2>1, LastOf
<1> HIDE DEF h
<1>5. \A s : LastBegin(t, d, s, g - 1) <=> B # {} /\ s = h
  <2>1. \A s : s \in 1 .. g - 1 <=> s \in 1 .. p /\ s < g
    OBVIOUS
  <2>2. \A s \in 1 .. g - 1 : \A m : m \in s + 1 .. g - 1 <=> m \in 1 .. g - 1 /\ s < m
    OBVIOUS
  <2>3. \A s : LastBegin(t, d, s, g - 1) <=> s \in B /\ \A m \in B : ~(s < m)
    BY <1>1, <2>1, <2>2 DEF LastBegin
  <2>4. \A a, b \in B : (a <= b <=> ~(b < a)) /\ (a <= b /\ b <= a => a = b)
    BY <1>2
  <2> QED
    BY <1>4, <2>3, <2>4
<1>6. ASSUME B # {}
      PROVE  CallsOf(h, k, p) # {} <=> \E b \in h .. g - 1 : CallOf(t, k, b)
  <2>1. h \in 1 .. p /\ Begin(t, d, h) /\ h < g /\ \A s \in h + 1 .. g - 1 : ~Begin(t, d, s)
    <3>1. LastBegin(t, d, h, g - 1)
      BY <1>5, <1>6
    <3> QED
      BY <1>1, <1>4, <1>6, <3>1 DEF LastBegin
  <2>2. ASSUME NEW j PROVE j \in CallsOf(h, k, p) <=> j \in h .. g - 1 /\ CallOf(t, k, j)
    <3>1. j \in CallsOf(h, k, p) <=> j \in 1 .. p /\ CallOf(t, k, j) /\ LastBegin(t, d, h, j)
      BY <2>1, CallsAre
    <3>2. j \in h .. g - 1 => j \in 1 .. p /\ LastBegin(t, d, h, j)
      BY <2>1 DEF LastBegin
    <3>3. j \in 1 .. p /\ LastBegin(t, d, h, j) => j \in h .. g - 1
      <4> SUFFICES ASSUME j \in 1 .. p, LastBegin(t, d, h, j) PROVE j \in h .. g - 1
        OBVIOUS
      <4>1. h \in 1 .. j /\ ~(g \in h + 1 .. j)
        BY DEF LastBegin
      <4> QED
        BY <2>1, <4>1
    <3> QED
      BY <3>1, <3>2, <3>3
  <2> QED
    BY <2>2
<1>7. B # {} => h \in 1 .. g - 1
  BY <1>1, <1>4
<1> QED
  BY <1>3, <1>5, <1>6, <1>7 DEF B, h

LEMMA RepeatsAre ==
    ASSUME NEW p \in Nat, NEW k \in Keys
    PROVE  Repeats(k, p) = Repeated(transcript, cuts, k, p)
<1>1. ASSUME NEW j \in 1 .. p
      PROVE  (\E g \in Starts(p) : /\ j \in CallsOf(g, k, p) /\ Before(g, p) # {}
                                   /\ CallsOf(Max(Before(g, p)), k, p) # {}) <=>
             CallOf(transcript, k, j) /\ \E g \in 1 .. j : /\ LastBegin(transcript, cuts, g, j)
                                                           /\ k \in KeysAt(transcript, cuts, g - 1)
  <2>1. ASSUME NEW g
        PROVE  (/\ g \in Starts(p) /\ j \in CallsOf(g, k, p) /\ Before(g, p) # {}
                /\ CallsOf(Max(Before(g, p)), k, p) # {}) <=>
               /\ g \in 1 .. j /\ CallOf(transcript, k, j) /\ LastBegin(transcript, cuts, g, j)
               /\ k \in KeysAt(transcript, cuts, g - 1)
    <3>1. g \in Starts(p) <=> g \in 1 .. p /\ Begin(transcript, cuts, g)
      BY StartsAre
    <3>2. CASE g \in 1 .. p /\ Begin(transcript, cuts, g)
      <4>1. j \in CallsOf(g, k, p) <=> CallOf(transcript, k, j) /\ LastBegin(transcript, cuts, g, j)
        BY <3>2, CallsAre
      <4>2. k \in KeysAt(transcript, cuts, g - 1) <=>
              Before(g, p) # {} /\ CallsOf(Max(Before(g, p)), k, p) # {}
        BY <3>2, KeysBefore
      <4>3. LastBegin(transcript, cuts, g, j) => g \in 1 .. j
        BY DEF LastBegin
      <4> QED
        BY <3>1, <3>2, <4>1, <4>2, <4>3
    <3>3. CASE ~(g \in 1 .. p /\ Begin(transcript, cuts, g))
      <4>1. g \in 1 .. j => g \in 1 .. p
        OBVIOUS
      <4>2. LastBegin(transcript, cuts, g, j) => Begin(transcript, cuts, g)
        BY DEF LastBegin
      <4> QED
        BY <3>1, <3>3, <4>1, <4>2
    <3> QED
      BY <3>2, <3>3
  <2> QED
    BY <2>1
<1> QED
  BY <1>1 DEF Repeats, Repeated

LEMMA WorthIs ==
    ASSUME NEW p \in Nat
    PROVE  Worth(p) = WorthOf(transcript, cuts, p)
<1>1. Starts(p) = Begins(transcript, cuts, p)
  BY StartsAre
<1>2. {i \in 1 .. p : transcript[i].type = "compact" /\ Starts(i) # {}} = Boundaries(transcript, cuts, p)
  <2>1. \A i \in 1 .. p : Starts(i) # {} <=> \E s \in 1 .. i : Begin(transcript, cuts, s)
    BY StartsAre
  <2> QED
    BY <2>1 DEF Boundaries, Comp
<1>3. ASSUME NEW m \in Metrics \ {Floor} PROVE Worth(p)[m] = WorthOf(transcript, cuts, p)[m]
  <2> DEFINE k == m[1]
             read == {i \in ResultsOf(k, p) : ReadBy(i, p) # {}}
  <2>0. /\ m[2] # "floor"
        /\ \/ m[2] \in {"response", "compaction"}
           \/ m[1] \in Keys /\ m[2] \in {"result", "carry", "retry"}
    BY MetricKinds
  <2>1. CASE m[2] \in {"response", "compaction"}
    BY <1>1, <1>2, <2>1 DEF Worth, WorthOf
  <2>2. CASE m[2] = "result"
    <3>1. read = Reads(transcript, cuts, k, p)
      BY ReadsAre
    <3>2. Worth(p)[m] = Cardinality(read)
      BY <2>2 DEF Worth
    <3> HIDE DEF read
    <3> QED
      BY <2>2, <3>1, <3>2 DEF WorthOf
  <2>3. CASE m[2] = "carry"
    <3>1. read = Reads(transcript, cuts, k, p)
      BY ReadsAre
    <3>2. Worth(p)[m] = Cardinality({x \in read \X Starts(p) : x[2] \in CarriedBy(x[1], p)})
      BY <2>3 DEF Worth
    <3> HIDE DEF read
    <3>3. {x \in read \X Starts(p) : x[2] \in CarriedBy(x[1], p)} = Carried(transcript, cuts, k, p)
      BY <3>1, CarriedAre
    <3> QED
      BY <2>3, <3>2, <3>3 DEF WorthOf
  <2>4. CASE m[2] = "retry"
    <3>1. Worth(p)[m] = Cardinality(Repeats(k, p))
      BY <2>4 DEF Worth
    <3>2. Repeats(k, p) = Repeated(transcript, cuts, k, p)
      BY <2>0, <2>4, RepeatsAre
    <3> QED
      BY <2>4, <3>1, <3>2 DEF WorthOf
  <2> QED
    BY <2>0, <2>1, <2>2, <2>3, <2>4
<1>4. Worth(p)[Floor] = 0 /\ WorthOf(transcript, cuts, p)[Floor] = 0
  <2>1. Floor \in Metrics /\ Floor[2] = "floor"
    BY FloorIn DEF Floor
  <2> QED
    BY <2>1 DEF Worth, WorthOf
<1>5. \A m \in Metrics : Worth(p)[m] = WorthOf(transcript, cuts, p)[m]
  BY <1>3, <1>4
<1> DEFINE A == Worth(p)
           B == WorthOf(transcript, cuts, p)
<1>6. A = [m \in Metrics |-> A[m]] /\ B = [m \in Metrics |-> B[m]]
  BY DEF Worth, WorthOf
<1> HIDE DEF A, B
<1>7. \A m \in Metrics : A[m] = B[m]
  BY <1>5 DEF A, B
<1> QED
  BY <1>6, <1>7 DEF A, B

-----------------------------------------------------------------------------
(* What claude appends, and a cut at the end of what is saved, change nothing of what is known. *)

LEMMA SameWork ==
    ASSUME NEW t, NEW d, NEW u, NEW e, NEW p \in Nat, WellFormed(t), p <= Len(t), AlikeTo(t, d, u, e, p),
           NEW w, NEW n \in 0 .. p, NEW q \in 0 .. p, WorkAt(t, d, w, n, q)
    PROVE  WorkAt(u, e, w, n, q)
<1>1. Unanswered(t, n) = Unanswered(u, n) /\ Waiting(t, d, n) = Waiting(u, e, n)
  BY AlikeCalls
<1>2. KeysAt(t, d, q) = KeysAt(u, e, q)
  BY AlikeKeys
<1>3. \A k \in Keys : Live(t, d, k, q) = Live(u, e, k, q)
  BY AlikeLive
<1>4. (\E s \in 1 .. q : Begin(t, d, s)) <=> \E s \in 1 .. q : Begin(u, e, s)
  <2>1. \A i \in 1 .. p : Begin(t, d, i) <=> Begin(u, e, i)
    BY AlikeRecords
  <2>2. \A s \in 1 .. q : s \in 1 .. p
    OBVIOUS
  <2> QED
    BY <2>1, <2>2
<1> QED
  BY <1>1, <1>2, <1>3, <1>4 DEF WorkAt

LEMMA SameSaved ==
    ASSUME NEW t, NEW d, NEW u, NEW e, NEW st \in Costs, WellFormed(t), SavedAt(t, d, st),
           AlikeTo(t, d, u, e, st.offset), st.offset <= Len(u)
    PROVE  SavedAt(u, e, st)
<1> DEFINE p == st.offset
<1>1. p \in Nat /\ p \in 0 .. p
  BY DEF Costs
<1>2. p <= Len(t) /\ WorkAt(t, d, st.w, p, p) /\ AlikeTo(t, d, u, e, p) /\ p <= Len(u)
  BY DEF SavedAt
<1>3. SavedAt(u, e, st) <=> p <= Len(u) /\ WorkAt(u, e, st.w, p, p)
  BY DEF SavedAt
<1> HIDE DEF p
<1>4. WorkAt(u, e, st.w, p, p)
  BY <1>1, <1>2, SameWork
<1> QED
  BY <1>2, <1>3, <1>4

LEMMA SamePaid ==
    ASSUME NEW t, NEW d, NEW u, NEW e, NEW ct, NEW paid, NEW st \in Costs, WellFormed(t), st.offset <= Len(t),
           AlikeTo(t, d, u, e, st.offset), PaidFor(t, d, ct, paid, st)
    PROVE  PaidFor(u, e, ct, paid, st)
<1> DEFINE p == st.offset
<1>1. p \in Nat /\ p \in 0 .. p
  BY DEF Costs
<1>2. WorthOf(t, d, p) = WorthOf(u, e, p)
  <2>1. p <= Len(t) /\ AlikeTo(t, d, u, e, p)
    OBVIOUS
  <2> HIDE DEF p
  <2> QED
    BY <1>1, <2>1, AlikeWorth
<1> QED
  BY <1>2 DEF PaidFor

\* The transcript u is t, and perhaps more.
Prolongs(t, u) == Len(u) \in Nat /\ Len(t) <= Len(u) /\ \A i \in 1 .. Len(t) : t[i] = u[i]

LEMMA ProlongedAlike ==
    ASSUME NEW t, NEW u, NEW d, NEW p \in Nat, WellFormed(t), Prolongs(t, u), p <= Len(t)
    PROVE  AlikeTo(t, d, u, d, p) /\ p <= Len(u)
<1>1. Len(t) \in Nat /\ \A i \in 1 .. p : i \in 1 .. Len(t)
  BY DEF WellFormed
<1> QED
  BY <1>1 DEF AlikeTo, Prolongs

LEMMA ProlongedFresh ==
    ASSUME NEW t, NEW u, NEW d, NEW p \in Nat, WellFormed(t), Prolongs(t, u), p <= Len(t), Fresh(t, d, p)
    PROVE  Fresh(u, d, p)
<1>0. Len(t) \in Nat /\ Len(u) \in Nat
  BY DEF WellFormed, Prolongs
<1>1. \A i \in 1 .. p + 1 : i <= Len(t) => t[i] = u[i]
  BY <1>0 DEF Prolongs
<1>2. \A i \in 1 .. p : i <= Len(t) /\ i \in 1 .. p + 1
  BY <1>0
<1>3. p + 1 <= Len(t) => p + 1 \in 1 .. p + 1 /\ p + 1 <= Len(u)
  BY <1>0 DEF Prolongs
<1>4. \A i \in 1 .. p : t[i] = u[i]
  BY <1>1, <1>2
<1>5. p + 1 <= Len(t) => t[p + 1] = u[p + 1]
  BY <1>1, <1>3
<1> SUFFICES ASSUME NEW j \in 1 .. p, Asst(u, j)
             PROVE  \/ \E m \in j .. p : EndsAt(u, d, m)
                    \/ p + 1 <= Len(u) /\ (Comp(u, p + 1) \/ (Asst(u, p + 1) /\ u[p + 1].id # u[j].id))
  BY DEF Fresh
<1>6. Asst(t, j)
  BY <1>4 DEF Asst
<1>7. CASE \E m \in j .. p : EndsAt(t, d, m)
  <2>1. PICK m \in j .. p : EndsAt(t, d, m)
    BY <1>7
  <2>2. m \in 1 .. p
    OBVIOUS
  <2>3. EndsAt(u, d, m)
    BY <1>4, <2>1, <2>2 DEF EndsAt, Comp
  <2> QED
    BY <2>3
<1>8. CASE p + 1 <= Len(t) /\ (Comp(t, p + 1) \/ (Asst(t, p + 1) /\ t[p + 1].id # t[j].id))
  BY <1>3, <1>4, <1>5, <1>8 DEF Comp, Asst
<1> QED
  BY <1>6, <1>7, <1>8 DEF Fresh

SameWorth(t, u, r) == \A m \in Metrics : OpenWorth(u, r, m) = OpenWorth(t, r, m)

LEMMA ProlongedOpen ==
    ASSUME NEW t, NEW u, NEW d, NEW n \in Nat, WellFormed(t), Prolongs(t, u), n <= Len(t), NEW r \in Runners,
           r.committed.offset <= n, OpenAt(t, d, r, n)
    PROVE  OpenAt(u, d, r, n) /\ SameWorth(t, u, r)
<1> DEFINE o == r.committed.offset
<1>1. o \in Nat /\ o <= n /\ o \in 0 .. n /\ n \in 0 .. n
  BY DEF Runners, Costs
<1>2. AlikeTo(t, d, u, d, n)
  BY ProlongedAlike
<1>3. /\ LastBegin(t, d, o + 1, n)
      /\ \A m \in o + 1 .. n : ~Comp(t, m) /\ (Asst(t, m) => t[m].id = r.open.id)
      /\ r.open.calls = {b \in o + 1 .. n : Asst(t, b) /\ t[b].what \in Keys}
      /\ r.open.consumes = Waiting(t, d, o)
      /\ WorkAt(t, d, r.w, n, o)
  BY DEF OpenAt
<1>4. (\A b \in 1 .. n : t[b] = u[b]) /\ \A b \in o + 1 .. n : b \in 1 .. n
  BY <1>1, <1>2 DEF AlikeTo
<1>5. OpenAt(u, d, r, n) <=>
        /\ LastBegin(u, d, o + 1, n)
        /\ \A m \in o + 1 .. n : ~Comp(u, m) /\ (Asst(u, m) => u[m].id = r.open.id)
        /\ r.open.calls = {b \in o + 1 .. n : Asst(u, b) /\ u[b].what \in Keys}
        /\ r.open.consumes = Waiting(u, d, o)
        /\ WorkAt(u, d, r.w, n, o)
  BY DEF OpenAt
<1> HIDE DEF o
<1>6. LastBegin(u, d, o + 1, n)
  BY <1>1, <1>2, <1>3, AlikeKeys
<1>7. Waiting(t, d, o) = Waiting(u, d, o)
  BY <1>1, <1>2, AlikeCalls
<1>8. WorkAt(u, d, r.w, n, o)
  <2>1. WorkAt(t, d, r.w, n, o)
    BY <1>3
  <2> QED
    BY <1>1, <1>2, <2>1, SameWork
<1>9. \A b \in o + 1 .. n : /\ Comp(t, b) <=> Comp(u, b)
                            /\ Asst(t, b) <=> Asst(u, b)
                            /\ t[b].id = u[b].id /\ t[b].what = u[b].what
  BY <1>4 DEF Comp, Asst
<1>10. OpenAt(u, d, r, n)
  <2>1. \A m \in o + 1 .. n : ~Comp(u, m) /\ (Asst(u, m) => u[m].id = r.open.id)
    BY <1>3, <1>9
  <2>2. {b \in o + 1 .. n : Asst(t, b) /\ t[b].what \in Keys} = {b \in o + 1 .. n : Asst(u, b) /\ u[b].what \in Keys}
    BY <1>9
  <2> QED
    BY <1>3, <1>5, <1>6, <1>7, <1>8, <2>1, <2>2
<1>11. \A k : /\ OfIn(u, r.open.consumes, k) = OfIn(t, r.open.consumes, k)
              /\ OfIn(u, r.open.calls, k) = OfIn(t, r.open.calls, k)
  <2>1. \A b \in r.open.consumes : b \in 1 .. n
    BY <1>1, <1>3 DEF Waiting
  <2>2. \A b \in r.open.calls : b \in 1 .. n
    BY <1>3, <1>4
  <2>3. \A k : {b \in r.open.consumes : t[b].what = k} = {b \in r.open.consumes : u[b].what = k}
    BY <1>4, <2>1
  <2>4. \A k : {b \in r.open.calls : t[b].what = k} = {b \in r.open.calls : u[b].what = k}
    BY <1>4, <2>2
  <2> QED
    BY <2>3, <2>4 DEF OfIn
<1>12. SameWorth(t, u, r)
  BY <1>11 DEF OpenWorth, SameWorth
<1> QED
  BY <1>10, <1>12

LEMMA ProlongedRunner ==
    ASSUME NEW t, NEW u, NEW d, NEW ct, NEW r, NEW n \in Nat, WellFormed(t), Prolongs(t, u), RunnerAt(t, d, ct, r, n)
    PROVE  RunnerAt(u, d, ct, r, n)
<1> DEFINE o == r.committed.offset
<1>1. /\ r \in Runners /\ o <= n /\ n <= Len(t) /\ d \subseteq 0 .. o
      /\ SavedAt(t, d, r.committed) /\ Fresh(t, d, o)
      /\ r.open = Closed => WorkAt(t, d, r.w, n, n) /\ Fresh(t, d, n)
      /\ r.open # Closed => OpenAt(t, d, r, n)
      /\ ct[Floor] + r.out[Floor] + r.pending[Floor] <= 1
      /\ ct[Floor] + r.out[Floor] + r.pending[Floor] = 1 => r.w.floorDone
      /\ ct[Floor] + r.out[Floor] = 1 => r.committed.w.floorDone
  BY DEF RunnerAt
<1>2. \A m \in Metrics \ {Floor} :
         /\ ct[m] + r.out[m] = WorthOf(t, d, o)[m]
         /\ ct[m] + r.out[m] + r.pending[m] + OpenWorth(t, r, m) = WorthOf(t, d, n)[m]
  BY DEF RunnerAt
<1>3. r.committed \in Costs /\ o \in Nat
  BY <1>1 DEF Runners, Costs
<1>4. Len(t) \in Nat /\ Len(u) \in Nat /\ Len(t) <= Len(u)
  BY DEF WellFormed, Prolongs
<1>5. o <= Len(t) /\ o <= Len(u) /\ n <= Len(u) /\ o \in 0 .. n /\ n \in 0 .. n
  BY <1>1, <1>3, <1>4
<1>6. AlikeTo(t, d, u, d, n) /\ AlikeTo(t, d, u, d, o)
  <2>1. AlikeTo(t, d, u, d, n)
    BY <1>1, ProlongedAlike
  <2>2. AlikeTo(t, d, u, d, o)
    <3> HIDE DEF o
    <3> QED
      BY <1>3, <1>5, ProlongedAlike
  <2> QED
    BY <2>1, <2>2
<1>7. SavedAt(u, d, r.committed)
  BY <1>1, <1>3, <1>5, <1>6, SameSaved
<1>8. WorthOf(t, d, o) = WorthOf(u, d, o) /\ WorthOf(t, d, n) = WorthOf(u, d, n)
  <2> HIDE DEF o
  <2> QED
    BY <1>1, <1>5, <1>6, AlikeWorth
<1>9. Fresh(u, d, o)
  <2>1. Fresh(t, d, o) /\ o \in Nat /\ o <= Len(t)
    BY <1>1, <1>3, <1>5
  <2> HIDE DEF o
  <2> QED
    BY <2>1, ProlongedFresh
<1>10. r.open = Closed => WorkAt(u, d, r.w, n, n) /\ Fresh(u, d, n)
  BY <1>1, <1>5, <1>6, SameWork, ProlongedFresh
<1>11. r.open # Closed => OpenAt(u, d, r, n) /\ SameWorth(t, u, r)
  <2> SUFFICES ASSUME r.open # Closed
               PROVE  OpenAt(u, d, r, n) /\ SameWorth(t, u, r)
    OBVIOUS
  <2>1. r \in Runners /\ n <= Len(t) /\ r.committed.offset <= n /\ OpenAt(t, d, r, n)
    BY <1>1
  <2>2. OpenAt(u, d, r, n)
    BY <2>1, ProlongedOpen, Zenon
  <2>3. SameWorth(t, u, r)
    BY <2>1, ProlongedOpen, Zenon
  <2> QED
    BY <2>2, <2>3
<1>12. \A m \in Metrics \ {Floor} : OpenWorth(u, r, m) = OpenWorth(t, r, m)
  <2>1. r.open = Closed => \A m \in Metrics : OpenWorth(u, r, m) = OpenWorth(t, r, m)
    BY DEF OpenWorth
  <2> QED
    BY <1>11, <2>1 DEF SameWorth
<1>13. \A m \in Metrics \ {Floor} :
          /\ ct[m] + r.out[m] = WorthOf(u, d, o)[m]
          /\ ct[m] + r.out[m] + r.pending[m] + OpenWorth(u, r, m) = WorthOf(u, d, n)[m]
  BY <1>2, <1>8, <1>12
<1> QED
  BY <1>1, <1>5, <1>7, <1>9, <1>10, <1>11, <1>13 DEF RunnerAt

-----------------------------------------------------------------------------
(* The transcript, as claude writes it. *)

LEMMA AppendOne ==
    ASSUME NEW t, WellFormed(t), NEW b \in Records, NEW u, u = Append(t, b),
           b.type = "assistant" => b.id > 0 /\ \A i \in 1 .. Len(t) : Asst(t, i) => t[i].id <= b.id,
           b.type = "result" => /\ b.id \in 1 .. Len(t) /\ Asst(t, b.id) /\ t[b.id].what \in Keys
                                /\ \A j \in 1 .. Len(t) : Res(t, j) => t[j].id # b.id
    PROVE  WellFormed(u) /\ Prolongs(t, u)
<1> DEFINE n == Len(t)
<1>1. t \in Seq(Records) /\ n \in Nat
  BY DEF WellFormed
<1>2. u \in Seq(Records) /\ Len(u) = n + 1 /\ u[n + 1] = b /\ \A i \in 1 .. n : u[i] = t[i]
  BY <1>1
<1>3. /\ \A i, j \in 1 .. n : i < j /\ Asst(t, i) /\ Asst(t, j) => t[i].id <= t[j].id
      /\ \A i \in 1 .. n :
            /\ Asst(t, i) => t[i].id > 0
            /\ Res(t, i) => t[i].id \in 1 .. i - 1 /\ Asst(t, t[i].id) /\ t[t[i].id].what \in Keys
      /\ \A i, j \in 1 .. n : Res(t, i) /\ Res(t, j) /\ t[i].id = t[j].id => i = j
  BY DEF WellFormed
<1>4. /\ b.type = "assistant" => b.id > 0 /\ \A i \in 1 .. n : Asst(t, i) => t[i].id <= b.id
      /\ b.type = "result" => /\ b.id \in 1 .. n /\ Asst(t, b.id) /\ t[b.id].what \in Keys
                              /\ \A j \in 1 .. n : Res(t, j) => t[j].id # b.id
  OBVIOUS
<1>5. Prolongs(t, u)
  <2>1. n <= n + 1 /\ n + 1 \in Nat
    BY <1>1
  <2> QED
    BY <1>2, <2>1 DEF Prolongs
<1> HIDE DEF n
<1>6. \A i \in 1 .. n + 1 : i \in 1 .. n \/ i = n + 1
  BY <1>1
<1>7. \A i \in 1 .. n : (Asst(u, i) <=> Asst(t, i)) /\ (Res(u, i) <=> Res(t, i)) /\ u[i].id = t[i].id
  BY <1>2 DEF Asst, Res
<1>8. (Asst(u, n + 1) <=> b.type = "assistant") /\ (Res(u, n + 1) <=> b.type = "result") /\ u[n + 1].id = b.id
  BY <1>2 DEF Asst, Res
<1>9. ASSUME NEW i \in 1 .. n + 1, NEW j \in 1 .. n + 1, i < j, Asst(u, i), Asst(u, j)
      PROVE  u[i].id <= u[j].id
  <2>1. i \in 1 .. n
    BY <1>1, <1>9
  <2>2. CASE j \in 1 .. n
    BY <1>3, <1>7, <1>9, <2>1, <2>2
  <2>3. CASE j = n + 1
    BY <1>4, <1>7, <1>8, <1>9, <2>1, <2>3
  <2> QED
    BY <1>6, <2>2, <2>3
<1>10. ASSUME NEW i \in 1 .. n + 1
       PROVE  /\ Asst(u, i) => u[i].id > 0
              /\ Res(u, i) => u[i].id \in 1 .. i - 1 /\ Asst(u, u[i].id) /\ u[u[i].id].what \in Keys
  <2>1. CASE i \in 1 .. n
    <3>1. Asst(u, i) => u[i].id > 0
      BY <1>3, <1>7, <2>1
    <3>2. ASSUME Res(u, i) PROVE u[i].id \in 1 .. i - 1 /\ Asst(u, u[i].id) /\ u[u[i].id].what \in Keys
      <4> DEFINE h == t[i].id
      <4>1. h \in 1 .. i - 1 /\ Asst(t, h) /\ t[h].what \in Keys /\ u[i].id = h
        BY <1>3, <1>7, <2>1, <3>2
      <4> HIDE DEF h
      <4>2. h \in 1 .. n
        BY <1>1, <2>1, <4>1
      <4> QED
        BY <1>2, <1>7, <4>1, <4>2
    <3> QED
      BY <3>1, <3>2
  <2>2. CASE i = n + 1
    <3>1. Asst(u, i) => u[i].id > 0
      BY <1>4, <1>8, <2>2
    <3>2. ASSUME Res(u, i) PROVE u[i].id \in 1 .. i - 1 /\ Asst(u, u[i].id) /\ u[u[i].id].what \in Keys
      <4> DEFINE h == b.id
      <4>1. h \in 1 .. n /\ Asst(t, h) /\ t[h].what \in Keys /\ u[i].id = h
        BY <1>4, <1>8, <2>2, <3>2
      <4> HIDE DEF h
      <4>2. n = i - 1
        BY <1>1, <2>2
      <4> QED
        BY <1>2, <1>7, <4>1, <4>2
    <3> QED
      BY <3>1, <3>2
  <2> QED
    BY <1>6, <2>1, <2>2
<1>11. ASSUME NEW i \in 1 .. n + 1, NEW j \in 1 .. n + 1, Res(u, i), Res(u, j), u[i].id = u[j].id
       PROVE  i = j
  <2>1. CASE i \in 1 .. n /\ j \in 1 .. n
    BY <1>3, <1>7, <1>11, <2>1
  <2>2. CASE i \in 1 .. n /\ j = n + 1
    BY <1>4, <1>7, <1>8, <1>11, <2>2
  <2>3. CASE i = n + 1 /\ j \in 1 .. n
    BY <1>4, <1>7, <1>8, <1>11, <2>3
  <2> QED
    BY <1>6, <2>1, <2>2, <2>3
<1>12. WellFormed(u)
  BY <1>2, <1>9, <1>10, <1>11 DEF WellFormed
<1> QED
  BY <1>5, <1>12

LEMMA WellFormedOn ==
    ASSUME TranscriptTypes, WellFormed(transcript), Appends
    PROVE  WellFormed(transcript') /\ Prolongs(transcript, transcript')
<1> DEFINE ids == {0} \cup {transcript[i].id : i \in {j \in 1..Len(transcript) : IsA(j)}}
<1>1. \E m \in Nat : \A i \in 1 .. Len(transcript) : transcript[i].id <= m
  BY IdsBounded DEF TranscriptTypes
<1>2. \A i \in 1 .. Len(transcript) : transcript[i] \in Records
  BY DEF TranscriptTypes
<1>3. \A i \in 1 .. Len(transcript) : transcript[i].id \in Nat
  BY <1>2 DEF Records
<1>4. ids \in SUBSET Int /\ 0 \in ids /\ \E m \in Int : \A y \in ids : y <= m
  <2>1. PICK m \in Nat : \A i \in 1 .. Len(transcript) : transcript[i].id <= m
    BY <1>1
  <2>2. \A y \in ids : y = 0 \/ \E i \in 1 .. Len(transcript) : y = transcript[i].id
    OBVIOUS
  <2>3. 0 \in ids
    OBVIOUS
  <2> HIDE DEF ids
  <2>4. \A y \in ids : y \in Int /\ y <= m
    BY <1>3, <2>1, <2>2
  <2> QED
    BY <2>3, <2>4
<1>5. LastId = Max(ids) /\ \A i \in 1 .. Len(transcript) : Asst(transcript, i) => transcript[i].id \in ids
  BY DEF LastId, Asst, IsA
<1> HIDE DEF ids
<1>6. LastId \in Int /\ 0 <= LastId /\ \A i \in 1 .. Len(transcript) : Asst(transcript, i) => transcript[i].id <= LastId
  BY <1>4, <1>5, LastOf
<1>7. \/ \E id \in {LastId, LastId + 1} \ {0}, what \in Keys \cup {"text"} : transcript' = Append(transcript, Assistant(id, what))
      \/ \E i \in {j \in 1..Len(transcript) : IsCall(j)} \ Answered : transcript' = Append(transcript, Result(i))
      \/ \E b \in {Prompt, Compact} : transcript' = Append(transcript, b)
  BY DEF Appends
<1>8. CASE \E id \in {LastId, LastId + 1} \ {0}, what \in Keys \cup {"text"} : transcript' = Append(transcript, Assistant(id, what))
  <2>1. PICK id \in {LastId, LastId + 1} \ {0}, what \in Keys \cup {"text"} : transcript' = Append(transcript, Assistant(id, what))
    BY <1>8
  <2> DEFINE b == Assistant(id, what)
  <2>2. id \in Nat /\ id > 0 /\ LastId <= id
    BY <1>6
  <2>3. \A i \in 1 .. Len(transcript) : Asst(transcript, i) => transcript[i].id <= id
    BY <1>3, <1>6, <2>2
  <2>4. b \in Records /\ b.type = "assistant" /\ b.id = id
    BY <2>2 DEF Assistant, Records
  <2>5. transcript' = Append(transcript, b) /\ b.type # "result"
    BY <2>1, <2>4
  <2> HIDE DEF b
  <2> QED
    BY <2>2, <2>3, <2>4, <2>5, AppendOne
<1>9. CASE \E i \in {j \in 1..Len(transcript) : IsCall(j)} \ Answered : transcript' = Append(transcript, Result(i))
  <2>1. PICK i \in {j \in 1..Len(transcript) : IsCall(j)} \ Answered : transcript' = Append(transcript, Result(i))
    BY <1>9
  <2> DEFINE b == Result(i)
  <2>2. i \in 1 .. Len(transcript) /\ Asst(transcript, i) /\ transcript[i].what \in Keys
    BY DEF IsCall, IsA, Asst
  <2>3. \A j \in 1 .. Len(transcript) : Res(transcript, j) => transcript[j].id # i
    BY DEF Answered, Res
  <2>4. b \in Records /\ b.type = "result" /\ b.id = i
    <3>1. i \in Nat
      BY <2>2
    <3> QED
      BY <3>1 DEF Result, Records
  <2>5. transcript' = Append(transcript, b) /\ b.type # "assistant"
    BY <2>1, <2>4
  <2> HIDE DEF b
  <2> QED
    BY <2>2, <2>3, <2>4, <2>5, AppendOne
<1>10. CASE \E b \in {Prompt, Compact} : transcript' = Append(transcript, b)
  <2>1. PICK b \in {Prompt, Compact} : transcript' = Append(transcript, b)
    BY <1>10
  <2>2. b \in Records /\ b.type # "assistant" /\ b.type # "result"
    <3>1. /\ Prompt \in Records /\ Prompt.type = "prompt"
          /\ Compact \in Records /\ Compact.type = "compact"
      BY DEF Prompt, Compact, Records
    <3> QED
      BY <3>1
  <2> QED
    BY <2>1, <2>2, AppendOne
<1> QED
  BY <1>7, <1>8, <1>9, <1>10

\* Before the first record there is nothing to know.
LEMMA NothingYet ==
    ASSUME NEW t, NEW d
    PROVE  WorkAt(t, d, ZeroWork, 0, 0) /\ \A m \in Metrics : WorthOf(t, d, 0)[m] = 0
<1>1. 1 .. 0 = {}
  OBVIOUS
<1>2. Cardinality({}) = 0
  BY FS_EmptySet
<1>3. Unanswered(t, 0) = {} /\ Waiting(t, d, 0) = {} /\ KeysAt(t, d, 0) = {} /\ \A k : Live(t, d, k, 0) = {}
  BY <1>1 DEF Unanswered, Waiting, KeysAt, Live
<1>4. WorkAt(t, d, ZeroWork, 0, 0)
  BY <1>1, <1>2, <1>3 DEF WorkAt, ZeroWork
<1>5. /\ Begins(t, d, 0) = {} /\ Boundaries(t, d, 0) = {}
      /\ \A k : Reads(t, d, k, 0) = {} /\ Carried(t, d, k, 0) = {} /\ Repeated(t, d, k, 0) = {}
  BY <1>1 DEF Begins, Boundaries, Reads, Carried, Repeated
<1>6. \A m \in Metrics : WorthOf(t, d, 0)[m] = 0
  BY <1>2, <1>5 DEF WorthOf
<1> QED
  BY <1>4, <1>6

LEMMA NoneWellFormed == WellFormed(<<>>)
BY DEF WellFormed

LEMMA FirstRecords ==
    ASSUME HooksInit
    PROVE  WellFormed(transcript)
<1>1. Prompt \in Records /\ Assistant(1, "text") \in Records /\ Assistant(2, "text") \in Records /\ Result(1) \in Records
  BY DEF Prompt, Assistant, Result, Records
<1>2. CASE transcript = <<>>
  BY <1>2, NoneWellFormed
<1>3. CASE transcript = <<Prompt, Assistant(1, "text"), Prompt>>
  <2> DEFINE t == transcript
  <2>1. t \in Seq(Records) /\ Len(t) = 3 /\ t[1] = Prompt /\ t[2] = Assistant(1, "text") /\ t[3] = Prompt
    BY <1>1, <1>3
  <2> HIDE DEF t
  <2>2. \A i \in 1 .. Len(t) : i = 1 \/ i = 2 \/ i = 3
    BY <2>1
  <2>3. \A i \in 1 .. Len(t) : (Asst(t, i) <=> i = 2) /\ ~Res(t, i)
    <3>1. Prompt.type = "prompt" /\ Assistant(1, "text").type = "assistant"
      BY DEF Prompt, Assistant
    <3>2. t[1].type = "prompt" /\ t[2].type = "assistant" /\ t[3].type = "prompt"
      BY <2>1, <3>1
    <3> QED
      BY <2>2, <3>2 DEF Asst, Res
  <2>4. t[2].id = 1
    BY <2>1 DEF Assistant
  <2>5. WellFormed(t)
    BY <2>1, <2>3, <2>4 DEF WellFormed
  <2> QED
    BY <2>5 DEF t
<1>4. ASSUME NEW k \in Keys, transcript = <<Assistant(1, k), Result(1), Assistant(2, "text")>>
      PROVE  WellFormed(transcript)
  <2> DEFINE t == transcript
  <2>0. Assistant(1, k) \in Records
    BY DEF Assistant, Records
  <2>1. t \in Seq(Records) /\ Len(t) = 3 /\ t[1] = Assistant(1, k) /\ t[2] = Result(1) /\ t[3] = Assistant(2, "text")
    BY <1>1, <1>4, <2>0
  <2> HIDE DEF t
  <2>2. \A i \in 1 .. Len(t) : i = 1 \/ i = 2 \/ i = 3
    BY <2>1
  <2>3. \A i \in 1 .. Len(t) : (Asst(t, i) <=> i = 1 \/ i = 3) /\ (Res(t, i) <=> i = 2)
    <3>1. /\ Assistant(1, k).type = "assistant" /\ Result(1).type = "result"
          /\ Assistant(2, "text").type = "assistant"
      BY DEF Result, Assistant
    <3>2. t[1].type = "assistant" /\ t[2].type = "result" /\ t[3].type = "assistant"
      BY <2>1, <3>1
    <3> QED
      BY <2>2, <3>2 DEF Asst, Res
  <2>4. t[1].id = 1 /\ t[1].what = k /\ t[2].id = 1 /\ t[3].id = 2
    <3>1. Assistant(1, k).id = 1 /\ Assistant(1, k).what = k /\ Result(1).id = 1 /\ Assistant(2, "text").id = 2
      BY DEF Result, Assistant
    <3> QED
      BY <2>1, <3>1
  <2>5. \A i, j \in 1 .. Len(t) : i < j /\ Asst(t, i) /\ Asst(t, j) => t[i].id <= t[j].id
    BY <2>3, <2>4
  <2>6. ASSUME NEW i \in 1 .. Len(t)
        PROVE  /\ Asst(t, i) => t[i].id > 0
               /\ Res(t, i) => t[i].id \in 1 .. i - 1 /\ Asst(t, t[i].id) /\ t[t[i].id].what \in Keys
    <3>1. 1 \in 1 .. Len(t) /\ 1 \in 1 .. 2 - 1
      BY <2>1
    <3> QED
      BY <2>3, <2>4, <3>1
  <2>7. \A i, j \in 1 .. Len(t) : Res(t, i) /\ Res(t, j) /\ t[i].id = t[j].id => i = j
    BY <2>3
  <2>8. WellFormed(t)
    BY <2>1, <2>5, <2>6, <2>7 DEF WellFormed
  <2> QED
    BY <2>8 DEF t
<1> QED
  BY <1>2, <1>3, <1>4 DEF HooksInit

-----------------------------------------------------------------------------
(* The hook that counts, from its first run on. *)

LEMMA ZeroTypes ==
    /\ ZeroWork \in Works /\ ZeroState \in Costs /\ NoMetrics \in Counters
    /\ ZeroState.offset = 0 /\ ZeroState.w = ZeroWork /\ \A m \in Metrics : NoMetrics[m] = 0
<1>1. ZeroWork \in Works
  BY DEF ZeroWork, Works
<1>2. ZeroState \in Costs
  BY <1>1 DEF ZeroState, Costs
<1> QED
  BY <1>1, <1>2 DEF ZeroState, NoMetrics, Counters

\* A run that starts to read: nothing is open, nothing is pending.
LEMMA RunnerFields ==
    ASSUME NEW st \in Costs, NEW q, q = Runner(st)
    PROVE  /\ q \in Runners /\ q.open = Closed /\ q.pending = NoMetrics /\ q.out = NoMetrics
           /\ q.committed.offset = st.offset /\ q.w = q.committed.w
           /\ q.w.uses = st.w.uses /\ q.w.unconsumed = st.w.unconsumed /\ q.w.prev = st.w.prev
           /\ q.w.live = st.w.live /\ q.w.model = st.w.model
           /\ st.w.floorDone => q.w.floorDone
<1> DEFINE b == st.w.floorDone \/ st.offset > 0
           v == [st.w EXCEPT !.floorDone = b]
           s == [offset |-> st.offset, w |-> v]
<1>1. st.w \in Works /\ st.offset \in Nat /\ st = [offset |-> st.offset, w |-> st.w]
  BY DEF Costs
<1>2. b \in BOOLEAN /\ (st.w.floorDone => b)
  BY <1>1 DEF Works
<1>3. [st EXCEPT !.w.floorDone = @ \/ st.offset > 0] = s
  <2>1. [st EXCEPT !.w.floorDone = @ \/ st.offset > 0] = [st EXCEPT !.w = v]
    BY <1>1 DEF Works, Costs
  <2> HIDE DEF v
  <2> QED
    BY <1>1, <2>1 DEF Costs
<1>4. q = [w |-> s.w, open |-> Closed, pending |-> NoMetrics, committed |-> s, out |-> NoMetrics]
  BY <1>3 DEF Runner
<1> HIDE DEF b
<1>5. v = [st.w EXCEPT !.floorDone = b]
  OBVIOUS
<1> HIDE DEF v
<1>6. /\ v \in Works /\ v.uses = st.w.uses /\ v.unconsumed = st.w.unconsumed /\ v.prev = st.w.prev
      /\ v.live = st.w.live /\ v.model = st.w.model /\ v.floorDone = b
  BY <1>1, <1>2, <1>5 DEF Works
<1>7. s \in Costs /\ s.w = v /\ s.offset = st.offset
  BY <1>1, <1>6 DEF Costs
<1> HIDE DEF s
<1>8. Closed \in Groups
  BY DEF Closed, Groups
<1>9. q \in Runners
  BY <1>4, <1>6, <1>7, <1>8, ZeroTypes DEF Runners
<1>10. q.w = v /\ q.open = Closed /\ q.pending = NoMetrics /\ q.committed = s /\ q.out = NoMetrics
  BY <1>4, <1>7
<1> QED
  BY <1>2, <1>6, <1>7, <1>9, <1>10

LEMMA RunStarts ==
    ASSUME NEW d, NEW ct \in Counters, NEW st \in Costs, SavedAt(transcript, d, st), Fresh(transcript, d, st.offset),
           d \subseteq 0 .. st.offset, PaidFor(transcript, d, ct, NoMetrics, st), NEW q, q = Runner(st)
    PROVE  RunnerAt(transcript, d, ct, q, st.offset) /\ q.committed.offset = st.offset
<1>1. /\ q \in Runners /\ q.open = Closed /\ q.pending = NoMetrics /\ q.out = NoMetrics
      /\ q.committed.offset = st.offset /\ q.w = q.committed.w
      /\ q.w.uses = st.w.uses /\ q.w.unconsumed = st.w.unconsumed /\ q.w.prev = st.w.prev
      /\ q.w.live = st.w.live /\ q.w.model = st.w.model
      /\ st.w.floorDone => q.w.floorDone
  BY RunnerFields
<1> DEFINE p == st.offset
<1>2. p \in Nat /\ p <= Len(transcript) /\ WorkAt(transcript, d, st.w, p, p)
  BY DEF Costs, SavedAt
<1>3. WorkAt(transcript, d, q.w, p, p)
  <2> HIDE DEF p
  <2> QED
    BY <1>1, <1>2 DEF WorkAt
<1>4. SavedAt(transcript, d, q.committed)
  BY <1>1, <1>2, <1>3 DEF SavedAt
<1>5. \A m \in Metrics : q.pending[m] = 0 /\ q.out[m] = 0 /\ ct[m] \in Nat
  BY <1>1, ZeroTypes DEF Counters
<1>6. \A m \in Metrics : ct[m] + q.out[m] = ct[m] /\ ct[m] + q.out[m] + q.pending[m] = ct[m]
  BY <1>5
<1>7. \A m \in Metrics : OpenWorth(transcript, q, m) = 0 /\ ct[m] + q.out[m] + q.pending[m] + OpenWorth(transcript, q, m) = ct[m]
  BY <1>1, <1>5, <1>6 DEF OpenWorth
<1>8. (\A m \in Metrics \ {Floor} : ct[m] = WorthOf(transcript, d, p)[m]) /\ ct[Floor] <= 1
      /\ (ct[Floor] = 1 => st.w.floorDone)
  <2>1. \A m \in Metrics : NoMetrics[m] = 0 /\ ct[m] + NoMetrics[m] = ct[m]
    BY ZeroTypes DEF Counters
  <2> QED
    BY <2>1, FloorIn DEF PaidFor
<1>9. \A m \in Metrics \ {Floor} :
         /\ ct[m] + q.out[m] = WorthOf(transcript, d, q.committed.offset)[m]
         /\ ct[m] + q.out[m] + q.pending[m] + OpenWorth(transcript, q, m) = WorthOf(transcript, d, p)[m]
  BY <1>1, <1>6, <1>7, <1>8
<1>10. /\ ct[Floor] + q.out[Floor] + q.pending[Floor] <= 1
       /\ ct[Floor] + q.out[Floor] + q.pending[Floor] = 1 => q.w.floorDone
       /\ ct[Floor] + q.out[Floor] = 1 => q.committed.w.floorDone
  BY <1>1, <1>6, <1>8, FloorIn
<1>11. q.committed.offset = p /\ p <= p /\ d \subseteq 0 .. p /\ Fresh(transcript, d, p)
  BY <1>1, <1>2
<1>12. RunnerAt(transcript, d, ct, q, p)
  <2> HIDE DEF p
  <2> QED
    BY <1>1, <1>2, <1>3, <1>4, <1>9, <1>10, <1>11 DEF RunnerAt
<1> QED
  BY <1>1, <1>12

LEMMA IdleTypes ==
    /\ IdleCost \in Counting /\ IdleCost.at = "idle"
    /\ \A b \in BOOLEAN : [IdleCost EXCEPT !.at = "lock", !.final = b] \in Counting
    /\ \A b \in BOOLEAN : [IdleCost EXCEPT !.at = "lock", !.final = b].at = "lock"
<1>1. Runner(ZeroState) \in Runners
  BY ZeroTypes, RunnerFields
<1>2. IdleCost \in Counting /\ IdleCost.at = "idle"
  BY <1>1, ZeroTypes DEF IdleCost, Counting
<1>3. ASSUME NEW b \in BOOLEAN, NEW f, f = [IdleCost EXCEPT !.at = "lock", !.final = b]
      PROVE  f \in Counting /\ f.at = "lock"
  BY <1>2, <1>3 DEF Counting
<1> QED
  BY <1>2, <1>3

LEMMA CostBegins == HooksInit => CostInv
<1> SUFFICES ASSUME HooksInit PROVE CostInv
  OBVIOUS
<1>1. TranscriptTypes /\ WellFormed(transcript)
  BY TranscriptStarts, FirstRecords
<1>2. costState = ZeroState /\ cost = [c \in CostRuns |-> IdleCost] /\ counted = NoMetrics /\ cuts = {}
  BY DEF HooksInit
<1>3. cost \in [CostRuns -> Counting] /\ counted \in Counters /\ costState \in Costs /\ costState.offset = 0
  BY <1>2, ZeroTypes, IdleTypes
<1>4. WorkAt(transcript, cuts, ZeroWork, 0, 0) /\ \A m \in Metrics : WorthOf(transcript, cuts, 0)[m] = 0
  BY NothingYet
<1>5. SavedAt(transcript, cuts, costState)
  <2>1. 0 <= Len(transcript)
    BY <1>1 DEF WellFormed
  <2> QED
    BY <1>2, <1>4, <2>1, ZeroTypes DEF SavedAt
<1>6. Fresh(transcript, cuts, costState.offset)
  <2>1. Fresh(transcript, cuts, 0)
    BY DEF Fresh
  <2> QED
    BY <1>3, <2>1
<1>7. \A c \in CostRuns : cost[c].at = "idle"
  BY <1>2, IdleTypes
<1>8. \A c \in CostRuns : CostForm(c, cost[c])
  BY <1>7 DEF CostForm
<1>9. PaidFor(transcript, cuts, counted, NoMetrics, costState)
  BY <1>2, <1>3, <1>4, ZeroTypes, FloorIn DEF PaidFor
<1>10. cuts \subseteq 0 .. costState.offset
  BY <1>2
<1> QED
  BY <1>1, <1>3, <1>5, <1>6, <1>8, <1>9, <1>10 DEF CostInv

\* A run that reads, saves or sends has the lock, and so is the only one that does.
LEMMA OnlyHolder ==
    ASSUME CostInv, NEW c \in CostRuns, cost[c].at \notin {"idle", "lock"}
    PROVE  costLock = c /\ \A e \in CostRuns : e # c => cost[e].at \in {"idle", "lock"}
BY DEF CostInv, CostForm

\* Run c takes a step.
LEMMA CostMoves ==
    ASSUME CostInv, NEW c \in CostRuns, NEW f \in Counting, Cost(c, f),
           UNCHANGED <<transcript, old>>, costState' \in Costs, counted' \in Counters,
           SavedAt(transcript, cuts', costState'), Fresh(transcript, cuts', costState'.offset),
           cuts' \subseteq 0 .. costState'.offset,
           \/ \A e \in CostRuns : e # c => cost[e].at \in {"idle", "lock"}
           \/ UNCHANGED <<costState, cuts, counted, costLock>>,
           f.at \notin {"idle", "lock"} => costLock' = c,
           f.at = "scan" => /\ costState'.offset <= f.r.committed.offset
                            /\ RunnerAt(transcript, cuts', counted', f.r, f.n),
           f.at = "save" => /\ costState'.offset <= f.st.offset /\ SavedAt(transcript, cuts', f.st)
                            /\ f.cut \/ Fresh(transcript, cuts', f.st.offset)
                            /\ PaidFor(transcript, cuts', counted', f.out, f.st),
           f.at = "send" => PaidFor(transcript, cuts', counted', f.out, costState'),
           f.at # "send" => \/ \E e \in CostRuns : e # c /\ cost[e].at = "send"
                            \/ PaidFor(transcript, cuts', counted', NoMetrics, costState')
    PROVE  CostInv'
<1>1. /\ TranscriptTypes /\ WellFormed(transcript) /\ cost \in [CostRuns -> Counting]
      /\ \A e \in CostRuns : CostForm(e, cost[e])
  BY DEF CostInv
<1>2. transcript' = transcript /\ old' = old
  OBVIOUS
<1>3. TranscriptTypes' /\ WellFormed(transcript')
  BY <1>1, <1>2 DEF TranscriptTypes
<1>4. /\ cost' \in [CostRuns -> Counting] /\ cost'[c] = f
      /\ \A e \in CostRuns : e # c => cost'[e] = cost[e]
  BY <1>1 DEF Cost
<1>5. SavedAt(transcript', cuts', costState') /\ Fresh(transcript', cuts', costState'.offset)
  BY <1>2
<1>6. ASSUME NEW e \in CostRuns PROVE CostForm(e, cost[e])'
  <2>1. CASE e = c
    <3>1. CostForm(e, cost[e])' <=>
            /\ f.at \notin {"idle", "lock"} => costLock' = c
            /\ f.at = "scan" => /\ costState'.offset <= f.r.committed.offset
                                /\ RunnerAt(transcript, cuts', counted', f.r, f.n)
            /\ f.at = "save" => /\ costState'.offset <= f.st.offset /\ SavedAt(transcript, cuts', f.st)
                                /\ f.cut \/ Fresh(transcript, cuts', f.st.offset)
                                /\ PaidFor(transcript, cuts', counted', f.out, f.st)
            /\ f.at = "send" => PaidFor(transcript, cuts', counted', f.out, costState')
      BY <1>2, <1>4, <2>1 DEF CostForm
    <3> QED
      BY <3>1
  <2>2. CASE e # c /\ cost[e].at \in {"idle", "lock"}
    BY <1>4, <2>2 DEF CostForm
  <2>3. CASE e # c /\ UNCHANGED <<costState, cuts, counted, costLock>>
    <3>1. cost'[e] = cost[e] /\ CostForm(e, cost[e])
      BY <1>1, <1>4, <2>3
    <3> QED
      BY <1>2, <2>3, <3>1 DEF CostForm
  <2> QED
    BY <2>1, <2>2, <2>3
<1>7. ASSUME \A e \in CostRuns : cost'[e].at # "send"
      PROVE  PaidFor(transcript', cuts', counted', NoMetrics, costState')
  <2>1. f.at # "send"
    BY <1>4, <1>7
  <2>2. ~\E e \in CostRuns : e # c /\ cost[e].at = "send"
    BY <1>4, <1>7
  <2> QED
    BY <1>2, <2>1, <2>2
<1> QED
  BY <1>3, <1>4, <1>5, <1>6, <1>7 DEF CostInv

\* A run that only moves on, or ends before it is about to send, changes nothing that is known.
LEMMA CostRests ==
    ASSUME CostInv, NEW c \in CostRuns, cost[c].at # "send", NEW f \in Counting, Cost(c, f), f.at \in {"idle", "lock"},
           UNCHANGED <<transcript, old, costState, cuts, counted>>,
           costLock' = costLock \/ \A e \in CostRuns : e # c => cost[e].at \in {"idle", "lock"}
    PROVE  CostInv'
<1>1. /\ counted \in Counters /\ costState \in Costs /\ SavedAt(transcript, cuts, costState)
      /\ Fresh(transcript, cuts, costState.offset) /\ cuts \subseteq 0 .. costState.offset
      /\ (\A e \in CostRuns : cost[e].at # "send") => PaidFor(transcript, cuts, counted, NoMetrics, costState)
  BY DEF CostInv
<1>2. costState' = costState /\ cuts' = cuts /\ counted' = counted
  OBVIOUS
<1>3. \/ \E e \in CostRuns : e # c /\ cost[e].at = "send"
      \/ PaidFor(transcript, cuts', counted', NoMetrics, costState')
  BY <1>1, <1>2
<1>4. /\ costState' \in Costs /\ counted' \in Counters /\ SavedAt(transcript, cuts', costState')
      /\ Fresh(transcript, cuts', costState'.offset) /\ cuts' \subseteq 0 .. costState'.offset
  BY <1>1, <1>2
<1>5. \/ \A e \in CostRuns : e # c => cost[e].at \in {"idle", "lock"}
      \/ UNCHANGED <<costState, cuts, counted, costLock>>
  BY <1>2
<1>6. f.at # "scan" /\ f.at # "save" /\ f.at # "send"
  OBVIOUS
<1> QED
  BY <1>3, <1>4, <1>5, <1>6, CostMoves

\* A run that ends after it was about to send.
LEMMA CostSent ==
    ASSUME CostInv, NEW c \in CostRuns, cost[c].at = "send", Cost(c, IdleCost), counted' = Plus(counted, cost[c].out),
           UNCHANGED <<transcript, old, costState, cuts>>
    PROVE  CostInv'
<1>1. /\ counted \in Counters /\ costState \in Costs /\ SavedAt(transcript, cuts, costState)
      /\ Fresh(transcript, cuts, costState.offset) /\ cuts \subseteq 0 .. costState.offset
      /\ cost \in [CostRuns -> Counting] /\ CostForm(c, cost[c])
  BY DEF CostInv
<1>2. \A e \in CostRuns : e # c => cost[e].at \in {"idle", "lock"}
  BY OnlyHolder
<1> DEFINE ou == cost[c].out
<1>3. ou \in Counters /\ PaidFor(transcript, cuts, counted, ou, costState) /\ counted' = Plus(counted, ou)
  BY <1>1 DEF CostForm, Counting
<1> HIDE DEF ou
<1>4. counted' \in Counters /\ \A m \in Metrics : counted'[m] = counted[m] + ou[m]
  BY <1>1, <1>3 DEF Plus, Counters
<1>5. \A m \in Metrics : counted'[m] + NoMetrics[m] = counted[m] + ou[m]
  <2>1. \A m \in Metrics : counted'[m] \in Nat /\ NoMetrics[m] = 0
    BY <1>4, ZeroTypes DEF Counters
  <2> QED
    BY <1>4, <2>1
<1>6. PaidFor(transcript, cuts, counted', NoMetrics, costState)
  BY <1>3, <1>5, FloorIn DEF PaidFor
<1>7. costState' = costState /\ cuts' = cuts
  OBVIOUS
<1>8. IdleCost \in Counting /\ IdleCost.at = "idle"
  BY IdleTypes
<1>9. /\ costState' \in Costs /\ SavedAt(transcript, cuts', costState')
      /\ Fresh(transcript, cuts', costState'.offset) /\ cuts' \subseteq 0 .. costState'.offset
      /\ PaidFor(transcript, cuts', counted', NoMetrics, costState')
  BY <1>1, <1>6, <1>7
<1> QED
  BY <1>2, <1>4, <1>8, <1>9, CostMoves

LEMMA StartsKeep ==
    ASSUME CostInv, NEW c \in CostRuns, CostStarts(c)
    PROVE  CostInv'
<1>1. cost[c].at # "send"
  BY DEF CostStarts
<1>2. PICK b \in BOOLEAN : Cost(c, [IdleCost EXCEPT !.at = "lock", !.final = b])
  BY DEF CostStarts
<1> DEFINE f == [IdleCost EXCEPT !.at = "lock", !.final = b]
<1>3. f \in Counting /\ f.at = "lock" /\ Cost(c, f)
  BY <1>2, IdleTypes
<1>4. UNCHANGED <<transcript, old, costState, cuts, counted>> /\ costLock' = costLock
  BY DEF CostStarts, TeeKept
<1> HIDE DEF f
<1> QED
  BY <1>1, <1>3, <1>4, CostRests

LEMMA LocksKeep ==
    ASSUME CostInv, NEW c \in CostRuns, CostLocks(c)
    PROVE  CostInv'
<1>1. cost[c].at = "lock" /\ UNCHANGED <<transcript, old, costState, cuts, counted>>
  BY DEF CostLocks, TeeKept
<1>2. CASE costLock = NoRun /\ costLock' = c /\ Cost(c, [cost[c] EXCEPT !.at = "read"])
  <2> DEFINE f == [cost[c] EXCEPT !.at = "read"]
  <2>1. \A e \in CostRuns : cost[e].at \in {"idle", "lock"}
    BY <1>2, HooksAssumption DEF CostInv, CostForm
  <2>2. f \in Counting /\ f.at = "read"
    <3>1. cost[c] \in Counting
      BY DEF CostInv
    <3> QED
      BY <3>1 DEF Counting
  <2>3. Cost(c, f)
    BY <1>2
  <2> HIDE DEF f
  <2>4. /\ counted \in Counters /\ costState \in Costs /\ SavedAt(transcript, cuts, costState)
        /\ Fresh(transcript, cuts, costState.offset) /\ cuts \subseteq 0 .. costState.offset
        /\ PaidFor(transcript, cuts, counted, NoMetrics, costState)
    <3>1. \A e \in CostRuns : cost[e].at # "send"
      BY <2>1
    <3> QED
      BY <3>1 DEF CostInv
  <2>5. /\ counted' \in Counters /\ costState' \in Costs /\ SavedAt(transcript, cuts', costState')
        /\ Fresh(transcript, cuts', costState'.offset) /\ cuts' \subseteq 0 .. costState'.offset
        /\ PaidFor(transcript, cuts', counted', NoMetrics, costState')
    BY <1>1, <2>4
  <2>6. f.at \notin {"scan", "save", "send"} /\ costLock' = c /\ UNCHANGED <<transcript, old>>
    BY <1>1, <1>2, <2>2
  <2> QED
    BY <2>1, <2>2, <2>3, <2>5, <2>6, CostMoves
<1>3. CASE costLock # NoRun /\ Cost(c, IdleCost) /\ UNCHANGED costLock
  BY <1>1, <1>3, IdleTypes, CostRests
<1> QED
  BY <1>2, <1>3 DEF CostLocks

\* What the run that holds the lock knows: nobody else is about to send.
LEMMA HolderPaid ==
    ASSUME CostInv, NEW c \in CostRuns, cost[c].at \in {"read", "scan", "save"}
    PROVE  /\ counted \in Counters /\ costState \in Costs /\ SavedAt(transcript, cuts, costState)
           /\ Fresh(transcript, cuts, costState.offset) /\ cuts \subseteq 0 .. costState.offset
           /\ PaidFor(transcript, cuts, counted, NoMetrics, costState)
           /\ WellFormed(transcript) /\ cost[c] \in Counting /\ CostForm(c, cost[c])
           /\ costLock = c /\ \A e \in CostRuns : e # c => cost[e].at \in {"idle", "lock"}
<1>1. costLock = c /\ \A e \in CostRuns : e # c => cost[e].at \in {"idle", "lock"}
  BY OnlyHolder
<1>2. \A e \in CostRuns : cost[e].at # "send"
  BY <1>1
<1> QED
  BY <1>1, <1>2 DEF CostInv

LEMMA ReadsKeep ==
    ASSUME CostInv, NEW c \in CostRuns, CostReads(c)
    PROVE  CostInv'
<1>1. cost[c].at = "read" /\ UNCHANGED <<transcript, old, costState, costLock, cuts, counted>>
  BY DEF CostReads, TeeKept
<1>2. /\ counted \in Counters /\ costState \in Costs /\ SavedAt(transcript, cuts, costState)
      /\ Fresh(transcript, cuts, costState.offset) /\ cuts \subseteq 0 .. costState.offset
      /\ PaidFor(transcript, cuts, counted, NoMetrics, costState)
      /\ WellFormed(transcript) /\ cost[c] \in Counting
      /\ costLock = c /\ \A e \in CostRuns : e # c => cost[e].at \in {"idle", "lock"}
  BY <1>1, HolderPaid
<1> DEFINE q == Runner(costState)
           p == costState.offset
           f == [cost[c] EXCEPT !.at = "scan", !.n = p, !.r = q]
<1>3. Cost(c, f)
  BY DEF CostReads
<1>4. q = Runner(costState)
  OBVIOUS
<1> HIDE DEF q
<1>5. RunnerAt(transcript, cuts, counted, q, p) /\ q.committed.offset = p
  BY <1>2, <1>4, RunStarts
<1>6. p \in Nat /\ q \in Runners
  BY <1>2, <1>5 DEF Costs, RunnerAt
<1>7. f \in Counting /\ f.at = "scan" /\ f.n = p /\ f.r = q
  <2> HIDE DEF p
  <2> QED
    BY <1>2, <1>6 DEF Counting
<1> HIDE DEF f
<1>8. f.at = "scan" => /\ costState'.offset <= f.r.committed.offset
                       /\ RunnerAt(transcript, cuts', counted', f.r, f.n)
  BY <1>1, <1>5, <1>6, <1>7
<1>9. f.at # "save" /\ f.at # "send" /\ costLock' = c /\ UNCHANGED <<transcript, old>>
  BY <1>1, <1>2, <1>7
<1>10. /\ counted' \in Counters /\ costState' \in Costs /\ SavedAt(transcript, cuts', costState')
       /\ Fresh(transcript, cuts', costState'.offset) /\ cuts' \subseteq 0 .. costState'.offset
       /\ PaidFor(transcript, cuts', counted', NoMetrics, costState')
  BY <1>1, <1>2
<1> QED
  BY <1>2, <1>3, <1>7, <1>8, <1>9, <1>10, CostMoves

\* A run that stops reading, with what it commits.
LEMMA YieldsKeep ==
    ASSUME CostInv, NEW c \in CostRuns, cost[c].at = "scan", NEW q \in Runners, NEW b \in BOOLEAN, Yields(c, q, b),
           UNCHANGED <<transcript, old, costState, costLock, cuts, counted>>,
           costState.offset <= q.committed.offset, SavedAt(transcript, cuts, q.committed),
           b \/ Fresh(transcript, cuts, q.committed.offset),
           PaidFor(transcript, cuts, counted, q.out, q.committed)
    PROVE  CostInv'
<1>1. /\ counted \in Counters /\ costState \in Costs /\ SavedAt(transcript, cuts, costState)
      /\ Fresh(transcript, cuts, costState.offset) /\ cuts \subseteq 0 .. costState.offset
      /\ PaidFor(transcript, cuts, counted, NoMetrics, costState)
      /\ costLock = c /\ \A e \in CostRuns : e # c => cost[e].at \in {"idle", "lock"}
  BY HolderPaid
<1> DEFINE st == q.committed
           ou == q.out
           f == [IdleCost EXCEPT !.at = "save", !.cut = b, !.st = st, !.out = ou]
<1>2. Cost(c, f)
  BY DEF Yields
<1>3. st \in Costs /\ ou \in Counters
  BY DEF Runners
<1>4. f \in Counting /\ f.at = "save" /\ f.cut = b /\ f.st = st /\ f.out = ou
  <2> HIDE DEF st, ou
  <2> QED
    BY <1>3, IdleTypes DEF Counting
<1> HIDE DEF f
<1>5. /\ costState'.offset <= f.st.offset /\ SavedAt(transcript, cuts', f.st)
      /\ f.cut \/ Fresh(transcript, cuts', f.st.offset)
      /\ PaidFor(transcript, cuts', counted', f.out, f.st)
  BY <1>4
<1>6. /\ counted' \in Counters /\ costState' \in Costs /\ SavedAt(transcript, cuts', costState')
      /\ Fresh(transcript, cuts', costState'.offset) /\ cuts' \subseteq 0 .. costState'.offset
      /\ PaidFor(transcript, cuts', counted', NoMetrics, costState') /\ costLock' = c
  BY <1>1
<1>7. f.at # "scan" /\ f.at # "send"
  BY <1>4
<1> QED
  BY <1>1, <1>2, <1>4, <1>5, <1>6, <1>7, CostMoves

LEMMA ScansKeep ==
    ASSUME CostInv, NEW c \in CostRuns, CostScans(c)
    PROVE  CostInv'
<1> DEFINE n == cost[c].n
           r == cost[c].r
<1>1. cost[c].at = "scan" /\ UNCHANGED <<transcript, old, costState, costLock, cuts, counted>>
  BY DEF CostScans, TeeKept
<1>2. /\ counted \in Counters /\ costState \in Costs /\ SavedAt(transcript, cuts, costState)
      /\ Fresh(transcript, cuts, costState.offset) /\ cuts \subseteq 0 .. costState.offset
      /\ PaidFor(transcript, cuts, counted, NoMetrics, costState)
      /\ WellFormed(transcript) /\ cost[c] \in Counting /\ CostForm(c, cost[c])
      /\ costLock = c /\ \A e \in CostRuns : e # c => cost[e].at \in {"idle", "lock"}
  BY <1>1, HolderPaid
<1>3. n \in Nat /\ r \in Runners
  BY <1>2 DEF Counting
<1>4. costState.offset <= r.committed.offset /\ RunnerAt(transcript, cuts, counted, r, n)
  BY <1>1, <1>2 DEF CostForm
<1>5. costState.offset \in Nat /\ r.committed.offset \in Nat
  BY <1>2, <1>3 DEF Costs, Runners
<1>6. \/ n < Len(transcript) /\ Cost(c, [cost[c] EXCEPT !.n = n + 1, !.r = handle(r, n + 1)])
      \/ Yields(c, r, FALSE)
      \/ n = Len(transcript) /\ Yields(c, commit(closeOpen(r), n), TRUE)
  BY DEF CostScans
<1>7. CASE n < Len(transcript) /\ Cost(c, [cost[c] EXCEPT !.n = n + 1, !.r = handle(r, n + 1)])
  <2> DEFINE i == n + 1
             q == handle(r, n + 1)
             f == [cost[c] EXCEPT !.n = i, !.r = q]
  <2>1. Cost(c, f)
    BY <1>7
  <2>2. n + 1 <= Len(transcript) /\ i \in Nat
    <3>1. Len(transcript) \in Nat
      BY <1>2 DEF WellFormed
    <3> QED
      BY <1>3, <1>7, <3>1
  <2>3. q = handle(r, n + 1)
    OBVIOUS
  <2> HIDE DEF q
  <2>4. RunnerAt(transcript, cuts, counted, q, n + 1) /\ r.committed.offset <= q.committed.offset
    <3> HIDE DEF n, r
    <3> QED
      BY <1>2, <1>3, <1>4, <2>2, <2>3, HandlesNext
  <2>5. q \in Runners /\ q.committed.offset \in Nat
    BY <2>4 DEF RunnerAt, Runners, Costs
  <2>6. RunnerAt(transcript, cuts, counted, q, i) /\ costState.offset <= q.committed.offset
    BY <1>4, <1>5, <2>4, <2>5
  <2> HIDE DEF i
  <2>7. f \in Counting /\ f.at = "scan" /\ f.n = i /\ f.r = q
    BY <1>1, <1>2, <2>2, <2>5 DEF Counting
  <2> HIDE DEF f
  <2>8. /\ costState'.offset <= f.r.committed.offset
        /\ RunnerAt(transcript, cuts', counted', f.r, f.n)
    BY <1>1, <2>6, <2>7
  <2>9. /\ counted' \in Counters /\ costState' \in Costs /\ SavedAt(transcript, cuts', costState')
        /\ Fresh(transcript, cuts', costState'.offset) /\ cuts' \subseteq 0 .. costState'.offset
        /\ PaidFor(transcript, cuts', counted', NoMetrics, costState')
    BY <1>1, <1>2
  <2>10. f.at # "save" /\ f.at # "send" /\ costLock' = c /\ UNCHANGED <<transcript, old>>
    BY <1>1, <1>2, <2>7
  <2> QED
    BY <1>2, <2>1, <2>7, <2>8, <2>9, <2>10, CostMoves
<1>8. CASE Yields(c, r, FALSE)
  <2>1. /\ SavedAt(transcript, cuts, r.committed) /\ Fresh(transcript, cuts, r.committed.offset)
        /\ PaidFor(transcript, cuts, counted, r.out, r.committed)
    <3>1. /\ SavedAt(transcript, cuts, r.committed) /\ Fresh(transcript, cuts, r.committed.offset)
          /\ \A m \in Metrics \ {Floor} : counted[m] + r.out[m] = WorthOf(transcript, cuts, r.committed.offset)[m]
          /\ counted[Floor] + r.out[Floor] + r.pending[Floor] <= 1
          /\ counted[Floor] + r.out[Floor] = 1 => r.committed.w.floorDone
      BY <1>4 DEF RunnerAt
    <3>2. counted[Floor] \in Nat /\ r.out[Floor] \in Nat /\ r.pending[Floor] \in Nat
      BY <1>2, <1>3, FloorIn DEF Counters, Runners
    <3>3. counted[Floor] + r.out[Floor] <= 1
      BY <3>1, <3>2
    <3> QED
      BY <3>1, <3>3 DEF PaidFor
  <2> HIDE DEF r
  <2> QED
    BY <1>1, <1>3, <1>4, <1>8, <2>1, YieldsKeep
<1>9. CASE n = Len(transcript) /\ Yields(c, commit(closeOpen(r), n), TRUE)
  <2> DEFINE q == commit(closeOpen(r), n)
  <2>1. q = commit(closeOpen(r), n) /\ Yields(c, q, TRUE)
    BY <1>9
  <2> HIDE DEF q
  <2>2. /\ q \in Runners /\ q.committed = [offset |-> n, w |-> q.w]
        /\ SavedAt(transcript, cuts, q.committed)
        /\ PaidFor(transcript, cuts, counted, q.out, q.committed)
    <3> HIDE DEF n, r
    <3> QED
      BY <1>2, <1>3, <1>4, <2>1, CommitsAll
  <2>3. costState.offset <= q.committed.offset
    <3>1. r.committed.offset <= n
      BY <1>4 DEF RunnerAt
    <3> QED
      BY <1>3, <1>4, <1>5, <2>2, <3>1
  <2> QED
    BY <1>1, <2>1, <2>2, <2>3, YieldsKeep
<1> QED
  BY <1>6, <1>7, <1>8, <1>9

LEMMA SavesKeep ==
    ASSUME CostInv, NEW c \in CostRuns, CostSaves(c)
    PROVE  CostInv'
<1>1. cost[c].at = "save" /\ UNCHANGED <<transcript, old, counted>>
  BY DEF CostSaves, TeeKept
<1>2. /\ counted \in Counters /\ costState \in Costs /\ SavedAt(transcript, cuts, costState)
      /\ Fresh(transcript, cuts, costState.offset) /\ cuts \subseteq 0 .. costState.offset
      /\ PaidFor(transcript, cuts, counted, NoMetrics, costState)
      /\ WellFormed(transcript) /\ cost[c] \in Counting /\ CostForm(c, cost[c])
      /\ costLock = c /\ \A e \in CostRuns : e # c => cost[e].at \in {"idle", "lock"}
  BY <1>1, HolderPaid
<1>3. CASE /\ costState' = cost[c].st
           /\ cuts' = IF cost[c].cut THEN cuts \cup {cost[c].st.offset} ELSE cuts
           /\ Cost(c, [cost[c] EXCEPT !.at = "send"]) /\ UNCHANGED costLock
  <2> DEFINE st == cost[c].st
             p == st.offset
             ou == cost[c].out
             f == [cost[c] EXCEPT !.at = "send"]
  <2>1. st \in Costs /\ p \in Nat /\ costState.offset \in Nat
    BY <1>2 DEF Counting, Costs
  <2>2. /\ costState.offset <= p /\ SavedAt(transcript, cuts, st)
        /\ cost[c].cut \/ Fresh(transcript, cuts, p)
        /\ PaidFor(transcript, cuts, counted, ou, st)
    BY <1>1, <1>2 DEF CostForm
  <2>3. AlikeTo(transcript, cuts, transcript, cuts', p)
    <3>1. \A m \in 1 .. p - 1 : m # p
      BY <2>1
    <3> QED
      BY <1>3, <3>1 DEF AlikeTo
  <2>4. p <= Len(transcript)
    BY <2>2 DEF SavedAt
  <2>5. SavedAt(transcript, cuts', st)
    BY <1>2, <2>1, <2>2, <2>3, <2>4, SameSaved
  <2>6. PaidFor(transcript, cuts', counted, ou, st)
    BY <1>2, <2>1, <2>2, <2>3, <2>4, SamePaid
  <2>7. Fresh(transcript, cuts', p)
    <3>1. CASE cost[c].cut
      <4>1. p \in cuts' /\ \A j \in 1 .. p : p \in j .. p
        BY <1>3, <2>1, <3>1
      <4> HIDE DEF p
      <4> QED
        BY <4>1 DEF Fresh, EndsAt
    <3>2. CASE ~cost[c].cut
      BY <1>3, <2>2, <3>2
    <3> QED
      BY <3>1, <3>2
  <2>8. cuts' \subseteq 0 .. p
    <3>1. \A m \in 0 .. costState.offset : m \in 0 .. p
      BY <2>1, <2>2
    <3>2. p \in 0 .. p
      BY <2>1
    <3> QED
      BY <1>2, <1>3, <3>1, <3>2
  <2>9. f \in Counting /\ f.at = "send" /\ f.out = ou /\ Cost(c, f)
    BY <1>2, <1>3 DEF Counting
  <2>10. costState' = st /\ counted' = counted /\ costLock' = c
    BY <1>1, <1>2, <1>3
  <2>11. /\ costState' \in Costs /\ counted' \in Counters /\ SavedAt(transcript, cuts', costState')
         /\ Fresh(transcript, cuts', costState'.offset) /\ cuts' \subseteq 0 .. costState'.offset
         /\ PaidFor(transcript, cuts', counted', ou, costState')
    BY <1>2, <2>1, <2>5, <2>6, <2>7, <2>8, <2>10
  <2>12. UNCHANGED <<transcript, old>>
    BY <1>1
  <2> HIDE DEF f, ou
  <2> QED
    BY <1>2, <2>9, <2>10, <2>11, <2>12, CostMoves
<1>4. CASE costLock' = NoRun /\ Cost(c, IdleCost) /\ UNCHANGED <<costState, cuts>>
  BY <1>1, <1>2, <1>4, IdleTypes, CostRests
<1> QED
  BY <1>3, <1>4 DEF CostSaves

LEMMA SendsKeep ==
    ASSUME CostInv, NEW c \in CostRuns, CostSends(c)
    PROVE  CostInv'
BY CostSent DEF CostSends, TeeKept

LEMMA KilledKeep ==
    ASSUME CostInv, NEW c \in CostRuns, CostKilled(c)
    PROVE  CostInv'
<1>1. Cost(c, IdleCost) /\ UNCHANGED <<transcript, old, costState, cuts>>
  BY DEF CostKilled, TeeKept
<1>2. CASE cost[c].at = "send"
  <2>1. counted' = Plus(counted, cost[c].out)
    BY <1>2 DEF CostKilled
  <2> QED
    BY <1>1, <1>2, <2>1, CostSent
<1>3. CASE cost[c].at # "send"
  <2>1. counted' = counted /\ costLock' = IF costLock = c THEN NoRun ELSE costLock
    BY <1>3 DEF CostKilled
  <2>2. costLock' = costLock \/ \A e \in CostRuns : e # c => cost[e].at \in {"idle", "lock"}
    <3>1. CASE costLock = c
      <4>1. \A e \in CostRuns : cost[e].at \notin {"idle", "lock"} => costLock = e
        BY DEF CostInv, CostForm
      <4> QED
        BY <3>1, <4>1
    <3>2. CASE costLock # c
      BY <2>1, <3>2
    <3> QED
      BY <3>1, <3>2
  <2> QED
    BY <1>1, <1>3, <2>1, <2>2, IdleTypes, CostRests
<1> QED
  BY <1>2, <1>3

\* claude appends while the hook runs: what a run has read of it stands.
LEMMA CostAppends == CostInv /\ Appends => CostInv'
<1> SUFFICES ASSUME CostInv, Appends PROVE CostInv'
  OBVIOUS
<1> DEFINE t == transcript
           u == transcript'
<1>1. /\ TranscriptTypes /\ WellFormed(t) /\ cost \in [CostRuns -> Counting] /\ counted \in Counters
      /\ costState \in Costs /\ SavedAt(t, cuts, costState) /\ Fresh(t, cuts, costState.offset)
      /\ cuts \subseteq 0 .. costState.offset
      /\ \A c \in CostRuns : CostForm(c, cost[c])
      /\ (\A c \in CostRuns : cost[c].at # "send") => PaidFor(t, cuts, counted, NoMetrics, costState)
  BY DEF CostInv
<1>2. TranscriptTypes' /\ UNCHANGED <<costState, costLock, cost, counted, cuts>>
  BY <1>1, AppendedTypes
<1>3. WellFormed(u) /\ Prolongs(t, u)
  BY <1>1, WellFormedOn
<1> HIDE DEF t, u
<1>4. ASSUME NEW st \in Costs, SavedAt(t, cuts, st)
      PROVE  /\ SavedAt(u, cuts, st)
             /\ Fresh(t, cuts, st.offset) => Fresh(u, cuts, st.offset)
  <2> DEFINE p == st.offset
  <2>1. p \in Nat /\ p <= Len(t)
    BY <1>4 DEF Costs, SavedAt
  <2>2. AlikeTo(t, cuts, u, cuts, p) /\ p <= Len(u)
    <3> HIDE DEF p
    <3> QED
      BY <1>1, <1>3, <2>1, ProlongedAlike
  <2>3. SavedAt(u, cuts, st)
    BY <1>1, <1>4, <2>2, SameSaved
  <2>4. Fresh(t, cuts, p) => Fresh(u, cuts, p)
    <3> HIDE DEF p
    <3> QED
      BY <1>1, <1>3, <2>1, ProlongedFresh
  <2> QED
    BY <2>3, <2>4
<1>5. ASSUME NEW st \in Costs, SavedAt(t, cuts, st), NEW ou, PaidFor(t, cuts, counted, ou, st)
      PROVE  PaidFor(u, cuts, counted, ou, st)
  <2> DEFINE p == st.offset
  <2>1. p \in Nat /\ p <= Len(t)
    BY <1>5 DEF Costs, SavedAt
  <2>2. AlikeTo(t, cuts, u, cuts, p)
    <3> HIDE DEF p
    <3> QED
      BY <1>1, <1>3, <2>1, ProlongedAlike
  <2> QED
    BY <1>1, <1>5, <2>1, <2>2, SamePaid
<1>6. ASSUME NEW c \in CostRuns PROVE CostForm(c, cost[c])'
  <2> DEFINE f == cost[c]
  <2>1. CostForm(c, cost[c])' <=>
          /\ f.at \notin {"idle", "lock"} => costLock = c
          /\ f.at = "scan" => costState.offset <= f.r.committed.offset /\ RunnerAt(u, cuts, counted, f.r, f.n)
          /\ f.at = "save" => /\ costState.offset <= f.st.offset /\ SavedAt(u, cuts, f.st)
                              /\ f.cut \/ Fresh(u, cuts, f.st.offset)
                              /\ PaidFor(u, cuts, counted, f.out, f.st)
          /\ f.at = "send" => PaidFor(u, cuts, counted, f.out, costState)
    BY <1>2 DEF CostForm, u
  <2>2. /\ f.at \notin {"idle", "lock"} => costLock = c
        /\ f.at = "scan" => costState.offset <= f.r.committed.offset /\ RunnerAt(t, cuts, counted, f.r, f.n)
        /\ f.at = "save" => /\ costState.offset <= f.st.offset /\ SavedAt(t, cuts, f.st)
                            /\ f.cut \/ Fresh(t, cuts, f.st.offset)
                            /\ PaidFor(t, cuts, counted, f.out, f.st)
        /\ f.at = "send" => PaidFor(t, cuts, counted, f.out, costState)
    BY <1>1 DEF CostForm, t
  <2>3. f.n \in Nat /\ f.st \in Costs
    BY <1>1 DEF Counting
  <2>4. RunnerAt(t, cuts, counted, f.r, f.n) => RunnerAt(u, cuts, counted, f.r, f.n)
    BY <1>1, <1>3, <2>3, ProlongedRunner
  <2>5. SavedAt(t, cuts, f.st) => /\ SavedAt(u, cuts, f.st)
                                  /\ Fresh(t, cuts, f.st.offset) => Fresh(u, cuts, f.st.offset)
                                  /\ PaidFor(t, cuts, counted, f.out, f.st) => PaidFor(u, cuts, counted, f.out, f.st)
    BY <1>4, <1>5, <2>3
  <2>6. PaidFor(t, cuts, counted, f.out, costState) => PaidFor(u, cuts, counted, f.out, costState)
    BY <1>1, <1>5
  <2> HIDE DEF f
  <2> QED
    BY <2>1, <2>2, <2>4, <2>5, <2>6
<1>7. SavedAt(u, cuts, costState) /\ Fresh(u, cuts, costState.offset)
  BY <1>1, <1>4
<1>8. PaidFor(t, cuts, counted, NoMetrics, costState) => PaidFor(u, cuts, counted, NoMetrics, costState)
  BY <1>1, <1>5
<1> QED
  BY <1>1, <1>2, <1>3, <1>6, <1>7, <1>8 DEF CostInv, u

LEMMA CostUntouched ==
    ASSUME CostInv, UNCHANGED <<transcript, old, costState, costLock, cost, counted, cuts>>
    PROVE  CostInv'
<1>1. /\ CostInv /\ transcript' = transcript /\ old' = old /\ costState' = costState /\ costLock' = costLock
      /\ cost' = cost /\ counted' = counted /\ cuts' = cuts
  OBVIOUS
<1>2. \A c \in CostRuns : CostForm(c, cost[c])' <=> CostForm(c, cost[c])
  BY <1>1 DEF CostForm
<1> QED
  BY <1>1, <1>2 DEF CostInv, TranscriptTypes

LEMMA MetricsKept == CostInv /\ CostNext => CostInv'
<1> SUFFICES ASSUME CostInv, CostNext PROVE CostInv'
  OBVIOUS
<1>1. CASE Appends
  BY <1>1, CostAppends
<1>2. ASSUME NEW c \in CostRuns,
             \/ CostStarts(c) \/ CostLocks(c) \/ CostReads(c) \/ CostScans(c) \/ CostSaves(c) \/ CostSends(c) \/ CostKilled(c)
      PROVE  CostInv'
  BY <1>2, StartsKeep, LocksKeep, ReadsKeep, ScansKeep, SavesKeep, SendsKeep, KilledKeep
<1> QED
  BY <1>1, <1>2 DEF CostNext

\* The hook that posts leaves the other's state and metrics alone.
LEMMA MetricsStay == CostInv /\ TeeNext => CostInv'
<1> SUFFICES ASSUME CostInv, TeeNext PROVE CostInv'
  OBVIOUS
<1>1. CASE Appends
  BY <1>1, CostAppends
<1>2. ASSUME NEW e \in TeeRuns, TeeLoads(e) \/ TeeReads(e) \/ TeePosts(e) \/ TeeSaves(e) \/ TeeKilled(e)
      PROVE  CostInv'
  <2>1. UNCHANGED <<transcript, old, costState, costLock, cost, counted, cuts>>
    BY <1>2 DEF TeeLoads, TeeReads, TeePosts, TeeSaves, TeeKilled, CostKept
  <2> QED
    BY <2>1, CostUntouched
<1> QED
  BY <1>1, <1>2 DEF TeeNext

LEMMA CostPart == CostInv => CountedOnce
<1> SUFFICES ASSUME CostInv PROVE CountedOnce
  OBVIOUS
<1>1. /\ cost \in [CostRuns -> Counting] /\ counted \in Counters /\ costState \in Costs
      /\ \A c \in CostRuns : CostForm(c, cost[c])
      /\ (\A c \in CostRuns : cost[c].at # "send") => PaidFor(transcript, cuts, counted, NoMetrics, costState)
  BY DEF CostInv
<1>2. \A a, b \in Sending : a = b
  BY <1>1 DEF CostForm, Sending
<1>3. costState.offset \in Nat
  BY <1>1 DEF Costs
<1>4. \E ou \in Counters : PaidFor(transcript, cuts, counted, ou, costState) /\ Emitted = Plus(counted, ou)
  <2>1. CASE Sending = {}
    <3>1. PaidFor(transcript, cuts, counted, NoMetrics, costState)
      BY <1>1, <2>1 DEF Sending
    <3>2. NoMetrics \in Counters /\ \A m \in Metrics : NoMetrics[m] = 0
      BY ZeroTypes
    <3>3. \A m \in Metrics : counted[m] + NoMetrics[m] = counted[m]
      BY <1>1, <3>2 DEF Counters
    <3>4. Plus(counted, NoMetrics) = [m \in Metrics |-> counted[m]]
      BY <3>3 DEF Plus
    <3>5. Emitted = counted /\ counted = [m \in Metrics |-> counted[m]]
      BY <1>1, <2>1 DEF Emitted, Counters
    <3> QED
      BY <3>1, <3>2, <3>4, <3>5
  <2>2. CASE Sending # {}
    <3> DEFINE c == CHOOSE c \in Sending : TRUE
    <3>1. c \in Sending
      BY <2>2
    <3>2. Emitted = Plus(counted, cost[c].out)
      BY <2>2 DEF Emitted
    <3> HIDE DEF c
    <3>3. c \in CostRuns /\ cost[c].at = "send"
      BY <3>1 DEF Sending
    <3>4. PaidFor(transcript, cuts, counted, cost[c].out, costState)
      BY <1>1, <3>3 DEF CostForm
    <3>5. cost[c].out \in Counters
      BY <1>1, <3>3 DEF Counting
    <3> QED
      BY <3>2, <3>4, <3>5
  <2> QED
    BY <2>1, <2>2
<1>5. PICK ou \in Counters : PaidFor(transcript, cuts, counted, ou, costState) /\ Emitted = Plus(counted, ou)
  BY <1>4
<1>6. \A m \in Metrics : Emitted[m] = counted[m] + ou[m]
  BY <1>5 DEF Plus
<1>7. Emitted[Floor] <= 1
  BY <1>5, <1>6, FloorIn DEF PaidFor
<1>8. \A m \in Metrics \ {Floor} : Emitted[m] = Worth(costState.offset)[m]
  BY <1>3, <1>5, <1>6, WorthIs DEF PaidFor
<1>9. Worth(costState.offset)[Floor] = 0
  <2>1. Floor \in Metrics /\ Floor[2] = "floor"
    BY FloorIn DEF Floor
  <2> QED
    BY <2>1 DEF Worth
<1> DEFINE W == Worth(costState.offset)
           E == [Emitted EXCEPT ![Floor] = 0]
<1>10. W = [m \in Metrics |-> W[m]]
  BY DEF Worth
<1>11. E = [m \in Metrics |-> IF m = Floor THEN 0 ELSE Emitted[m]]
  <2>1. DOMAIN Emitted = Metrics
    BY <1>5 DEF Plus
  <2> QED
    BY <2>1
<1> HIDE DEF W, E
<1>12. \A m \in Metrics : W[m] = IF m = Floor THEN 0 ELSE Emitted[m]
  BY <1>8, <1>9 DEF W
<1>13. E = W
  BY <1>10, <1>11, <1>12
<1> QED
  BY <1>2, <1>7, <1>13 DEF CountedOnce, E, W

\* The two hooks read a session's transcript once, and the third settles each of its prompts once, however
\* their runs overlap and are killed: the state a run saves is what has been sent or is about to be, the metrics
\* are exactly what its records are worth, and no reply is posted twice in turn (toolcost.Run, saveCursor,
\* the prompt counter).
THEOREM TranscriptsAreReadOnce == ScopeSpec => []HooksCountOnce
<1>1. ScopeInit => CostInv
  BY CostBegins DEF ScopeInit
<1>2. CostInv /\ [ScopeNext]_scopeVars => CostInv'
  <2>1. CostInv /\ UNCHANGED hookVars => CostInv'
    BY CostUntouched DEF hookVars
  <2> QED
    BY <2>1, MetricsKept, MetricsStay DEF ScopeNext, scopeVars
<1>3. ScopeSpec => []CountedOnce
  BY <1>1, <1>2, CostPart, PTL DEF ScopeSpec
<1>4. CountedOnce /\ TeedOnce /\ PromptsSettled => HooksCountOnce
  BY DEF HooksCountOnce, TranscriptReadOnce
<1> QED
  BY <1>3, <1>4, RepliesArePosted, PromptsAreCounted, PTL
=============================================================================

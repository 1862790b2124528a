--------------------------- MODULE RestartProofs ----------------------------
(***************************************************************************)
(* What is proved of Restart for every set of requests, every bound on the *)
(* attempts and on the turns: its type invariant and its safety            *)
(* properties.  The inductive invariant says who holds idleRunner.mu and   *)
(* what it has at hand (Holder, Final), what the queue knows of a request  *)
(* that is still on its way in (Unseen), what has been asked (Asked), how  *)
(* the queue's counters and the countdowns shown agree (Counted), and      *)
(* where a granted restart is (Fated).                                     *)
(***************************************************************************)
EXTENDS Restart, TLAPS

\* The positions of a request before put; inside mu, with an attempt at hand
\* (Hand), past its first checks (Late).
Unqueued == {"new", "put", "cas", "armed"}
Late     == {"countdown", "recheck", "store", "stop"}
Hand     == {"ask", "admit"} \cup Late
Under    == {"take", "retry"} \cup Hand

\* One thread is inside mu, an attempt is at hand in the stages of one, and a
\* retry is marked as such only until startAttempt.
Holder ==
    /\ \A t \in Threads : pc[t] \in Under <=> mu = t
    /\ attempt # None <=> mu # None /\ pc[mu] \in Hand
    /\ resuming # None => mu # None /\ pc[mu] = "admit" /\ resuming = attempt

\* mu is never taken under a stored plan: its holder is the one that stops.
Final ==
    /\ plan # None /\ mu # None => pc[mu] = "stop"
    /\ mu # None /\ pc[mu] = "stop" => plan = attempt.req

\* A request that is not queued yet is neither known nor at hand.
Unseen ==
    \A r \in Requests : pc[r] \in Unqueued =>
        /\ newest # r /\ verdict[r] = "unasked"
        /\ attempt # None => attempt.req # r

\* What is queued has not been asked about; what is past the preflight was
\* granted.
Asked ==
    /\ pending # None =>
        /\ pending = newest /\ verdict[pending] = "unasked"
        /\ attempt # None => attempt.req # pending
    /\ attempt # None =>
        verdict[attempt.req] = IF pc[mu] = "ask" THEN "unasked" ELSE "restart"
    /\ deferred # None => verdict[deferred.req] = "restart"
    /\ plan # None => verdict[plan] = "restart"
    /\ \A r \in refused \cup dropped : verdict[r] = "restart"

\* An attempt's count is the number of countdowns its request got.
Counted ==
    /\ \A r \in Requests : verdict[r] = "unasked" => shown[r] = 0
    /\ deferred # None => shown[deferred.req] = deferred.count /\ deferred.count < MaxAttempts
    /\ attempt # None =>
        /\ shown[attempt.req] = attempt.count
        /\ pc[mu] \notin Late => attempt.count < MaxAttempts
        /\ pc[mu] \notin Late /\ resuming = None => attempt.count = 0

\* A restart is in one place only, and the newest granted one is in one; what
\* is deferred while another is at hand has been replaced as the newest.
Fated ==
    /\ \A r \in Requests : verdict[r] = "restart" /\ newest = r =>
        \/ attempt # None /\ attempt.req = r
        \/ deferred # None /\ deferred.req = r
        \/ plan = r \/ r \in refused \/ r \in dropped
    /\ refused \cap dropped = {}
    /\ plan \notin refused \cup dropped
    /\ attempt # None => attempt.req \notin refused \cup dropped
    /\ deferred # None =>
        /\ deferred.req \notin refused \cup dropped \cup {plan}
        /\ attempt # None => deferred.req # attempt.req /\ deferred.req # newest

Safe == Holder /\ Final /\ Unseen /\ Asked /\ Counted /\ Fated /\ BoundedRetries
Inv  == TypeOK /\ Safe

\* What the invariant speaks of, the positions aside.
core == <<queue, mu, attempt, plan, verdict, refused, dropped, shown>>

-----------------------------------------------------------------------------
USE DEF Threads, Attempt

\* The initial state satisfies every part of the invariant.
LEMMA InitInv == Init => Inv
<1> SUFFICES ASSUME Init PROVE Inv
  OBVIOUS
<1>1. TypeOK
  <2>1. pc \in [Threads -> Stages] /\ mail \in Seq({"start", "stop"})
    BY DEF Init, Stages
  <2>2. turns \in 0..MaxTurns /\ shown \in [Requests -> Nat]
    BY BoundAssumption DEF Init
  <2>3. verdict \in [Requests -> {"unasked", "restart", "no"}]
    BY DEF Init
  <2> QED
    BY <2>1, <2>2, <2>3 DEF Init, TypeOK
<1>2. Holder
  <2>1. \A t \in Threads : pc[t] \notin Under /\ mu # t
    BY RequestAssumption DEF Init, Under, Hand, Late
  <2> QED
    BY <2>1 DEF Init, Holder
<1>3. Final /\ Unseen
  BY RequestAssumption DEF Init, Final, Unseen
<1>4. Asked /\ Counted /\ Fated /\ BoundedRetries
  BY BoundAssumption, RequestAssumption, NoneAssumption DEF Init, Asked, Counted, Fated, BoundedRetries
<1> QED
  BY <1>1, <1>2, <1>3, <1>4 DEF Inv, Safe

-----------------------------------------------------------------------------
\* A step that concerns no restart (a turn, a datagram, an exit) preserves it.
LEMMA Still ==
    ASSUME Safe, UNCHANGED <<core, pc>> PROVE Safe'
<1>1. Holder' /\ Final' /\ Unseen'
  BY DEF Safe, Holder, Final, Unseen, core, queue
<1>2. Asked' /\ Counted' /\ Fated' /\ BoundedRetries'
  BY DEF Safe, Asked, Counted, Fated, BoundedRetries, core, queue
<1> QED
  BY <1>1, <1>2 DEF Safe

\* A thread that moves outside mu, and not back before put, preserves it.
LEMMA Move ==
    ASSUME TypeOK, Safe, NEW t \in Threads, NEW s, Go(t, s), UNCHANGED core,
           pc[t] \notin Under, s \notin Under, s \in Unqueued => pc[t] \in Unqueued
    PROVE  Safe'
<1>1. \A u \in Threads : pc'[u] = IF u = t THEN s ELSE pc[u]
  BY DEF Go, TypeOK
<1>2. mu \in Threads \cup {None} /\ mu # t
  BY DEF TypeOK, Safe, Holder
<1>3. mu # None => pc'[mu] = pc[mu]
  BY <1>1, <1>2
<1>4. Holder'
  BY <1>1, <1>2, <1>3 DEF Safe, Holder, core, queue, Under
<1>5. Final' /\ Unseen'
  BY <1>1, <1>2, <1>3 DEF Safe, Final, Unseen, core, queue
<1>6. Asked' /\ Counted'
  BY <1>3 DEF Safe, Holder, Asked, Counted, core, queue
<1>7. Fated' /\ BoundedRetries'
  BY DEF Safe, Fated, BoundedRetries, core, queue
<1> QED
  BY <1>4, <1>5, <1>6, <1>7 DEF Safe

\* A thread inside mu holds it, and has an attempt at hand in the stages of one.
LEMMA Inside ==
    ASSUME TypeOK, Safe, NEW t \in Threads, pc[t] \in Under
    PROVE  /\ mu = t /\ mu # None
           /\ \A u \in Threads : u # t => pc[u] \notin Under
           /\ attempt # None <=> pc[t] \in Hand
           /\ pc[t] \in Hand => attempt \in Attempt
           /\ pc[t] # "admit" => resuming = None
BY RequestAssumption DEF Safe, Holder, TypeOK

\* Leaving mu puts the attempt down.
LEMMA Leaving ==
    ASSUME TypeOK, Safe, NEW t \in Threads, pc[t] \in Under, Release(t), resuming' = None,
           newest' = newest, \A r \in Requests : verdict[r] = "unasked" /\ ~(attempt # None /\ attempt.req = r) => verdict'[r] = "unasked"
    PROVE  Holder' /\ Final' /\ Unseen' /\ mu' = None /\ attempt' = None
<1>1. mu' = None /\ attempt' = None
  BY DEF Release
<1>2. \A u \in Threads : pc'[u] = IF u = t THEN (IF t = Poke THEN "idle" ELSE "done") ELSE pc[u]
  BY DEF Release, End, Go, TypeOK
<1>3. \A u \in Threads : pc'[u] \notin Under
  BY <1>2, Inside DEF Under, Hand, Late
<1>4. Holder' /\ Final'
  BY <1>1, <1>3, RequestAssumption DEF Holder, Final
<1>5. Unseen'
  BY <1>1, <1>2, Inside DEF Safe, Unseen, Unqueued
<1> QED
  BY <1>1, <1>4, <1>5

\* A request is queued: it replaces what was pending and deferred.
LEMMA Putting ==
    ASSUME TypeOK, Safe, NEW r \in Requests, pc[r] \in Unqueued, put(r), NEW s, s \notin Under, s \notin Unqueued,
           Go(r, s), UNCHANGED <<mu, attempt, plan, verdict, refused, dropped, shown>>
    PROVE  Safe'
<1>1. \A u \in Threads : pc'[u] = IF u = r THEN s ELSE pc[u]
  BY DEF Go, TypeOK
<1>2. mu \in Threads \cup {None} /\ mu # r
  BY DEF TypeOK, Safe, Holder, Unqueued, Under, Hand, Late
<1>3. mu # None => pc'[mu] = pc[mu]
  BY <1>1, <1>2
<1>4. verdict[r] = "unasked" /\ (attempt # None => attempt.req # r)
  BY DEF Safe, Unseen
<1>5. Holder'
  BY <1>1, <1>2, <1>3 DEF Safe, Holder, put, Unqueued, Under, Hand, Late
<1>6. Final' /\ Unseen'
  BY <1>1, <1>2, <1>3 DEF Safe, Final, Unseen, put
<1>7. Asked' /\ Counted'
  BY <1>3, <1>4 DEF Safe, Holder, Asked, Counted, put
<1>8. Fated' /\ BoundedRetries'
  BY <1>4 DEF Safe, Fated, BoundedRetries, put
<1> QED
  BY <1>5, <1>6, <1>7, <1>8 DEF Safe

\* A thread takes mu, which it may only while no restart is underway.
LEMMA Entering ==
    ASSUME TypeOK, Safe, NEW t \in Threads, pc[t] \notin Under, mu = None, plan = None, mu' = t, Go(t, "take"),
           UNCHANGED <<queue, attempt, plan, verdict, refused, dropped, shown>>
    PROVE  Safe'
<1>1. \A u \in Threads : pc'[u] = IF u = t THEN "take" ELSE pc[u]
  BY DEF Go, TypeOK
<1>2. t # None /\ \A u \in Threads : pc[u] \notin Under
  BY RequestAssumption DEF Safe, Holder
<1>3. attempt = None /\ resuming = None
  BY DEF Safe, Holder
<1>4. Holder'
  BY <1>1, <1>2, <1>3 DEF Holder, queue, Under, Hand, Late
<1>5. Final' /\ Unseen'
  BY <1>1, <1>2, <1>3 DEF Safe, Final, Unseen, queue, Unqueued
<1>6. Asked' /\ Counted'
  BY <1>3 DEF Safe, Asked, Counted, queue
<1>7. Fated' /\ BoundedRetries'
  BY DEF Safe, Fated, BoundedRetries, queue
<1> QED
  BY <1>4, <1>5, <1>6, <1>7 DEF Safe

-----------------------------------------------------------------------------
\* An attempt put down: on the status file, with the provider gone, or put
\* off to the next idle transition.

\* An attempt that ends on the status file preserves the invariant.
LEMMA CancelledSafe ==
    ASSUME TypeOK, Safe, NEW t \in Threads, pc[t] \in {"admit", "countdown", "recheck"}, Cancelled(t), resuming' = None,
           UNCHANGED <<pending, deferred, newest, plan, verdict, dropped, shown>>
    PROVE  Safe'
<1> USE DEF Under, Hand, Late
<1>1. mu = t /\ attempt # None /\ attempt \in Attempt /\ mu # None
  BY Inside
<1>2. Holder' /\ Final' /\ Unseen' /\ attempt' = None
  BY Leaving DEF Cancelled
<1>3. plan = None /\ verdict[attempt.req] = "restart" /\ attempt.req # None
  BY <1>1, RequestAssumption DEF Safe, Final, Asked
<1>4. refused' = refused \cup {attempt.req}
  BY DEF Cancelled
<1>5. Asked' /\ Counted'
  BY <1>2, <1>3, <1>4 DEF Safe, Asked, Counted
<1>6. Fated' /\ BoundedRetries'
  BY <1>1, <1>2, <1>3, <1>4 DEF Safe, Fated, BoundedRetries
<1> QED
  BY <1>2, <1>5, <1>6 DEF Safe

\* An attempt that finds no provider preserves the invariant.
LEMMA NoProviderSafe ==
    ASSUME TypeOK, Safe, NEW t \in Threads, pc[t] \in {"admit", "store"}, NoProvider(t), resuming' = None,
           UNCHANGED <<pending, deferred, newest, plan, verdict, refused, shown>>
    PROVE  Safe'
<1> USE DEF Under, Hand, Late
<1>1. mu = t /\ attempt # None /\ attempt \in Attempt /\ mu # None
  BY Inside
<1>2. Holder' /\ Final' /\ Unseen' /\ attempt' = None
  BY Leaving DEF NoProvider
<1>3. plan = None /\ verdict[attempt.req] = "restart" /\ attempt.req # None
  BY <1>1, RequestAssumption DEF Safe, Final, Asked
<1>4. dropped' = dropped \cup {attempt.req}
  BY DEF NoProvider
<1>5. Asked' /\ Counted'
  BY <1>2, <1>3, <1>4 DEF Safe, Asked, Counted
<1>6. Fated' /\ BoundedRetries'
  BY <1>1, <1>2, <1>3, <1>4 DEF Safe, Fated, BoundedRetries
<1> QED
  BY <1>2, <1>5, <1>6 DEF Safe

\* A turn start, which puts an attempt off or ends it, preserves it.
LEMMA TurnCancelledSafe ==
    ASSUME TypeOK, Safe, NEW t \in Threads, pc[t] \in {"countdown", "recheck"}, TurnCancelled(t), UNCHANGED resuming,
           UNCHANGED <<pending, newest, plan, verdict, dropped, shown>>
    PROVE  Safe'
<1> USE DEF Under, Hand, Late
<1>1. mu = t /\ attempt # None /\ attempt \in Attempt /\ mu # None /\ resuming' = None
  BY Inside
<1>2. CASE ~MayDefer
  BY <1>1, <1>2, CancelledSafe DEF TurnCancelled
<1>3. CASE MayDefer
  <2>1. deferred' = attempt /\ refused' = refused /\ Release(t)
    BY <1>3 DEF TurnCancelled
  <2>2. Holder' /\ Final' /\ Unseen' /\ attempt' = None
    BY <1>1, <2>1, Leaving
  <2>3. plan = None /\ verdict[attempt.req] = "restart" /\ attempt.req # None
    BY <1>1, RequestAssumption DEF Safe, Final, Asked
  <2>4. Asked'
    BY <1>1, <2>1, <2>2, <2>3 DEF Safe, Asked
  <2>5. Counted'
    BY <1>1, <1>3, <2>1, <2>2 DEF Safe, Counted, MayDefer
  <2>6. Fated' /\ BoundedRetries'
    BY <1>1, <2>1, <2>2, <2>3 DEF Safe, Fated, BoundedRetries
  <2> QED
    BY <2>2, <2>4, <2>5, <2>6 DEF Safe
<1> QED
  BY <1>2, <1>3

-----------------------------------------------------------------------------
\* The stages inside mu.

\* take preserves the invariant: what it takes is the newest, never asked.
LEMMA TakeSafe ==
    ASSUME TypeOK, Safe, NEW t \in Threads, Take(t) PROVE Safe'
<1> USE DEF Under, Hand, Late
<1>1. mu = t /\ attempt = None /\ mu # None /\ resuming = None /\ mu' = t
  BY Inside DEF Take, At, runner
<1>2. \A u \in Threads : u # t => pc[u] \notin Under
  BY Inside DEF Take, At
<1>3. plan = None /\ UNCHANGED <<plan, verdict, refused, dropped, shown, deferred, resuming, newest>>
  BY <1>1 DEF Take, At, Safe, Final, life, fates, queue
<1>4. CASE pending = None
  <2>1. \A u \in Threads : pc'[u] = IF u = t THEN "retry" ELSE pc[u]
    BY <1>4 DEF Take, Go, TypeOK
  <2>2. UNCHANGED <<pending, attempt>>
    BY <1>4 DEF Take, queue
  <2>3. Holder' /\ Final' /\ Unseen'
    BY <1>1, <1>2, <1>3, <2>1, <2>2 DEF Safe, Holder, Final, Unseen, Unqueued, Take, At
  <2>4. Asked' /\ Counted' /\ Fated' /\ BoundedRetries'
    BY <1>1, <1>3, <2>2 DEF Safe, Asked, Counted, Fated, BoundedRetries
  <2> QED
    BY <2>3, <2>4 DEF Safe
<1>5. CASE pending # None
  <2>1. \A u \in Threads : pc'[u] = IF u = t THEN "ask" ELSE pc[u]
    BY <1>5 DEF Take, Go, TypeOK
  <2>2. attempt' = [req |-> pending, count |-> 0, now |-> FALSE] /\ pending' = None
    BY <1>5 DEF Take, Taken
  <2>4. verdict[pending] = "unasked" /\ pending = newest /\ pending \in Requests
    BY <1>5 DEF Safe, Asked, TypeOK
  <2>9. attempt' \in Attempt
    BY <2>2, <2>4, BoundAssumption
  <2>3. attempt'.req = pending /\ attempt'.count = 0 /\ attempt' # None
    BY <2>2, <2>9, NoneAssumption
  <2>5. Holder' /\ Final' /\ Unseen'
    BY <1>1, <1>2, <1>3, <2>1, <2>3, <2>4 DEF Safe, Holder, Final, Unseen, Unqueued, Take, At
  <2>6. Asked'
    BY <1>1, <1>3, <2>1, <2>2, <2>3, <2>4 DEF Safe, Asked
  <2>7. Counted' /\ BoundedRetries'
    BY <1>1, <1>3, <2>1, <2>3, <2>4, BoundAssumption DEF Safe, Counted, BoundedRetries
  <2>8. Fated'
    BY <1>1, <1>3, <2>3, <2>4 DEF Safe, Fated, Asked
  <2> QED
    BY <2>5, <2>6, <2>7, <2>8 DEF Safe
<1> QED
  BY <1>4, <1>5

\* takeDeferred preserves the invariant: its retry keeps verdict and count.
LEMMA RetrySafe ==
    ASSUME TypeOK, Safe, NEW t \in Threads, Retry(t) PROVE Safe'
<1> USE DEF Under, Hand, Late
<1>1. mu = t /\ attempt = None /\ mu # None /\ resuming = None
  BY Inside DEF Retry, At
<1>2. \A u \in Threads : u # t => pc[u] \notin Under
  BY Inside DEF Retry, At
<1>3. plan = None /\ UNCHANGED <<plan, verdict, refused, dropped, shown, pending, newest>>
  BY <1>1 DEF Retry, At, Safe, Final, life, fates, queue
<1>4. CASE deferred = None
  <2>1. Release(t) /\ UNCHANGED queue
    BY <1>4 DEF Retry
  <2>2. Holder' /\ Final' /\ Unseen' /\ attempt' = None
    BY <1>1, <1>3, <2>1, Leaving DEF queue, Retry, At
  <2>3. Asked' /\ Counted' /\ Fated' /\ BoundedRetries'
    BY <1>1, <1>3, <2>1, <2>2 DEF Safe, Asked, Counted, Fated, BoundedRetries, queue
  <2> QED
    BY <2>2, <2>3 DEF Safe
<1>5. CASE deferred # None
  <2>1. \A u \in Threads : pc'[u] = IF u = t THEN "admit" ELSE pc[u]
    BY <1>5 DEF Retry, Go, TypeOK
  <2>2. attempt' = deferred /\ resuming' = deferred /\ deferred' = None /\ mu' = t
    BY <1>1, <1>5 DEF Retry
  <2>3. verdict[deferred.req] = "restart" /\ deferred.req \in Requests
    BY <1>5 DEF Safe, Asked, TypeOK
  <2>4. Holder' /\ Final'
    BY <1>1, <1>2, <1>3, <1>5, <2>1, <2>2 DEF Holder, Final
  <2>5. Unseen'
    BY <1>3, <2>1, <2>2, <2>3 DEF Safe, Unseen, Unqueued
  <2>6. Asked'
    BY <1>1, <1>3, <2>1, <2>2, <2>3 DEF Safe, Asked
  <2>7. Counted' /\ BoundedRetries'
    BY <1>1, <1>3, <1>5, <2>1, <2>2 DEF Safe, Counted, BoundedRetries
  <2>8. Fated'
    BY <1>1, <1>3, <1>5, <2>2 DEF Safe, Fated
  <2> QED
    BY <2>4, <2>5, <2>6, <2>7, <2>8 DEF Safe
<1> QED
  BY <1>4, <1>5

\* spinclass's answer preserves the invariant.
LEMMA PreflightSafe ==
    ASSUME TypeOK, Safe, NEW t \in Threads, Preflight(t) PROVE Safe'
<1> USE DEF Under, Hand, Late
<1>1. /\ mu = t /\ attempt # None /\ attempt \in Attempt /\ mu # None /\ resuming = None
      /\ \A u \in Threads : u # t => pc[u] \notin Under
  BY Inside DEF Preflight, At
<1>2. UNCHANGED <<plan, refused, dropped, shown, pending, deferred, resuming, newest>>
  BY DEF Preflight, life, queue
<1>3. attempt.req \in Requests /\ verdict[attempt.req] = "unasked" /\ attempt.count = 0 /\ plan = None
  BY <1>1 DEF Preflight, At, Safe, Asked, Counted, Final
<1>4. CASE verdict' = [verdict EXCEPT ![attempt.req] = "no"] /\ Release(t)
  <2>1. \A r \in Requests : verdict'[r] = IF r = attempt.req THEN "no" ELSE verdict[r]
    BY <1>3, <1>4 DEF TypeOK
  <2>2. Holder' /\ Final' /\ Unseen' /\ attempt' = None
    BY <1>1, <1>2, <1>4, <2>1, Leaving DEF Preflight, At
  <2>3. Asked'
    BY <1>1, <1>2, <1>3, <2>1, <2>2 DEF Safe, Asked, TypeOK
  <2>4. Counted' /\ BoundedRetries'
    BY <1>2, <2>1, <2>2 DEF Safe, Counted, BoundedRetries
  <2>5. Fated'
    BY <1>2, <1>3, <2>1, <2>2 DEF Safe, Fated
  <2> QED
    BY <2>2, <2>3, <2>4, <2>5 DEF Safe
<1>5. CASE /\ verdict' = [verdict EXCEPT ![attempt.req] = "restart"]
           /\ \E now \in BOOLEAN : attempt' = [attempt EXCEPT !.now = now]
           /\ Go(t, "admit") /\ UNCHANGED mu
  <2>1. \A r \in Requests : verdict'[r] = IF r = attempt.req THEN "restart" ELSE verdict[r]
    BY <1>3, <1>5 DEF TypeOK
  <2>2. attempt' \in Attempt /\ attempt'.req = attempt.req /\ attempt'.count = attempt.count
    BY <1>1, <1>5
  <2>3. attempt' # None /\ \A u \in Threads : pc'[u] = IF u = t THEN "admit" ELSE pc[u]
    BY <1>5, <2>2, NoneAssumption DEF Go, TypeOK
  <2>4. Holder' /\ Final'
    BY <1>1, <1>2, <1>3, <1>5, <2>3 DEF Safe, Holder, Final
  <2>5. Unseen'
    BY <1>1, <1>2, <2>1, <2>2, <2>3 DEF Safe, Unseen, Unqueued
  <2>6. Asked'
    BY <1>1, <1>2, <1>3, <1>5, <2>1, <2>2, <2>3 DEF Safe, Asked, TypeOK
  <2>7. Counted' /\ BoundedRetries'
    BY <1>1, <1>2, <1>3, <1>5, <2>1, <2>2, <2>3, BoundAssumption DEF Safe, Counted, BoundedRetries
  <2>8. Fated'
    BY <1>1, <1>2, <2>1, <2>2, <2>3 DEF Safe, Fated
  <2> QED
    BY <2>4, <2>5, <2>6, <2>7, <2>8 DEF Safe
<1> QED
  BY <1>4, <1>5 DEF Preflight

\* startAttempt counts one more than the countdowns shown, and at most
\* MaxAttempts, for a retry and for a first attempt alike.
LEMMA Starting ==
    ASSUME TypeOK, Safe, NEW t \in Threads, pc[t] = "admit"
    PROVE  /\ startAttempt \in Attempt /\ startAttempt.req = attempt.req /\ startAttempt # None
           /\ startAttempt.count = shown[attempt.req] + 1
<1> USE DEF Under, Hand, Late
<1>1. mu = t /\ attempt # None /\ attempt \in Attempt /\ mu # None
  BY Inside
<1>2. /\ shown[attempt.req] = attempt.count /\ attempt.count < MaxAttempts
      /\ resuming = None => attempt.count = 0
      /\ resuming # None => resuming = attempt
  BY <1>1 DEF Safe, Counted, Holder
<1>3. attempt.count \in Nat /\ attempt.count + 1 \in 0..MaxAttempts
  BY <1>1, <1>2, BoundAssumption
<1>4. startAttempt = [attempt EXCEPT !.count = attempt.count + 1]
  BY <1>1, <1>2, BoundAssumption DEF startAttempt
<1>5. startAttempt \in Attempt /\ startAttempt.req = attempt.req /\ startAttempt.count = attempt.count + 1
  BY <1>1, <1>3, <1>4
<1> QED
  BY <1>2, <1>5, NoneAssumption

\* The attempt's first checks preserve the invariant.
LEMMA AdmitSafe ==
    ASSUME TypeOK, Safe, NEW t \in Threads, Admit(t) PROVE Safe'
<1> USE DEF Under, Hand, Late
<1>1. /\ mu = t /\ attempt # None /\ attempt \in Attempt /\ mu # None /\ pc[t] = "admit"
      /\ \A u \in Threads : u # t => pc[u] \notin Under
  BY Inside DEF Admit, At
<1>2. resuming' = None /\ UNCHANGED <<plan, verdict, pending, deferred, newest>>
  BY DEF Admit, life
<1>3. CASE NoProvider(t) /\ UNCHANGED <<refused, shown>>
  BY <1>1, <1>2, <1>3, NoProviderSafe
<1>4. CASE Cancelled(t) /\ UNCHANGED <<dropped, shown>>
  BY <1>1, <1>2, <1>4, CancelledSafe
<1>5. CASE /\ attempt' = startAttempt /\ shown' = [shown EXCEPT ![attempt.req] = @ + 1]
           /\ Go(t, "countdown") /\ UNCHANGED <<dropped, refused, mu>>
  <2>1. /\ attempt' \in Attempt /\ attempt'.req = attempt.req /\ attempt' # None
        /\ attempt'.count = shown[attempt.req] + 1
    BY <1>1, <1>5, Starting
  <2>2. \A u \in Threads : pc'[u] = IF u = t THEN "countdown" ELSE pc[u]
    BY <1>5 DEF Go, TypeOK
  <2>3. \A r \in Requests : shown'[r] = IF r = attempt.req THEN shown[r] + 1 ELSE shown[r]
    BY <1>5 DEF TypeOK
  <2>4. plan = None /\ attempt.req \in Requests /\ verdict[attempt.req] = "restart"
    BY <1>1 DEF Safe, Final, Asked
  <2>5. Holder' /\ Final'
    BY <1>1, <1>2, <1>5, <2>1, <2>2, <2>4 DEF Safe, Holder, Final
  <2>6. Unseen'
    BY <1>1, <1>2, <2>1, <2>2 DEF Safe, Unseen, Unqueued
  <2>7. Asked'
    BY <1>1, <1>2, <1>5, <2>1, <2>2, <2>4 DEF Safe, Asked
  <2>8. BoundedRetries'
    BY <2>1, <2>3 DEF Safe, BoundedRetries
  <2>9. Counted'
    BY <1>1, <1>2, <1>5, <2>1, <2>2, <2>3, <2>4 DEF Safe, Counted, Fated, TypeOK
  <2>10. Fated'
    BY <1>1, <1>2, <1>5, <2>1, <2>2 DEF Safe, Fated
  <2> QED
    BY <2>5, <2>6, <2>7, <2>8, <2>9, <2>10 DEF Safe
<1> QED
  BY <1>3, <1>4, <1>5 DEF Admit

\* Going from one late stage to the next, and storing the plan on the way to
\* the stop, preserves the invariant.
LEMMA Advancing ==
    ASSUME TypeOK, Safe, NEW t \in Threads, pc[t] \in {"countdown", "recheck", "store"},
           NEW s \in {"recheck", "store", "stop"}, Go(t, s),
           plan' = IF s = "stop" THEN attempt.req ELSE plan,
           UNCHANGED <<queue, mu, attempt, verdict, refused, dropped, shown>>
    PROVE  Safe'
<1> USE DEF Under, Hand, Late
<1>1. /\ mu = t /\ attempt # None /\ attempt \in Attempt /\ mu # None /\ resuming = None
      /\ \A u \in Threads : u # t => pc[u] \notin Under
  BY Inside
<1>2. \A u \in Threads : pc'[u] = IF u = t THEN s ELSE pc[u]
  BY DEF Go, TypeOK
<1>3. plan = None /\ attempt.req \in Requests /\ verdict[attempt.req] = "restart"
  BY <1>1 DEF Safe, Final, Asked
<1>4. Holder'
  BY <1>1, <1>2 DEF Safe, Holder, queue
<1>5. Final' /\ Unseen'
  BY <1>1, <1>2, <1>3 DEF Safe, Final, Unseen, Unqueued, queue
<1>6. Asked'
  BY <1>1, <1>2, <1>3 DEF Safe, Asked, queue
<1>7. Counted' /\ BoundedRetries'
  BY <1>1, <1>2 DEF Safe, Counted, BoundedRetries, queue
<1>8. Fated'
  BY <1>1, <1>3, RequestAssumption DEF Safe, Fated, queue
<1> QED
  BY <1>4, <1>5, <1>6, <1>7, <1>8 DEF Safe

\* The countdown and the checks after it preserve the invariant.
LEMMA LateSafe ==
    ASSUME TypeOK, Safe, NEW t \in Threads, Countdown(t) \/ Recheck(t) PROVE Safe'
<1> USE DEF Under, Hand, Late
<1>1. pc[t] \in {"countdown", "recheck"} /\ resuming = None
  BY Inside DEF Countdown, Recheck, At
<1>2. UNCHANGED <<pending, resuming, newest, verdict, plan, dropped, shown>>
  BY DEF Countdown, Recheck, life
<1>3. \/ \E s \in {"recheck", "store"} : Go(t, s) /\ UNCHANGED <<deferred, refused, attempt, mu>>
      \/ Cancelled(t) /\ UNCHANGED deferred
      \/ TurnCancelled(t)
  BY DEF Countdown, Recheck
<1> QED
  BY <1>1, <1>2, <1>3, Advancing, CancelledSafe, TurnCancelledSafe DEF queue

\* storePlanIfRunning preserves the invariant.
LEMMA StoreSafe ==
    ASSUME TypeOK, Safe, NEW t \in Threads, storePlanIfRunning(t) PROVE Safe'
<1>1. pc[t] = "store" /\ resuming = None
  BY Inside DEF storePlanIfRunning, At, Under, Hand, Late
<1>2. UNCHANGED <<queue, verdict, refused, shown>>
  BY DEF storePlanIfRunning
<1>3. CASE NoProvider(t) /\ UNCHANGED plan
  BY <1>1, <1>2, <1>3, NoProviderSafe DEF queue
<1>4. CASE plan' = attempt.req /\ Go(t, "stop") /\ UNCHANGED <<dropped, attempt, mu>>
  BY <1>1, <1>2, <1>4, Advancing
<1> QED
  BY <1>3, <1>4 DEF storePlanIfRunning

\* The stop, after which nothing takes mu again, preserves the invariant.
LEMMA StopSafe ==
    ASSUME TypeOK, Safe, NEW t \in Threads, Stop(t) PROVE Safe'
<1> USE DEF Under, Hand, Late
<1>1. pc[t] = "stop" /\ mu = t /\ mu # None /\ attempt # None /\ resuming = None
  BY Inside DEF Stop, At
<1>2. Release(t) /\ UNCHANGED <<queue, plan, verdict, refused, dropped, shown>>
  BY DEF Stop, fates
<1>3. Holder' /\ Final' /\ Unseen' /\ attempt' = None
  BY <1>1, <1>2, Leaving DEF queue
<1>4. plan = attempt.req
  BY <1>1 DEF Safe, Final
<1>5. Asked' /\ Counted' /\ Fated' /\ BoundedRetries'
  BY <1>2, <1>3, <1>4 DEF Safe, Asked, Counted, Fated, BoundedRetries, queue
<1> QED
  BY <1>3, <1>5 DEF Safe

-----------------------------------------------------------------------------
\* Every step preserves the safety half of the invariant.
LEMMA SafeStep == ASSUME Inv, [Next]_vars PROVE Safe'
<1> USE DEF Inv, Under, Hand, Late, Unqueued
<1>1. ASSUME NEW r \in Requests, Asking(r) PROVE Safe'
  <2>1. CASE Handle(r) \/ StartTransition(r) \/ TriggerNow(r)
    BY <2>1, Move DEF Handle, StartTransition, TriggerNow, At, End, core, queue, runner, life, fates
  <2>2. CASE QueueIdle(r)
    BY <2>2, Putting DEF QueueIdle, At, runner, life, fates
  <2>3. CASE QueueNow(r)
    <3>1. CASE restartUnderway
      BY <2>3, <3>1, RequestAssumption, Move DEF QueueNow, At, End, core, life, fates
    <3>2. CASE ~restartUnderway
      BY <2>3, <3>2, Putting DEF QueueNow, At, life, fates
    <3> QED
      BY <3>1, <3>2
  <2>4. CASE RunNow(r)
    <3>1. CASE restartUnderway
      BY <2>4, <3>1, RequestAssumption, Move DEF RunNow, At, End, core, life, fates
    <3>2. CASE ~restartUnderway
      BY <2>4, <3>2, Entering DEF RunNow, At, life, fates, restartUnderway
    <3> QED
      BY <3>1, <3>2
  <2> QED
    BY <1>1, <2>1, <2>2, <2>3, <2>4 DEF Asking
<1>2. ASSUME NEW t \in Threads, Transition(t) PROVE Safe'
  <2>1. CASE OnIdle(t) \/ RunClose(t) \/ CloseReturns(t)
    BY <2>1, Move DEF OnIdle, RunClose, CloseReturns, At, End, core, runner, life, fates
  <2>2. CASE Enter(t)
    <3>1. CASE Stale
      BY <2>2, <3>1, Move DEF Enter, At, End, core, life, fates
    <3>2. CASE ~Stale
      BY <2>2, <3>2, Entering DEF Enter, At, life, fates, Stale, restartUnderway
    <3> QED
      BY <3>1, <3>2
  <2> QED
    BY <1>2, <2>1, <2>2 DEF Transition
<1>3. ASSUME NEW t \in Threads, Restarting(t) PROVE Safe'
  BY <1>3, TakeSafe, RetrySafe, PreflightSafe, AdmitSafe, LateSafe, StoreSafe, StopSafe DEF Restarting
<1>4. CASE Wake
  BY <1>4, Move DEF Wake, At, core, runner, life, fates
<1>5. ASSUME NEW r \in Requests, WindowPasses(r) PROVE Safe'
  BY <1>5, Still DEF WindowPasses, core, runner, life
<1>6. CASE Grace \/ Read \/ ProviderStarts \/ TurnStarts \/ TurnEnds \/ ProviderExits \/ Leave
  BY <1>6, Still DEF Grace, Read, ProviderStarts, TurnStarts, TurnEnds, ProviderExits, Leave,
                     core, runner, life, fates
<1>7. CASE UNCHANGED vars
  BY <1>7, Still DEF vars, core, runner, life, fates
<1> QED
  BY <1>1, <1>2, <1>3, <1>4, <1>5, <1>6, <1>7 DEF Next

-----------------------------------------------------------------------------
\* Every step keeps every variable in its type: a count is only raised below
\* MaxAttempts.
LEMMA TypeStep == ASSUME Inv, [Next]_vars PROVE TypeOK'
<1> USE DEF Inv
<1> HIDE DEF Threads, Attempt
<1>1. \A t \in Threads, s \in Stages : Go(t, s) => pc' \in [Threads -> Stages]
  BY DEF Go, TypeOK
<1>2. \A t \in Threads : Release(t) =>
        pc' \in [Threads -> Stages] /\ mu' = None /\ inFlight' = FALSE /\ attempt' = None
  BY <1>1 DEF Release, End, Stages
<1>3. ASSUME NEW r \in Requests, Asking(r) PROVE TypeOK'
  <2>1. pc' \in [Threads -> Stages]
    BY <1>1, <1>3 DEF Threads, TypeOK, Asking, Handle, QueueIdle, StartTransition, TriggerNow, QueueNow, RunNow, End, Stages
  <2>2. inFlight' \in BOOLEAN /\ mu' \in Threads \cup {None}
    BY <1>3 DEF TypeOK, Threads, Asking, Handle, QueueIdle, StartTransition, TriggerNow, QueueNow, RunNow, runner
  <2>3. pending' \in Requests \cup {None} /\ newest' \in Requests \cup {None}
    BY <1>3 DEF TypeOK, Asking, Handle, QueueIdle, StartTransition, TriggerNow, QueueNow, RunNow, put, queue
  <2>4. deferred' \in Attempt \cup {None} /\ resuming' \in Attempt \cup {None}
    BY <1>3 DEF TypeOK, Asking, Handle, QueueIdle, StartTransition, TriggerNow, QueueNow, RunNow, put, queue
  <2>5. UNCHANGED <<closeMu, attempt, busy, agent, wake, life, fates>>
    BY <1>3 DEF Asking, Handle, QueueIdle, StartTransition, TriggerNow, QueueNow, RunNow, runner
  <2> QED
    BY <2>1, <2>2, <2>3, <2>4, <2>5 DEF TypeOK, agent, life, fates
<1>4. ASSUME NEW t \in Threads, Transition(t) PROVE TypeOK'
  <2>1. pc' \in [Threads -> Stages]
    BY <1>1, <1>4 DEF Transition, OnIdle, RunClose, CloseReturns, Enter, End, Stages
  <2>2. mu' \in Threads \cup {None} /\ closeMu' \in Threads \cup {None} /\ inFlight' \in BOOLEAN
    BY <1>4 DEF TypeOK, Transition, OnIdle, RunClose, CloseReturns, Enter, runner
  <2>3. UNCHANGED <<queue, attempt, busy, agent, wake, life, fates>>
    BY <1>4 DEF Transition, OnIdle, RunClose, CloseReturns, Enter
  <2> QED
    BY <2>1, <2>2, <2>3 DEF TypeOK, queue, agent, life, fates
<1>5. ASSUME NEW t \in Threads, Take(t) PROVE TypeOK'
  <2>1. pc' \in [Threads -> Stages]
    BY <1>1, <1>5 DEF Take, Stages
  <2>2. pending # None => [req |-> pending, count |-> 0, now |-> FALSE] \in Attempt
    BY BoundAssumption DEF TypeOK, Attempt
  <2>3. pending' \in Requests \cup {None} /\ attempt' \in Attempt \cup {None}
    BY <1>5, <2>2 DEF TypeOK, Take, Taken, queue
  <2>4. UNCHANGED <<deferred, resuming, newest, runner, busy, agent, wake, life, fates>>
    BY <1>5 DEF Take, queue
  <2> QED
    BY <2>1, <2>3, <2>4 DEF TypeOK, runner, agent, life, fates
<1>6. ASSUME NEW t \in Threads, Retry(t) PROVE TypeOK'
  <2>1. pc' \in [Threads -> Stages]
    BY <1>1, <1>2, <1>6 DEF Retry, Stages
  <2> QED
    BY <1>2, <1>6, <2>1, ZenonT(40) DEF TypeOK, Retry, queue, agent, life, fates
<1>7. ASSUME NEW t \in Threads, Preflight(t) PROVE TypeOK'
  <2>1. pc' \in [Threads -> Stages]
    BY <1>1, <1>2, <1>7 DEF Preflight, Stages
  <2>2. attempt \in Attempt
    BY <1>7, Inside DEF Preflight, At, Under, Hand, Late
  <2>3. verdict' \in [Requests -> {"unasked", "restart", "no"}]
    BY <1>7, <2>2 DEF TypeOK, Preflight
  <2>4. attempt' \in Attempt \cup {None}
    BY <1>2, <1>7, <2>2 DEF Preflight, Attempt
  <2>5. mu' \in Threads \cup {None} /\ inFlight' \in BOOLEAN
    BY <1>2, <1>7 DEF TypeOK, Preflight
  <2> QED
    BY <1>7, <2>1, <2>3, <2>4, <2>5 DEF TypeOK, Preflight, queue, agent, life
<1>8. ASSUME NEW t \in Threads, Admit(t) PROVE TypeOK'
  <2>1. pc' \in [Threads -> Stages]
    BY <1>1, <1>2, <1>8 DEF Admit, NoProvider, Cancelled, Stages
  <2>2. attempt \in Attempt /\ startAttempt \in Attempt
    BY <1>8, Inside, Starting DEF Admit, At, Under, Hand, Late
  <2>3. shown' \in [Requests -> Nat]
    BY <1>8, <2>2 DEF TypeOK, Admit, Attempt
  <2>4. attempt' \in Attempt \cup {None} /\ mu' \in Threads \cup {None} /\ inFlight' \in BOOLEAN
    BY <1>2, <1>8, <2>2 DEF TypeOK, Admit, NoProvider, Cancelled
  <2>5. refused' \subseteq Requests /\ dropped' \subseteq Requests
    BY <1>8, <2>2 DEF TypeOK, Admit, NoProvider, Cancelled, Attempt
  <2> QED
    BY <1>8, <2>1, <2>3, <2>4, <2>5 DEF TypeOK, Admit, agent, life
<1>9. ASSUME NEW t \in Threads, Countdown(t) \/ Recheck(t) PROVE TypeOK'
  <2>1. pc' \in [Threads -> Stages]
    BY <1>1, <1>2, <1>9 DEF Countdown, Recheck, TurnCancelled, Cancelled, Stages
  <2>2. attempt \in Attempt
    BY <1>9, Inside DEF Countdown, Recheck, At, Under, Hand, Late
  <2>3. attempt' \in Attempt \cup {None} /\ mu' \in Threads \cup {None} /\ inFlight' \in BOOLEAN
    BY <1>2, <1>9, <2>2 DEF TypeOK, Countdown, Recheck, TurnCancelled, Cancelled
  <2>4. refused' \subseteq Requests /\ deferred' \in Attempt \cup {None}
    BY <1>9, <2>2 DEF TypeOK, Countdown, Recheck, TurnCancelled, Cancelled, Attempt
  <2> QED
    BY <1>9, <2>1, <2>3, <2>4 DEF TypeOK, Countdown, Recheck, agent, life
<1>10. ASSUME NEW t \in Threads, storePlanIfRunning(t) PROVE TypeOK'
  <2>1. pc' \in [Threads -> Stages]
    BY <1>1, <1>2, <1>10 DEF storePlanIfRunning, NoProvider, Stages
  <2>2. attempt \in Attempt
    BY <1>10, Inside DEF storePlanIfRunning, At, Under, Hand, Late
  <2>3. attempt' \in Attempt \cup {None} /\ mu' \in Threads \cup {None} /\ inFlight' \in BOOLEAN
    BY <1>2, <1>10, <2>2 DEF TypeOK, storePlanIfRunning, NoProvider
  <2>4. plan' \in Requests \cup {None} /\ dropped' \subseteq Requests
    BY <1>10, <2>2 DEF TypeOK, storePlanIfRunning, NoProvider, Attempt
  <2> QED
    BY <1>10, <2>1, <2>3, <2>4 DEF TypeOK, storePlanIfRunning, queue, agent
<1>11. ASSUME NEW t \in Threads, Stop(t) PROVE TypeOK'
  BY <1>2, <1>11, ZenonT(40) DEF TypeOK, Stop, queue, agent, fates
<1>12. CASE Wake
  <2>1. pc' \in [Threads -> Stages]
    BY <1>1, <1>12 DEF Threads, Wake, Stages
  <2>2. wake' \in BOOLEAN /\ UNCHANGED <<queue, runner, attempt, busy, agent, life, fates>>
    BY <1>12 DEF Wake
  <2> QED
    BY <2>1, <2>2 DEF TypeOK, queue, runner, agent, life, fates
<1>13. ASSUME NEW r \in Requests, WindowPasses(r) PROVE TypeOK'
  BY <1>13 DEF TypeOK, WindowPasses, queue, runner, agent, life
<1>14. CASE Grace
  <2>1. UNCHANGED <<queue, runner, pc, attempt, busy, mail, turns, wake, plan, left, fates>>
    BY <1>14 DEF Grace
  <2>2. grace' \in BOOLEAN /\ turn' \in BOOLEAN /\ provider' = "gone"
    BY <1>14 DEF Grace
  <2> QED
    BY <2>1, <2>2 DEF TypeOK, queue, runner, fates
<1>15. CASE ProviderStarts
  BY <1>15 DEF TypeOK, ProviderStarts, queue, runner, agent, fates
<1>16. CASE ProviderExits
  BY <1>16, ZenonT(40) DEF TypeOK, ProviderExits, queue, runner, fates
<1>17. CASE Leave
  BY <1>17 DEF TypeOK, Leave, queue, runner, agent, fates
<1>18. CASE TurnStarts \/ TurnEnds
  <2>1. mail' \in Seq({"start", "stop"})
    <3>1. PICK d \in {"start", "stop"} : mail' = mail \/ mail' = Append(mail, d)
      BY <1>18 DEF TurnStarts, TurnEnds, Send
    <3>2. mail \in Seq({"start", "stop"})
      BY DEF TypeOK
    <3>3. Append(mail, d) \in Seq({"start", "stop"})
      BY <3>2
    <3> QED
      BY <3>1, <3>2, <3>3
  <2>2. turns' \in 0..MaxTurns
    BY <1>18, BoundAssumption DEF TypeOK, TurnStarts, TurnEnds
  <2> QED
    BY <1>18, <2>1, <2>2 DEF TypeOK, TurnStarts, TurnEnds, queue, runner, life, fates
<1>19. CASE Read
  <2>1. mail' \in Seq({"start", "stop"}) /\ busy' \in BOOLEAN /\ wake' \in BOOLEAN
    BY <1>19 DEF TypeOK, Read
  <2> QED
    BY <1>19, <2>1 DEF TypeOK, Read, queue, runner, life, fates
<1>20. CASE UNCHANGED vars
  BY <1>20 DEF TypeOK, vars, queue, runner, agent, life, fates
<1> QED
  BY <1>3, <1>4, <1>5, <1>6, <1>7, <1>8, <1>9, <1>10, <1>11, <1>12, <1>13,
     <1>14, <1>15, <1>16, <1>17, <1>18, <1>19, <1>20 DEF Next, Restarting

-----------------------------------------------------------------------------
\* Inv is an invariant of the specification.
LEMMA Invariance == Spec => []Inv
<1>1. Inv /\ [Next]_vars => Inv'
  BY SafeStep, TypeStep DEF Inv
<1> QED
  BY <1>1, InitInv, PTL DEF Spec

\* Every variable keeps its type, an attempt's count within maxRestartAttempts.
THEOREM RestartTypes == Spec => []TypeOK
<1>1. Inv => TypeOK
  BY DEF Inv
<1> QED
  BY <1>1, Invariance, PTL

\* Once a plan is stored no other restart is at hand (restartUnderway).
THEOREM RestartsAreFinal == Spec => []RestartIsFinal
<1>1. Inv => RestartIsFinal
  BY DEF Inv, Safe, Holder, Final, RestartIsFinal
<1> QED
  BY <1>1, Invariance, PTL

\* No request gets more countdowns than maxRestartAttempts (turnCancelled).
THEOREM RetriesAreBounded == Spec => []BoundedRetries
<1>1. Inv => BoundedRetries
  BY DEF Inv, Safe
<1> QED
  BY <1>1, Invariance, PTL

\* A granted restart has one fate and is not lost unless a newer request
\* replaced it (cancelled, turnCancelled, storePlanIfRunning).
THEOREM RestartsHaveOneFate == Spec => []OneFate
<1>1. ASSUME Inv, NEW r \in Requests, NEW f \in Fates(r), NEW g \in Fates(r) PROVE f = g
  <2>1. plan # None /\ attempt # None => attempt.req = plan
    BY <1>1 DEF Inv, Safe, Holder, Final
  <2> QED
    BY <1>1, <2>1, RequestAssumption DEF Inv, Safe, Fated, Fates
<1>2. ASSUME Inv, NEW r \in Requests, verdict[r] = "restart", newest = r PROVE Fates(r) # {}
  BY <1>2 DEF Inv, Safe, Fated, Fates
<1>3. Inv => OneFate
  BY <1>1, <1>2 DEF OneFate
<1> QED
  BY <1>3, Invariance, PTL

\* A granted restart has one fate, after at most maxRestartAttempts countdowns
\* (cancelled, turnCancelled).
THEOREM RestartsSettle == Spec => []RestartSettles
<1>1. BoundedRetries /\ OneFate => RestartSettles
  BY DEF RestartSettles
<1> QED
  BY <1>1, RetriesAreBounded, RestartsHaveOneFate, PTL

\* spinclass is asked about a request once (preflightQueued).
THEOREM RequestsAreAskedOnce == Spec => AskedOnce
<1>1. ASSUME Inv, [Next]_vars, NEW r \in Requests, verdict'[r] # verdict[r] PROVE verdict[r] = "unasked"
  <2>1. PICK t \in Threads : Preflight(t)
    BY <1>1 DEF Next, vars, Asking, Transition, Restarting, Handle, QueueIdle, StartTransition, TriggerNow,
         QueueNow, RunNow, WindowPasses, OnIdle, RunClose, CloseReturns, Enter, Take, Retry, Admit,
         Countdown, Recheck, storePlanIfRunning, Stop, Wake, Grace, Read, ProviderStarts, TurnStarts,
         TurnEnds, ProviderExits, Leave, fates
  <2>2. attempt # None /\ verdict[attempt.req] = "unasked"
    BY <1>1, <2>1, Inside DEF Inv, Safe, Asked, Preflight, At, Under, Hand, Late
  <2>3. r = attempt.req
    BY <1>1, <2>1 DEF Inv, TypeOK, Preflight
  <2> QED
    BY <2>2, <2>3
<1>2. Inv /\ [Next]_vars => [\A r \in Requests : verdict'[r] # verdict[r] => verdict[r] = "unasked"]_vars
  BY <1>1
<1> QED
  BY <1>2, Invariance, PTL DEF Spec, AskedOnce
=============================================================================

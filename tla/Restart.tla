------------------------------- MODULE Restart -------------------------------
(***************************************************************************)
(* The restart of a live session by its own frontend (cmd/clown            *)
(* restart*.go, selfclose.go).  A request comes in over the control        *)
(* socket; spinclass is asked about it once (the preflight consumes it);   *)
(* a "restart" verdict counts down, and may be cancelled, put off to the   *)
(* next idle transition, or stop the provider under a stored plan.         *)
(*                                                                         *)
(* The threads are the idle listener's run loop (Poke) and one per         *)
(* request: its control connection, then the goroutine it starts.  Turns,  *)
(* spinclass's verdicts, the operator at the countdown and the relaunch's  *)
(* gates are the environment.                                              *)
(***************************************************************************)
EXTENDS Naturals, Sequences

CONSTANTS
    Requests,       \* the control messages that arrive
    Nows,           \* those sent with --when now
    Poke, None,
    MaxAttempts,    \* maxRestartAttempts
    MaxTurns        \* bound: at most this many turns start

ASSUME RequestAssumption == Nows \subseteq Requests /\ Poke \notin Requests /\ None \notin Requests \cup {Poke}
ASSUME BoundAssumption == MaxAttempts \in Nat \ {0} /\ MaxTurns \in Nat
ASSUME NoneAssumption == None \notin [req : Requests, count : 0..MaxAttempts, now : BOOLEAN]

VARIABLES
    pending,    \* restartQueue.pending
    deferred,   \* restartQueue.deferred: a restart a turn start cancelled
    resuming,   \* restartQueue.resuming: its retry, until startAttempt
    inFlight,   \* idleRunner.inFlight
    mu,         \* who holds idleRunner.mu
    closeMu,    \* who holds idleRunner.closeMu
    pc,         \* each thread's position
    attempt,    \* the restart at hand of mu's holder
    busy,       \* the listener's turn-running flag
    turn,       \* whether the provider is in a turn
    mail,       \* datagrams of the hooks the listener has not read
    wake,       \* the listener's one-slot channel
    provider,   \* "starting", "running" (providerRunning), "gone"
    plan,       \* pendingRelaunch: the request whose restart is underway
    grace,      \* the stop's grace timer runs
    left,       \* the frontend has exited or been replaced
    verdict,    \* request -> what spinclass answered about it
    expired,    \* requests whose verdict is older than restartDeferWindow
    refused,    \* requests with a refusal in the status file
    dropped,    \* requests whose restart found no provider running
    newest,     \* history: the request queued last
    shown,      \* history: request -> countdowns it got
    turns       \* turns started

queue  == <<pending, deferred, resuming, newest>>
runner == <<inFlight, mu, closeMu>>
agent  == <<turn, mail, turns>>
fates  == <<verdict, expired, refused, dropped, shown>>
life   == <<provider, plan, grace, left>>
vars   == <<queue, runner, pc, attempt, busy, agent, wake, life, fates>>

Threads == Requests \cup {Poke}

Init ==
    /\ pending = None /\ deferred = None /\ resuming = None /\ newest = None
    /\ inFlight = FALSE /\ mu = None /\ closeMu = None
    /\ pc = [t \in Threads |-> IF t = Poke THEN "idle" ELSE "new"]
    /\ attempt = None
    /\ busy = FALSE /\ turn = FALSE /\ mail = <<>> /\ turns = 0 /\ wake = FALSE
    /\ provider = "starting" /\ plan = None /\ grace = FALSE /\ left = FALSE
    /\ verdict = [r \in Requests |-> "unasked"]
    /\ expired = {} /\ refused = {} /\ dropped = {}
    /\ shown = [r \in Requests |-> 0]

restartUnderway == plan # None
At(t, s) == ~left /\ pc[t] = s
Go(t, s) == pc' = [pc EXCEPT ![t] = s]
End(t)   == Go(t, IF t = Poke THEN "idle" ELSE "done")

(************************ the control socket *******************************)

\* The handler refuses a request once a restart is underway, and one the
\* relaunch's profile or posture gate would refuse.
Handle(r) ==
    /\ At(r, "new")
    /\ \E s \in IF restartUnderway THEN {"done"}
                ELSE {"done", IF r \in Nows THEN "cas" ELSE "put"} : Go(r, s)
    /\ UNCHANGED <<queue, runner, attempt, busy, agent, wake, life, fates>>

\* A newer request replaces a queued and a deferred one.
put(r) == pending' = r /\ deferred' = None /\ newest' = r /\ UNCHANGED resuming

QueueIdle(r) ==
    /\ At(r, "put") /\ put(r) /\ Go(r, "busy")
    /\ UNCHANGED <<runner, attempt, busy, agent, wake, life, fates>>

\* Mutant of AlreadyIdle: a request always waits for the next Stop.
NeverIdle == FALSE

\* Whether a request queued now must start its own idle transition.
AlreadyIdle == ~busy

\* A session already idle sends no Stop: run the idle transition at once.
StartTransition(r) ==
    /\ At(r, "busy")
    /\ IF AlreadyIdle THEN Go(r, "begin") ELSE End(r)
    /\ UNCHANGED <<queue, runner, attempt, busy, agent, wake, life, fates>>

TriggerNow(r) ==
    /\ At(r, "cas")
    /\ IF inFlight THEN End(r) /\ UNCHANGED inFlight
                   ELSE Go(r, "armed") /\ inFlight' = TRUE
    /\ UNCHANGED <<queue, mu, closeMu, attempt, busy, agent, wake, life, fates>>

\* Re-checked under inFlight, then queued for its own goroutine.
QueueNow(r) ==
    /\ At(r, "armed")
    /\ IF restartUnderway THEN End(r) /\ inFlight' = FALSE /\ UNCHANGED queue
                          ELSE Go(r, "now") /\ put(r) /\ UNCHANGED inFlight
    /\ UNCHANGED <<mu, closeMu, attempt, busy, agent, wake, life, fates>>

RunNow(r) ==
    /\ At(r, "now") /\ mu = None
    /\ IF restartUnderway THEN End(r) /\ inFlight' = FALSE /\ UNCHANGED mu
                          ELSE Go(r, "take") /\ mu' = r /\ UNCHANGED inFlight
    /\ UNCHANGED <<queue, closeMu, attempt, busy, agent, wake, life, fates>>

(************************ the idle transition ******************************)

Wake ==
    /\ At(Poke, "idle") /\ wake
    /\ wake' = FALSE /\ Go(Poke, "begin")
    /\ UNCHANGED <<queue, runner, attempt, busy, agent, life, fates>>

OnIdle(t) ==
    /\ At(t, "begin")
    /\ IF restartUnderway THEN End(t) ELSE Go(t, "close")
    /\ UNCHANGED <<queue, runner, attempt, busy, agent, wake, life, fates>>

\* close-self-run runs under closeMu, never once a restart is underway.
RunClose(t) ==
    /\ At(t, "close") /\ closeMu = None
    /\ IF restartUnderway THEN End(t) /\ UNCHANGED closeMu
                          ELSE Go(t, "closing") /\ closeMu' = t
    /\ UNCHANGED <<queue, inFlight, mu, attempt, busy, agent, wake, life, fates>>

CloseReturns(t) ==
    /\ At(t, "closing")
    /\ closeMu' = None /\ Go(t, "lock")
    /\ UNCHANGED <<queue, inFlight, mu, attempt, busy, agent, wake, life, fates>>

\* Mutant of Stale: a restart stored meanwhile is not noticed.
StaleUnlocked == busy \/ inFlight

\* What an idle transition that waited for mu re-checks under it.
Stale == restartUnderway \/ busy \/ inFlight

Enter(t) ==
    /\ At(t, "lock") /\ mu = None
    /\ IF Stale THEN End(t) /\ UNCHANGED <<mu, inFlight>>
                ELSE Go(t, "take") /\ mu' = t /\ inFlight' = TRUE
    /\ UNCHANGED <<queue, closeMu, attempt, busy, agent, wake, life, fates>>

\* The end of a run under mu: nothing stays at hand.
Release(t) == mu' = None /\ inFlight' = FALSE /\ attempt' = None /\ End(t)

(************************ preflightQueued **********************************)

\* Mutant of Taken: the request is read and stays queued.
Peeked == pending

\* What take leaves queued.
Taken == None

Take(t) ==
    /\ At(t, "take")
    /\ IF pending = None THEN Go(t, "retry") /\ UNCHANGED <<queue, attempt>>
       ELSE /\ attempt' = [req |-> pending, count |-> 0, now |-> FALSE]
            /\ pending' = Taken /\ Go(t, "ask")
            /\ UNCHANGED <<deferred, resuming, newest>>
    /\ UNCHANGED <<runner, busy, agent, wake, life, fates>>

\* Nothing newly queued: a deferred restart is retried under its old verdict.
Retry(t) ==
    /\ At(t, "retry")
    /\ IF deferred = None THEN Release(t) /\ UNCHANGED queue
       ELSE /\ resuming' = deferred /\ deferred' = None
            /\ attempt' = deferred /\ Go(t, "admit")
            /\ UNCHANGED <<pending, newest, mu, inFlight>>
    /\ UNCHANGED <<closeMu, busy, agent, wake, life, fates>>

\* spinclass answers, consuming the request; "no" is none, refused or an error.
Preflight(t) ==
    /\ At(t, "ask")
    /\ \/ /\ verdict' = [verdict EXCEPT ![attempt.req] = "no"]
          /\ Release(t)
       \/ /\ verdict' = [verdict EXCEPT ![attempt.req] = "restart"]
          /\ \E now \in BOOLEAN : attempt' = [attempt EXCEPT !.now = now]
          /\ Go(t, "admit") /\ UNCHANGED <<mu, inFlight>>
    /\ UNCHANGED <<queue, closeMu, busy, agent, wake, life, expired, refused, dropped, shown>>

(************************ frontendRestarter.restart ************************)

\* Mutant of startAttempt: every attempt is a first one.
firstAttempt == [attempt EXCEPT !.count = 1]

\* The next attempt of a restart handed back for its retry, else the first.
startAttempt ==
    IF resuming # None /\ resuming = attempt THEN [resuming EXCEPT !.count = @ + 1]
                                              ELSE [attempt EXCEPT !.count = 1]

Cancelled(t) == refused' = refused \cup {attempt.req} /\ Release(t)
NoProvider(t) == dropped' = dropped \cup {attempt.req} /\ Release(t)

\* The attempt's first checks.  A retry is cancelled when its verdict is too
\* old or a merge job runs; any attempt when a gate of the relaunch refuses.
Admit(t) ==
    /\ At(t, "admit")
    /\ resuming' = None
    /\ IF provider # "running" THEN NoProvider(t) /\ UNCHANGED <<refused, shown>>
       ELSE /\ UNCHANGED dropped
            /\ \/ Cancelled(t) /\ UNCHANGED shown
               \/ /\ ~(startAttempt.count > 1 /\ attempt.req \in expired)
                  /\ attempt' = startAttempt
                  /\ shown' = [shown EXCEPT ![attempt.req] = @ + 1]
                  /\ Go(t, "countdown") /\ UNCHANGED <<refused, mu, inFlight>>
    /\ UNCHANGED <<pending, deferred, newest, closeMu, busy, agent, wake, life, verdict, expired>>

\* A turn start cancels anything but a `now` verdict.
TurnSeen == ~attempt.now /\ busy

\* Mutant of MayDefer: off by one.
MayDeferAgain == attempt.count <= MaxAttempts /\ attempt.req \notin expired

MayDefer == attempt.count < MaxAttempts /\ attempt.req \notin expired

\* Mutant of TurnCancelled: the cancel that is final is not recorded.
TurnForgotten(t) ==
    /\ IF MayDefer THEN deferred' = attempt ELSE UNCHANGED deferred
    /\ Release(t) /\ UNCHANGED refused

\* Put off to the next idle transition while the bound allows, else refused.
TurnCancelled(t) ==
    IF MayDefer THEN deferred' = attempt /\ Release(t) /\ UNCHANGED refused
                ELSE Cancelled(t) /\ UNCHANGED deferred

Countdown(t) ==
    /\ At(t, "countdown")
    /\ \/ Go(t, "recheck") /\ UNCHANGED <<deferred, refused, attempt, mu, inFlight>>
       \/ Cancelled(t) /\ UNCHANGED deferred
       \/ TurnSeen /\ TurnCancelled(t)
    /\ UNCHANGED <<pending, resuming, newest, closeMu, busy, agent, wake, life, verdict, expired, dropped, shown>>

\* After the countdown: the turn again, and for a retry the merge job again.
Recheck(t) ==
    /\ At(t, "recheck")
    /\ IF TurnSeen THEN TurnCancelled(t)
       ELSE /\ UNCHANGED deferred
            /\ \/ Go(t, "store") /\ UNCHANGED <<refused, attempt, mu, inFlight>>
               \/ attempt.count > 1 /\ Cancelled(t)
    /\ UNCHANGED <<pending, resuming, newest, closeMu, busy, agent, wake, life, verdict, expired, dropped, shown>>

storePlanIfRunning(t) ==
    /\ At(t, "store")
    /\ IF provider = "running"
       THEN plan' = attempt.req /\ Go(t, "stop") /\ UNCHANGED <<dropped, attempt, mu, inFlight>>
       ELSE NoProvider(t) /\ UNCHANGED plan
    /\ UNCHANGED <<queue, closeMu, busy, agent, wake, provider, grace, left, verdict, expired, refused, shown>>

\* SIGTERM, which the provider may ignore; the grace timer starts.
Stop(t) ==
    /\ At(t, "stop")
    /\ grace' = TRUE /\ Release(t)
    /\ UNCHANGED <<queue, closeMu, busy, agent, wake, provider, plan, left, fates>>

Grace ==
    /\ ~left /\ grace
    /\ grace' = FALSE /\ provider' = "gone" /\ turn' = FALSE
    /\ UNCHANGED <<queue, runner, pc, attempt, busy, mail, turns, wake, plan, left, fates>>

(************************ provider, hooks and listener *********************)

ProviderStarts ==
    /\ ~left /\ provider = "starting" /\ provider' = "running"
    /\ UNCHANGED <<queue, runner, pc, attempt, busy, agent, wake, plan, grace, left, fates>>

\* A hook's datagram reaches the socket or, past its deadline, is lost.
Send(d) == mail' \in {mail, Append(mail, d)}

TurnStarts ==
    /\ ~left /\ provider = "running" /\ ~turn /\ turns < MaxTurns
    /\ turn' = TRUE /\ turns' = turns + 1 /\ Send("start")
    /\ UNCHANGED <<queue, runner, pc, attempt, busy, wake, life, fates>>

TurnEnds ==
    /\ ~left /\ turn
    /\ turn' = FALSE /\ Send("stop") /\ UNCHANGED turns
    /\ UNCHANGED <<queue, runner, pc, attempt, busy, wake, life, fates>>

\* The provider's exit: the user's, the stop's, or that of a close.
ProviderExits ==
    /\ ~left /\ provider = "running"
    /\ provider' = "gone" /\ turn' = FALSE
    /\ UNCHANGED <<queue, runner, pc, attempt, busy, mail, turns, wake, plan, grace, left, fates>>

Read ==
    /\ ~left /\ mail # <<>>
    /\ mail' = Tail(mail)
    /\ busy' = (Head(mail) = "start")
    /\ wake' = (wake \/ Head(mail) = "stop")
    /\ UNCHANGED <<queue, runner, pc, attempt, turn, turns, life, fates>>

WindowPasses(r) ==
    /\ ~left /\ verdict[r] = "restart" /\ r \notin expired
    /\ expired' = expired \cup {r}
    /\ UNCHANGED <<queue, runner, pc, attempt, busy, agent, wake, life, verdict, refused, dropped, shown>>

\* main relaunches under a plan, or exits; either way every thread ends.
Leave ==
    /\ ~left /\ provider = "gone" /\ left' = TRUE
    /\ UNCHANGED <<queue, runner, pc, attempt, busy, agent, wake, provider, plan, grace, fates>>

Asking(r) == Handle(r) \/ QueueIdle(r) \/ StartTransition(r) \/ TriggerNow(r) \/ QueueNow(r) \/ RunNow(r)
Transition(t) == OnIdle(t) \/ RunClose(t) \/ CloseReturns(t) \/ Enter(t)
Restarting(t) ==
    \/ Take(t) \/ Retry(t) \/ Preflight(t) \/ Admit(t) \/ Countdown(t)
    \/ Recheck(t) \/ storePlanIfRunning(t) \/ Stop(t)

Next ==
    \/ \E r \in Requests : Asking(r) \/ WindowPasses(r)
    \/ \E t \in Threads : Transition(t) \/ Restarting(t)
    \/ Wake \/ Grace \/ Read
    \/ ProviderStarts \/ TurnStarts \/ TurnEnds \/ ProviderExits \/ Leave
    \/ left /\ UNCHANGED vars

Spec == Init /\ [][Next]_vars

\* Goroutines are scheduled, the preflight, the countdown and the gates have
\* deadlines, a close-self-run ends, and the grace timer fires.
FairSpec ==
    /\ Spec
    /\ \A r \in Requests : WF_vars(Asking(r))
    /\ \A t \in Threads : WF_vars(Transition(t)) /\ WF_vars(Restarting(t))
    /\ WF_vars(Wake) /\ WF_vars(Read) /\ WF_vars(Grace)

(***************************** properties **********************************)

Attempt == [req : Requests, count : 0..MaxAttempts, now : BOOLEAN]

Stages == {"idle", "new", "put", "busy", "cas", "armed", "now", "begin", "close", "closing",
           "lock", "take", "retry", "ask", "admit", "countdown", "recheck", "store", "stop", "done"}

TypeOK ==
    /\ pending \in Requests \cup {None} /\ newest \in Requests \cup {None}
    /\ deferred \in Attempt \cup {None} /\ resuming \in Attempt \cup {None}
    /\ attempt \in Attempt \cup {None}
    /\ inFlight \in BOOLEAN /\ mu \in Threads \cup {None} /\ closeMu \in Threads \cup {None}
    /\ pc \in [Threads -> Stages]
    /\ busy \in BOOLEAN /\ turn \in BOOLEAN /\ wake \in BOOLEAN /\ grace \in BOOLEAN /\ left \in BOOLEAN
    /\ mail \in Seq({"start", "stop"}) /\ turns \in 0..MaxTurns
    /\ provider \in {"starting", "running", "gone"} /\ plan \in Requests \cup {None}
    /\ verdict \in [Requests -> {"unasked", "restart", "no"}]
    /\ expired \subseteq Requests /\ refused \subseteq Requests /\ dropped \subseteq Requests
    /\ shown \in [Requests -> Nat]

\* spinclass is asked about a request at most once ("the same request is
\* never asked about twice"), whichever of the poke, the request's own idle
\* transition and a `now` gets to it first.
AskedOnce == [][\A r \in Requests : verdict'[r] # verdict[r] => verdict[r] = "unasked"]_vars

\* Once a restart is underway no other is begun, asked about or retried: the
\* session is between two frontends.
RestartIsFinal == plan # None /\ attempt # None => attempt.req = plan

BoundedRetries == \A r \in Requests : shown[r] <= MaxAttempts

\* What has become of a restart spinclass granted.
Fates(r) ==
    {f \in {"tried", "deferred", "underway", "refused", "dropped"} :
        \/ f = "tried" /\ attempt # None /\ attempt.req = r /\ plan # r
        \/ f = "deferred" /\ deferred # None /\ deferred.req = r
        \/ f = "underway" /\ plan = r
        \/ f = "refused" /\ r \in refused
        \/ f = "dropped" /\ r \in dropped}

OneFate ==
    \A r \in Requests :
        /\ \A f, g \in Fates(r) : f = g
        /\ verdict[r] = "restart" /\ newest = r => Fates(r) # {}

\* A granted restart has one fate: tried, deferred, underway, refused on record, or
\* found without a provider; it is gone without a trace only when a newer request
\* replaced it, and a refused one is never tried again. Its verdict shows at most
\* MaxAttempts countdowns, however the retries are spread over idle transitions
\* (cancelled, turnCancelled).
RestartSettles == BoundedRetries /\ OneFate

\* No request waits in an idle session: while the provider runs and no turn
\* does, a queued request is taken, without anyone prompting the session
\* (clown#327).
RequestIsAsked ==
    \A r \in Requests : []<>~(pending = r /\ ~busy /\ provider = "running" /\ ~left)

\* What the queue says of a deferred restart ("A newer request, taken above,
\* has already replaced it"): one is retried only while no newer request has
\* been queued since it was granted.
NewestWins == [][resuming' # resuming /\ resuming' # None => resuming'.req = newest]_vars
=============================================================================

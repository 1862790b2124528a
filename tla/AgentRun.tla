------------------------------ MODULE AgentRun ------------------------------
(***************************************************************************)
(* jugglerrun.RunAgent, one `juggler run`: the job is started or adopted    *)
(* and locked, the model resolved, the agent's moxy launched and connected, *)
(* then the loop runs and the verdict is written as the job's terminal      *)
(* record.  Each failure of the set-up is a failed job.  What becomes of    *)
(* that record is AgentExit's.                                              *)
(***************************************************************************)
EXTENDS AgentLoop

VARIABLES
  pc,         \* where RunAgent stands
  moxy,       \* the tool plane's process: "none", "starting", "up", "stopped"
  asked,      \* a holder's cancel-requested record is in the journal
  watching,   \* the WaitCancelRequested goroutine runs
  observed,   \* cancelObserved
  late,       \* SIGTERM reached the process at or past the brief's deadline
  runErr,     \* Run returned its ctx's error, or the model's
  passed,     \* what the evaluator said: "", "pass", "false"
  state,      \* the verdict: "", "succeeded", "failed", "aborted"
  notes       \* what finish adds to the ledger's Notes

runVars == <<pc, moxy, asked, watching, observed, late, runErr, passed, state, notes>>
agentVars == <<loopVars, expired, cancelled, runVars>>

RunInit ==
  /\ LoopInit
  /\ offered = {} /\ sink = "none"
  /\ pc = "start" /\ moxy = "none"
  /\ asked = FALSE /\ watching = FALSE /\ observed = FALSE /\ late = FALSE
  /\ runErr = FALSE /\ passed = "" /\ state = "" /\ notes = {}

(***************************************************************************)
(* Set-up.                                                                  *)
(***************************************************************************)
At(here, there) == pc = here /\ pc' = there
Setup == UNCHANGED <<asked, watching, observed, late, runErr, passed, expired, cancelled,
                     turns, ledger, traffic, steps, pending, loop>>

\* A failed job_start, a protocol mismatch or a wrong identity: a bare error.
Refused ==
  /\ At("start", "exited")
  /\ Setup /\ UNCHANGED <<offered, sink, end, moxy, state, notes>>

Addressed ==
  /\ At("start", "lock")
  /\ Setup /\ UNCHANGED <<offered, sink, end, moxy, state, notes>>

\* AcquireJobLock: another live producer refuses the run; any other failure
\* costs only the reaper's backstop, which is AgentExit's.
Lock ==
  /\ At("lock", "exited") \/ At("lock", "traffic")
  /\ Setup /\ UNCHANGED <<offered, sink, end, moxy, state, notes>>

OpenTraffic ==
  /\ At("traffic", "resolve")
  /\ sink' \in {"open", "none"}
  /\ Setup /\ UNCHANGED <<offered, end, moxy, state, notes>>

\* finishWithoutLoop
FinishWithoutLoop(reason) == pc' = "finish" /\ end' = reason /\ state' = "failed"

ResolveModel ==
  /\ pc = "resolve"
  /\ \/ pc' = "derive" /\ UNCHANGED <<end, state>>
     \/ FinishWithoutLoop("model_error")
  /\ Setup /\ UNCHANGED <<offered, sink, moxy, notes>>

\* DeriveAgentMoxyfile: a brief that does not fit, or moxy could not be run.
Derive ==
  /\ pc = "derive"
  /\ \/ pc' = "launch" /\ UNCHANGED <<end, state>>
     \/ FinishWithoutLoop("tool_error")
  /\ Setup /\ UNCHANGED <<offered, sink, moxy, notes>>

Launch ==
  /\ At("launch", "handshake")
  /\ moxy' = "starting"
  /\ Setup /\ UNCHANGED <<offered, sink, end, state, notes>>

LaunchFails ==
  /\ pc = "launch"
  /\ FinishWithoutLoop("tool_error")
  /\ Setup /\ UNCHANGED <<offered, sink, moxy, notes>>

Handshake ==
  /\ At("handshake", "connect")
  /\ moxy' = "up"
  /\ Setup /\ UNCHANGED <<offered, sink, end, state, notes>>

\* Mutant: the process is left behind.
LeftBehind == moxy' = moxy

\* No line, a bad one, the handshake's timeout or a done ctx: stop.
Stopped == moxy' = "stopped"
HandshakeFails ==
  /\ pc = "handshake"
  /\ Stopped
  /\ FinishWithoutLoop("tool_error")
  /\ Setup /\ UNCHANGED <<offered, sink, notes>>

\* ConnectTools and FilterToolsToAllowlist: every allowlisted tool must be
\* advertised, and no other is offered.
Kept(advertised) == advertised \cap Allow
Missing(advertised) == Allow \ advertised

Connect ==
  /\ pc = "connect"
  /\ \/ FinishWithoutLoop("tool_error") /\ UNCHANGED offered
     \/ \E advertised \in SUBSET Tools :
          IF Missing(advertised) # {}
          THEN FinishWithoutLoop("tool_error") /\ UNCHANGED offered
          ELSE /\ offered' = toolsWithCannotComplete(Kept(advertised))
               /\ pc' = "loop" /\ UNCHANGED <<end, state>>
  /\ watching' = (pc' = "loop")
  /\ UNCHANGED <<asked, observed, late, runErr, passed, expired, cancelled,
                 turns, ledger, traffic, sink, steps, pending, loop, moxy, notes>>

\* Run's defaults: a style without a codec runs nothing.
RunStarts ==
  /\ pc = "loop" /\ loop = "idle"
  /\ \/ loop' = "calls" /\ UNCHANGED <<pc, end, state, watching>>
     \/ FinishWithoutLoop("model_error") /\ watching' = FALSE /\ loop' = loop
  /\ UNCHANGED <<asked, observed, late, runErr, passed, expired, cancelled, offered,
                 turns, ledger, traffic, sink, steps, pending, moxy, notes>>

(***************************************************************************)
(* The world: time, SIGTERM, a holder's cancel.                             *)
(***************************************************************************)
Running == pc \notin {"finish", "exited"}

Expire ==
  /\ ~expired /\ Running
  /\ expired' = TRUE
  /\ UNCHANGED <<loopVars, cancelled, runVars>>

SigTerm ==
  /\ "sigterm" \notin cancelled /\ Running
  /\ cancelled' = cancelled \cup {"sigterm"}
  /\ late' = expired
  /\ UNCHANGED <<loopVars, expired, pc, moxy, asked, watching, observed, runErr, passed, state, notes>>

HolderCancels ==
  /\ ~asked /\ Running
  /\ asked' = TRUE
  /\ UNCHANGED <<loopVars, expired, cancelled, pc, moxy, watching, observed, late, runErr, passed, state, notes>>

\* The watcher: WaitCancelRequested returned while its ctx was alive.
ObserveCancel ==
  /\ watching /\ asked /\ "sigterm" \notin cancelled
  /\ observed' = TRUE /\ watching' = FALSE
  /\ cancelled' = cancelled \cup {"holder"}
  /\ UNCHANGED <<loopVars, expired, pc, moxy, asked, late, runErr, passed, state, notes>>

(***************************************************************************)
(* After the loop.                                                          *)
(***************************************************************************)
Loop == pc = "loop" /\ LoopStep /\ UNCHANGED <<expired, cancelled, runVars>>

\* Run returns: the terminal turn, and the error of a cancelled ctx.
LoopReturns ==
  /\ pc = "loop" /\ loop = "ended"
  /\ turns' = Append(turns, Terminal(end))
  /\ loop' = "returned"
  /\ runErr' = \/ end = "model_error"
               \/ end = "timeout" /\ cancelled # {}
  /\ pc' = "returned"
  /\ UNCHANGED <<offered, ledger, traffic, sink, steps, pending, end, expired, cancelled,
                 moxy, asked, watching, observed, late, passed, state, notes>>

\* Mutant: a timeout is always blamed on a holder.
TimeoutIsCancel == observed \/ end = "timeout"

HolderCancelled == observed \/ (end = "timeout" /\ runErr)

Finished == end \in {"end_turn", "evaluator_pass"}

AgentVerdict(pass) == IF HolderCancelled THEN "aborted"
                      ELSE IF Finished /\ pass THEN "succeeded" ELSE "failed"

\* The time SIGTERM was seen: the goroutine's, or now when it has not run.
Backstop == late \/ ("sigterm" \in cancelled /\ expired)
Judged(pass, backstop) ==
  IF HolderCancelled /\ ~observed /\ "sigterm" \in cancelled /\ backstop
  THEN "failed" ELSE AgentVerdict(pass)

\* stopWatch, the brief's evaluator over the final ledger, the verdict.
Verdict ==
  /\ At("returned", "finish")
  /\ watching' = FALSE
  /\ passed' \in IF Finished /\ ~HolderCancelled THEN {"pass", "false"} ELSE {""}
  /\ \E backstop \in {late, Backstop} : state' = Judged(passed' = "pass", backstop)
  /\ UNCHANGED <<loopVars, expired, cancelled, moxy, asked, observed, late, runErr, notes>>

(***************************************************************************)
(* finish: the ledger's notes, the spool, the terminal record, the lock;    *)
(* then the deferred stop of moxy.                                          *)
(***************************************************************************)
Finish ==
  /\ At("finish", "exited")
  /\ \E closed \in BOOLEAN :
       LET failing == sink = "failed" \/ (sink = "open" /\ ~closed)
       IN notes' = {"traffic lost records" : x \in {failing} \cap {TRUE}}
                   \cup {"no traffic" : x \in {sink} \cap {"none"}}
  /\ moxy' = IF moxy = "up" THEN "stopped" ELSE moxy
  /\ UNCHANGED <<loopVars, expired, cancelled, asked, watching, observed, late, runErr, passed, state>>

SetupStep ==
  \/ Refused \/ Addressed \/ Lock \/ OpenTraffic \/ ResolveModel \/ Derive
  \/ Launch \/ LaunchFails \/ Handshake \/ HandshakeFails \/ Connect
  \/ RunStarts

RunNext ==
  \/ SetupStep \/ Loop \/ LoopReturns \/ Verdict \/ Finish
  \/ Expire \/ SigTerm \/ HolderCancels \/ ObserveCancel

RunSpec == RunInit /\ [][RunNext]_agentVars

(***************************************************************************)
(* Fairness.  The process runs its own steps; moxy's handshake and every    *)
(* tool call have a timeout of their own.  The model and the services of    *)
(* the set-up may hang: a request to the model is cut by the wall clock,    *)
(* the set-up only by SIGTERM, which the unit's RuntimeMaxSec brings once   *)
(* the wall clock is past.                                                  *)
(***************************************************************************)
Timed == Lock \/ OpenTraffic \/ Launch \/ LaunchFails \/ Handshake \/ HandshakeFails \/ Connect \/ RunStarts
Untimed == Refused \/ Addressed \/ ResolveModel \/ Derive
Local == LoopTimedOut \/ StepCap \/ AskModel \/ CallsCannotComplete \/ RefuseCall
         \/ ExecCall \/ StopNow \/ TransportFails
InLoop(A) == pc = "loop" /\ A /\ UNCHANGED <<expired, cancelled, runVars>>

RunFairness ==
  /\ WF_agentVars(Timed)
  /\ WF_agentVars("sigterm" \in cancelled /\ Untimed)
  /\ WF_agentVars(InLoop(Local))
  /\ WF_agentVars(CtxDone /\ InLoop(ModelFails))
  /\ WF_agentVars(LoopReturns \/ Verdict \/ Finish)
  /\ WF_agentVars(Expire)
  /\ WF_agentVars(expired /\ SigTerm)

FairRunSpec == RunSpec /\ RunFairness

(***************************************************************************)
(* Properties.                                                              *)
(***************************************************************************)

\* Whatever the model asked for, the next request is one its API accepts
\* (loop.go:299-372 appends a result for every call of a reply it goes on
\* from): the conversation starts with the user, each message with tool calls
\* is followed by exactly one result for each, and no result stands alone.
AnthropicAccepts(msgs) ==
  /\ msgs[1].role = "user" /\ Last(msgs).role = "user"
  /\ \A i \in 1..Len(msgs) - 1 :
       Ids(msgs[i].blocks, "tool_call") = Ids(msgs[i + 1].blocks, "tool_result")
OpenAIAccepts(msgs) ==
  LET Asked(i) == Ids(msgs[i].blocks, "tool_call")
      Told(i) == Ids(msgs[i].blocks, "tool_result")
  IN /\ msgs[1].role = "user" /\ Last(msgs).role # "assistant"
     /\ \A i \in DOMAIN msgs : \A k \in DOMAIN Asked(i) :
          i + k \in DOMAIN msgs /\ Told(i + k) = <<Asked(i)[k]>>
     /\ \A j \in DOMAIN msgs : Told(j) # <<>> =>
          \E i \in 1..j - 1 : j - i \in DOMAIN Asked(i) /\ Asked(i)[j - i] = Told(j)[1]
RequestsAccepted ==
  loop = "model" =>
    AnthropicAccepts(encodeAnthropicMessages(wireTurns)) /\ OpenAIAccepts(encodeOpenAIMessages(wireTurns))

\* The transcript, the ledger and the traffic file tell the same calls: the
\* ledger has one entry per result, in order (the evaluator judges by it), and
\* a traffic file that lacks one is said so in the ledger (agent.go:566-584).
CallOf(i) == CHOOSE k \in DOMAIN turns : turns[k].type = "tool_call" /\ turns[k].id = i
AccountsAgree ==
  LET results == Of("tool_result", turns) IN
  /\ Len(results) = Len(ledger)
  /\ \A k \in DOMAIN ledger : ledger[k].ok = results[k].ok /\ ledger[k].tool = turns[CallOf(results[k].id)].name
  /\ sink = "open" => traffic = ledger
  /\ pc = "exited" /\ state # "" /\ traffic # ledger
       => notes \cap {"traffic lost records", "no traffic"} # {}

VerdictHasCause ==
  /\ state = "aborted" => asked \/ ("sigterm" \in cancelled /\ ~late)
  /\ state = "succeeded" => passed = "pass" /\ Finished /\ ~observed
  /\ state = "failed" /\ loop = "returned" => ~observed

MoxyEnds == pc = "exited" => moxy \in {"none", "stopped"}

\* A run ends as it should. Its verdict has its cause (agent.go:398-415): aborted only
\* by a holder's record or by a SIGTERM that came before the brief's deadline, and
\* succeeded only when the loop finished by itself and the evaluator passed its ledger;
\* and its moxy does not outlive it (agent.go:308, and the stop on each failed start in
\* toolplane.go:100-123).
EndsWell == VerdictHasCause /\ MoxyEnds

\* Every run ends, whatever hangs (agent.go:182, and the unit's RuntimeMaxSec).
RunEnds == <>(pc = "exited")
=============================================================================

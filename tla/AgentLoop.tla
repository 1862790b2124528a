------------------------------ MODULE AgentLoop ------------------------------
(***************************************************************************)
(* jugglerloop.Run, the loop an agent's process runs: it sends the          *)
(* transcript to a model, appends the reply's turns, runs the reply's tool  *)
(* calls one after the other and sends the transcript again, until one of   *)
(* the ends.  A tool result is a turn, an entry of the ledger and a record  *)
(* of the traffic file at once.                                             *)
(***************************************************************************)
EXTENDS Naturals, FiniteSets, SequencesExt

CONSTANTS
  Tools,      \* the tool names a model may call, cannot_complete apart
  Allow,      \* brief.tools
  MaxSteps,   \* Config.MaxSteps: round trips of one run
  StopOnPass, \* Config.StopWhen is set
  MaxReply    \* bound: blocks of one reply

ASSUME LoopAssumption == MaxSteps \in Nat /\ MaxReply \in Nat /\ Allow \subseteq Tools /\ StopOnPass \in BOOLEAN

VARIABLES
  offered,    \* run.offered: the tools sent with every request
  turns,      \* the transcript
  ledger,     \* Ledger.Calls
  traffic,    \* the traffic file's records
  sink,       \* trafficSink: "open", "none" (nil) or "failed"
  steps,      \* Ledger.Steps
  pending,    \* the calls of the last reply not executed yet
  loop,       \* where Run stands
  end,        \* the EndReason, "" while the loop runs
  expired,    \* the wall clock has expired
  cancelled   \* who cancelled Run's ctx: SIGTERM, a holder's cancel

loopVars == <<offered, turns, ledger, traffic, sink, steps, pending, loop, end>>

CannotComplete == "cannot_complete"

toolsWithCannotComplete(tools) == tools \cup {CannotComplete}

CtxDone == expired \/ cancelled # {}

(***************************************************************************)
(* Turns.  The id of a call is the model's; a model never gives two calls   *)
(* the same one.                                                            *)
(***************************************************************************)
Text == [type |-> "text"]
ToolCall(i, n, ok) == [type |-> "tool_call", id |-> i, name |-> n, valid |-> ok]
ToolResult(i, ok) == [type |-> "tool_result", id |-> i, ok |-> ok]
Terminal(r) == [type |-> "terminal", reason |-> r]
Of(type, ts) ==
  FoldLeft(LAMBDA kept, t : IF t.type = type THEN Append(kept, t) ELSE kept, <<>>, ts)

\* A reply's blocks as DecodeResponse leaves them: texts and named calls; the
\* arguments may not be a JSON object (validateToolArgs).
Blocks == {Text} \cup {ToolCall(0, n, TRUE) : n \in toolsWithCannotComplete(Tools)}
          \cup {ToolCall(0, n, FALSE) : n \in Allow}
Replies == SeqOf(Blocks, MaxReply)
Numbered(reply) == [i \in DOMAIN reply |->
  IF reply[i].type = "text" THEN Text ELSE [reply[i] EXCEPT !.id = Len(turns) + i]]

(***************************************************************************)
(* What the model is sent: encodeAnthropicMessages and encodeOpenAIMessages *)
(* of the task followed by the transcript.                                  *)
(***************************************************************************)
Task == [type |-> "task"]
wireTurns == <<Task>> \o turns

Role(t) == IF t.type = "task" \/ t.type = "tool_result" THEN "user" ELSE "assistant"

appendBlock(msgs, t) ==
  IF msgs # <<>> /\ Last(msgs).role = Role(t)
  THEN [msgs EXCEPT ![Len(msgs)].blocks = Append(@, t)]
  ELSE Append(msgs, [role |-> Role(t), blocks |-> <<t>>])

encodeAnthropicMessages(ts) == FoldLeft(appendBlock, <<>>, ts)

OpenAIRole(t) == CASE t.type = "task" -> "user"
                   [] t.type = "tool_result" -> "tool"
                   [] OTHER -> "assistant"

appendMessage(msgs, t) ==
  IF OpenAIRole(t) = "assistant" /\ msgs # <<>> /\ Last(msgs).role = "assistant"
  THEN [msgs EXCEPT ![Len(msgs)].blocks = Append(@, t)]
  ELSE Append(msgs, [role |-> OpenAIRole(t), blocks |-> <<t>>])

encodeOpenAIMessages(ts) == FoldLeft(appendMessage, <<>>, ts)

Ids(blocks, type) == [i \in DOMAIN Of(type, blocks) |-> Of(type, blocks)[i].id]

(***************************************************************************)
(* The loop.                                                                *)
(***************************************************************************)
End(e) == end' = e /\ loop' = "ended"

LoopInit ==
  /\ turns = <<>> /\ ledger = <<>> /\ traffic = <<>>
  /\ steps = 0 /\ pending = <<>> /\ loop = "idle" /\ end = ""
  /\ expired = FALSE /\ cancelled = {}

\* The head of the loop: no call of the last reply is left.
Top == loop = "calls" /\ pending = <<>>

LoopTimedOut ==
  /\ Top /\ CtxDone
  /\ End("timeout")
  /\ UNCHANGED <<offered, turns, ledger, traffic, sink, steps, pending>>

Spent == steps >= MaxSteps

StepCap ==
  /\ Top /\ ~CtxDone /\ Spent
  /\ End("step_cap")
  /\ UNCHANGED <<offered, turns, ledger, traffic, sink, steps, pending>>

AskModel ==
  /\ Top /\ ~CtxDone /\ ~Spent
  /\ steps' = steps + 1 /\ loop' = "model"
  /\ UNCHANGED <<offered, turns, ledger, traffic, sink, pending, end>>

\* The reply's turns are appended; without a call among them the run ends.
ModelAnswers ==
  /\ loop = "model"
  /\ \E reply \in Replies, stop \in {"end_turn", "max_tokens"} :
       LET new == Numbered(reply)
           calls == Of("tool_call", new)
       IN /\ turns' = turns \o new
          /\ pending' = calls
          /\ IF calls = <<>> THEN End(stop) ELSE loop' = "calls" /\ end' = end
  /\ UNCHANGED <<offered, ledger, traffic, sink, steps>>

\* The request fails: the endpoint, its status, its body; or ctx cuts it.
ModelFails ==
  /\ loop = "model"
  /\ End(IF CtxDone THEN "timeout" ELSE "model_error")
  /\ UNCHANGED <<offered, turns, ledger, traffic, sink, steps, pending>>

ModelCut == CtxDone /\ ModelFails

\* Mutant: only the calls that worked reach the traffic file.
WrittenWhenOk(rec) == IF rec.ok THEN sink # "none" /\ traffic' = Append(traffic, rec) /\ sink' = sink
                      ELSE UNCHANGED <<traffic, sink>>

\* onTraffic: a nil sink drops the record, a failing write loses it.
Written(rec) ==
  \/ sink # "none" /\ traffic' = Append(traffic, rec) /\ sink' = sink
  \/ sink # "none" /\ traffic' = traffic /\ sink' = "failed"
  \/ sink = "none" /\ UNCHANGED <<traffic, sink>>

Result(c, ok) ==
  /\ turns' = Append(turns, ToolResult(c.id, ok))
  /\ ledger' = Append(ledger, [tool |-> c.name, ok |-> ok])
  /\ Written([tool |-> c.name, ok |-> ok])
  /\ pending' = Tail(pending)

CallsCannotComplete ==
  /\ loop = "calls" /\ pending # <<>> /\ Head(pending).name = CannotComplete
  /\ End("cannot_complete")
  /\ UNCHANGED <<offered, turns, ledger, traffic, sink, steps, pending>>

Callable(c) == c.name \in offered /\ c.valid

\* Mutant: a refused call is noted in the ledger and the model is not told.
RefuseQuietly ==
  /\ loop = "calls" /\ pending # <<>> /\ Head(pending).name # CannotComplete
  /\ ~Callable(Head(pending))
  /\ ledger' = Append(ledger, [tool |-> Head(pending).name, ok |-> FALSE])
  /\ pending' = Tail(pending)
  /\ UNCHANGED <<offered, turns, traffic, sink, steps, loop, end>>

\* A call of a tool that was not offered, or with unusable arguments: the
\* model is told, the executor is not called.
RefuseCall ==
  /\ loop = "calls" /\ pending # <<>> /\ Head(pending).name # CannotComplete
  /\ ~Callable(Head(pending))
  /\ Result(Head(pending), FALSE)
  /\ UNCHANGED <<offered, steps, loop, end>>

ExecCall ==
  /\ loop = "calls" /\ pending # <<>> /\ Head(pending).name # CannotComplete
  /\ Callable(Head(pending))
  /\ loop' = "exec"
  /\ UNCHANGED <<offered, turns, ledger, traffic, sink, steps, pending, end>>

\* Client.Call of what the tool plane does: an invalid-params error is a tool
\* error the model sees, any other failure one of the transport.
Answers == {"result", "is error", "invalid params", "rpc error", "too large", "no answer"}
CallOutcome(a) == CASE a = "result" -> "ok"
                    [] a \in {"is error", "invalid params"} -> "tool error"
                    [] OTHER -> "transport error"

ToolAnswers ==
  /\ loop = "exec"
  /\ \E a \in Answers :
       /\ CallOutcome(a) # "transport error"
       /\ Result(Head(pending), CallOutcome(a) = "ok")
       /\ loop' = IF CallOutcome(a) = "ok" /\ StopOnPass THEN "stop when" ELSE "calls"
  /\ UNCHANGED <<offered, steps, end>>

\* Mutant: a call is bounded neither by a timeout nor by ctx.
TransportHangs == FALSE /\ UNCHANGED loopVars

\* The call's own timeout, a lost upstream or a done ctx.
TransportFails ==
  /\ loop = "exec"
  /\ Result(Head(pending), FALSE)
  /\ End(IF CtxDone THEN "timeout" ELSE "tool_error")
  /\ UNCHANGED <<offered, steps>>

\* stopNow: an evaluation that fails is a note, never a stop.
StopNow ==
  /\ loop = "stop when"
  /\ \/ End("evaluator_pass")
     \/ loop' = "calls" /\ end' = end
  /\ UNCHANGED <<offered, turns, ledger, traffic, sink, steps, pending>>

LoopStep ==
  \/ LoopTimedOut \/ StepCap \/ AskModel \/ ModelAnswers \/ ModelFails
  \/ CallsCannotComplete \/ RefuseCall \/ ExecCall
  \/ ToolAnswers \/ TransportFails \/ StopNow
=============================================================================

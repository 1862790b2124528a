------------------------------- MODULE Scope -------------------------------
(* The agent scope as a whole: a confined launch and its unit, the monitors run for it in the      *)
(* frontend, the calls its unit makes to the endpoints, the hooks claude runs in it, over the      *)
(* transcript and the state files the unit binds, and the frontend's status file. These share no   *)
(* variable of the state, only the time the unit runs, so a behaviour follows one of them, chosen  *)
(* at the start.                                                                                   *)
EXTENDS AgentUnit, MonitorRelay, EndpointCalls, TranscriptHooks, PromptCounts, StatusFile

VARIABLE part

scopeVars == <<vars, relayVars, callVars, hookVars, promptVars, statusVars, part>>

\* An older transcript is given to a hook only: one in mid-response to the counter, one whose last turn
\* has no reply yet to the tee.
ScopeInit ==
    /\ part \in {"unit", "monitor", "calls", "cost", "tee", "prompts", "status"}
    /\ Init /\ RelayInit /\ CallsInit /\ HooksInit /\ PromptInit /\ StatusInit
    /\ part # "unit" => launch = CHOOSE l \in Launches : TRUE
    /\ part # "calls" => token = Unusable
    /\ transcript # <<>> => part = IF IsA(Len(transcript)) THEN "cost" ELSE "tee"

ScopeNext ==
    \/ part = "unit" /\ Next /\ UNCHANGED <<relayVars, callVars, hookVars, promptVars, statusVars, part>>
    \/ part = "monitor" /\ RelayNext /\ UNCHANGED <<vars, callVars, hookVars, promptVars, statusVars, part>>
    \/ part = "calls" /\ CallsNext /\ UNCHANGED <<vars, relayVars, hookVars, promptVars, statusVars, part>>
    \/ part = "cost" /\ CostNext /\ UNCHANGED <<vars, relayVars, callVars, promptVars, statusVars, part>>
    \/ part = "tee" /\ TeeNext /\ UNCHANGED <<vars, relayVars, callVars, promptVars, statusVars, part>>
    \/ part = "prompts" /\ PromptNext /\ UNCHANGED <<vars, relayVars, callVars, hookVars, statusVars, part>>
    \/ part = "status" /\ StatusNext /\ UNCHANGED <<vars, relayVars, callVars, hookVars, promptVars, part>>

ScopeSpec == ScopeInit /\ [][ScopeNext]_scopeVars /\ Fairness /\ ServersAnswer

\* What must hold of a unit once its provider runs, and of everything it reaches.
UnitIsContained == UnitContained /\ ReachIsBounded

\* The hooks, overlapping and killed anywhere, count each response and each prompt of the session once.
HooksCountOnce == TranscriptReadOnce /\ PromptsSettled
=============================================================================

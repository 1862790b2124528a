----------------------------- MODULE LaunchGates -----------------------------
(***************************************************************************)
(* What a launch of clown decides before it starts anything: which session *)
(* its provider args name, whether that session's confinement record and   *)
(* profile pin let it run, and what it may record.  Every operator here is *)
(* a function of the launch and of one reading of the sidecar f.           *)
(*                                                                         *)
(* Provider args are a sequence of [k, v]: the option, and the value it is *)
(* read to take, None for none.  Conversation ids (UUIDs) are in Sessions; *)
(* any other value of --resume is a search term.                           *)
(***************************************************************************)
EXTENDS SessionNames

CONSTANTS Sessions,     \* the UUIDs of conversations
          Refused       \* a gate's answer

dontAsk == "dontAsk"

isUUID(v) == v \in Sessions

\* Where the args have one of the options ks.
Of(args, ks) == {n \in DOMAIN args : args[n].k \in ks}

First(args, ks) == args[CHOOSE n \in Of(args, ks) : \A m \in Of(args, ks) : n <= m]

Values(args, ks) == {args[n].v : n \in Of(args, ks)} \ {None}

claudeFlagPresent(args, k) == Of(args, {k}) # {}

\* --resume v, -r v, --resume=v and -rv alike; a cluster that carries an r takes no value that can be read.
resumeOccurrences(args) == Of(args, {"resume", "cluster"})

claudeResumeValue(args) ==
    IF resumeOccurrences(args) = {} \/ First(args, {"resume", "cluster"}).k = "cluster" THEN None
    ELSE First(args, {"resume", "cluster"}).v

claudeResumeID(args) == IF isUUID(claudeResumeValue(args)) THEN claudeResumeValue(args) ELSE None

claudeSessionIDArg(args) == IF Of(args, {"session-id"}) = {} THEN None ELSE First(args, {"session-id"}).v

isBareResume(args) == resumeOccurrences(args) # {} /\ claudeResumeValue(args) = None

unseenResumeForm(args) ==
    \/ claudeFlagPresent(args, "continue")
    \/ claudeFlagPresent(args, "from-pr")
    \/ resumeOccurrences(args) # {} /\ claudeResumeID(args) = None

\* An option that is gone: nothing reads it.
Dropped == [k |-> "dropped", v |-> None]

\* withoutClaudeSessionArgs: what a relaunch keeps of the args before it adds its own --resume.
withoutClaudeSessionArgs(args) ==
    [n \in DOMAIN args |-> IF args[n].k \in {"resume", "session-id"} THEN Dropped ELSE args[n]]

\* Which id the session's channel, its conversation and the resume hint get; minted is a fresh one.
decideClaudeSession(args, key, minted) ==
    LET adopt(id) == [args |-> args, key |-> id, hint |-> id]
        inject(id, k) == [args |-> <<[k |-> "session-id", v |-> id]>> \o args, key |-> k, hint |-> id]
        none == [args |-> args, key |-> key, hint |-> None]
    IN  IF claudeFlagPresent(args, "print") \/ claudeFlagPresent(args, "continue") THEN none
        ELSE IF claudeSessionIDArg(args) # None THEN adopt(claudeSessionIDArg(args))
        ELSE IF isBareResume(args) THEN none
        ELSE IF claudeResumeValue(args) # None THEN adopt(claudeResumeValue(args))
        ELSE IF isUUID(key) THEN inject(key, key)
        ELSE inject(minted, IF key = None THEN minted ELSE key)

-----------------------------------------------------------------------------
(* A launch l: its flags, its environment and the ids decided for it.      *)

lineageRecordIDs(l) ==
    LET claude == l.provider = "claude"
    IN  (IF l.provided \/ (claude /\ l.hint # None /\ l.hint = l.key) THEN {l.key} ELSE {})
        \cup (IF claude /\ l.hint # None THEN {l.hint} ELSE {})

\* A plausible bug: the ids the launch's args name are left out, as a naked launch has no others.
decidedIDs(l) == lineageRecordIDs(l)

launchScopeIDs(l) ==
    (lineageRecordIDs(l) \cup Values(l.args, {"resume", "session-id"})) \ {None}

confinedConversationID(l) ==
    IF claudeSessionIDArg(l.args) # None THEN claudeSessionIDArg(l.args)
    ELSE IF claudeResumeValue(l.args) # None THEN claudeResumeValue(l.args)
    ELSE l.hint

\* A term equal to the key this launch was given is that session's own id when it has a record.
recordedLaunchKey(l, f) ==
    IF /\ l.launchKey # None
       /\ claudeResumeValue(l.args) = l.launchKey
       /\ ~isUUID(l.launchKey)
       /\ Obscured(f, l.launchKey) \/ HasScope(f, l.launchKey)
    THEN l.launchKey ELSE None

Uncheckable(l, f) ==
    \/ claudeFlagPresent(l.args, "cluster")
    \/ /\ claudeResumeValue(l.args) # None
       /\ ~isUUID(claudeResumeValue(l.args))
       /\ claudeResumeValue(l.args) # recordedLaunchKey(l, f)

conversationRefsError(l, f) ==
    \/ Cardinality(Values(l.args, {"resume"})) > 1
    \/ Cardinality(Values(l.args, {"session-id"})) > 1
    \/ Uncheckable(l, f) /\ AnyAgentScope(f)

ScopeRecords(l, f) == {AgentScopeRecordOf(f, id) : id \in {j \in launchScopeIDs(l) : HasScope(f, j)}}

ScopesDisagree(recs) ==
    \E r, s \in recs : r.spec # s.spec \/ (r.boundary # s.boundary /\ None \notin {r.boundary, s.boundary})

\* The spec the launch runs under, None for unconfined; load is the boundary each spec has now, None when
\* it does not load.
agentScopeForLaunch(l, f, load) ==
    LET recs == ScopeRecords(l, f)
        spec == (CHOOSE r \in recs : TRUE).spec
        known == {r.boundary : r \in recs} \ {None}
    IN  IF \E id \in launchScopeIDs(l) : Obscured(f, id) THEN Refused
        ELSE IF recs = {} THEN l.scope
        ELSE IF \/ ScopesDisagree(recs)
                \/ l.scope \notin {None, spec}
                \/ load[spec] = None
                \/ known # {} /\ load[spec] \notin known
        THEN Refused ELSE spec

\* The confinement gate's refusals once the spec is known.
CannotHonour(l, recorded, spec) ==
    \/ recorded /\ (l.naked \/ l.provider # "claude")
    \/ (recorded \/ spec # None) /\ (claudeFlagPresent(l.args, "fork") \/ claudeFlagPresent(l.args, "from-pr"))
    \/ spec # None /\ l.provider = "claude" /\ ~l.naked /\ confinedConversationID(l) = None

ConfinementVerdict(l, f, load) ==
    IF conversationRefsError(l, f) THEN Refused
    ELSE LET spec == agentScopeForLaunch(l, f, load)
         IN  IF \/ spec = Refused
                \/ spec # None /\ load[spec] = None
                \/ CannotHonour(l, ScopeRecords(l, f) # {}, spec)
             THEN Refused ELSE spec

\* A launch the unattended marker asks for but cannot put in dontAsk.
unattendedLaunchError(l) ==
    \/ l.unattended \notin {None, "1"}
    \/ /\ l.unattended = "1"
       /\ \/ l.provider # "claude"
          \/ l.naked
          \/ Of(l.args, {"skip-permissions", "settings"}) # {}
          \/ \E i \in DOMAIN l.args : l.args[i].k = "permission-mode" /\ l.args[i].v # dontAsk

-----------------------------------------------------------------------------
(* The profile gate.                                                       *)

gatedSessionID(l, f) ==
    IF l.provider # "claude" THEN None
    ELSE IF claudeResumeID(l.args) # None THEN claudeResumeID(l.args)
    ELSE LET id == claudeSessionIDArg(l.args)
         IN  IF id # None /\ ProfileOf(f, id) # None THEN id ELSE None

\* A profile that was asked for: not one restored from the record, nor one an outer clown passed on.
Requested(l) == IF l.fromRecord \/ l.inner THEN None ELSE l.asked

NoPin == [ok |-> TRUE, approved |-> FALSE, early |-> None]
No    == [ok |-> FALSE, approved |-> FALSE, early |-> None]

\* A plausible bug: an approved pin is left to the records of the inner clown, which the gate then refuses.
ApprovalAlone(l, launch, id) ==
    IF launch = None \/ launch.digest = Unpinnable \/ launch.digest # l.digest THEN No
    ELSE [ok |-> TRUE, approved |-> TRUE, early |-> None]

\* What the launcher's digest approves: exactly the profile the launch applies.
Approval(l, launch, id) ==
    IF launch = None \/ launch.digest = Unpinnable \/ launch.digest # l.digest THEN No
    ELSE [ok |-> TRUE, approved |-> TRUE, early |-> IF id # None THEN launch ELSE None]

\* A session without a pin takes the first profile it is launched with, unless that was asked for.
FirstUse(l, launch) ==
    IF l.profileEnv \/ Requested(l) # None THEN No
    ELSE [NoPin EXCEPT !.early = IF launch # None /\ launch.digest # Unpinnable THEN launch ELSE None]

checkLaunchProfile(l, launch, f) ==
    LET id  == gatedSessionID(l, f)
        pin == ProfileOf(f, id)
    IN  IF \/ l.provider = "claude" /\ unseenResumeForm(l.args) /\ launch # None
           \/ l.digestSession # None /\ l.digestSession # id
        THEN No
        ELSE IF l.digest # None THEN Approval(l, launch, id)
        ELSE IF id = None THEN NoPin
        ELSE IF pin = Unreadable THEN No
        ELSE IF pin = None THEN FirstUse(l, launch)
        ELSE IF launch = pin /\ pin.digest # Unpinnable THEN NoPin ELSE No

\* An approval bound to one session covers its record alone.
approvesRecordFor(l, decision, id) ==
    decision.approved /\ (l.digestSession = None \/ l.digestSession = id)

\* A plausible bug: every record carries the launch's pin.
launchPin(id, launch, approved, f) == launch

\* The pin the launch's record for id carries: never one that replaces another without approval.
launchRecordFor(id, launch, approved, f) ==
    IF launch # None /\ (approved \/ ProfileOf(f, id) \in {None, launch}) THEN launch ELSE None

-----------------------------------------------------------------------------
(* clown resume.                                                           *)

\* The profile a resumed session is launched with: Refused when its pin no longer holds.  now is the
\* digest each profile resolves to.
resumeProfile(id, approved, f, now) ==
    LET pin == ProfileOf(f, id)
    IN  IF pin = None THEN None
        ELSE IF pin = Unreadable THEN Refused
        ELSE IF approved THEN pin.name
        ELSE IF pin.digest = Unpinnable \/ now[pin.name] # pin.digest THEN Refused
        ELSE pin.name

\* The person at the terminal may be asked to re-pin the session to what the profile is now.
pinOverrideOffered(l, id, f, now) ==
    LET pin == ProfileOf(f, id)
    IN  /\ pin \notin {None, Unreadable}
        /\ now[pin.name] \notin {None, Unpinnable}
        /\ ~l.yes /\ l.tty /\ l.digest = None /\ l.unattended = None
        /\ isUUID(id)

\* The default profile is not applied to a session it cannot be pinned to.
resumeDefaultSkipReason(id, provider) == ~isUUID(id) \/ provider # "claude"

=============================================================================

------------------------------- MODULE Session -------------------------------
(***************************************************************************)
(* clown's launch pipeline, from the command line to the provider, for     *)
(* launches that run beside each other over one session-names.jsonl, one   *)
(* profile registry and the agent-scope specs.                             *)
(*                                                                         *)
(* A launch goes through resume, resolve, the confinement gate, the        *)
(* profile gate, its name, the [attach] wrap (it then runs the same stages *)
(* again as the inner clown, while the outer waits), its presence and its  *)
(* records; a restart stops the provider, and the frontend execs itself    *)
(* into the same stages.  Each stage reads the shared state once and       *)
(* writes one record at a time.                                            *)
(***************************************************************************)
EXTENDS LaunchGates

CONSTANTS Launches,       \* launches; a launch is also the UUID it mints
          Invocations,    \* what each launch may be started with
          Starts,         \* the session-names.jsonl a behaviour may begin with
          Default,        \* the clownfile's profile, or the build's
          Digests,        \* what a profile's definition may become: a digest, or None
          Boundaries,     \* what a spec may become: a boundary, or None
          InitialRegistry, InitialSpecs,
          MaxTroubles,    \* edits, closings and failed writes, together
          MaxRestarts     \* the restarts each launch is asked for

VARIABLES registry,       \* [def, vouched]: each profile's definition, and whether a launcher could vouch for it
          specs,          \* the boundary each spec sets, None when it does not load
          closed,         \* sessions spinclass has closed
          launches,       \* each launch's progress
          ran,            \* history: what every provider ran as
          edits, faults

vars == <<sidecar, midLine, registry, specs, closed, launches, ran, edits, faults>>

ASSUME LaunchesMintIds == Launches \subseteq Sessions /\ None \notin Sessions

IsSequence(s) == s \in Seq({s[n] : n \in DOMAIN s})

\* The resume hint is decided by clown, never given to it, and only a wrap starts an inner clown.
ASSUME InvocationsAssumption ==
    \A i \in Launches : \A inv \in Invocations[i] :
       /\ {"args", "scope", "hint", "provider", "naked", "key", "provided", "launchKey", "inner", "asked", "explicit",
           "resumeDefault", "fromRecord", "profileEnv", "digest", "digestSession", "unattended"} \subseteq DOMAIN inv.l
       /\ IsSequence(inv.l.args)
       /\ inv.l.hint = None
       /\ ~inv.l.inner

\* A behaviour begins with a file of whole records.
ASSUME StartsAssumption ==
    \A f \in Starts : IsSequence(f) /\ \A n \in DOMAIN f : f[n] = Written(f[n].rec)

Profiles == DOMAIN InitialRegistry.def

NoLaunch ==
    [stage |-> "idle", l |-> None, wraps |-> FALSE, applied |-> None, launch |-> None, approved |-> FALSE,
     boundary |-> None, name |-> None, present |-> FALSE, relaunched |-> FALSE,
     writes |-> {}, ids |-> {}, must |-> FALSE, next |-> None, sawMidLine |-> FALSE, seen |-> 0,
     restarts |-> 0, calm |-> FALSE, refusedBy |-> None, since |-> 0, before |-> {}, pinned |-> None,
     muxName |-> None]

Init ==
    /\ sidecar \in Starts
    /\ midLine = FALSE
    /\ registry = InitialRegistry
    /\ specs = InitialSpecs
    /\ closed = {}
    /\ launches = [i \in Launches |-> NoLaunch]
    /\ ran = {[session |-> sidecar[n].rec.session, scope |-> sidecar[n].rec.scope, boundary |-> sidecar[n].rec.boundary] :
                n \in DOMAIN sidecar}
    /\ edits = 0
    /\ faults = 0

-----------------------------------------------------------------------------

Becomes(i, r) == launches' = [launches EXCEPT ![i] = r]

Goto(i, stage) == Becomes(i, [launches[i] EXCEPT !.stage = stage])

\* What is left of a launch that was refused: whether a gate had let it through before, and nothing changed since.
RefusedBy(i, by) ==
    [NoLaunch EXCEPT !.stage = "refused", !.refusedBy = by, !.relaunched = launches[i].relaunched,
                     !.calm = launches[i].calm /\ (launches[i].l.inner \/ launches[i].relaunched)]

Refuse(i, by) == Becomes(i, RefusedBy(i, by))

End(i) == Becomes(i, [NoLaunch EXCEPT !.stage = "done"])

Env == <<registry, specs, closed, edits, faults>>
File == <<sidecar, midLine>>

\* pkg/profilelookup's word for a profile: its digest, or that it cannot be vouched for.
Vouched(name) == IF registry.vouched /\ registry.def[name] # None THEN registry.def[name] ELSE Unpinnable

\* What resolving a profile's name gives clown resume: nothing, when it cannot be vouched for.
Resolvable == [name \in Profiles |-> IF Vouched(name) = Unpinnable THEN None ELSE Vouched(name)]

launchProfilePin(p) == IF p = None THEN None ELSE [name |-> p.name, digest |-> Vouched(p.name)]

launchProfileName(l) ==
    IF l.asked # None THEN l.asked
    ELSE IF l.explicit /\ ~l.resumeDefault THEN None
    ELSE Default

\* The session a provider runs: the conversation claude was given, None when claude picks it.
Conversation(l) == IF claudeResumeID(l.args) # None THEN claudeResumeID(l.args) ELSE l.hint

\* Launch i, now r, has recs to write before it goes on to next.
Writing(i, recs, must, next, r) ==
    Becomes(i, [r EXCEPT !.stage = IF recs = {} THEN next ELSE "writing",
                         !.writes = recs, !.must = must, !.next = next,
                         !.sawMidLine = recs # {} /\ midLine, !.seen = IF recs = {} THEN 0 ELSE Len(sidecar)])

\* What another launch writes that this one's gates read.
Touches(rec, r) ==
    /\ r.stage \notin {"idle", "done", "refused"}
    /\ \/ rec.scope # None
       \/ rec.session \in {r.l.key, r.l.hint} \cup Values(r.l.args, {"resume", "session-id"})

Undisturbed(ls, i, rec) == [j \in Launches |-> IF Touches(rec, ls[j]) /\ j # i THEN [ls[j] EXCEPT !.calm = FALSE] ELSE ls[j]]

Disturbed == [j \in Launches |-> [launches[j] EXCEPT !.calm = FALSE]]

-----------------------------------------------------------------------------
(* Starting.                                                               *)

StartDirect(i) ==
    /\ launches[i].stage = "idle"
    /\ \E inv \in Invocations[i] :
         /\ inv.resume = None
         /\ Becomes(i, [launches[i] EXCEPT !.stage = "resolve", !.l = inv.l, !.wraps = inv.wraps])
    /\ UNCHANGED <<Env, File, ran>>

resumeLaunchFlags(l, s, recorded, confirmed) ==
    [l EXCEPT !.args = Append(@, [k |-> "resume", v |-> s]),
              !.explicit = TRUE,
              !.fromRecord = l.asked = None /\ recorded # None,
              !.asked = IF l.asked # None THEN l.asked ELSE recorded,
              !.resumeDefault = l.asked = None /\ recorded = None,
              !.digest = IF confirmed # None THEN confirmed ELSE @,
              !.digestSession = IF confirmed # None THEN s ELSE @]

\* The session is live: clown says how to attach to it and starts nothing.
ResumeFindsLive(i) ==
    /\ launches[i].stage = "idle"
    /\ \E inv \in Invocations[i] : inv.resume # None /\ inv.byKey
    /\ \E j \in Launches : launches[j].present
    /\ End(i)
    /\ UNCHANGED <<Env, File, ran>>

\* launchResume: the recorded profile, or the person's confirmation of what it has become.
StartResume(i) ==
    /\ launches[i].stage = "idle"
    /\ \E inv \in Invocations[i] :
         LET l == inv.l
             s == inv.resume
             recorded == IF l.asked # None THEN None ELSE resumeProfile(s, l.digest # None, sidecar, Resolvable)
             starts(r, c) == Becomes(i, [launches[i] EXCEPT !.stage = "resolve", !.wraps = inv.wraps,
                                                            !.l = resumeLaunchFlags(l, s, r, c)])
         IN  /\ s # None
             /\ inv.byKey => \A j \in Launches : ~launches[j].present
             /\ \/ recorded # Refused /\ starts(recorded, None)
                \/ recorded = Refused /\ End(i)
                \/ /\ recorded = Refused
                   /\ pinOverrideOffered(l, s, sidecar, Resolvable)
                   /\ LET name == ProfileOf(sidecar, s).name IN starts(name, Resolvable[name])
    /\ UNCHANGED <<Env, File, ran>>

-----------------------------------------------------------------------------
(* runWithFlags.                                                           *)

\* The profile of that name as it is now; Refused when it does not load.
Profile(name) ==
    IF name = None THEN None
    ELSE IF registry.def[name] = None THEN Refused
    ELSE [name |-> name, digest |-> registry.def[name]]

\* The profile a launch applies is the definition it reads here.
Applied(l) ==
    IF l.resumeDefault /\ resumeDefaultSkipReason(claudeResumeValue(l.args), "claude") THEN None
    ELSE Profile(launchProfileName(l))

Identified(i, l) ==
    IF l.provider = "claude" /\ ~l.naked
    THEN LET d == decideClaudeSession(l.args, IF l.key = None THEN i ELSE l.key, i)
         IN  [l EXCEPT !.args = d.args, !.key = d.key, !.hint = d.hint]
    ELSE [l EXCEPT !.key = IF @ = None THEN i ELSE @]

Resolve(i) ==
    LET l == launches[i].l
        applied == Applied(l)
    IN  /\ launches[i].stage = "resolve"
        /\ IF applied = Refused \/ unattendedLaunchError(l) \/ (l.scope # None /\ l.naked)
           THEN Refuse(i, "resolve")
           ELSE Becomes(i, [launches[i] EXCEPT !.stage = "confine", !.applied = applied, !.since = edits,
                                               !.l = Identified(i, l),
                                               !.calm = @ \/ ~(l.inner \/ launches[i].relaunched)])
        /\ UNCHANGED <<Env, File, ran>>

ConfinedIds(l) == (launchScopeIDs(l) \cup {confinedConversationID(l)}) \ {None}

\* Two launches of a session that were both checked before either was recorded leave two words on it.
Contested(id) ==
    \E m, n \in Telling(sidecar, id, "scope") :
        LET r == sidecar[m].rec
            q == sidecar[n].rec
        IN  r.scope # q.scope \/ (r.boundary # q.boundary /\ None \notin {r.boundary, q.boundary})

\* What session id ran confined as, as long as the file says one thing of it.
RanConfined(id) == {f \in ran : f.session = id /\ id # None /\ f.scope # None /\ ~Contested(id)}

Wraps(i) == launches[i].wraps /\ ~launches[i].l.inner

\* A confined launch that its inner clown is refused once the outer has recorded it: no key ties the search
\* term or the cluster it resumes by to that record, and no other provider runs confined.
OwnRecordRefuses(l) ==
    \/ l.provider # "claude"
    \/ claudeFlagPresent(l.args, "cluster")
    \/ claudeResumeValue(l.args) \notin {None} \cup Sessions \cup (IF l.launchKey = None THEN {} ELSE {l.key})

\* The confinement gate; a confined launch is recorded before anything starts, or refused.
Confine(i) ==
    LET l == launches[i].l
        spec == ConfinementVerdict(l, sidecar, specs)
        recs == IF spec \in {None, Refused} THEN {}
                ELSE {[Blank(id) EXCEPT !.scope = spec, !.boundary = specs[spec]] : id \in ConfinedIds(l)}
    IN  /\ launches[i].stage = "confine"
        /\ IF spec = Refused
           THEN Refuse(i, "confinement")
           ELSE Writing(i, recs, TRUE, "gate",
                        [launches[i] EXCEPT !.l = [l EXCEPT !.scope = spec],
                                            !.boundary = IF spec = None THEN None ELSE specs[spec],
                                            !.before = RanConfined(Conversation(l)),
                                            !.calm = @ /\ ~(Wraps(i) /\ spec # None /\ OwnRecordRefuses(l))])
        /\ UNCHANGED <<Env, File, ran>>

\* The profile gate; an approved or first pin is recorded before the wrap, or the launch refused.
Gate(i) ==
    LET l == launches[i].l
        launch == launchProfilePin(launches[i].applied)
        d == checkLaunchProfile(l, launch, sidecar)
        id == gatedSessionID(l, sidecar)
        recs == IF d.early = None THEN {} ELSE {[Blank(id) EXCEPT !.pin = d.early]}
    IN  /\ launches[i].stage = "gate"
        /\ IF ~d.ok
           THEN Refuse(i, "profile")
           ELSE Writing(i, recs, TRUE, "name",
                        [launches[i] EXCEPT
                           !.launch = launch, !.approved = d.approved,
                           !.pinned = IF Conversation(l) = None THEN None ELSE ProfileOf(sidecar, Conversation(l))])
        /\ UNCHANGED <<Env, File, ran>>

LiveNames == {launches[j].name : j \in {k \in Launches : launches[k].present}}

\* The outer's name is inherited; else the session's own name, else one that no live session has registered.
resolveClownName(i) ==
    LET bound == NameOf(sidecar, launches[i].l.key)
    IN  IF launches[i].l.naked THEN None
        ELSE IF launches[i].l.inner /\ launches[i].name # None THEN launches[i].name
        ELSE IF bound # None THEN bound
        ELSE Allocate(LiveNames)

\* What an [attach] wrap or a restart launches: the resolved flags, without the launcher's approval.
reexecArgv(l, applied) ==
    [l EXCEPT !.explicit = TRUE, !.resumeDefault = FALSE, !.fromRecord = FALSE,
              !.asked = IF applied = None THEN None ELSE applied.name,
              !.profileEnv = FALSE, !.digest = None, !.digestSession = None]

\* The inner clown's flags: the key it is pinned to is the one it was given, if the outer was given one.
Inner(l, applied) ==
    [reexecArgv(l, applied) EXCEPT !.inner = TRUE, !.launchKey = IF @ = None THEN None ELSE l.key]

\* The name, a spawn's brief, and the [attach] wrap: the inner clown starts over, with the key pinned.
Name(i) ==
    LET l == launches[i].l
        recs == IF l.spawn THEN {[Blank(l.key) EXCEPT !.brief = "brief"]} ELSE {}
    IN  /\ launches[i].stage = "name"
        /\ Writing(i, recs, FALSE, IF Wraps(i) THEN "resolve" ELSE "enter",
                   [launches[i] EXCEPT
                      !.name = resolveClownName(i),
                      !.l = IF Wraps(i) THEN Inner(l, launches[i].applied) ELSE l,
                      !.muxName = IF Wraps(i) THEN l.key ELSE @])
        /\ UNCHANGED <<Env, File, ran>>

\* spinclass's word on a session, which may be that it does not know.
Peek(l) == {"unknown", IF l.key \in closed THEN "closed" ELSE "live"}

\* The first identity side effects: a relaunch asks about its session once more, then presence is registered.
Enter(i) ==
    LET l == launches[i].l
        ids == lineageRecordIDs(l) \cup (IF l.scope = None THEN {} ELSE {confinedConversationID(l)})
    IN  /\ launches[i].stage = "enter"
        /\ \E state \in Peek(l) :
             IF launches[i].relaunched /\ state = "closed"
             THEN End(i)
             ELSE IF l.naked THEN Goto(i, "start")
             ELSE Becomes(i, [launches[i] EXCEPT !.stage = "record", !.present = TRUE, !.ids = ids])
        /\ UNCHANGED <<Env, File, ran>>

\* Each of the launch's ids gets one record; its pin is left out unless the session has none, this one, or
\* the launcher approved it.
RecordLaunch(i) ==
    LET r == launches[i]
        base(id) == [Blank(id) EXCEPT !.name = r.name, !.scope = r.l.scope, !.boundary = r.boundary]
        approved(id) == approvesRecordFor(r.l, [approved |-> r.approved], id)
        pin(id) == launchRecordFor(id, r.launch, approved(id), sidecar)
    IN  /\ r.stage = "record"
        /\ IF r.ids = {}
           THEN Goto(i, "start")
           ELSE \E id \in r.ids : Writing(i, {[base(id) EXCEPT !.pin = pin(id)]}, r.l.scope # None, "record",
                                          [r EXCEPT !.ids = @ \ {id}])
        /\ UNCHANGED <<Env, File, ran>>

\* Only claude runs confined, and the unit's own read of the spec must match what the gate checked; then the provider runs.
Run(i) ==
    LET r == launches[i]
        cannot == r.l.scope # None /\ (specs[r.l.scope] # r.boundary \/ r.l.provider # "claude")
        facts == [session |-> Conversation(r.l), scope |-> r.l.scope, boundary |-> r.boundary]
    IN  /\ r.stage = "start"
        /\ IF cannot THEN Refuse(i, "confinement") ELSE Goto(i, "running")
        /\ ran' = IF cannot THEN ran ELSE ran \cup {facts}
        /\ UNCHANGED <<Env, File>>

ProviderExits(i) ==
    /\ launches[i].stage = "running"
    /\ End(i)
    /\ UNCHANGED <<Env, File, ran>>

-----------------------------------------------------------------------------
(* Writing a record.                                                       *)

\* The launch once rec is behind it: with its last record it goes on to its next stage.
Behind(r, rec) ==
    IF r.writes = {rec} THEN [r EXCEPT !.writes = {}, !.stage = r.next, !.sawMidLine = FALSE, !.seen = 0]
    ELSE [r EXCEPT !.writes = @ \ {rec}]

Record(i) ==
    LET r == launches[i]
    IN  /\ r.stage = "writing"
        /\ \E rec \in r.writes, saw \in {r.sawMidLine, midLine} :
             IF SaysNothing(rec)
             THEN launches' = [launches EXCEPT ![i] = Behind(r, rec)] /\ UNCHANGED File
             ELSE /\ sidecar' = Appended(Written(rec), saw)
                  /\ midLine' = FALSE
                  /\ launches' = [Undisturbed(launches, i, rec) EXCEPT ![i] = Behind(r, rec)]
        /\ UNCHANGED <<Env, ran>>

\* A write that fails: nothing, a part of the record, or all of it but the newline is in the file.  A record
\* that must be there refuses the launch; the writer may also have died of it.
RecordFails(i) ==
    LET r == launches[i]
        goesOn == [r EXCEPT !.writes = {}, !.stage = r.next, !.calm = FALSE, !.sawMidLine = FALSE, !.seen = 0]
        stops == [NoLaunch EXCEPT !.stage = "refused", !.refusedBy = "record"]
        after == IF r.must THEN {stops} ELSE {goesOn, stops}
    IN  /\ r.stage = "writing"
        /\ edits + faults < MaxTroubles
        /\ faults' = faults + 1
        /\ \E rec \in r.writes, then \in after :
             /\ ~SaysNothing(rec)
             /\ launches' = [Disturbed EXCEPT ![i] = then]
             /\ \/ UNCHANGED File
                \/ \E line \in {Written(rec)} \cup {Torn(rec, keys) : keys \in Cuts(rec)} :
                     /\ sidecar' = Appended(line, midLine)
                     /\ midLine' = TRUE
        /\ UNCHANGED <<registry, specs, closed, edits, ran>>

-----------------------------------------------------------------------------
(* A restart, once asked for and granted.                                  *)

restartArmed(l) == l.provider = "claude" /\ ~l.naked /\ l.hint = l.key /\ l.key # None

Relaunched(r) ==
    [reexecArgv(r.l, r.applied) EXCEPT
       !.args = Append(withoutClaudeSessionArgs(r.l.args), [k |-> "resume", v |-> r.l.key]),
       !.provided = TRUE,
       !.key = IF r.l.inner THEN r.muxName ELSE r.l.key,
       !.launchKey = IF r.l.inner THEN r.muxName ELSE r.l.key]

\* The relaunch's profile gate, asked while the provider still runs: the profile as it is now against the pin.
RestartChecked(i) ==
    LET l == Relaunched(launches[i])
        now == Profile(l.asked)
    IN  now # Refused /\ checkLaunchProfile(l, launchProfilePin(now), sidecar).ok

\* The gate lets the restart through and the provider is stopped.
Restart(i) ==
    /\ launches[i].stage = "running"
    /\ launches[i].restarts < MaxRestarts[i]
    /\ restartArmed(launches[i].l)
    /\ RestartChecked(i)
    /\ Becomes(i, [launches[i] EXCEPT !.stage = "stopped", !.restarts = @ + 1, !.calm = TRUE])
    /\ UNCHANGED <<Env, File, ran>>

\* A live serve socket, no clown on PATH, a closed session or a removed worktree: the session is not brought back.
RelaunchGivenUp(i) ==
    /\ launches[i].stage = "stopped"
    /\ End(i)
    /\ UNCHANGED <<Env, File, ran>>

Relaunch(i) ==
    /\ launches[i].stage = "stopped"
    /\ \E state \in Peek(launches[i].l) : state # "closed"
    /\ Becomes(i, [launches[i] EXCEPT !.stage = "resolve", !.l = Relaunched(launches[i]), !.relaunched = TRUE])
    /\ UNCHANGED <<Env, File, ran>>

-----------------------------------------------------------------------------
(* Other actors: whoever edits profiles.toml and the specs, and spinclass. *)

EditRegistry ==
    /\ edits + faults < MaxTroubles
    /\ \/ \E name \in Profiles, d \in Digests :
            d # registry.def[name] /\ registry' = [registry EXCEPT !.def[name] = d]
       \/ registry' = [registry EXCEPT !.vouched = ~@]
    /\ edits' = edits + 1
    /\ launches' = Disturbed
    /\ UNCHANGED <<File, specs, closed, faults, ran>>

EditSpec ==
    /\ edits + faults < MaxTroubles
    /\ \E s \in DOMAIN specs, b \in Boundaries : b # specs[s] /\ specs' = [specs EXCEPT ![s] = b]
    /\ edits' = edits + 1
    /\ launches' = Disturbed
    /\ UNCHANGED <<File, registry, closed, faults, ran>>

CloseSession ==
    /\ edits + faults < MaxTroubles
    /\ \E i \in Launches : launches[i].stage = "stopped" /\ closed' = closed \cup {launches[i].l.key}
    /\ edits' = edits + 1
    /\ UNCHANGED <<File, registry, specs, launches, faults, ran>>

AllEnded == \A i \in Launches : launches[i].stage \in {"done", "refused"}

Terminated == AllEnded /\ UNCHANGED vars

LaunchStep(i) ==
    \/ StartDirect(i) \/ ResumeFindsLive(i) \/ StartResume(i)
    \/ Resolve(i) \/ Confine(i) \/ Gate(i) \/ Name(i) \/ Enter(i) \/ RecordLaunch(i)
    \/ Run(i) \/ ProviderExits(i)
    \/ Record(i) \/ RecordFails(i)
    \/ Restart(i) \/ RelaunchGivenUp(i) \/ Relaunch(i)

Next == (\E i \in Launches : LaunchStep(i)) \/ EditRegistry \/ EditSpec \/ CloseSession \/ Terminated

Spec == Init /\ [][Next]_vars

-----------------------------------------------------------------------------

Running(i) == launches[i].stage = "running"

\* A session that ran confined before a launch was checked runs under the same spec and the same boundary,
\* unless the file already said two things of it (the gate then goes by the last).
ConfinedStaysConfined ==
    \A i \in Launches : Running(i) =>
        \A f \in launches[i].before :
            /\ launches[i].l.scope = f.scope
            /\ f.boundary \in {None, launches[i].boundary}

PinOf(n, s) == ProfileOf(SubSeq(sidecar, 1, n), s)

\* Launch i may give session s another pin than p: it was approved, or p was not there when it looked.
MayRepin(i, s, p) ==
    /\ launches[i].stage = "writing"
    /\ \E rec \in launches[i].writes : rec.session = s /\ rec.pin # None
    /\ launches[i].approved \/ PinOf(launches[i].seen, s) # p

\* A session keeps its pin and runs what it is pinned to.  A recorded pin is replaced only by a launch that
\* was approved for it, or that read the file before the pin was there; and a provider starts on a pinned
\* session only under the definition pinned, unless approved or unless the registry was edited meanwhile.
PinStands ==
    [][/\ sidecar' # sidecar =>
              \A s \in Sessions :
                 LET p == ProfileOf(sidecar, s)
                     q == ProfileOf(sidecar', s)
                 IN  p \notin {None, Unreadable, q} /\ q # Unreadable => \E i \in Launches : MayRepin(i, s, p)
       /\ \A i \in Launches :
              LET r == launches[i] IN
              /\ ~Running(i) /\ Running(i)'
              /\ r.l.provider = "claude" /\ Conversation(r.l) \in Sessions /\ ~r.approved
              /\ r.pinned # None /\ r.since = edits
              => r.applied = r.pinned]_vars

\* The gates agree: an inner clown is not refused what its outer was granted, and a relaunch is not refused
\* by the profile gate the restart asked, unless an edit, a failed write or another launch's record came in
\* between, or a record that failed before made the file unreadable to them.  (A restart does not ask the
\* confinement gate; and a confined launch whose own record gets its inner refused is not calm either, see
\* OwnRecordRefuses.)
GatesAgree ==
    (\A n \in DOMAIN sidecar : sidecar[n].parses) =>
    \A i \in Launches :
        launches[i].stage = "refused" /\ launches[i].calm =>
            launches[i].relaunched /\ launches[i].refusedBy = "confinement"

\* The key of the inner clown is the name of the multiplexer session it runs in.
InnerKeepsKey ==
    \A i \in Launches : launches[i].l # None /\ launches[i].l.inner => launches[i].l.key = launches[i].muxName
=============================================================================

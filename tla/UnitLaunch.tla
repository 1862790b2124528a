----------------------------- MODULE UnitLaunch -----------------------------
(* What a confined launch decides before its unit exists: whether the spec can be honoured, where *)
(* the model credential comes from, what the unit's environment holds, and which endpoints the    *)
(* frontend serves for it. A path is the sequence of its components.                              *)
EXTENDS Integers, FiniteSets, Sequences, SequencesExt, FiniteSetsExt

CONSTANTS Links,            \* the symlinks: where each path that is one points
          Home, ClownState, CircusState, NixConf, Login,    \* paths of the operator
          PassKeys, ScrubbedKeys, TmpKeys, CredentialKeys,  \* classes of environment keys
          DefaultEgressAllow, ModelHosts, Loopback          \* destinations

\* The keys that say what unit it is are none of a credential's.
ASSUME CredentialKeysAssumption == {"CLOWN_UNIT", "CLOWN_BIN"} \cap CredentialKeys = {}

MaxSymlinkHops == 40
None == "none"
Proxy == "proxy"
LoginFile == "login-file"
Placeholder == "placeholder"
ModelEndpoint == "model-endpoint"

---------------------------- (* Spec.Validate *) ----------------------------
\* p is dir or inside it; binding p would expose all of target.
within(p, dir) == IsPrefix(dir, p)
exposesWhole(p, target) == IsPrefix(p, target)
Touches(p, dir) == exposesWhole(p, dir) \/ within(p, dir)

\* Follow the first symlink on the path; ResolvePath follows them all, up to the hop limit.
Linked(p) == {i \in 1..Len(p) : SubSeq(p, 1, i) \in DOMAIN Links}
Follow(p) == IF Linked(p) = {} THEN p
             ELSE LET i == Min(Linked(p)) IN Links[SubSeq(p, 1, i)] \o SubSeq(p, i + 1, Len(p))
ResolvePath(p) == FoldSet(LAMBDA n, q : Follow(q), p, 1..MaxSymlinkHops)

Exposes(p, dir) == Touches(p, dir) \/ Touches(ResolvePath(p), ResolvePath(dir))

Writable(s) == {s.worktree} \cup s.bindsRW
Exposed(s) == Writable(s) \cup s.bindsRO \cup s.sockets

\* The unit must not be able to forge its own result, widen its own record, or read what the
\* frontend keeps for it.
Validate(s) ==
    /\ \A p \in Writable(s) : ~within(s.result, p)
    /\ \A p \in Exposed(s) : ~exposesWhole(p, Home) /\ ~Touches(p, NixConf)
    /\ \A p \in Writable(s) : ~exposesWhole(p, Login) /\ ~Exposes(p, ClownState)
    /\ \A p \in Exposed(s) : ~Exposes(p, CircusState)
    /\ DOMAIN s.env \cap ScrubbedKeys = {}

\* The spec is read again at the launch: it must still be the boundary the gate checked.
loadLaunchSpec(s, digest) == Validate(s) /\ digest \in {None, s.boundary}

------------------------ (* the model credential *) ------------------------
\* The override of the token's path counts only together with a loopback upstream.
TokenAt(l) == IF l.tokenOverride # None
              THEN IF l.upstream = "loopback" THEN l.tokenOverride ELSE None
              ELSE l.token

\* chooseModelCredential: Refused for proxy-only without a token, and for an unknown policy.
Refused == "refused"
chooseModelCredential(token, policy) ==
    IF policy \notin {None, "proxy-or-login", "proxy-only"} THEN Refused
    ELSE IF token = "usable" THEN Proxy
    ELSE IF policy = "proxy-only" THEN Refused ELSE LoginFile

\* A launch that routes the model API itself has no credential of clown's.
launchModelCredential(l) ==
    IF l.front.base # None THEN "" ELSE chooseModelCredential(TokenAt(l), l.policy)

\* stageAgentHomeFor: the operator's login is bound unless the proxy injects the credential.
LoginBound(l, cred) == l.loginExists /\ cred # Proxy

\* Only this session's own messaging credential may be bound.
CredentialConsistent(l) == l.xmpp \in {None, "own"}

------------------------- (* the unit's environment *) -------------------------
Only(f, K) == [k \in DOMAIN f \cap K |-> f[k]]

\* Both environments, f's value where they have one key.
Override(f, g) == [k \in DOMAIN f \cup DOMAIN g |-> IF k \in DOMAIN f THEN f[k] ELSE g[k]]

\* What passes of the frontend's environment: a bound agent socket, a temp dir brought inside the
\* worktree, and the passed keys that are not scrubbed.
FromFrontend(l) ==
    LET env == l.front.env
        sock == {k \in {"SSH_AUTH_SOCK"} \cap DOMAIN env : env[k] \in l.spec.sockets}
        tmp == [k \in DOMAIN env \cap TmpKeys |->
                  IF within(env[k], l.spec.worktree) THEN env[k] ELSE Append(l.spec.worktree, ".tmp")]
    IN Override(Only(env, sock), Override(tmp, Only(env, PassKeys \ (ScrubbedKeys \cup TmpKeys))))

\* Each source overrides those after it; the proxy's settings come last of all.
environment(l, cred, shim) ==
    LET front == FromFrontend(l)
        just == [JUST_TEMPDIR |-> IF "TMPDIR" \in DOMAIN front THEN front["TMPDIR"]
                                  ELSE Append(l.spec.worktree, ".tmp")]
        fixed == [HOME |-> l.spec.worktree, CLOWN_UNIT |-> "unit", CLOWN_BIN |-> shim, HTTPS_PROXY |-> "relay"]
        extra == Only(l.extra, DOMAIN l.extra \ ScrubbedKeys)
        all == Override(fixed, Override(l.spec.env, Override(extra, Override(just, front))))
    IN IF cred = Proxy
       THEN Override([ANTHROPIC_BASE_URL |-> ModelEndpoint, CLAUDE_CODE_OAUTH_TOKEN |-> Placeholder,
                      ANTHROPIC_API_KEY |-> ""], Only(all, DOMAIN all \ CredentialKeys))
       ELSE all

------------------------ (* the endpoints of a unit *) ------------------------
\* agentEgressAllowlistFor: {} denies everything, None stands for the default list; a routed model
\* API is added, and with the proxy the default list loses the model's own hosts.
agentEgressAllowlistFor(specAllow, base, dropModelAPI) ==
    LET list == IF specAllow = {None} THEN DefaultEgressAllow ELSE specAllow
        routed == IF base # None /\ base \notin Loopback THEN list \cup {base} ELSE list
    IN IF dropModelAPI /\ specAllow = {None} THEN routed \ ModelHosts ELSE routed

\* A spec that names the host's loopback refuses the launch.
EgressRefused(l) == l.spec.egress \cap Loopback # {}

\* prepareInUnitMoxy: an in-unit moxy needs a pinned path and layers that narrow the ceiling.
CeilingHolds(l) == l.moxy = None \/ (l.moxy = "narrows" /\ l.pinned)

\* The order in which startFrontendEndpoints brings them up.
Endpoints(l, cred) ==
    <<"egress", "deadman">> \o (IF cred = Proxy THEN <<"model">> ELSE <<>>)
    \o <<"forward", "statsd", "ceiling", "monitor">>

CanOpen(l, e) ==
    /\ e = "egress" => ~EgressRefused(l)
    /\ e = "model" => l.upstream # "remote"
    /\ e = "ceiling" => CeilingHolds(l)

\* SystemdRunArgs refuses a working directory outside the worktree; the terminal is all or none.
Launchable(l) == within(l.cwd, l.spec.worktree) /\ l.tty # "output only"
=============================================================================

--------------------------- MODULE EndpointCalls ---------------------------
(* The calls a unit makes to the endpoints its frontend serves: CONNECT tunnels, the model proxy,  *)
(* fixed forwards, statsd datagrams and the serve socket of a session; each handled on its own    *)
(* while the token file, the names' addresses and the frontend change.                            *)
EXTENDS FiniteSets

CONSTANTS Calls,
          Sites, Allowed, LoopbackSites,   \* destinations, those allowed, those that name the loopback
          Addresses, LoopbackAddresses,
          Bearers,                         \* contents of a usable token file
          Permissive                       \* CLOWN_MODEL_PROXY_PERMISSIVE

ASSUME SitesAssumption == Allowed \subseteq Sites /\ LoopbackSites \subseteq Sites
ASSUME AddressesAssumption == LoopbackAddresses \subseteq Addresses
ASSUME RoutesAssumption == {"every route", "tool routes"} \cap Addresses = {}
ASSUME PermissiveAssumption == Permissive \in BOOLEAN

VARIABLES token,            \* what the token file gives: a bearer, or nothing usable
          parent,           \* the serve bridge's parent is its frontend
          call,             \* each call
          told              \* the rejection notice was printed

callVars == <<token, parent, call, told>>

Unusable == "unusable"
Nothing == "nothing"
Shapes == {"messages", "count_tokens", "hello", "other api path", "escaped path", "outside"}
Kinds == {"egress", "model", "forward", "statsd", "serve"}
Idle == [at |-> "idle", kind |-> Nothing, peer |-> Nothing, ask |-> Nothing, addrs |-> {},
         to |-> Nothing, auth |-> Nothing, since |-> {}]

CallsInit ==
    /\ token \in Bearers \cup {Unusable}
    /\ parent = TRUE
    /\ call = [c \in Calls |-> Idle]
    /\ told = FALSE

\* What each kind of call asks for.
Asks(kind) == IF kind = "egress" THEN Sites \cup {"not CONNECT"}
              ELSE IF kind = "model" THEN Shapes ELSE {Nothing}

\* authorizeUnitPeer: the peer's cgroup is the unit's.
authorizeUnitPeer(peer) == peer = "unit"

\* authorizeServePeer: the frontend's pid at this accept, else the unit's cgroup.
authorizeServePeer(peer) == (peer = "frontend" /\ parent) \/ authorizeUnitPeer(peer)

Admitted(kind, peer) == IF kind = "serve" THEN authorizeServePeer(peer) ELSE authorizeUnitPeer(peer)

\* A refused call is answered, and over.
Refuse(c) == call' = [call EXCEPT ![c] = Idle]

\* Every endpoint checks the peer before it reads a byte.
Arrive(c) ==
    /\ call[c].at = "idle"
    /\ \E kind \in Kinds, peer \in {"unit", "frontend", "other"} : \E ask \in Asks(kind) :
          IF Admitted(kind, peer)
          THEN call' = [call EXCEPT ![c] = [Idle EXCEPT !.at = "read", !.kind = kind, !.peer = peer,
                                                        !.ask = ask,
                                                        !.since = IF kind = "model" THEN {token} ELSE {}]]
          ELSE Refuse(c)
    /\ UNCHANGED <<token, parent, told>>

-------------------------------- (* egress *) --------------------------------
Allows(site) == site \in Allowed
IsLoopbackHost(site) == site \in LoopbackSites

\* EgressProxy.handle up to the lookup.
CheckTarget(c) ==
    /\ call[c].at = "read" /\ call[c].kind = "egress"
    /\ IF call[c].ask \in Sites /\ Allows(call[c].ask) /\ ~IsLoopbackHost(call[c].ask)
       THEN call' = [call EXCEPT ![c].at = "lookup"]
       ELSE Refuse(c)
    /\ UNCHANGED <<token, parent, told>>

\* resolveNonLoopback: one lookup, whose every address is checked and kept.
resolveNonLoopback(c) ==
    /\ call[c].at = "lookup"
    /\ \E answer \in SUBSET Addresses :
          IF answer = {} \/ answer \cap LoopbackAddresses # {}
          THEN Refuse(c)
          ELSE call' = [call EXCEPT ![c].at = "dial", ![c].addrs = answer]
    /\ UNCHANGED <<token, parent, told>>

\* A mutant of Candidates: the name is resolved once more to dial it.
AnyAnswer(c) == Addresses

\* The addresses that were checked are the ones dialled.
Candidates(c) == call[c].addrs

\* Each address in turn until one answers.
Dial(c) ==
    /\ call[c].at = "dial"
    /\ \/ \E a \in Candidates(c) : call' = [call EXCEPT ![c].at = "open", ![c].to = a]
       \/ Refuse(c)
    /\ UNCHANGED <<token, parent, told>>

--------------------------------- (* model *) ---------------------------------
\* InjectProxy.allowed, asked before the credential is read.
allowed(shape) == shape \in {"messages", "count_tokens", "hello"} \/ (Permissive /\ shape # "outside")

\* serve: the bearer is read from the file for this request; a ping carries none.
Inject(c) ==
    /\ call[c].at = "read" /\ call[c].kind = "model"
    /\ IF ~allowed(call[c].ask) \/ (call[c].ask # "hello" /\ token = Unusable)
       THEN Refuse(c)
       ELSE call' = [call EXCEPT ![c].at = "forward",
                                 ![c].auth = IF call[c].ask = "hello" THEN Nothing ELSE token]
    /\ UNCHANGED <<token, parent, told>>

\* The upstream answers, rejects the credential, or cannot be reached.
Upstream(c) ==
    /\ call[c].at = "forward"
    /\ \/ call' = [call EXCEPT ![c].at = "open"] /\ UNCHANGED told
       \/ call' = [call EXCEPT ![c].at = "rejected"] /\ told' = TRUE
       \/ Refuse(c) /\ UNCHANGED told
    /\ UNCHANGED <<token, parent>>

------------------------- (* forwards, statsd, serve *) -------------------------
\* One fixed target each.
Forward(c) ==
    /\ call[c].at = "read" /\ call[c].kind \in {"forward", "statsd"}
    /\ \/ call' = [call EXCEPT ![c].at = "open", ![c].to = "its target"]
       \/ Refuse(c)
    /\ UNCHANGED <<token, parent, told>>

\* ServeConn: the control routes are the frontend's alone.
Served(c) ==
    /\ call[c].at = "read" /\ call[c].kind = "serve"
    /\ call' = [call EXCEPT ![c].at = "open",
                            ![c].to = IF call[c].peer = "frontend" THEN "every route" ELSE "tool routes"]
    /\ UNCHANGED <<token, parent, told>>

Ends(c) ==
    /\ call[c].at \in {"open", "rejected"}
    /\ call' = [call EXCEPT ![c] = Idle]
    /\ UNCHANGED <<token, parent, told>>

------------------------------- (* around them *) -------------------------------
\* The credential is rotated or revoked.
TokenChanges ==
    /\ token' \in (Bearers \cup {Unusable}) \ {token}
    /\ call' = [c \in Calls |-> IF call[c].at = "read" /\ call[c].kind = "model"
                                THEN [call[c] EXCEPT !.since = @ \cup {token'}]
                                ELSE call[c]]
    /\ UNCHANGED <<parent, told>>

\* The frontend of the bridge ends: its parent becomes another process, pid 1 or a reaper.
ParentGoes ==
    /\ parent
    /\ parent' = FALSE
    /\ UNCHANGED <<token, call, told>>

CallStep(c) ==
    Arrive(c) \/ CheckTarget(c) \/ resolveNonLoopback(c) \/ Dial(c) \/ Inject(c) \/ Upstream(c)
    \/ Forward(c) \/ Served(c) \/ Ends(c)
CallsNext == TokenChanges \/ ParentGoes \/ \E c \in Calls : CallStep(c)

-----------------------------------------------------------------------------
Reached(c) == call[c].at \in {"forward", "open", "rejected"}

\* A call reaches only what its endpoint is for: a tunnel an allowed destination at an address that
\* is not the loopback's, however its name resolves from one lookup to the next; the model's upstream
\* the bearer the file held at some moment of the call, and none it no longer held when it arrived;
\* the control routes only the frontend; and nothing for a caller outside the unit.
ReachIsBounded ==
    \A c \in Calls : Reached(c) =>
        /\ call[c].peer = "unit" \/ (call[c].kind = "serve" /\ call[c].peer = "frontend")
        /\ call[c].kind = "egress" => call[c].ask \in Allowed /\ call[c].to \notin LoopbackAddresses
        /\ call[c].kind = "model" =>
              IF call[c].ask = "hello" THEN call[c].auth = Nothing
              ELSE call[c].auth \in call[c].since \ {Unusable}
        /\ call[c].to = "every route" => call[c].peer = "frontend"
        /\ call[c].at = "rejected" => told
=============================================================================

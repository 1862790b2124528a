------------------------------ MODULE MCScope -----------------------------
(* Confined launches over a small file system with up to two in-unit servers, one monitor with     *)
(* one or two readers, and two calls at a time.                                                    *)
EXTENDS Scope, TLC

home == <<"home", "op">>
work == <<"src", "wt">>
state == home \o <<"state", "clown">>

MCLinks == (<<"src", "back">> :> state) @@ (<<"src", "hop">> :> <<"src", "back">>)
MCHome == home
MCClownState == state
MCCircusState == home \o <<"state", "circus">>
MCNixConf == home \o <<"nix">>
MCLogin == home \o <<"claude", "creds">>
MCPass == {"PATH", "ANTHROPIC_API_KEY", "ANTHROPIC_BASE_URL", "CLAUDE_CODE_OAUTH_TOKEN"}
MCScrubbed == {"HOME", "CLOWN_UNIT", "SSH_AUTH_SOCK", "NIX_CONFIG"}
MCTmp == {"TMPDIR"}
MCCredentialKeys == {"ANTHROPIC_API_KEY", "ANTHROPIC_BASE_URL", "CLAUDE_CODE_OAUTH_TOKEN"}
MCEgress == {"api", "forge"}
MCModelHosts == {"api"}
MCLoopback == {"localhost"}

Spec1 == [worktree |-> work, bindsRW |-> {}, bindsRO |-> {home \o <<"madder">>}, sockets |-> {<<"run", "ssh">>},
          result |-> <<"run", "result">>, env |-> << >>, egress |-> {"none"}, boundary |-> "b1"]

Launch1 ==
    [spec |-> Spec1, digest |-> "b1", front |-> [env |-> ("PATH" :> "p") @@ ("ANTHROPIC_API_KEY" :> "key"), base |-> "none"],
     extra |-> ("CLAUDE_CODE_OAUTH_TOKEN" :> "bearer"), policy |-> "none", token |-> "usable", tokenOverride |-> "none",
     upstream |-> "none", loginExists |-> TRUE, xmpp |-> "own", moxy |-> "narrows", pinned |-> TRUE, cwd |-> work,
     tty |-> "none", inUnit |-> {}, excluded |-> {}]

CONSTANTS moxy, justus, r1, r2, c1, c2, k1, k2

MCLaunches ==
    {[Launch1 EXCEPT !.inUnit = {moxy, justus}, !.excluded = {moxy}],
     [Launch1 EXCEPT !.inUnit = {justus}, !.excluded = {justus}, !.token = "absent"],
     [Launch1 EXCEPT !.spec.env = "ANTHROPIC_BASE_URL" :> "elsewhere", !.policy = "proxy-only"],
     [Launch1 EXCEPT !.policy = "proxy-only", !.token = "absent"],
     [Launch1 EXCEPT !.spec.bindsRW = {<<"src", "hop", "sub">>}],
     [Launch1 EXCEPT !.spec.result = Append(work, "result")],
     [Launch1 EXCEPT !.spec.egress = {"forge", "localhost"}],
     [Launch1 EXCEPT !.digest = "b0"],
     [Launch1 EXCEPT !.moxy = "widens"],
     [Launch1 EXCEPT !.tokenOverride = "usable", !.token = "absent", !.upstream = "loopback",
                     !.front.env = ("TMPDIR" :> <<"tmp">>) @@ ("SSH_AUTH_SOCK" :> <<"run", "ssh">>)],
     [Launch1 EXCEPT !.front.base = "gateway", !.cwd = <<"src">>]}
=============================================================================

------------------------------ MODULE MCSession ------------------------------
(* Two launches over one known session, one profile registry and one spec. *)
EXTENDS Session, TLC

CONSTANTS a, b, s1

opt(k, v) == [k |-> k, v |-> v]

Plain == [provider |-> "claude", args |-> <<>>, key |-> None, hint |-> None, provided |-> FALSE, launchKey |-> None,
          scope |-> None, naked |-> FALSE, unattended |-> None, fromRecord |-> FALSE, inner |-> FALSE,
          asked |-> None, explicit |-> FALSE, resumeDefault |-> FALSE, profileEnv |-> FALSE, digest |-> None,
          digestSession |-> None, yes |-> FALSE, tty |-> FALSE, spawn |-> FALSE]

Direct(wraps, l) == [resume |-> None, byKey |-> FALSE, wraps |-> wraps, l |-> l]
Resumed(wraps, byKey, l) == [resume |-> s1, byKey |-> byKey, wraps |-> wraps, l |-> l]

WithKey(k, l) == [l EXCEPT !.key = k, !.provided = TRUE, !.launchKey = k]

MCInvocations ==
    (a :> {Direct(TRUE, [Plain EXCEPT !.asked = "pa", !.spawn = TRUE]),
           Direct(TRUE, WithKey("t", [Plain EXCEPT !.explicit = TRUE])),
           Direct(FALSE, [Plain EXCEPT !.explicit = TRUE, !.args = <<opt("resume", "t")>>]),
           Resumed(TRUE, FALSE, [Plain EXCEPT !.tty = TRUE]),
           Resumed(TRUE, FALSE, [Plain EXCEPT !.asked = "pa", !.digest = "d2", !.digestSession = s1]),
           Resumed(TRUE, FALSE, [Plain EXCEPT !.scope = "sp", !.unattended = "1"])})
    @@
    (b :> {Direct(FALSE, WithKey(s1, [Plain EXCEPT !.scope = "sp"])),
           Direct(FALSE, [Plain EXCEPT !.explicit = TRUE, !.args = <<opt("continue", None)>>]),
           Direct(FALSE, [Plain EXCEPT !.explicit = TRUE, !.naked = TRUE, !.args = <<opt("resume", s1)>>]),
           Resumed(FALSE, TRUE, [Plain EXCEPT !.asked = "pa", !.profileEnv = TRUE]),
           Resumed(FALSE, FALSE, [Plain EXCEPT !.asked = "pa", !.digest = "d2", !.digestSession = s1])})

Line(rec) == Written(rec)

MCStarts == {<<>>,
             <<Line([Blank(s1) EXCEPT !.name = <<"Bozo", 1>>, !.pin = [name |-> "pd", digest |-> "d1"]])>>,
             <<Line([Blank(s1) EXCEPT !.name = <<"Bozo", 1>>, !.scope = "sp", !.boundary = "b1"])>>}

MCRegistry == [def |-> [p \in {"pd", "pa"} |-> IF p = "pd" THEN "d1" ELSE "d2"], vouched |-> TRUE]
MCSpecs == [p \in {"sp"} |-> "b1"]
MCPool == <<"Bozo">>
MCDefault == "pd"
MCDigests == {"d2"}
MCBoundaries == {"b2"}
MCRestarts == (a :> 1) @@ (b :> 0)
=============================================================================

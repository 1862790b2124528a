------------------------------ MODULE Juggler ------------------------------
(* `juggler daemon`: its launcher, and the downloads of a model that it and `juggler download` run.   *)
(* A behaviour follows one of the two, which share no variable.                                      *)
EXTENDS Launcher, ModelDownload

VARIABLE part

jugglerVars == <<vars, downloadVars, part>>

JugglerInit ==
    /\ part \in {"launcher", "download"}
    /\ Init /\ DownloadInit
    /\ part = "launcher" => hardLinks /\ processOf = [d \in Downloads |-> CHOOSE p \in Processes : TRUE]

JugglerNext ==
    \/ part = "launcher" /\ Next /\ UNCHANGED <<downloadVars, part>>
    \/ part = "download" /\ (DownloadNext \/ DownloadsDone) /\ UNCHANGED <<vars, part>>

JugglerSpec == JugglerInit /\ [][JugglerNext]_jugglerVars /\ Fairness
=============================================================================

--------------------------- MODULE ModelDownload ---------------------------
(* Downloads of one model: the daemon's, one at a time, and another process's, into one path that   *)
(* the operator may fill or clear by hand, while clients leave, processes are killed and the machine *)
(* crashes.                                                                                         *)
EXTENDS Naturals, FiniteSets

CONSTANTS Downloads,
          Processes,            \* the daemon and others
          MaxByHand, MaxCrashes \* bounds

\* A download is none of the other things a slot or a file may belong to.
ASSUME DownloadsAssumption == {"free", "none", "hand"} \cap Downloads = {}

VARIABLES processOf,       \* the process each download runs in
          dest,            \* what is at <name>.gguf
          durable,         \* the directory's entry for it that a crash may bring back
          slot,            \* who holds the model's slot of each process
          dl,              \* each download
          temps,           \* the temporary files there are
          hardLinks,       \* whether the file system has them
          replaced,        \* who replaced which model
          byHand, crashes

downloadVars == <<processOf, dest, durable, slot, dl, temps, hardLinks, replaced, byHand, crashes>>

Nothing == [by |-> "none", data |-> "none"]
InTheWay == [by |-> "none", data |-> "dir"]
IsModel(x) == x.by # "none"

\* The file a download wrote: its bytes, and whether they were synced.
File(d) == [by |-> d, data |-> dl[d].data]

IdleDownload == [at |-> "idle", sum |-> FALSE, data |-> "none", synced |-> FALSE]

Stage(d, at) == dl' = [dl EXCEPT ![d].at = at]

\* Every return removes the temporary file and gives the slot up.
Returns(d, answer) ==
    /\ dl' = [dl EXCEPT ![d] = IF answer = "downloaded" THEN [@ EXCEPT !.at = answer] ELSE [IdleDownload EXCEPT !.at = answer]]
    /\ temps' = temps \ {d}
    /\ slot' = [slot EXCEPT ![processOf[d]] = IF @ = d THEN "free" ELSE @]

Answers == {"downloaded", "installed", "failed"}
Over(d) == dl[d].at \in Answers \cup {"killed"}

PlaceKept == UNCHANGED <<dest, durable, replaced>>
WorldKept == UNCHANGED <<processOf, hardLinks, byHand, crashes>>

------------------------------- (* Download *) ------------------------------
\* A request of a client, or the command: with a digest to check, or an override without one.
Asks(d) ==
    /\ dl[d].at = "idle"
    /\ \E sum \in BOOLEAN : dl' = [dl EXCEPT ![d] = [@ EXCEPT !.at = "wait", !.sum = sum]]
    /\ UNCHANGED <<slot, temps>> /\ PlaceKept /\ WorldKept

\* acquireDownloadSlot.
TakesSlot(d) ==
    /\ dl[d].at = "wait" /\ slot[processOf[d]] = "free"
    /\ slot' = [slot EXCEPT ![processOf[d]] = d]
    /\ Stage(d, "look")
    /\ UNCHANGED temps /\ PlaceKept /\ WorldKept

\* whatIsAt answers for a model, and fails the download for anything else.
Found(d) == Returns(d, IF IsModel(dest) THEN "installed" ELSE "failed")

Looks(d) ==
    /\ dl[d].at = "look"
    /\ \/ dest # Nothing /\ Found(d)
       \/ dest = Nothing /\ Stage(d, "fetch") /\ temps' = temps \cup {d} /\ UNCHANGED slot
    /\ PlaceKept /\ WorldKept

\* The client left, or the directory, the network or the disk failed.
Fails(d) ==
    /\ dl[d].at \in {"wait", "look", "fetch", "sync", "publish", "recheck", "rename"}
    /\ Returns(d, "failed")
    /\ PlaceKept /\ WorldKept

\* The body ends: the model, or bytes that are not.
Fetches(d) ==
    /\ dl[d].at = "fetch"
    /\ \E bytes \in {"right", "wrong"} : dl' = [dl EXCEPT ![d] = [@ EXCEPT !.at = "sync", !.data = bytes]]
    /\ UNCHANGED <<slot, temps>> /\ PlaceKept /\ WorldKept

\* A mutant: the bytes are left to the page cache.
Unsynced(d) == FALSE

SyncsBytes(d) == TRUE

\* The bytes are synced, then their digest is compared.
SyncsAndVerifies(d) ==
    /\ dl[d].at = "sync"
    /\ \/ /\ dl[d].sum => dl[d].data = "right"
          /\ dl' = [dl EXCEPT ![d] = [@ EXCEPT !.at = "publish", !.synced = SyncsBytes(d)]]
          /\ UNCHANGED <<slot, temps>>
       \/ dl[d].sum /\ dl[d].data = "wrong" /\ Returns(d, "failed")
    /\ PlaceKept /\ WorldKept

------------------------------- (* publish *) -------------------------------
\* os.Link fails when anything is there; what that is, is looked at afterwards.
Links(d) ==
    /\ dl[d].at = "publish"
    /\ \/ ~hardLinks /\ Stage(d, "recheck") /\ UNCHANGED dest
       \/ hardLinks /\ dest = Nothing /\ dest' = File(d) /\ Stage(d, "syncDir")
       \/ hardLinks /\ dest # Nothing /\ Stage(d, "exists") /\ UNCHANGED dest
    /\ UNCHANGED <<durable, replaced, slot, temps>> /\ WorldKept

Exists(d) ==
    /\ dl[d].at = "exists"
    /\ Found(d)
    /\ PlaceKept /\ WorldKept

Rechecks(d) ==
    /\ dl[d].at = "recheck"
    /\ \/ dest # Nothing /\ Found(d)
       \/ dest = Nothing /\ Stage(d, "rename") /\ UNCHANGED <<slot, temps>>
    /\ PlaceKept /\ WorldKept

\* A rename takes a file's place, and fails on a directory.
Renames(d) ==
    /\ dl[d].at = "rename"
    /\ \/ /\ dest # InTheWay
          /\ dest' = File(d) /\ temps' = temps \ {d}
          /\ replaced' = IF IsModel(dest) THEN replaced \cup {<<d, dest.by>>} ELSE replaced
          /\ Stage(d, "syncDir")
          /\ UNCHANGED slot
       \/ dest = InTheWay /\ Returns(d, "failed") /\ UNCHANGED <<dest, replaced>>
    /\ UNCHANGED durable /\ WorldKept

\* Best effort: the answer is the same when the directory cannot be synced.
SyncsDir(d) ==
    /\ dl[d].at = "syncDir"
    /\ durable' \in {durable, dest}
    /\ Returns(d, "downloaded")
    /\ UNCHANGED <<dest, replaced>> /\ WorldKept

------------------------- (* what happens around it *) -----------------------
ByHand ==
    /\ byHand < MaxByHand /\ byHand' = byHand + 1
    /\ dest' \in {Nothing, InTheWay, [by |-> "hand", data |-> "right"]} \ {dest}
    /\ dest' # Nothing => dest = Nothing
    /\ durable' \in {durable, dest'}
    /\ UNCHANGED <<slot, dl, temps, processOf, hardLinks, replaced, crashes>>

\* Downloads that had begun end with their process, their temporary files stay.
Ends(P) == /\ dl' = [d \in Downloads |-> IF processOf[d] \in P /\ ~Over(d) /\ dl[d].at # "idle"
                                          THEN [dl[d] EXCEPT !.at = "killed"] ELSE dl[d]]
           /\ slot' = [p \in Processes |-> IF p \in P THEN "free" ELSE slot[p]]

ProcessKilled ==
    /\ crashes < MaxCrashes /\ crashes' = crashes + 1
    /\ \E p \in Processes : Ends({p})
    /\ UNCHANGED <<dest, durable, temps, processOf, hardLinks, replaced, byHand>>

\* The directory is as it was or as it was last synced, and bytes that were not synced may be missing.
MachineCrashes ==
    /\ crashes < MaxCrashes /\ crashes' = crashes + 1
    /\ Ends(Processes)
    /\ \E kept \in {dest, durable} :
          LET torn == kept.by \in Downloads /\ ~dl[kept.by].synced
          IN dest' \in {kept} \cup (IF torn THEN {[kept EXCEPT !.data = "torn"]} ELSE {})
    /\ durable' = dest'
    /\ UNCHANGED <<temps, processOf, hardLinks, replaced, byHand>>

DownloadInit ==
    /\ processOf \in [Downloads -> Processes]
    /\ dest = Nothing /\ durable = Nothing
    /\ slot = [p \in Processes |-> "free"]
    /\ dl = [d \in Downloads |-> IdleDownload]
    /\ temps = {} /\ hardLinks \in BOOLEAN
    /\ replaced = {} /\ byHand = 0 /\ crashes = 0

DownloadsDone == (\A d \in Downloads : Over(d)) /\ UNCHANGED downloadVars

DownloadNext ==
    \/ \E d \in Downloads : \/ Asks(d) \/ TakesSlot(d) \/ Looks(d) \/ Fails(d) \/ Fetches(d) \/ SyncsAndVerifies(d)
                            \/ Links(d) \/ Exists(d) \/ Rechecks(d) \/ Renames(d) \/ SyncsDir(d)
    \/ ByHand \/ ProcessKilled \/ MachineCrashes

-----------------------------------------------------------------------------
\* Downloads of the daemon and of another process, the operator, kills and crashes share one path: a
\* model is never replaced, except without hard links by another process's download or over one put
\* there by hand; a download whose digest was checked never leaves anything but the model there, after
\* a crash either; and one that has returned keeps neither its slot nor a temporary file.
ModelStands ==
    /\ \A r \in replaced : ~hardLinks /\ (r[2] \in Downloads => processOf[r[1]] # processOf[r[2]])
    /\ dest.by \in Downloads /\ dl[dest.by].sum => dest.data = "right"
    /\ \A d \in Downloads : dl[d].at \in Answers => d \notin temps /\ slot[processOf[d]] # d
=============================================================================

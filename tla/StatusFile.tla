----------------------------- MODULE StatusFile -----------------------------
(* The hung-session status file of one session key and the idle socket that decides which clown     *)
(* frontend serves the key: frontends of the key come one after another, some killed, and each       *)
(* rewrites the file from its hook reader, its timer goroutine and its own calls, under one mutex.   *)
EXTENDS Naturals, FiniteSets

CONSTANTS Frontends,           \* launches with this key, one relaunched or another's
          SessionIds,         \* what a turn-start hook reports
          MaxForgotten       \* bound: the timers of one frontend its Writer no longer knows

VARIABLES sock,              \* whose socket the path names, or none
          statusFile,             \* the status file, or none
          front,           \* each frontend's stage
          status, removed,    \* its Writer: the status it holds, and whether Remove was called
          recent,        \* less than flushInterval since its last write
          timer,      \* its trailing writes: the timer it knows, the forgotten ones that tick or have fired
          failed       \* its last write, or its removal, failed

statusVars == <<sock, statusFile, front, status, removed, recent, timer, failed>>

Nobody == "nobody"

ASSUME FrontendsAssumption == Nobody \notin Frontends

NoStatusFile == [by |-> Nobody]
AllFree == [known |-> "none", armed |-> 0, fired |-> 0]
Unknown == [turn |-> FALSE, session |-> "", told |-> FALSE]

\* A bound socket is live: connecting to it succeeds.
Bound(f) == front[f] \in {"bound", "serving", "removed"}
\* A process with a Writer; one that is not armed has none.
Armed(f) == Bound(f) \/ front[f] \in {"unbound", "unlinking", "closed"}
\* From its bind to its Remove a frontend may write the file.
Writer(f) == front[f] \in {"bound", "serving"}

\* Assumed: launches of one key do not race each other, where both would find the path unbound and serve it.
Alone(f) == \A g \in Frontends \ {f} : ~Writer(g)

Moves(f, stage) == front' = [front EXCEPT ![f] = stage]

\* The file as f's Writer would leave it.
Whole(f, facts) == [by |-> f, st |-> facts]

WriterKept == UNCHANGED <<status, removed, recent, timer, failed>>

-------------------------- (* startIdleListener *) --------------------------
\* A live socket belongs to a live frontend of the same key, and the file with it: not armed.
DialsSocket(f) ==
    /\ front[f] = "none"
    /\ Moves(f, IF sock # Nobody /\ Bound(sock) THEN "off" ELSE "dialed")
    /\ UNCHANGED <<sock, statusFile>> /\ WriterKept

\* The path is removed and bound, unless that fails.
BindsSocket(f) ==
    /\ front[f] = "dialed" /\ Alone(f)
    /\ \/ sock' = f /\ Moves(f, "bound")
       \/ sock' = Nobody /\ Moves(f, "off")
    /\ UNCHANGED statusFile /\ WriterKept

------------------------------- (* Writer *) --------------------------------
\* flush: the known timer is stopped, or forgotten when it has fired; the file is replaced whole, or
\* the write fails.
Flush(f, facts) ==
    /\ timer' = [timer EXCEPT ![f].known = "none", ![f].fired = IF timer[f].known = "fired" THEN @ + 1 ELSE @]
    /\ recent' = [recent EXCEPT ![f] = TRUE]
    /\ \/ statusFile' = Whole(f, facts) /\ failed' = [failed EXCEPT ![f] = FALSE]
       \/ failed' = [failed EXCEPT ![f] = TRUE] /\ UNCHANGED statusFile

\* A coalesced change soon after a write waits for the timer, which it arms when none is known.
Coalesced(f) ==
    /\ timer' = IF timer[f].known = "none" THEN [timer EXCEPT ![f].known = "armed"] ELSE timer
    /\ UNCHANGED <<statusFile, recent, failed>>

\* update.
Updates(f, facts, coalesce) ==
    /\ \/ removed[f] /\ UNCHANGED <<status, statusFile, recent, timer, failed>>
       \/ /\ ~removed[f]
          /\ status' = [status EXCEPT ![f] = facts]
          /\ IF coalesce /\ recent[f] THEN Coalesced(f) ELSE Flush(f, facts)
    /\ UNCHANGED <<sock, front, removed>>

StartsFile(f) ==
    /\ front[f] = "bound"
    /\ Moves(f, "serving")
    /\ Flush(f, status[f])
    /\ UNCHANGED <<sock, status, removed>>

\* What a busy hook's stdin lets it report: a session, or nothing when it is slow, malformed or too long.
Reported == SessionIds \cup {""}

\* A hook's datagram reaches whoever is bound at the path; one that finds nobody is dropped.
Receives(f) == sock = f /\ Bound(f)

TurnStarted(f) ==
    /\ Receives(f)
    /\ \E id \in Reported :
          Updates(f, [status[f] EXCEPT !.turn = TRUE, !.session = IF id = "" THEN @ ELSE id], TRUE)

TurnEnded(f) ==
    /\ Receives(f)
    /\ Updates(f, [status[f] EXCEPT !.turn = FALSE], TRUE)

\* SetUnit, SetMainPID, SetUnattended and SetRestartRefusal: at once, and maybe after the file is removed.
TellsAtOnce(f) ==
    /\ Armed(f) /\ front[f] # "bound"
    /\ Updates(f, [status[f] EXCEPT !.told = TRUE], FALSE)

IntervalPasses(f) ==
    /\ recent[f]
    /\ recent' = [recent EXCEPT ![f] = FALSE]
    /\ UNCHANGED <<sock, statusFile, front, status, removed, timer, failed>>

\* The runtime starts the timer's goroutine, which then waits for the mutex.
TimerFires(f) ==
    /\ \/ /\ timer[f].known = "armed" /\ timer[f].armed + timer[f].fired < MaxForgotten
          /\ timer' = [timer EXCEPT ![f].known = "fired"]
       \/ timer[f].armed > 0 /\ timer' = [timer EXCEPT ![f].armed = @ - 1, ![f].fired = @ + 1]
    /\ UNCHANGED <<sock, statusFile, front, status, removed, recent, failed>>

\* A mutant: the trailing write does not ask whether the file was removed.
AlwaysWrites(f) == TRUE

MayWrite(f) == ~removed[f]

\* flushPending forgets the known timer, whichever fired.
Forgotten(f) ==
    \/ timer[f].known = "fired" /\ timer' = [timer EXCEPT ![f].known = "none"]
    \/ /\ timer[f].fired > 0
       /\ timer' = [timer EXCEPT ![f] = [known |-> "none",
                                        armed |-> IF @.known = "armed" THEN @.armed + 1 ELSE @.armed,
                                        fired |-> IF @.known = "fired" THEN @.fired ELSE @.fired - 1]]

FlushPending(f) ==
    /\ Forgotten(f)
    /\ \/ /\ MayWrite(f)
          /\ recent' = [recent EXCEPT ![f] = TRUE]
          /\ \/ statusFile' = Whole(f, status[f]) /\ failed' = [failed EXCEPT ![f] = FALSE]
             \/ failed' = [failed EXCEPT ![f] = TRUE] /\ UNCHANGED statusFile
       \/ ~MayWrite(f) /\ UNCHANGED <<statusFile, recent, failed>>
    /\ UNCHANGED <<sock, front, status, removed>>

--------------------------------- (* exit *) ---------------------------------
\* closeFn, and an arming that fails after the bind: the file goes while the socket is still held. What
\* the Writer holds is not written again.
RemovesFile(f) ==
    /\ front[f] = "serving"
    /\ Moves(f, "removed")
    /\ removed' = [removed EXCEPT ![f] = TRUE]
    /\ timer' = [timer EXCEPT ![f].known = "none", ![f].fired = IF timer[f].known = "fired" THEN @ + 1 ELSE @]
    /\ \/ statusFile' = NoStatusFile /\ failed' = [failed EXCEPT ![f] = FALSE]
       \/ failed' = [failed EXCEPT ![f] = TRUE] /\ UNCHANGED statusFile
    /\ status' = [status EXCEPT ![f] = Unknown]
    /\ recent' = [recent EXCEPT ![f] = FALSE]
    /\ UNCHANGED sock

\* Close: the connection, then the path when it is still this socket's, which a successor may take in between.
ClosesSocket(f) ==
    /\ front[f] = "removed"
    /\ Moves(f, "unbound")
    /\ UNCHANGED <<sock, statusFile>> /\ WriterKept

StatsPath(f) ==
    /\ front[f] = "unbound"
    /\ Moves(f, IF sock = f THEN "unlinking" ELSE "closed")
    /\ UNCHANGED <<sock, statusFile>> /\ WriterKept

UnlinksPath(f) ==
    /\ front[f] = "unlinking"
    /\ Moves(f, "closed")
    /\ sock' = Nobody
    /\ UNCHANGED statusFile /\ WriterKept

\* A kill leaves the path and the file; the timers die with the process.
WriterDies(f) ==
    /\ Armed(f)
    /\ Moves(f, "dead")
    /\ timer' = [timer EXCEPT ![f] = AllFree]
    /\ status' = [status EXCEPT ![f] = Unknown]
    /\ recent' = [recent EXCEPT ![f] = FALSE]
    /\ UNCHANGED <<sock, statusFile, removed, failed>>

\* WriteRestartRefusal: a relaunch its own gate refuses writes the file once, holding no socket.
WriteRestartRefusal(f) ==
    /\ front[f] = "none" /\ Alone(f)
    /\ Moves(f, "off")
    /\ statusFile' \in {statusFile, Whole(f, [Unknown EXCEPT !.told = TRUE])}
    /\ UNCHANGED sock /\ WriterKept

StatusInit ==
    /\ sock = Nobody /\ statusFile = NoStatusFile
    /\ front = [f \in Frontends |-> "none"]
    /\ status = [f \in Frontends |-> Unknown]
    /\ removed = [f \in Frontends |-> FALSE]
    /\ recent = [f \in Frontends |-> FALSE]
    /\ timer = [f \in Frontends |-> AllFree]
    /\ failed = [f \in Frontends |-> FALSE]

StatusNext ==
    \E f \in Frontends :
        \/ DialsSocket(f) \/ BindsSocket(f) \/ StartsFile(f) \/ TurnStarted(f) \/ TurnEnded(f)
        \/ TellsAtOnce(f) \/ IntervalPasses(f) \/ TimerFires(f) \/ FlushPending(f) \/ RemovesFile(f)
        \/ ClosesSocket(f) \/ StatsPath(f) \/ UnlinksPath(f) \/ WriterDies(f) \/ WriteRestartRefusal(f)

-----------------------------------------------------------------------------
Due(f) == timer[f] # AllFree

\* Hook datagrams, trailing writes, calls of the launch and the exit meet in every order, and frontends
\* of the key follow each other: while one serves the key, the file is its own and
\* tells what it knows, or a trailing write is due or its last write failed, so that no predecessor's
\* exit takes it away; and once its exit removed the file, no write of it brings one back.
StatusStands ==
    \A f \in Frontends :
        /\ front[f] = "serving" => statusFile = Whole(f, status[f]) \/ Due(f) \/ failed[f]
        /\ removed[f] /\ ~failed[f] => statusFile.by # f
=============================================================================

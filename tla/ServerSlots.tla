----------------------------- MODULE ServerSlots ------------------------------
(***************************************************************************)
(* What the launcher promises of its aliases: at most one server of an     *)
(* alias is alive, an alias lists at most one server, one that was started *)
(* for it, lists it until it is dead, and lists each server at most once.  *)
(***************************************************************************)
CONSTANTS Servers, Aliases, None

VARIABLES
    of,      \* server -> the alias it is for, or None: not started
    alive,   \* the servers running
    listed,  \* alias -> the server listed
    offered  \* the servers that were ever listed

vars == <<of, alive, listed, offered>>

Init ==
    /\ of = [s \in Servers |-> None]
    /\ alive = {}
    /\ listed = [a \in Aliases |-> None]
    /\ offered = {}

Launch(s, a) ==
    /\ of[s] = None
    /\ listed[a] = None
    /\ \A t \in alive : of[t] # a
    /\ of' = [of EXCEPT ![s] = a]
    /\ alive' = alive \cup {s}
    /\ UNCHANGED <<listed, offered>>

Die(s) ==
    /\ s \in alive
    /\ alive' = alive \ {s}
    /\ UNCHANGED <<of, listed, offered>>

Offer(s) ==
    /\ of[s] # None
    /\ s \notin offered
    /\ listed[of[s]] = None
    /\ listed' = [listed EXCEPT ![of[s]] = s]
    /\ offered' = offered \cup {s}
    /\ UNCHANGED <<of, alive>>

Withdraw(a) ==
    /\ listed[a] # None
    /\ listed[a] \notin alive
    /\ listed' = [listed EXCEPT ![a] = None]
    /\ UNCHANGED <<of, alive, offered>>

Next ==
    \/ \E s \in Servers : Die(s) \/ Offer(s) \/ \E a \in Aliases : Launch(s, a)
    \/ \E a \in Aliases : Withdraw(a)

Spec == Init /\ [][Next]_vars
=============================================================================

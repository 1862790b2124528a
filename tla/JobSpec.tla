------------------------------ MODULE JobSpec -------------------------------
(***************************************************************************)
(* What the exit path of an agent promises to the holders of its job: the  *)
(* job gets one terminal record, for good, and a wake tells its state,     *)
(* never another and never before it.                                      *)
(***************************************************************************)
CONSTANTS Holders, States, None

VARIABLES
    terminal,   \* the job's terminal state, or None
    told        \* what each holder has been told: a set of states

jobVars == <<terminal, told>>

Init == terminal = None /\ told = [h \in Holders |-> {}]

Settle(s) == terminal = None /\ terminal' = s /\ UNCHANGED told

\* At least once: a holder may be told again, but only the same thing.
Tell(h) ==
    /\ terminal # None
    /\ told' = [told EXCEPT ![h] = @ \cup {terminal}]
    /\ UNCHANGED terminal

Next == (\E s \in States : Settle(s)) \/ (\E h \in Holders : Tell(h))

Spec == Init /\ [][Next]_jobVars
=============================================================================

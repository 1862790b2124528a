------------------------------ MODULE Teardown ------------------------------
(***************************************************************************)
(* Deleting one account of a run: teardownChild, teardownRoot and          *)
(* revokeAccount (resolve.go), shared by `juggler resolve` and             *)
(* `juggler clean`.  The account in hand is mem[c].cur.                    *)
(***************************************************************************)
EXTENDS RunState

\* The account is done with: back to the verb's own walk, having found it
\* gone or kept it.
After(c) ==
    IF req[c].verb = "clean" THEN "clean.tomb"
    ELSE IF mem[c].cur = Root THEN "res.entries" ELSE "res.child"

Gone(c) == Remember(c, After(c), [mem[c] EXCEPT !.gone = @ \cup {mem[c].cur}])
Kept(c) == Goto(c, After(c))

\* Take up account p.  A room affiliation is dropped only in a room juggler
\* made (which always has an operator owner).
TakeUp(c, p, m, roomMade) ==
    Remember(c, IF roomMade THEN "acct.affil" ELSE "acct.revoke", [m EXCEPT !.cur = p])

\* Affiliate none, best effort: a failure is a note in the entry.
DropAffiliation(c) ==
    /\ At(c, "acct.affil")
    /\ \E k \in Reply :
          /\ Outcome(k)
          /\ muc' = IF Took(k) THEN [muc EXCEPT !.members = @ \ {mem[c].cur}] ELSE muc
    /\ Goto(c, "acct.revoke")
    /\ UNCHANGED <<req, store, acct, stanza, sent, job, unit, cancelled, clocks>>

\* No password file means already gone.  A login failure, which is what
\* troupe answers for an account that no longer exists, means the same; any
\* other error keeps the account.
RevokeAccount(c) ==
    LET p == mem[c].cur IN
    /\ At(c, "acct.revoke")
    /\ IF p \notin files.pw
       THEN Gone(c) /\ UNCHANGED <<acct, faults>>
       ELSE \E k \in Reply :
               /\ Outcome(k)
               /\ acct' = IF Took(k) THEN acct \ {p} ELSE acct
               /\ IF k = "ok" THEN Goto(c, "acct.unlink") ELSE Kept(c)
    /\ UNCHANGED <<req, store, muc, stanza, sent, job, unit, cancelled, clocks>>

\* The password file goes last; failing to delete it leaves the entry not ok.
UnlinkPassword(c) ==
    /\ At(c, "acct.unlink")
    /\ \E k \in Write :
          /\ Outcome(k)
          /\ IF k = "ok"
             THEN files' = [files EXCEPT !.pw = @ \ {mem[c].cur}] /\ Gone(c)
             ELSE UNCHANGED files /\ Kept(c)
    /\ UNCHANGED <<req, run, ledger, child, outside, clocks>>

TeardownStep(c) == DropAffiliation(c) \/ RevokeAccount(c) \/ UnlinkPassword(c)
=============================================================================

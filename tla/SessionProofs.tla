---------------------------- MODULE SessionProofs ----------------------------
(***************************************************************************)
(* A confined session stays confined: whatever a session ran confined as,  *)
(* a later launch of it runs as too.                                       *)
(*                                                                         *)
(* The argument follows the record.  A launch past the confinement gate    *)
(* has its conversation's record in the file before it goes on (Secure),   *)
(* so that whatever ran confined is recorded (Noted); a line of the file   *)
(* is never lost, it can only become one that does not parse and that then *)
(* closes the gate to every id in it (FileHolds); and a gate that lets a   *)
(* launch through on a recorded session gives it the recorded spec, at the *)
(* recorded boundary (VerdictHolds).                                       *)
(*                                                                         *)
(* And a pin stands: a pin is replaced only with approval, or by a launch  *)
(* that read the file before the pin was there, and a provider starts only *)
(* under the definition its session is pinned to.  A line that got worse   *)
(* shows the pin read before or none (Worsened, Reread); what the profile  *)
(* gate lets through unapproved applies the pin it read (PinApplied).      *)
(*                                                                         *)
(* And the gates agree: what a calm launch will be asked again is as it    *)
(* was when it was let through.  Its flags are decided so that deciding    *)
(* them again changes nothing (DecidedIsNamed, NamedIsKept); the first pin *)
(* or the confinement that the outer clown records is the one its inner    *)
(* looks for (GateGranted, ConfinedFirst); and only its own records come   *)
(* in between, as any other record that it reads ends its calm             *)
(* (Untouched).                                                            *)
(***************************************************************************)
EXTENDS Session, SequenceTheorems, WellFoundedInduction, TLAPS

Fields == {"stage", "l", "boundary", "before", "writes", "must", "next",
           "applied", "approved", "pinned", "seen", "since"}

FlagFields == {"args", "scope", "hint", "provider", "naked"}

\* The flags of a launch: their form, and that only claude gets a resume hint, and never when naked.
WellFlagged(l) ==
    /\ FlagFields \subseteq DOMAIN l
    /\ IsSequence(l.args)
    /\ l.hint # None => l.provider = "claude"
    /\ l.naked => l.hint = None

WellFormed(r) ==
    /\ Fields \subseteq DOMAIN r
    /\ r.stage \notin {"idle", "done", "refused"} => WellFlagged(r.l)
    /\ r.stage = "idle" => r.before = {}
    /\ r.stage = "writing" => /\ r.next \in {"gate", "name", "resolve", "enter", "record"}
                              /\ r.next = "gate" => r.must

Recorded(f, id, spec, b) ==
    \/ \E n \in DOMAIN f : /\ f[n].parses /\ f[n].rec.session = id
                           /\ f[n].rec.scope = spec /\ f[n].rec.boundary = b
    \/ Obscured(f, id)

\* A launch that got past the confinement gate as something that is not going to ask it again.
PastGate(r) ==
    \/ r.stage \in {"gate", "name", "enter", "record", "start"}
    \/ r.stage = "writing" /\ r.next # "resolve"

\* Its conversation is recorded, or is about to be before the launch goes on.
Secure(f, r) ==
    PastGate(r) /\ r.l.scope # None /\ Conversation(r.l) # None =>
       \/ Recorded(f, Conversation(r.l), r.l.scope, r.boundary)
       \/ /\ r.stage = "writing" /\ r.next = "gate"
          /\ \E rec \in r.writes : /\ rec.session = Conversation(r.l)
                                   /\ rec.scope = r.l.scope /\ rec.boundary = r.boundary

\* It runs as whatever its session had run as before.
Passed(r) == \A f \in r.before : r.l.scope = f.scope /\ f.boundary \in {None, r.boundary}

Good(f, r) == WellFormed(r) /\ Secure(f, r) /\ Passed(r)

\* A readable line is found by a search for its session and for what it says of its scope or its profile.
Found(line) ==
    line.parses => /\ line.rec.session \in line.ids
                   /\ line.rec.scope # None => "scope" \in line.keys
                   /\ line.rec.pin # None => "profile" \in line.keys

FileOK ==
    /\ IsSequence(sidecar)
    /\ midLine => sidecar # <<>>
    /\ \A n \in DOMAIN sidecar : Found(sidecar[n])

Noted ==
    \A f \in ran : f.session # None /\ f.scope # None => Recorded(sidecar, f.session, f.scope, f.boundary)

LaunchesGood ==
    /\ DOMAIN launches = Launches
    /\ \A i \in Launches : Good(sidecar, launches[i])

Inv == FileOK /\ Noted /\ LaunchesGood

-----------------------------------------------------------------------------
(* A pin stands: what a launch has read of a session's pin when it writes  *)
(* one, or when its provider starts.                                       *)

PinGated(r) ==
    \/ r.stage \in {"name", "enter", "record", "start"}
    \/ r.stage = "writing" /\ r.next \in {"name", "enter", "record"}

\* The profile it applies is the registry's, unless that was edited since.
Current(r) ==
    /\ r.since \in Nat /\ r.since <= edits
    /\ r.applied # None =>
          /\ r.applied = [name |-> r.applied.name, digest |-> r.applied.digest]
          /\ r.since = edits => registry.def[r.applied.name] = r.applied.digest

GateAhead(r) == r.stage \in {"confine", "gate"} \/ (r.stage = "writing" /\ r.next = "gate")

\* The resume hint of a launch on its way to the profile gate is a conversation that its args name.
Decided(r) ==
    /\ GateAhead(r)
    /\ r.l.provider = "claude" /\ r.l.hint # None
    => r.l.hint \in {claudeSessionIDArg(r.l.args), claudeResumeValue(r.l.args)}

\* A pin about to be written was approved, or no other pin was there when the file was read.
ReadBefore(f, r) ==
    r.stage = "writing" =>
       /\ r.seen \in Nat /\ r.seen <= Len(f)
       /\ \A rec \in r.writes :
             \/ rec.pin = None
             \/ r.approved
             \/ ProfileOf(SubSeq(f, 1, r.seen), rec.session) \in {None, Unreadable, rec.pin}

\* Past the profile gate a launch that nobody approved applies what its session is pinned to.
Upheld(r) ==
    /\ PinGated(r) /\ r.l.provider = "claude" /\ Conversation(r.l) \in Sessions
    /\ ~r.approved /\ r.pinned # None /\ r.since = edits
    => r.applied = r.pinned

Pinned(r) == Current(r) /\ Decided(r) /\ ReadBefore(sidecar, r) /\ Upheld(r)

PinInv == edits \in Nat /\ \A i \in Launches : Pinned(launches[i])

-----------------------------------------------------------------------------
(* Sequences.                                                              *)

LEMMA InSequence == ASSUME NEW S, NEW s \in Seq(S) PROVE IsSequence(s)
<1>1. Len(s) \in Nat /\ DOMAIN s = 1 .. Len(s) /\ s \in [1 .. Len(s) -> {s[n] : n \in DOMAIN s}]
  OBVIOUS
<1> QED
  BY <1>1, SeqDef DEF IsSequence

LEMMA SequenceDomain ==
    ASSUME NEW s, IsSequence(s)
    PROVE  Len(s) \in Nat /\ DOMAIN s = 1 .. Len(s) /\ (s = <<>> <=> Len(s) = 0)
  BY DEF IsSequence

LEMMA Appending ==
    ASSUME NEW s, IsSequence(s), NEW e
    PROVE  /\ IsSequence(Append(s, e))
           /\ Append(s, e) # <<>>
           /\ DOMAIN Append(s, e) = DOMAIN s \cup {Len(s) + 1}
           /\ \A n \in DOMAIN s : Append(s, e)[n] = s[n]
           /\ Append(s, e)[Len(s) + 1] = e
<1> DEFINE S == {s[n] : n \in DOMAIN s} \cup {e}
<1>1. s \in Seq(S) /\ e \in S
  <2>1. s \in Seq({s[n] : n \in DOMAIN s})
    BY DEF IsSequence
  <2> QED
    BY <2>1
<1> HIDE DEF S
<1>2. Append(s, e) \in Seq(S) /\ Append(s, e) # <<>> /\ Len(Append(s, e)) = Len(s) + 1
      /\ (\A n \in 1 .. Len(s) : Append(s, e)[n] = s[n]) /\ Append(s, e)[Len(s) + 1] = e
  BY <1>1, AppendProperties
<1>3. Len(s) \in Nat /\ DOMAIN s = 1 .. Len(s) /\ DOMAIN Append(s, e) = 1 .. (Len(s) + 1)
  BY <1>1, <1>2
<1>4. IsSequence(Append(s, e))
  BY <1>2, InSequence
<1>5. DOMAIN Append(s, e) = DOMAIN s \cup {Len(s) + 1}
  BY <1>3
<1> QED
  BY <1>2, <1>3, <1>4, <1>5

LEMMA Replacing ==
    ASSUME NEW s, IsSequence(s), s # <<>>, NEW e
    PROVE  LET t == [s EXCEPT ![Len(s)] = e] IN
           /\ IsSequence(t) /\ t # <<>>
           /\ DOMAIN t = DOMAIN s /\ Len(s) \in DOMAIN s
           /\ \A n \in DOMAIN s : t[n] = IF n = Len(s) THEN e ELSE s[n]
<1> DEFINE S == {s[n] : n \in DOMAIN s} \cup {e}
<1>1. s \in Seq(S) /\ e \in S
  <2>1. s \in Seq({s[n] : n \in DOMAIN s})
    BY DEF IsSequence
  <2> QED
    BY <2>1
<1> HIDE DEF S
<1>2. Len(s) \in 1 .. Len(s) /\ DOMAIN s = 1 .. Len(s)
  BY <1>1
<1> DEFINE t == [s EXCEPT ![Len(s)] = e]
<1>3. t \in Seq(S) /\ Len(t) = Len(s)
  BY <1>1, <1>2, ExceptSeq
<1>4. DOMAIN t = DOMAIN s /\ \A n \in DOMAIN s : t[n] = IF n = Len(s) THEN e ELSE s[n]
  OBVIOUS
<1>5. t # <<>> /\ IsSequence(t)
  <2>1. IsSequence(t)
    BY <1>3, InSequence
  <2>2. t # <<>>
    BY <1>2, <1>3
  <2> QED
    BY <2>1, <2>2
<1> QED
  BY <1>2, <1>4, <1>5

LEMMA Joining ==
    ASSUME NEW s, IsSequence(s), NEW e
    PROVE  IsSequence(<<e>> \o s)
<1> DEFINE S == {s[n] : n \in DOMAIN s} \cup {e}
<1>1. s \in Seq(S) /\ <<e>> \in Seq(S)
  <2>1. s \in Seq({s[n] : n \in DOMAIN s})
    BY DEF IsSequence
  <2> QED
    BY <2>1
<1> HIDE DEF S
<1> QED
  BY <1>1, ConcatProperties, InSequence

LEMMA Dropping ==
    ASSUME NEW s, IsSequence(s)
    PROVE  IsSequence(withoutClaudeSessionArgs(s))
<1> DEFINE t == withoutClaudeSessionArgs(s)
           T == {t[n] : n \in DOMAIN t}
<1>1. Len(s) \in Nat /\ DOMAIN s = 1 .. Len(s)
  BY SequenceDomain
<1>2. t \in [1 .. Len(s) -> T]
  BY <1>1 DEF withoutClaudeSessionArgs
<1>3. t \in Seq(T)
  BY <1>1, <1>2, SeqDef
<1> QED
  BY <1>3 DEF IsSequence

LEMMA Least ==
    ASSUME NEW N \in SUBSET Nat, N # {}
    PROVE  \E n \in N : \A m \in N : n <= m
<1>1. PICK n \in N : \A m \in N : <<m, n>> \notin OpToRel(<, Nat)
  BY NatLessThanWellFounded, WFMin
<1>2. ASSUME NEW m \in N PROVE n <= m
  <2>1. ~(m < n)
    BY <1>1 DEF OpToRel
  <2> QED
    BY <2>1
<1> QED
  BY <1>2

LEMMA LatestIsOne ==
    ASSUME NEW k \in Nat, NEW N \in SUBSET (1 .. k), N # {}
    PROVE  Latest(N) \in N
<1> DEFINE M == {n \in Nat : k - n \in N}
<1>1. M \in SUBSET Nat
  OBVIOUS
<1>2. M # {}
  <2>1. PICK n \in N : TRUE
    OBVIOUS
  <2>2. n \in Nat /\ k - n \in Nat /\ k - (k - n) = n
    BY <2>1
  <2> QED
    BY <2>2
<1>3. PICK m \in M : \A j \in M : m <= j
  BY <1>1, <1>2, Least
<1>4. ASSUME NEW j \in N PROVE j <= k - m
  <2>1. j \in Nat /\ k - j \in Nat /\ k - (k - j) = j
    OBVIOUS
  <2>2. k - j \in M
    BY <2>1
  <2> QED
    BY <1>3, <2>1, <2>2
<1> QED
  BY <1>3, <1>4 DEF Latest

-----------------------------------------------------------------------------
(* The args.                                                               *)

LEMMA FirstIsOne ==
    ASSUME NEW args, IsSequence(args), NEW ks, Of(args, ks) # {}
    PROVE  \E n \in Of(args, ks) : First(args, ks) = args[n]
<1>1. Of(args, ks) \in SUBSET Nat
  BY SequenceDomain DEF Of
<1>2. \E n \in Of(args, ks) : \A m \in Of(args, ks) : n <= m
  BY <1>1, Least
<1> QED
  BY <1>2 DEF First

\* The conversation a launch names is one of the ids its confinement is looked up under.
LEMMA ConversationNamed ==
    ASSUME NEW l, WellFlagged(l), Conversation(l) # None
    PROVE  Conversation(l) \in launchScopeIDs(l)
<1>1. CASE claudeResumeID(l.args) # None
  <2>1. Conversation(l) = claudeResumeValue(l.args) /\ claudeResumeValue(l.args) # None
    BY <1>1 DEF Conversation, claudeResumeID
  <2>2. /\ Of(l.args, {"resume", "cluster"}) # {}
        /\ First(l.args, {"resume", "cluster"}).k # "cluster"
        /\ Conversation(l) = First(l.args, {"resume", "cluster"}).v
    BY <2>1 DEF claudeResumeValue, resumeOccurrences
  <2>3. PICK n \in Of(l.args, {"resume", "cluster"}) : First(l.args, {"resume", "cluster"}) = l.args[n]
    BY <2>2, FirstIsOne DEF WellFlagged
  <2>4. n \in Of(l.args, {"resume", "session-id"}) /\ l.args[n].v = Conversation(l)
    BY <2>2, <2>3 DEF Of
  <2> QED
    BY <2>4 DEF launchScopeIDs, Values
<1>2. CASE claudeResumeID(l.args) = None
  BY <1>2 DEF Conversation, launchScopeIDs, lineageRecordIDs, WellFlagged
<1> QED
  BY <1>1, <1>2

\* What clown decides of a session leaves the args a sequence.
LEMMA DecidedArgs ==
    ASSUME NEW args, IsSequence(args), NEW key, NEW minted
    PROVE  IsSequence(decideClaudeSession(args, key, minted).args)
<1>1. \A id : IsSequence(<<[k |-> "session-id", v |-> id]>> \o args)
  BY Joining
<1> QED
  BY <1>1 DEF decideClaudeSession

-----------------------------------------------------------------------------
(* The file.                                                               *)

\* Whatever is written into the file, what was recorded stays recorded, or
\* stays a reason to refuse.
LEMMA FileHolds ==
    ASSUME FileOK, NEW line, Found(line), NEW saw, sidecar' = Appended(line, saw)
    PROVE  /\ FileOK'
           /\ \A id, spec, b : spec # None /\ Recorded(sidecar, id, spec, b) => Recorded(sidecar', id, spec, b)
<1>1. CASE midLine /\ ~saw
  <2> DEFINE k == Len(sidecar)
             g == Glued(sidecar[k], line)
  <2>1. sidecar' = [sidecar EXCEPT ![k] = g]
    BY <1>1 DEF Appended
  <2>2. /\ IsSequence(sidecar') /\ sidecar' # <<>>
        /\ DOMAIN sidecar' = DOMAIN sidecar /\ k \in DOMAIN sidecar
        /\ \A n \in DOMAIN sidecar : sidecar'[n] = IF n = k THEN g ELSE sidecar[n]
    BY <1>1, <2>1, Replacing DEF FileOK
  <2>3. ~g.parses /\ g.ids = sidecar[k].ids \cup line.ids /\ g.keys = sidecar[k].keys \cup line.keys
    BY DEF Glued
  <2> HIDE DEF k, g
  <2>4. FileOK'
    BY <2>2, <2>3 DEF FileOK, Found
  <2>5. ASSUME NEW id, Obscured(sidecar, id) PROVE Obscured(sidecar', id)
    BY <2>2, <2>3, <2>5 DEF Obscured, Hidden
  <2>6. ASSUME NEW id, NEW spec, NEW b, spec # None, Recorded(sidecar, id, spec, b), ~Obscured(sidecar, id)
        PROVE  Recorded(sidecar', id, spec, b)
    <3>1. PICK n \in DOMAIN sidecar : /\ sidecar[n].parses /\ sidecar[n].rec.session = id
                                      /\ sidecar[n].rec.scope = spec /\ sidecar[n].rec.boundary = b
      BY <2>6 DEF Recorded
    <3>2. id \in sidecar[n].ids /\ "scope" \in sidecar[n].keys
      BY <2>6, <3>1 DEF FileOK, Found
    <3>3. CASE n = k
      BY <2>2, <2>3, <3>2, <3>3 DEF Recorded, Obscured, Hidden
    <3>4. CASE n # k
      BY <2>2, <3>1, <3>4 DEF Recorded
    <3> QED
      BY <3>3, <3>4
  <2> QED
    BY <2>4, <2>5, <2>6 DEF Recorded
<1>2. CASE ~(midLine /\ ~saw)
  <2>1. sidecar' = Append(sidecar, line)
    BY <1>2 DEF Appended
  <2>2. /\ IsSequence(sidecar') /\ sidecar' # <<>>
        /\ DOMAIN sidecar' = DOMAIN sidecar \cup {Len(sidecar) + 1}
        /\ \A n \in DOMAIN sidecar : sidecar'[n] = sidecar[n]
        /\ sidecar'[Len(sidecar) + 1] = line
    BY <2>1, Appending DEF FileOK
  <2>3. FileOK'
    BY <2>2 DEF FileOK
  <2>4. ASSUME NEW id, Obscured(sidecar, id) PROVE Obscured(sidecar', id)
    BY <2>2, <2>4 DEF Obscured, Hidden
  <2>5. ASSUME NEW id, NEW spec, NEW b, Recorded(sidecar, id, spec, b), ~Obscured(sidecar, id)
        PROVE  Recorded(sidecar', id, spec, b)
    BY <2>2, <2>5 DEF Recorded
  <2> QED
    BY <2>3, <2>4, <2>5 DEF Recorded
<1> QED
  BY <1>1, <1>2

\* A record that was written is recorded.
LEMMA WrittenIsRecorded ==
    ASSUME FileOK, NEW rec, rec.scope # None, NEW saw, sidecar' = Appended(Written(rec), saw)
    PROVE  Recorded(sidecar', rec.session, rec.scope, rec.boundary)
<1> DEFINE line == Written(rec)
<1>1. line.parses /\ line.rec = rec /\ rec.session \in line.ids /\ "scope" \in line.keys
  BY DEF Written, Keys
<1>2. CASE midLine /\ ~saw
  <2>1. sidecar' = [sidecar EXCEPT ![Len(sidecar)] = Glued(sidecar[Len(sidecar)], line)]
    BY <1>2 DEF Appended
  <2>2. /\ Len(sidecar) \in DOMAIN sidecar' 
        /\ sidecar'[Len(sidecar)] = Glued(sidecar[Len(sidecar)], line)
    BY <1>2, <2>1, Replacing DEF FileOK
  <2> QED
    BY <1>1, <2>2 DEF Recorded, Obscured, Hidden, Glued
<1>3. CASE ~(midLine /\ ~saw)
  <2>1. sidecar' = Append(sidecar, line)
    BY <1>3 DEF Appended
  <2>2. Len(sidecar) + 1 \in DOMAIN sidecar' /\ sidecar'[Len(sidecar) + 1] = line
    BY <2>1, Appending DEF FileOK
  <2> QED
    BY <1>1, <2>2 DEF Recorded
<1> QED
  BY <1>2, <1>3

-----------------------------------------------------------------------------
(* The gate.                                                               *)

\* A launch let through on a recorded session gets the spec recorded for it, and that spec's boundary is
\* the one recorded.
LEMMA VerdictHolds ==
    ASSUME FileOK, NEW l, NEW id \in launchScopeIDs(l), NEW spec, spec # None, NEW b,
           Recorded(sidecar, id, spec, b), ~Contested(id),
           ConfinementVerdict(l, sidecar, specs) # Refused
    PROVE  /\ ConfinementVerdict(l, sidecar, specs) = spec
           /\ b \in {None, specs[spec]}
<1> DEFINE v == ConfinementVerdict(l, sidecar, specs)
           recs == ScopeRecords(l, sidecar)
           one == CHOOSE r \in recs : TRUE
           T == Telling(sidecar, id, "scope")
           r0 == AgentScopeRecordOf(sidecar, id)
<1>1. v = agentScopeForLaunch(l, sidecar, specs)
  BY DEF ConfinementVerdict
<1>2. ~Obscured(sidecar, id)
  BY <1>1 DEF agentScopeForLaunch
<1>3. PICK n \in DOMAIN sidecar : /\ sidecar[n].parses /\ sidecar[n].rec.session = id
                                  /\ sidecar[n].rec.scope = spec /\ sidecar[n].rec.boundary = b
  BY <1>2 DEF Recorded
<1>4. n \in T
  BY <1>3 DEF Telling
<1>5. Len(sidecar) \in Nat /\ DOMAIN sidecar = 1 .. Len(sidecar)
  BY SequenceDomain DEF FileOK
<1>6. Latest(T) \in T
  <2>1. T \in SUBSET (1 .. Len(sidecar))
    BY <1>5 DEF Telling
  <2> QED
    BY <1>4, <1>5, <2>1, LatestIsOne
<1>7. \A m \in T : sidecar[m].rec.scope = spec /\ (sidecar[m].rec.boundary = b \/ None \in {sidecar[m].rec.boundary, b})
  BY <1>3, <1>4 DEF Contested
<1>8. r0 \in recs /\ r0.spec = spec /\ r0.boundary = BoundaryOf(sidecar, id, spec)
  BY <1>4, <1>6, <1>7 DEF ScopeRecords, HasScope, AgentScopeRecordOf
<1>9. ~ScopesDisagree(recs) /\ v = one.spec
      /\ ({r.boundary : r \in recs} \ {None} # {} => specs[one.spec] \in {r.boundary : r \in recs} \ {None})
  BY <1>1, <1>8 DEF agentScopeForLaunch
<1>10. one \in recs
  BY <1>8
<1>11. v = spec
  BY <1>8, <1>9, <1>10 DEF ScopesDisagree
<1>12. ASSUME b # None PROVE b = specs[spec]
  <2> DEFINE N == {m \in Telling(sidecar, id, "boundary") : sidecar[m].rec.scope = spec}
  <2>1. n \in N /\ N \subseteq T
    BY <1>3, <1>12 DEF Telling
  <2>2. Latest(N) \in N
    <3>1. N \in SUBSET (1 .. Len(sidecar))
      BY <1>5 DEF Telling
    <3> QED
      BY <1>5, <2>1, <3>1, LatestIsOne
  <2>3. BoundaryOf(sidecar, id, spec) = sidecar[Latest(N)].rec.boundary
    BY <2>1 DEF BoundaryOf
  <2>4. sidecar[Latest(N)].rec.boundary # None
    BY <2>2 DEF Telling
  <2>5. r0.boundary = b
    BY <1>7, <1>8, <1>12, <2>1, <2>2, <2>3, <2>4
  <2>6. PICK r \in recs : r.boundary = specs[spec] /\ r.boundary # None
    BY <1>8, <1>9, <1>11, <1>12, <2>5
  <2> QED
    BY <1>8, <1>9, <1>12, <2>5, <2>6 DEF ScopesDisagree
<1> QED
  BY <1>11, <1>12

-----------------------------------------------------------------------------
(* Steps that leave the file alone.                                        *)

\* One launch moves on, to a form that is good.
LEMMA Moved ==
    ASSUME Inv, NEW i \in Launches, NEW r, Becomes(i, r), UNCHANGED File, UNCHANGED ran, Good(sidecar, r)
    PROVE  Inv'
<1>1. DOMAIN launches' = Launches /\ \A j \in Launches : launches'[j] = IF j = i THEN r ELSE launches[j]
  BY DEF Becomes, Inv, LaunchesGood
<1>2. sidecar' = sidecar /\ midLine' = midLine /\ ran' = ran
  BY DEF File
<1>3. LaunchesGood'
  BY <1>1, <1>2 DEF Inv, LaunchesGood
<1>4. FileOK' /\ Noted'
  BY <1>2 DEF Inv, FileOK, Noted
<1> QED
  BY <1>3, <1>4 DEF Inv

\* A launch that is over, or was refused, has nothing to answer for.
LEMMA OverIsGood ==
    ASSUME NEW f, NEW r, Fields \subseteq DOMAIN r, r.stage \in {"done", "refused"}, r.before = {}
    PROVE  Good(f, r)
  BY DEF Good, WellFormed, Secure, PastGate, Passed

LEMMA Stopping ==
    ASSUME Inv, NEW i \in Launches, End(i) \/ \E by : Refuse(i, by), UNCHANGED File, UNCHANGED ran
    PROVE  Inv'
<1>1. \A by : /\ Fields \subseteq DOMAIN RefusedBy(i, by) /\ RefusedBy(i, by).stage = "refused"
              /\ RefusedBy(i, by).before = {}
  BY DEF RefusedBy, NoLaunch, Fields
<1> DEFINE done == [NoLaunch EXCEPT !.stage = "done"]
<1>2. Fields \subseteq DOMAIN done /\ done.stage = "done" /\ done.before = {}
  BY DEF NoLaunch, Fields
<1>3. Good(sidecar, done) /\ \A by : Good(sidecar, RefusedBy(i, by))
  BY <1>1, <1>2, OverIsGood
<1> QED
  BY <1>3, Moved DEF End, Refuse

\* What a launch is confined to and what it was checked against.
Alike(r, q) == /\ Fields \subseteq DOMAIN q
               /\ q.boundary = r.boundary /\ q.before = r.before /\ q.l.scope = r.l.scope

\* A launch that starts its stages over, still confined to what it was.
LEMMA StartingOver ==
    ASSUME NEW f, NEW r, Good(f, r), NEW q, Alike(r, q), q.stage \in {"resolve", "confine", "stopped", "running"},
           WellFlagged(q.l)
    PROVE  Good(f, q)
  BY DEF Good, WellFormed, Secure, PastGate, Passed, Alike

\* A launch past the gate goes on as what it is.
LEMMA GoingOn ==
    ASSUME NEW f, NEW r, Good(f, r), r.stage \in {"gate", "name", "enter", "record", "start"},
           NEW q, Alike(r, q), q.l.args = r.l.args, q.l.hint = r.l.hint, WellFlagged(q.l),
           q.stage \in {"gate", "name", "enter", "record", "start"} \/ (q.stage = "writing" /\ q.next \in {"name", "enter", "record", "resolve"})
    PROVE  Good(f, q)
<1>1. Conversation(q.l) = Conversation(r.l)
  BY DEF Conversation
<1>2. Secure(f, q)
  BY <1>1 DEF Good, Secure, PastGate, Alike
<1> QED
  BY <1>2 DEF Good, WellFormed, Passed, Alike

\* What Writing makes of launch r.
Busied(r, recs, must, next) ==
    [r EXCEPT !.stage = IF recs = {} THEN next ELSE "writing",
              !.writes = recs, !.must = must, !.next = next,
              !.sawMidLine = recs # {} /\ midLine, !.seen = IF recs = {} THEN 0 ELSE Len(sidecar)]

-----------------------------------------------------------------------------
(* A launch's own steps.                                                   *)

LEMMA StartStep ==
    ASSUME Inv, NEW i \in Launches, StartDirect(i) \/ ResumeFindsLive(i) \/ StartResume(i)
    PROVE  Inv'
<1> DEFINE r == launches[i]
<1>1. Good(sidecar, r)
  BY DEF Inv, LaunchesGood
<1>2. ASSUME r.stage = "idle", NEW l, WellFlagged(l), NEW w,
             Becomes(i, [r EXCEPT !.stage = "resolve", !.l = l, !.wraps = w]), UNCHANGED File, UNCHANGED ran
      PROVE  Inv'
  <2> DEFINE q == [r EXCEPT !.stage = "resolve", !.l = l, !.wraps = w]
  <2>1. Fields \subseteq DOMAIN q /\ q.stage = "resolve" /\ q.l = l /\ q.before = {}
    BY <1>1, <1>2 DEF Good, WellFormed, Fields
  <2>2. Good(sidecar, q)
    BY <1>2, <2>1 DEF Good, WellFormed, Secure, PastGate, Passed
  <2> QED
    BY <1>2, <2>2, Moved
<1>3. CASE StartDirect(i)
  <2>1. PICK inv \in Invocations[i] : Becomes(i, [r EXCEPT !.stage = "resolve", !.l = inv.l, !.wraps = inv.wraps])
    BY <1>3 DEF StartDirect
  <2>2. WellFlagged(inv.l)
    BY InvocationsAssumption DEF WellFlagged, FlagFields
  <2> QED
    BY <1>2, <1>3, <2>1, <2>2 DEF StartDirect
<1>4. CASE ResumeFindsLive(i)
  BY <1>4, Stopping DEF ResumeFindsLive
<1>5. CASE StartResume(i)
  <2>1. PICK inv \in Invocations[i] :
          \/ End(i)
          \/ \E recorded, confirmed :
                Becomes(i, [r EXCEPT !.stage = "resolve", !.wraps = inv.wraps,
                                     !.l = resumeLaunchFlags(inv.l, inv.resume, recorded, confirmed)])
    BY <1>5 DEF StartResume
  <2>2. CASE End(i)
    BY <1>5, <2>2, Stopping DEF StartResume
  <2>3. ASSUME NEW recorded, NEW confirmed,
               Becomes(i, [r EXCEPT !.stage = "resolve", !.wraps = inv.wraps,
                                     !.l = resumeLaunchFlags(inv.l, inv.resume, recorded, confirmed)])
        PROVE  Inv'
    <3> DEFINE l == resumeLaunchFlags(inv.l, inv.resume, recorded, confirmed)
    <3>1. /\ FlagFields \subseteq DOMAIN inv.l /\ IsSequence(inv.l.args) /\ inv.l.hint = None
      BY InvocationsAssumption DEF FlagFields
    <3>2. DOMAIN l = DOMAIN inv.l /\ l.hint = None /\ l.args = Append(inv.l.args, [k |-> "resume", v |-> inv.resume])
      BY <3>1 DEF resumeLaunchFlags, FlagFields
    <3>3. WellFlagged(l)
      BY <3>1, <3>2, Appending DEF WellFlagged
    <3> HIDE DEF l
    <3>4. [r EXCEPT !.stage = "resolve", !.wraps = inv.wraps, !.l = l]
          = [r EXCEPT !.stage = "resolve", !.l = l, !.wraps = inv.wraps]
      OBVIOUS
    <3> QED
      BY <1>2, <1>5, <2>3, <3>3, <3>4 DEF StartResume, l
  <2> QED
    BY <2>1, <2>2, <2>3
<1> QED
  BY <1>3, <1>4, <1>5

LEMMA ResolveStep == ASSUME Inv, NEW i \in Launches, Resolve(i) PROVE Inv'
<1> DEFINE r == launches[i]
           l == Identified(i, r.l)
<1>1. Good(sidecar, r) /\ r.stage = "resolve" /\ UNCHANGED File /\ UNCHANGED ran
  BY DEF Inv, LaunchesGood, Resolve
<1>2. WellFlagged(r.l)
  BY <1>1 DEF Good, WellFormed
<1>3. WellFlagged(l) /\ l.scope = r.l.scope
  <2>1. CASE r.l.provider = "claude" /\ ~r.l.naked
    <3> DEFINE d == decideClaudeSession(r.l.args, IF r.l.key = None THEN i ELSE r.l.key, i)
    <3>1. IsSequence(d.args)
      BY <1>2, DecidedArgs DEF WellFlagged
    <3>2. l = [r.l EXCEPT !.args = d.args, !.key = d.key, !.hint = d.hint]
      BY <2>1 DEF Identified
    <3> HIDE DEF d, l
    <3>3. /\ DOMAIN l = DOMAIN r.l /\ l.args = d.args /\ l.provider = "claude" /\ ~l.naked /\ l.scope = r.l.scope
      BY <1>2, <2>1, <3>2 DEF WellFlagged, FlagFields
    <3> QED
      BY <1>2, <3>1, <3>3 DEF WellFlagged
  <2>2. CASE ~(r.l.provider = "claude" /\ ~r.l.naked)
    <3>1. l = [r.l EXCEPT !.key = IF @ = None THEN i ELSE @]
      BY <2>2 DEF Identified
    <3> QED
      BY <1>2, <3>1 DEF WellFlagged, FlagFields
  <2> QED
    BY <2>1, <2>2
<1> HIDE DEF l
<1>4. \/ Refuse(i, "resolve")
      \/ \E a, calm : Becomes(i, [r EXCEPT !.stage = "confine", !.applied = a, !.since = edits, !.l = l, !.calm = calm])
  BY DEF Resolve, l
<1>5. ASSUME NEW a, NEW calm,
             Becomes(i, [r EXCEPT !.stage = "confine", !.applied = a, !.since = edits, !.l = l, !.calm = calm])
      PROVE  Inv'
  <2> DEFINE q == [r EXCEPT !.stage = "confine", !.applied = a, !.since = edits, !.l = l, !.calm = calm]
  <2>1. Alike(r, q) /\ q.stage = "confine" /\ q.l = l
    BY <1>1, <1>3 DEF Good, WellFormed, Alike, Fields
  <2>2. Good(sidecar, q)
    BY <1>1, <1>3, <2>1, StartingOver
  <2> QED
    BY <1>1, <1>5, <2>2, Moved
<1> QED
  BY <1>1, <1>4, <1>5, Stopping

LEMMA ConfineStep == ASSUME Inv, NEW i \in Launches, Confine(i) PROVE Inv'
<1> DEFINE r == launches[i]
           l == r.l
           spec == ConfinementVerdict(l, sidecar, specs)
           b == IF spec = None THEN None ELSE specs[spec]
           recs == IF spec \in {None, Refused} THEN {}
                   ELSE {[Blank(id) EXCEPT !.scope = spec, !.boundary = specs[spec]] : id \in ConfinedIds(l)}
           new == [l EXCEPT !.scope = spec]
           next == [r EXCEPT !.l = new, !.boundary = b, !.before = RanConfined(Conversation(l)),
                             !.calm = @ /\ ~(Wraps(i) /\ spec # None /\ OwnRecordRefuses(l))]
<1>1. Good(sidecar, r) /\ r.stage = "confine" /\ UNCHANGED File /\ UNCHANGED ran
  BY DEF Inv, LaunchesGood, Confine
<1>2. WellFlagged(l)
  BY <1>1 DEF Good, WellFormed
<1>3. CASE spec = Refused
  BY <1>1, <1>3, Stopping DEF Confine
<1>4. CASE spec # Refused
  <2>1. Writing(i, recs, TRUE, "gate", next)
    BY <1>4 DEF Confine
  <2>2. WellFlagged(new) /\ new.scope = spec /\ new.args = l.args /\ new.hint = l.hint
    BY <1>2 DEF WellFlagged, FlagFields
  <2>3. Conversation(new) = Conversation(l)
    BY <2>2 DEF Conversation
  <2>4. /\ Fields \subseteq DOMAIN next
        /\ next.l = new /\ next.boundary = b /\ next.before = RanConfined(Conversation(l))
    BY <1>1 DEF Good, WellFormed, Fields
  <2>5. Conversation(l) # None /\ spec # None =>
          \E rec \in recs : rec.session = Conversation(l) /\ rec.scope = spec /\ rec.boundary = b
    <3> SUFFICES ASSUME Conversation(l) # None, spec # None
                 PROVE  \E rec \in recs : rec.session = Conversation(l) /\ rec.scope = spec /\ rec.boundary = b
      OBVIOUS
    <3> DEFINE rec == [Blank(Conversation(l)) EXCEPT !.scope = spec, !.boundary = specs[spec]]
    <3>1. Conversation(l) \in ConfinedIds(l)
      BY <1>2, ConversationNamed DEF ConfinedIds
    <3>2. rec \in recs
      BY <1>4, <3>1
    <3>3. rec.session = Conversation(l) /\ rec.scope = spec /\ rec.boundary = b
      BY DEF Blank
    <3> QED
      BY <3>2, <3>3
  <2>6. ASSUME NEW f \in RanConfined(Conversation(l)) PROVE spec = f.scope /\ f.boundary \in {None, b}
    <3>1. /\ f \in ran /\ f.session = Conversation(l) /\ Conversation(l) # None /\ f.scope # None
          /\ ~Contested(Conversation(l))
      BY DEF RanConfined
    <3>2. Recorded(sidecar, Conversation(l), f.scope, f.boundary)
      BY <3>1 DEF Inv, Noted
    <3>3. Conversation(l) \in launchScopeIDs(l)
      BY <1>2, <3>1, ConversationNamed
    <3>4. spec = f.scope /\ f.boundary \in {None, specs[f.scope]}
      BY <1>4, <3>1, <3>2, <3>3, VerdictHolds DEF Inv
    <3> QED
      BY <3>1, <3>4
  <2> HIDE DEF spec, b, recs, new, next
  <2> DEFINE q == Busied(next, recs, TRUE, "gate")
  <2>7. /\ Becomes(i, q) /\ Fields \subseteq DOMAIN q
        /\ q.l = new /\ q.boundary = b /\ q.before = RanConfined(Conversation(l))
        /\ q.stage = (IF recs = {} THEN "gate" ELSE "writing")
        /\ q.writes = recs /\ q.must /\ q.next = "gate"
    <3>1. Becomes(i, q)
      BY <2>1 DEF Writing, Busied
    <3> QED
      BY <2>4, <3>1 DEF Busied, Fields
  <2> HIDE DEF q
  <2>8. WellFormed(q)
    BY <2>2, <2>7 DEF WellFormed
  <2>9. Secure(sidecar, q)
    BY <2>2, <2>3, <2>5, <2>7 DEF Secure
  <2>10. Passed(q)
    BY <2>2, <2>6, <2>7 DEF Passed
  <2> QED
    BY <1>1, <2>7, <2>8, <2>9, <2>10, Moved DEF Good
<1> QED
  BY <1>3, <1>4

LEMMA GateStep == ASSUME Inv, NEW i \in Launches, Gate(i) PROVE Inv'
<1> DEFINE r == launches[i]
<1>1. Good(sidecar, r) /\ r.stage = "gate" /\ UNCHANGED File /\ UNCHANGED ran
  BY DEF Inv, LaunchesGood, Gate
<1>2. \/ Refuse(i, "profile")
      \/ \E recs, p, a, n : Writing(i, recs, TRUE, "name", [r EXCEPT !.launch = p, !.approved = a, !.pinned = n])
  BY DEF Gate
<1>3. ASSUME NEW recs, NEW p, NEW a, NEW n,
             Writing(i, recs, TRUE, "name", [r EXCEPT !.launch = p, !.approved = a, !.pinned = n])
      PROVE  Inv'
  <2> DEFINE m == [r EXCEPT !.launch = p, !.approved = a, !.pinned = n]
  <2>1. Fields \subseteq DOMAIN m /\ m.l = r.l /\ m.boundary = r.boundary /\ m.before = r.before
    BY <1>1 DEF Good, WellFormed, Fields
  <2> HIDE DEF m
  <2> DEFINE q == Busied(m, recs, TRUE, "name")
  <2>2. Becomes(i, q)
    BY <1>3 DEF Writing, Busied, m
  <2>3. /\ Fields \subseteq DOMAIN q /\ q.l = m.l /\ q.boundary = m.boundary /\ q.before = m.before
        /\ q.stage = (IF recs = {} THEN "name" ELSE "writing") /\ q.next = "name"
    BY <2>1 DEF Busied, Fields
  <2> HIDE DEF q
  <2>4. Good(sidecar, q)
    BY <1>1, <2>1, <2>3, GoingOn DEF Alike, Good, WellFormed
  <2> QED
    BY <1>1, <2>2, <2>4, Moved
<1> QED
  BY <1>1, <1>2, <1>3, Stopping

LEMMA NameStep == ASSUME Inv, NEW i \in Launches, Name(i) PROVE Inv'
<1> DEFINE r == launches[i]
           l == IF Wraps(i) THEN Inner(r.l, r.applied) ELSE r.l
           m == [r EXCEPT !.name = resolveClownName(i), !.l = l, !.muxName = IF Wraps(i) THEN r.l.key ELSE @]
           to == IF Wraps(i) THEN "resolve" ELSE "enter"
           recs == IF r.l.spawn THEN {[Blank(r.l.key) EXCEPT !.brief = "brief"]} ELSE {}
<1>1. Good(sidecar, r) /\ r.stage = "name" /\ UNCHANGED File /\ UNCHANGED ran
  BY DEF Inv, LaunchesGood, Name
<1>2. Writing(i, recs, FALSE, to, m)
  BY DEF Name
<1>3. WellFlagged(l) /\ l.scope = r.l.scope /\ l.args = r.l.args /\ l.hint = r.l.hint
  BY <1>1 DEF Good, WellFormed, WellFlagged, FlagFields, Inner, reexecArgv
<1>4. Fields \subseteq DOMAIN m /\ m.l = l /\ m.boundary = r.boundary /\ m.before = r.before
  BY <1>1 DEF Good, WellFormed, Fields
<1>5. to \in {"resolve", "enter"}
  OBVIOUS
<1> HIDE DEF l, m, to, recs
<1> DEFINE q == Busied(m, recs, FALSE, to)
<1>6. Becomes(i, q)
  BY <1>2 DEF Writing, Busied
<1>7. /\ Fields \subseteq DOMAIN q
      /\ q.l = l /\ q.boundary = r.boundary /\ q.before = r.before
      /\ q.stage = (IF recs = {} THEN to ELSE "writing") /\ q.next = to
  BY <1>4 DEF Busied, Fields
<1> HIDE DEF q
<1>8. Alike(r, q)
  BY <1>3, <1>7 DEF Alike
<1>9. Good(sidecar, q)
  <2>1. CASE q.stage = "resolve"
    BY <1>1, <1>3, <1>7, <1>8, <2>1, StartingOver
  <2>2. CASE q.stage # "resolve"
    BY <1>1, <1>3, <1>5, <1>7, <1>8, <2>2, GoingOn
  <2> QED
    BY <2>1, <2>2
<1> QED
  BY <1>1, <1>9, <1>6, Moved

LEMMA EnterStep == ASSUME Inv, NEW i \in Launches, Enter(i) PROVE Inv'
<1> DEFINE r == launches[i]
<1>1. Good(sidecar, r) /\ r.stage = "enter" /\ UNCHANGED File /\ UNCHANGED ran
  BY DEF Inv, LaunchesGood, Enter
<1>2. \/ End(i)
      \/ Becomes(i, [r EXCEPT !.stage = "start"])
      \/ \E ids : Becomes(i, [r EXCEPT !.stage = "record", !.present = TRUE, !.ids = ids])
  BY DEF Enter, Goto
<1>3. ASSUME NEW q, Becomes(i, q), \/ q = [r EXCEPT !.stage = "start"]
                                  \/ \E ids : q = [r EXCEPT !.stage = "record", !.present = TRUE, !.ids = ids]
      PROVE  Inv'
  <2>1. /\ Alike(r, q) /\ q.l = r.l /\ q.stage \in {"record", "start"}
    BY <1>1, <1>3 DEF Good, WellFormed, Fields, Alike
  <2>2. Good(sidecar, q)
    BY <1>1, <2>1, GoingOn DEF Good, WellFormed
  <2> QED
    BY <1>1, <1>3, <2>2, Moved
<1> QED
  BY <1>1, <1>2, <1>3, Stopping

LEMMA RecordLaunchStep == ASSUME Inv, NEW i \in Launches, RecordLaunch(i) PROVE Inv'
<1> DEFINE r == launches[i]
<1>1. Good(sidecar, r) /\ r.stage = "record" /\ UNCHANGED File /\ UNCHANGED ran
  BY DEF Inv, LaunchesGood, RecordLaunch
<1>2. \/ Becomes(i, [r EXCEPT !.stage = "start"])
      \/ \E recs, ids : \E must \in BOOLEAN : Writing(i, recs, must, "record", [r EXCEPT !.ids = ids])
  BY DEF RecordLaunch, Goto
<1>3. CASE Becomes(i, [r EXCEPT !.stage = "start"])
  <2> DEFINE q == [r EXCEPT !.stage = "start"]
  <2>1. /\ Alike(r, q) /\ q.l = r.l /\ q.stage = "start"
    BY <1>1 DEF Good, WellFormed, Fields, Alike
  <2>2. Good(sidecar, q)
    BY <1>1, <2>1, GoingOn DEF Good, WellFormed
  <2> QED
    BY <1>1, <1>3, <2>2, Moved
<1>4. ASSUME NEW recs, NEW must \in BOOLEAN, NEW ids, Writing(i, recs, must, "record", [r EXCEPT !.ids = ids]) PROVE Inv'
  <2> DEFINE m == [r EXCEPT !.ids = ids]
  <2>1. Fields \subseteq DOMAIN m /\ m.l = r.l /\ m.boundary = r.boundary /\ m.before = r.before
    BY <1>1 DEF Good, WellFormed, Fields
  <2> HIDE DEF m
  <2> DEFINE q == Busied(m, recs, must, "record")
  <2>2. Becomes(i, q)
    BY <1>4 DEF Writing, Busied, m
  <2>3. /\ Fields \subseteq DOMAIN q /\ q.l = m.l /\ q.boundary = m.boundary /\ q.before = m.before
        /\ q.stage = (IF recs = {} THEN "record" ELSE "writing") /\ q.next = "record"
    BY <2>1 DEF Busied, Fields
  <2> HIDE DEF q
  <2>4. Good(sidecar, q)
    BY <1>1, <2>1, <2>3, GoingOn DEF Alike, Good, WellFormed
  <2> QED
    BY <1>1, <2>2, <2>4, Moved
<1> QED
  BY <1>2, <1>3, <1>4

\* What runs confined is recorded.
LEMMA RunStep == ASSUME Inv, NEW i \in Launches, Run(i) PROVE Inv'
<1> DEFINE r == launches[i]
           facts == [session |-> Conversation(r.l), scope |-> r.l.scope, boundary |-> r.boundary]
           q == [r EXCEPT !.stage = "running"]
<1>1. Good(sidecar, r) /\ r.stage = "start" /\ UNCHANGED File
  BY DEF Inv, LaunchesGood, Run
<1>2. CASE UNCHANGED ran /\ Refuse(i, "confinement")
  BY <1>1, <1>2, Stopping
<1>3. CASE ran' = ran \cup {facts} /\ Becomes(i, q)
  <2>1. Alike(r, q) /\ q.l = r.l /\ q.stage = "running"
    BY <1>1 DEF Good, WellFormed, Fields, Alike
  <2>2. Good(sidecar, q)
    BY <1>1, <2>1, StartingOver DEF Good, WellFormed
  <2>3. facts.session # None /\ facts.scope # None => Recorded(sidecar, facts.session, facts.scope, facts.boundary)
    BY <1>1 DEF Good, Secure, PastGate
  <2> HIDE DEF facts, q
  <2>4. sidecar' = sidecar /\ midLine' = midLine
    BY <1>1 DEF File
  <2>5. Noted'
    BY <1>3, <2>3, <2>4 DEF Inv, Noted
  <2>6. LaunchesGood'
    BY <1>3, <2>2, <2>4 DEF Becomes, Inv, LaunchesGood
  <2> QED
    BY <2>4, <2>5, <2>6 DEF Inv, FileOK
<1> QED
  BY <1>2, <1>3 DEF Run, Goto

LEMMA EndStep == ASSUME Inv, NEW i \in Launches, ProviderExits(i) \/ RelaunchGivenUp(i) PROVE Inv'
  BY Stopping DEF ProviderExits, RelaunchGivenUp

LEMMA RestartStep == ASSUME Inv, NEW i \in Launches, Restart(i) \/ Relaunch(i) PROVE Inv'
<1> DEFINE r == launches[i]
<1>1. Good(sidecar, r) /\ r.stage \in {"running", "stopped"} /\ UNCHANGED File /\ UNCHANGED ran
  BY DEF Inv, LaunchesGood, Restart, Relaunch
<1>2. WellFlagged(r.l)
  BY <1>1 DEF Good, WellFormed
<1>3. CASE Restart(i)
  <2> DEFINE q == [r EXCEPT !.stage = "stopped", !.restarts = @ + 1, !.calm = TRUE]
  <2>1. Alike(r, q) /\ q.l = r.l /\ q.stage = "stopped"
    BY <1>1 DEF Good, WellFormed, Fields, Alike
  <2>2. Good(sidecar, q)
    BY <1>1, <1>2, <2>1, StartingOver
  <2>3. Becomes(i, q)
    BY <1>3 DEF Restart
  <2> QED
    BY <1>1, <2>2, <2>3, Moved
<1>4. CASE Relaunch(i)
  <2> DEFINE l == Relaunched(r)
             q == [r EXCEPT !.stage = "resolve", !.l = l, !.relaunched = TRUE]
  <2>1. /\ DOMAIN l = DOMAIN r.l /\ l.scope = r.l.scope /\ l.hint = r.l.hint /\ l.provider = r.l.provider
        /\ (l.naked <=> r.l.naked)
        /\ l.args = Append(withoutClaudeSessionArgs(r.l.args), [k |-> "resume", v |-> r.l.key])
    BY <1>2 DEF Relaunched, reexecArgv, WellFlagged, FlagFields
  <2>2. WellFlagged(l)
    BY <1>2, <2>1, Dropping, Appending DEF WellFlagged
  <2>3. Becomes(i, q)
    BY <1>4 DEF Relaunch
  <2> HIDE DEF l
  <2>4. Alike(r, q) /\ q.l = l /\ q.stage = "resolve"
    BY <1>1, <2>1 DEF Good, WellFormed, Fields, Alike
  <2>5. Good(sidecar, q)
    BY <1>1, <2>2, <2>4, StartingOver
  <2> QED
    BY <1>1, <2>3, <2>5, Moved
<1> QED
  BY <1>3, <1>4

-----------------------------------------------------------------------------
(* Steps that write into the file, and the other actors.                   *)

Lasting(f, g) == \A id, spec, b : spec # None /\ Recorded(f, id, spec, b) => Recorded(g, id, spec, b)

\* A good launch stays good when what it reads in the file lasts, whatever is said of its calm.
LEMMA LastingGood ==
    ASSUME NEW f, NEW g, Lasting(f, g), NEW r, Good(f, r)
    PROVE  Good(g, r) /\ Good(g, [r EXCEPT !.calm = FALSE])
<1>1. Good(g, r)
  BY DEF Good, Secure, Lasting
<1> DEFINE q == [r EXCEPT !.calm = FALSE]
<1>2. /\ Fields \subseteq DOMAIN q /\ q.stage = r.stage /\ q.l = r.l /\ q.boundary = r.boundary
      /\ q.before = r.before /\ q.writes = r.writes /\ (q.must <=> r.must) /\ q.next = r.next
  BY DEF Good, WellFormed, Fields
<1> HIDE DEF q
<1>3. Good(g, q)
  BY <1>1, <1>2 DEF Good, WellFormed, Secure, PastGate, Passed
<1> QED
  BY <1>1, <1>3 DEF q

\* The launches but perhaps one are as they were, perhaps less calm.
LEMMA Disturbing ==
    ASSUME Inv, FileOK', Lasting(sidecar, sidecar'), ran' = ran, DOMAIN launches' = Launches,
           \A j \in Launches : \/ launches'[j] = launches[j]
                               \/ launches'[j] = [launches[j] EXCEPT !.calm = FALSE]
                               \/ Good(sidecar', launches'[j])
    PROVE  Inv'
<1>1. LaunchesGood'
  BY LastingGood DEF Inv, LaunchesGood
<1>2. Noted'
  BY DEF Inv, Noted, Lasting
<1> QED
  BY <1>1, <1>2 DEF Inv

LEMMA WrittenFound == ASSUME NEW rec PROVE Found(Written(rec)) /\ \A keys : Found(Torn(rec, keys))
  BY DEF Found, Written, Torn, Keys

\* With a record behind it, a launch still has the rest to write, or goes on.
LEMMA BehindIsGood ==
    ASSUME NEW f, NEW g, NEW r, Good(f, r), r.stage = "writing", Lasting(f, g), NEW rec \in r.writes,
           rec.session # None /\ rec.scope # None => Recorded(g, rec.session, rec.scope, rec.boundary)
    PROVE  Good(g, Behind(r, rec))
<1> DEFINE q == Behind(r, rec)
<1>1. /\ Fields \subseteq DOMAIN q /\ q.l = r.l /\ q.boundary = r.boundary /\ q.before = r.before
      /\ (q.must <=> r.must) /\ q.next = r.next
      /\ \/ r.writes = {rec} /\ q.stage = r.next
         \/ r.writes # {rec} /\ q.stage = "writing" /\ q.writes = r.writes \ {rec}
  BY DEF Good, WellFormed, Behind, Fields
<1> HIDE DEF q
<1>2. WellFormed(q) /\ Passed(q)
  BY <1>1 DEF Good, WellFormed, Passed
<1>3. Secure(g, q)
  <2> SUFFICES ASSUME PastGate(q), q.l.scope # None, Conversation(q.l) # None
               PROVE  \/ Recorded(g, Conversation(q.l), q.l.scope, q.boundary)
                      \/ /\ q.stage = "writing" /\ q.next = "gate"
                         /\ \E c \in q.writes : /\ c.session = Conversation(q.l)
                                                /\ c.scope = q.l.scope /\ c.boundary = q.boundary
    BY DEF Secure
  <2>1. PastGate(r)
    BY <1>1 DEF PastGate
  <2>2. CASE Recorded(f, Conversation(r.l), r.l.scope, r.boundary)
    BY <1>1, <2>2 DEF Lasting
  <2>3. ASSUME r.next = "gate", NEW c \in r.writes, c.session = Conversation(r.l), c.scope = r.l.scope,
               c.boundary = r.boundary
        PROVE  \/ Recorded(g, Conversation(q.l), q.l.scope, q.boundary)
               \/ q.stage = "writing" /\ q.next = "gate" /\ c \in q.writes
    <3>1. CASE c = rec
      BY <1>1, <2>3, <3>1
    <3>2. CASE c # rec
      BY <1>1, <2>3, <3>2
    <3> QED
      BY <3>1, <3>2
  <2> QED
    BY <1>1, <2>1, <2>2, <2>3 DEF Good, Secure
<1> QED
  BY <1>2, <1>3 DEF Good, q

LEMMA RecordStep == ASSUME Inv, NEW i \in Launches, Record(i) PROVE Inv'
<1> DEFINE r == launches[i]
<1>1. Good(sidecar, r) /\ r.stage = "writing" /\ ran' = ran
  BY DEF Inv, LaunchesGood, Record
<1>2. PICK rec \in r.writes, saw \in {r.sawMidLine, midLine} :
        IF SaysNothing(rec)
        THEN launches' = [launches EXCEPT ![i] = Behind(r, rec)] /\ UNCHANGED File
        ELSE /\ sidecar' = Appended(Written(rec), saw)
             /\ midLine' = FALSE
             /\ launches' = [Undisturbed(launches, i, rec) EXCEPT ![i] = Behind(r, rec)]
  BY DEF Record
<1>3. CASE SaysNothing(rec)
  <2>1. rec.session = None \/ rec.scope = None
    BY <1>3 DEF SaysNothing
  <2>2. Lasting(sidecar, sidecar)
    BY DEF Lasting
  <2>3. Good(sidecar, Behind(r, rec))
    BY <1>1, <2>1, <2>2, BehindIsGood
  <2> QED
    BY <1>1, <1>2, <1>3, <2>3, Moved DEF Becomes
<1>4. CASE ~SaysNothing(rec)
  <2>1. sidecar' = Appended(Written(rec), saw)
    BY <1>2, <1>4
  <2>2. FileOK' /\ Lasting(sidecar, sidecar')
    BY <2>1, FileHolds, WrittenFound DEF Inv, Lasting
  <2>3. rec.scope # None => Recorded(sidecar', rec.session, rec.scope, rec.boundary)
    BY <2>1, WrittenIsRecorded DEF Inv
  <2>4. Good(sidecar', Behind(r, rec))
    BY <1>1, <2>2, <2>3, BehindIsGood
  <2>5. /\ DOMAIN launches' = Launches /\ launches'[i] = Behind(r, rec)
        /\ \A j \in Launches \ {i} : \/ launches'[j] = launches[j]
                                     \/ launches'[j] = [launches[j] EXCEPT !.calm = FALSE]
    BY <1>2, <1>4 DEF Undisturbed
  <2> QED
    BY <1>1, <2>2, <2>4, <2>5, Disturbing
<1> QED
  BY <1>3, <1>4

LEMMA RecordFailsStep == ASSUME Inv, NEW i \in Launches, RecordFails(i) PROVE Inv'
<1> DEFINE r == launches[i]
           goesOn == [r EXCEPT !.writes = {}, !.stage = r.next, !.calm = FALSE, !.sawMidLine = FALSE, !.seen = 0]
           stops == [NoLaunch EXCEPT !.stage = "refused", !.refusedBy = "record"]
<1>1. Good(sidecar, r) /\ r.stage = "writing" /\ ran' = ran
  BY DEF Inv, LaunchesGood, RecordFails
<1>2. PICK rec \in r.writes, then \in (IF r.must THEN {stops} ELSE {goesOn, stops}) :
        /\ launches' = [Disturbed EXCEPT ![i] = then]
        /\ \/ UNCHANGED File
           \/ \E line \in {Written(rec)} \cup {Torn(rec, keys) : keys \in Cuts(rec)} :
                sidecar' = Appended(line, midLine)
  BY DEF RecordFails
<1>3. FileOK' /\ Lasting(sidecar, sidecar')
  <2>1. CASE UNCHANGED File
    <3>1. sidecar' = sidecar /\ midLine' = midLine
      BY <2>1 DEF File
    <3> QED
      BY <3>1 DEF Inv, FileOK, Lasting
  <2>2. ASSUME NEW line \in {Written(rec)} \cup {Torn(rec, keys) : keys \in Cuts(rec)},
               sidecar' = Appended(line, midLine)
        PROVE  FileOK' /\ Lasting(sidecar, sidecar')
    <3>1. Found(line)
      BY WrittenFound
    <3> QED
      BY <2>2, <3>1, FileHolds DEF Inv, Lasting
  <2> QED
    BY <1>2, <2>1, <2>2
<1>4. Good(sidecar', stops)
  <2>1. Fields \subseteq DOMAIN stops /\ stops.stage = "refused" /\ stops.before = {}
    BY DEF NoLaunch, Fields
  <2> QED
    BY <2>1, OverIsGood
<1>5. ASSUME ~r.must PROVE Good(sidecar', goesOn)
  <2>1. /\ Fields \subseteq DOMAIN goesOn /\ goesOn.l = r.l /\ goesOn.boundary = r.boundary
        /\ goesOn.before = r.before /\ goesOn.stage = r.next
    BY <1>1 DEF Good, WellFormed, Fields
  <2>2. r.next \in {"name", "resolve", "enter", "record"} /\ WellFlagged(r.l)
    BY <1>1, <1>5 DEF Good, WellFormed
  <2>3. Good(sidecar', r)
    BY <1>1, <1>3, LastingGood
  <2> HIDE DEF goesOn
  <2> QED
    BY <1>1, <2>1, <2>2, <2>3 DEF Good, WellFormed, Secure, PastGate, Passed
<1>6. Good(sidecar', then)
  BY <1>2, <1>4, <1>5
<1>7. /\ DOMAIN launches' = Launches /\ launches'[i] = then
      /\ \A j \in Launches \ {i} : launches'[j] = [launches[j] EXCEPT !.calm = FALSE]
  BY <1>2 DEF Disturbed
<1> QED
  BY <1>1, <1>3, <1>6, <1>7, Disturbing

LEMMA OthersStep == ASSUME Inv, EditRegistry \/ EditSpec \/ CloseSession \/ UNCHANGED vars PROVE Inv'
<1>1. sidecar' = sidecar /\ midLine' = midLine /\ ran' = ran
  BY DEF EditRegistry, EditSpec, CloseSession, vars, File
<1>2. launches' = Disturbed \/ launches' = launches
  BY DEF EditRegistry, EditSpec, CloseSession, vars
<1>3. /\ DOMAIN launches' = Launches
      /\ \A j \in Launches : \/ launches'[j] = launches[j]
                             \/ launches'[j] = [launches[j] EXCEPT !.calm = FALSE]
  BY <1>2 DEF Disturbed, Inv, LaunchesGood
<1>4. FileOK' /\ Lasting(sidecar, sidecar')
  BY <1>1 DEF Inv, FileOK, Lasting
<1> QED
  BY <1>1, <1>3, <1>4, Disturbing

-----------------------------------------------------------------------------
(* Together.                                                               *)

LEMMA InitGood == ASSUME Init PROVE Inv
<1>1. FileOK
  <2>1. IsSequence(sidecar) /\ \A n \in DOMAIN sidecar : sidecar[n] = Written(sidecar[n].rec)
    BY StartsAssumption DEF Init
  <2> QED
    BY <2>1, WrittenFound DEF FileOK, Init
<1>2. Noted
  <2>1. \A n \in DOMAIN sidecar : sidecar[n].parses
    BY StartsAssumption DEF Init, Written
  <2> QED
    BY <2>1 DEF Init, Noted, Recorded
<1>3. LaunchesGood
  <2>1. Fields \subseteq DOMAIN NoLaunch /\ NoLaunch.stage = "idle" /\ NoLaunch.before = {}
    BY DEF NoLaunch, Fields
  <2>2. Good(sidecar, NoLaunch)
    BY <2>1 DEF Good, WellFormed, Secure, PastGate, Passed
  <2> HIDE DEF NoLaunch
  <2> QED
    BY <2>2 DEF Init, LaunchesGood
<1> QED
  BY <1>1, <1>2, <1>3 DEF Inv

LEMMA NextGood == ASSUME Inv, [Next]_vars PROVE Inv'
<1>1. ASSUME NEW i \in Launches, LaunchStep(i) PROVE Inv'
  BY <1>1, StartStep, ResolveStep, ConfineStep, GateStep, NameStep, EnterStep, RecordLaunchStep, RunStep, EndStep,
     RecordStep, RecordFailsStep, RestartStep DEF LaunchStep
<1> QED
  BY <1>1, OthersStep DEF Next, Terminated

\* The files and the launches are as the argument needs them, always: what ran confined is recorded, and a
\* launch past its confinement gate has its own session's record behind it (recordConfinedLaunch before anything starts).
THEOREM RecordsHold == Spec => []Inv
  BY InitGood, NextGood, PTL DEF Spec

\* A session that ran confined runs under the same spec and the same boundary, whatever restarts, wraps,
\* resumes, failed writes and edits come in between (agentScopeForLaunch).
THEOREM ConfinementStays == Spec => []ConfinedStaysConfined
<1>1. Inv => ConfinedStaysConfined
  BY DEF Inv, LaunchesGood, Good, Passed, ConfinedStaysConfined
<1> QED
  BY <1>1, RecordsHold, PTL

-----------------------------------------------------------------------------
(* What a launch reads of a session's pin.                                 *)

\* The pin read of a file some of whose lines got worse is the one read before, or none can be read.
LEMMA Worsened ==
    ASSUME NEW f, IsSequence(f), \A n \in DOMAIN f : Found(f[n]),
           NEW g, DOMAIN g = DOMAIN f,
           \A n \in DOMAIN f : \/ g[n] = f[n]
                               \/ ~g[n].parses /\ f[n].ids \subseteq g[n].ids /\ f[n].keys \subseteq g[n].keys,
           NEW s
    PROVE  ProfileOf(g, s) \in {ProfileOf(f, s), Unreadable}
<1> SUFFICES ASSUME ~\E n \in Hidden(g, "profile") : s \in g[n].ids
             PROVE  ProfileOf(g, s) = ProfileOf(f, s)
  BY DEF ProfileOf
<1>1. ~\E n \in Hidden(f, "profile") : s \in f[n].ids
  BY DEF Hidden
<1> DEFINE N == Telling(f, s, "pin")
<1>2. Telling(g, s, "pin") = N /\ \A n \in N : g[n] = f[n]
  <2>1. ASSUME NEW n \in N PROVE g[n] = f[n]
    BY DEF Telling, Hidden, Found
  <2>2. \A n \in Telling(g, s, "pin") : g[n] = f[n]
    BY DEF Telling
  <2> QED
    BY <2>1, <2>2 DEF Telling
<1>3. N # {} => Latest(N) \in N
  BY SequenceDomain, LatestIsOne DEF Telling
<1> HIDE DEF N
<1>4. LastOf(g, s, "pin") = LastOf(f, s, "pin")
  BY <1>2, <1>3 DEF LastOf, N
<1> QED
  BY <1>1, <1>4 DEF ProfileOf

\* A line added at the end changes a session's pin only to the one it holds.
LEMMA Added ==
    ASSUME NEW f, IsSequence(f), NEW line, NEW s
    PROVE  LET g == Append(f, line) IN
           \/ ProfileOf(g, s) \in {ProfileOf(f, s), Unreadable}
           \/ line.parses /\ line.rec.session = s /\ line.rec.pin # None /\ ProfileOf(g, s) = line.rec.pin
<1> DEFINE g == Append(f, line)
           k == Len(f) + 1
           N == Telling(f, s, "pin")
<1>1. /\ Len(f) \in Nat /\ DOMAIN f = 1 .. Len(f) /\ DOMAIN g = DOMAIN f \cup {k}
      /\ (\A n \in DOMAIN f : g[n] = f[n]) /\ g[k] = line
  BY SequenceDomain, Appending
<1> HIDE DEF g
<1>2. CASE \E n \in Hidden(g, "profile") : s \in g[n].ids
  BY <1>2 DEF ProfileOf, g
<1>3. CASE ~\E n \in Hidden(g, "profile") : s \in g[n].ids
  <2>1. ~\E n \in Hidden(f, "profile") : s \in f[n].ids
    BY <1>1, <1>3 DEF Hidden
  <2>2. CASE line.parses /\ line.rec.session = s /\ line.rec.pin # None
    <3>1. Telling(g, s, "pin") = N \cup {k}
      BY <1>1, <2>2 DEF Telling
    <3>2. Latest(N \cup {k}) = k
      <4>1. \A n \in N : n \in Nat /\ n < k
        BY <1>1 DEF Telling
      <4> QED
        BY <1>1, <4>1 DEF Latest
    <3>3. LastOf(g, s, "pin") = line.rec.pin
      <4>1. Telling(g, s, "pin") # {} /\ Latest(Telling(g, s, "pin")) = k
        BY <3>1, <3>2
      <4> QED
        BY <1>1, <4>1 DEF LastOf
    <3> QED
      BY <1>3, <2>2, <3>3 DEF ProfileOf, g
  <2>3. CASE ~(line.parses /\ line.rec.session = s /\ line.rec.pin # None)
    <3>1. Telling(g, s, "pin") = N
      BY <1>1, <2>3 DEF Telling
    <3>2. N # {} => Latest(N) \in N
      BY <1>1, LatestIsOne DEF Telling
    <3>3. LastOf(g, s, "pin") = LastOf(f, s, "pin")
      BY <1>1, <3>1, <3>2 DEF LastOf, Telling
    <3>4. ProfileOf(g, s) = ProfileOf(f, s)
      BY <1>3, <2>1, <3>3 DEF ProfileOf
    <3> QED
      BY <3>4 DEF g
  <2> QED
    BY <2>2, <2>3
<1> QED
  BY <1>2, <1>3

LEMMA Prefix ==
    ASSUME NEW f, IsSequence(f), NEW n \in Nat, n <= Len(f)
    PROVE  LET p == SubSeq(f, 1, n) IN
           IsSequence(p) /\ DOMAIN p = 1 .. n /\ \A m \in 1 .. n : m \in DOMAIN f /\ p[m] = f[m]
<1> DEFINE S == {f[m] : m \in DOMAIN f}
           p == SubSeq(f, 1, n)
<1>1. f \in Seq(S)
  BY DEF IsSequence
<1> HIDE DEF S
<1>2. p \in Seq(S) /\ Len(p) = n /\ \A m \in 1 .. n : p[m] = f[m]
  BY <1>1, SubSeqProperties
<1> HIDE DEF p
<1>3. IsSequence(p) /\ DOMAIN p = 1 .. n
  <2>1. IsSequence(p)
    BY <1>2, InSequence
  <2> QED
    BY <1>2, <2>1, SequenceDomain
<1>4. \A m \in 1 .. n : m \in DOMAIN f
  BY SequenceDomain
<1> QED
  BY <1>2, <1>3, <1>4 DEF p

LEMMA WholePrefix == ASSUME NEW f, IsSequence(f) PROVE SubSeq(f, 1, Len(f)) = f
<1> DEFINE S == {f[m] : m \in DOMAIN f}
<1>1. f \in Seq(S)
  BY DEF IsSequence
<1> HIDE DEF S
<1> QED
  BY <1>1

\* What a write into the file does to the pins read of it, then and now.
LEMMA Reread ==
    ASSUME FileOK, NEW line, Found(line), NEW saw, sidecar' = Appended(line, saw), NEW s
    PROVE  /\ Len(sidecar') \in Nat /\ Len(sidecar) <= Len(sidecar')
           /\ \A n \in Nat : n <= Len(sidecar) =>
                 ProfileOf(SubSeq(sidecar', 1, n), s) \in {ProfileOf(SubSeq(sidecar, 1, n), s), Unreadable}
           /\ \/ ProfileOf(sidecar', s) \in {ProfileOf(sidecar, s), Unreadable}
              \/ /\ line.parses /\ line.rec.session = s /\ line.rec.pin # None
                 /\ ProfileOf(sidecar', s) = line.rec.pin
<1>1. IsSequence(sidecar) /\ Len(sidecar) \in Nat /\ DOMAIN sidecar = 1 .. Len(sidecar)
  BY SequenceDomain DEF FileOK
<1>2. /\ IsSequence(sidecar') /\ Len(sidecar') \in Nat /\ Len(sidecar) <= Len(sidecar')
      /\ \A n \in DOMAIN sidecar :
            \/ sidecar'[n] = sidecar[n]
            \/ /\ ~sidecar'[n].parses
               /\ sidecar[n].ids \subseteq sidecar'[n].ids /\ sidecar[n].keys \subseteq sidecar'[n].keys
      /\ \/ ProfileOf(sidecar', s) \in {ProfileOf(sidecar, s), Unreadable}
         \/ line.parses /\ line.rec.session = s /\ line.rec.pin # None /\ ProfileOf(sidecar', s) = line.rec.pin
  <2>1. CASE midLine /\ ~saw
    <3> DEFINE k == Len(sidecar)
               g == Glued(sidecar[k], line)
    <3>1. sidecar' = [sidecar EXCEPT ![k] = g]
      BY <2>1 DEF Appended
    <3>2. /\ IsSequence(sidecar') /\ DOMAIN sidecar' = DOMAIN sidecar
          /\ \A n \in DOMAIN sidecar : sidecar'[n] = IF n = k THEN g ELSE sidecar[n]
      BY <2>1, <3>1, Replacing DEF FileOK
    <3>3. ~g.parses /\ sidecar[k].ids \subseteq g.ids /\ sidecar[k].keys \subseteq g.keys
      BY DEF Glued
    <3> HIDE DEF g
    <3>4. \A n \in DOMAIN sidecar :
             \/ sidecar'[n] = sidecar[n]
             \/ /\ ~sidecar'[n].parses
                /\ sidecar[n].ids \subseteq sidecar'[n].ids /\ sidecar[n].keys \subseteq sidecar'[n].keys
      BY <3>2, <3>3
    <3>5. ProfileOf(sidecar', s) \in {ProfileOf(sidecar, s), Unreadable}
      BY <3>2, <3>4, Worsened DEF FileOK
    <3>6. Len(sidecar') = Len(sidecar)
      BY <1>1, <3>2, SequenceDomain
    <3> QED
      BY <1>1, <3>2, <3>4, <3>5, <3>6
  <2>2. CASE ~(midLine /\ ~saw)
    <3>1. sidecar' = Append(sidecar, line)
      BY <2>2 DEF Appended
    <3>2. /\ IsSequence(sidecar') /\ DOMAIN sidecar' = DOMAIN sidecar \cup {Len(sidecar) + 1}
          /\ \A n \in DOMAIN sidecar : sidecar'[n] = sidecar[n]
      BY <3>1, Appending DEF FileOK
    <3>3. Len(sidecar') \in Nat /\ Len(sidecar) <= Len(sidecar')
      BY <1>1, <3>2, SequenceDomain
    <3>4. \/ ProfileOf(sidecar', s) \in {ProfileOf(sidecar, s), Unreadable}
          \/ line.parses /\ line.rec.session = s /\ line.rec.pin # None /\ ProfileOf(sidecar', s) = line.rec.pin
      <4> DEFINE g == Append(sidecar, line)
      <4>1. \/ ProfileOf(g, s) \in {ProfileOf(sidecar, s), Unreadable}
            \/ line.parses /\ line.rec.session = s /\ line.rec.pin # None /\ ProfileOf(g, s) = line.rec.pin
        BY <1>1, Added
      <4> HIDE DEF g
      <4> QED
        BY <3>1, <4>1 DEF g
    <3> QED
      BY <3>2, <3>3, <3>4
  <2> QED
    BY <2>1, <2>2
<1>3. ASSUME NEW n \in Nat, n <= Len(sidecar)
      PROVE  ProfileOf(SubSeq(sidecar', 1, n), s) \in {ProfileOf(SubSeq(sidecar, 1, n), s), Unreadable}
  <2> DEFINE f == SubSeq(sidecar, 1, n)
             g == SubSeq(sidecar', 1, n)
  <2>1. /\ IsSequence(f) /\ DOMAIN f = 1 .. n /\ DOMAIN g = 1 .. n
        /\ \A m \in 1 .. n : m \in DOMAIN sidecar /\ f[m] = sidecar[m] /\ g[m] = sidecar'[m]
    BY <1>1, <1>2, <1>3, Prefix
  <2>2. \A m \in DOMAIN f : Found(f[m])
    BY <2>1 DEF FileOK
  <2>3. DOMAIN g = DOMAIN f /\ \A m \in DOMAIN f : g[m] = f[m] \/ (~g[m].parses /\ f[m].ids \subseteq g[m].ids /\ f[m].keys \subseteq g[m].keys)
    BY <1>2, <2>1
  <2> HIDE DEF f, g
  <2>4. ProfileOf(g, s) \in {ProfileOf(f, s), Unreadable}
    BY <2>1, <2>2, <2>3, Worsened
  <2> QED
    BY <2>4 DEF f, g
<1> QED
  BY <1>2, <1>3

-----------------------------------------------------------------------------
(* The profile gate.                                                       *)

\* A session id put before the args is the one they name.
LEMMA Injected ==
    ASSUME NEW args, IsSequence(args), NEW id
    PROVE  claudeSessionIDArg(<<[k |-> "session-id", v |-> id]>> \o args) = id
<1> DEFINE e == [k |-> "session-id", v |-> id]
           t == <<e>> \o args
           N == Of(t, {"session-id"})
           S == {args[n] : n \in DOMAIN args} \cup {e}
<1>1. args \in Seq(S) /\ <<e>> \in Seq(S)
  <2>1. args \in Seq({args[n] : n \in DOMAIN args})
    BY DEF IsSequence
  <2> QED
    BY <2>1
<1> HIDE DEF S
<1>2. t \in Seq(S) /\ Len(t) = 1 + Len(args) /\ t[1] = e /\ Len(args) \in Nat
  BY <1>1, ConcatProperties
<1>3. DOMAIN t = 1 .. Len(t) /\ 1 \in DOMAIN t /\ e.k = "session-id" /\ e.v = id
  BY <1>2
<1> HIDE DEF t, e
<1>4. 1 \in N /\ \A n \in N : n \in Nat /\ 1 <= n
  BY <1>2, <1>3 DEF Of
<1>5. \A n \in N : (\A m \in N : n <= m) => n = 1
  BY <1>4
<1>6. First(t, {"session-id"}) = e
  BY <1>2, <1>4, <1>5 DEF First
<1> QED
  BY <1>3, <1>4, <1>6 DEF claudeSessionIDArg, t, e

\* The hint that clown decides for a claude session is one that the decided args name.
LEMMA HintNamed ==
    ASSUME NEW args, IsSequence(args), NEW key, NEW minted, decideClaudeSession(args, key, minted).hint # None
    PROVE  LET d == decideClaudeSession(args, key, minted)
           IN  d.hint \in {claudeSessionIDArg(d.args), claudeResumeValue(d.args)}
<1>1. \A id : claudeSessionIDArg(<<[k |-> "session-id", v |-> id]>> \o args) = id
  BY Injected
<1> QED
  BY <1>1 DEF decideClaudeSession

\* A launch let through on a pinned session, and not by approval, applies the pin.
LEMMA PinApplied ==
    ASSUME NEW l, l.provider = "claude", Conversation(l) \in Sessions, Conversation(l) # None,
           l.hint # None => l.hint \in {claudeSessionIDArg(l.args), claudeResumeValue(l.args)},
           NEW f, ProfileOf(f, Conversation(l)) # None, NEW launch,
           checkLaunchProfile(l, launch, f).ok, ~checkLaunchProfile(l, launch, f).approved
    PROVE  launch = ProfileOf(f, Conversation(l)) /\ launch.digest # Unpinnable
<1>1. gatedSessionID(l, f) = Conversation(l)
  <2>1. CASE claudeResumeID(l.args) # None
    BY <2>1 DEF gatedSessionID, Conversation
  <2>2. CASE claudeResumeID(l.args) = None
    <3>1. Conversation(l) = l.hint
      BY <2>2 DEF Conversation
    <3>2. l.hint = claudeSessionIDArg(l.args)
      BY <2>2, <3>1 DEF claudeResumeID, isUUID
    <3> QED
      BY <2>2, <3>1, <3>2 DEF gatedSessionID
  <2> QED
    BY <2>1, <2>2
<1>2. ~No.ok
  BY DEF No
<1>3. l.digest = None
  <2>1. \A id : Approval(l, launch, id) = No \/ Approval(l, launch, id).approved
    BY DEF Approval
  <2> QED
    BY <1>2, <2>1 DEF checkLaunchProfile
<1> QED
  BY <1>1, <1>2, <1>3 DEF checkLaunchProfile

\* The pin that the gate wants written is approved, or the session has none.
LEMMA EarlyPin ==
    ASSUME NEW l, NEW launch, NEW f, checkLaunchProfile(l, launch, f).early # None
    PROVE  \/ checkLaunchProfile(l, launch, f).approved
           \/ ProfileOf(f, gatedSessionID(l, f)) = None
<1>1. No.early = None /\ NoPin.early = None
  BY DEF No, NoPin
<1>2. \A id : Approval(l, launch, id) = No \/ Approval(l, launch, id).approved
  BY DEF Approval
<1> QED
  BY <1>1, <1>2 DEF checkLaunchProfile

-----------------------------------------------------------------------------
(* Steps that leave the file alone, again for the pins.                    *)

LEMMA PinMoved ==
    ASSUME Inv, PinInv, NEW i \in Launches, NEW r, Becomes(i, r), Pinned(r),
           UNCHANGED File, registry' = registry, edits' = edits
    PROVE  PinInv'
<1>1. \A j \in Launches : launches'[j] = IF j = i THEN r ELSE launches[j]
  BY DEF Becomes, Inv, LaunchesGood
<1>2. sidecar' = sidecar
  BY DEF File
<1>3. ASSUME NEW j \in Launches PROVE Pinned(launches[j])'
  <2>1. Pinned(launches'[j])
    BY <1>1 DEF PinInv
  <2> QED
    BY <1>2, <2>1 DEF Pinned, Current, Decided, ReadBefore, Upheld
<1> QED
  BY <1>3 DEF PinInv

LEMMA OverIsPinned ==
    ASSUME NEW r, r.stage \in {"idle", "done", "refused"}, r.since = 0, r.applied = None, edits \in Nat
    PROVE  Pinned(r)
  BY DEF Pinned, Current, Decided, GateAhead, ReadBefore, Upheld, PinGated

LEMMA PinStopping ==
    ASSUME Inv, PinInv, NEW i \in Launches, End(i) \/ \E by : Refuse(i, by),
           UNCHANGED File, registry' = registry, edits' = edits
    PROVE  PinInv'
<1> DEFINE done == [NoLaunch EXCEPT !.stage = "done"]
<1>1. \A by : RefusedBy(i, by).stage = "refused" /\ RefusedBy(i, by).since = 0 /\ RefusedBy(i, by).applied = None
  BY DEF RefusedBy, NoLaunch
<1>2. done.stage = "done" /\ done.since = 0 /\ done.applied = None
  BY DEF NoLaunch
<1> HIDE DEF done
<1>3. Pinned(done)
  BY <1>2, OverIsPinned DEF PinInv
<1>4. \A by : Pinned(RefusedBy(i, by))
  BY <1>1, OverIsPinned DEF PinInv
<1> QED
  BY <1>3, <1>4, PinMoved DEF End, Refuse, done

\* A launch that starts its stages over, or runs, has no pin at hand.
LEMMA PinsAside ==
    ASSUME NEW r, Current(r), NEW q, q.applied = r.applied, q.since = r.since,
           q.stage \in {"resolve", "running", "stopped"}
    PROVE  Pinned(q)
  BY DEF Pinned, Current, Decided, GateAhead, ReadBefore, Upheld, PinGated

\* A launch past the profile gate goes on with what it has, and writes no pin that was not approved.
LEMMA PinsKept ==
    ASSUME FileOK, NEW r, Pinned(r), r.stage \in {"name", "enter", "record"},
           NEW q, q.applied = r.applied, q.since = r.since, q.pinned = r.pinned, q.approved <=> r.approved, q.l = r.l,
           \/ q.stage \in {"enter", "record", "start"}
           \/ /\ q.stage = "writing" /\ q.next \in {"enter", "record"} /\ q.seen = Len(sidecar)
              /\ \A rec \in q.writes :
                    rec.pin = None \/ r.approved \/ ProfileOf(sidecar, rec.session) \in {None, rec.pin}
    PROVE  Pinned(q)
<1>1. Current(q) /\ Decided(q) /\ Upheld(q)
  BY DEF Pinned, Current, Decided, GateAhead, Upheld, PinGated
<1>2. ReadBefore(sidecar, q)
  <2>1. Len(sidecar) \in Nat /\ SubSeq(sidecar, 1, Len(sidecar)) = sidecar
    BY SequenceDomain, WholePrefix DEF FileOK
  <2>2. ASSUME q.stage = "writing", NEW rec \in q.writes
        PROVE  \/ rec.pin = None
               \/ q.approved
               \/ ProfileOf(SubSeq(sidecar, 1, q.seen), rec.session) \in {None, Unreadable, rec.pin}
    <3>1. q.seen = Len(sidecar) /\ (rec.pin = None \/ r.approved \/ ProfileOf(sidecar, rec.session) \in {None, rec.pin})
      BY <2>2
    <3>2. CASE rec.pin = None
      BY <3>2
    <3>3. CASE r.approved
      BY <3>3
    <3>4. CASE ProfileOf(sidecar, rec.session) \in {None, rec.pin}
      BY <2>1, <3>1, <3>4
    <3> QED
      BY <3>1, <3>2, <3>3, <3>4
  <2>3. q.stage = "writing" => q.seen = Len(sidecar)
    OBVIOUS
  <2> QED
    BY <2>1, <2>2, <2>3 DEF ReadBefore
<1> QED
  BY <1>1, <1>2 DEF Pinned

LEMMA PinStart ==
    ASSUME Inv, PinInv, NEW i \in Launches, StartDirect(i) \/ ResumeFindsLive(i) \/ StartResume(i)
    PROVE  PinInv'
<1> DEFINE r == launches[i]
<1>1. UNCHANGED File /\ registry' = registry /\ edits' = edits
  BY DEF StartDirect, ResumeFindsLive, StartResume, Env
<1>2. \/ End(i)
      \/ \E l, w : Becomes(i, [r EXCEPT !.stage = "resolve", !.l = l, !.wraps = w])
      \/ \E l, w : Becomes(i, [r EXCEPT !.stage = "resolve", !.wraps = w, !.l = l])
  BY DEF StartDirect, ResumeFindsLive, StartResume
<1>3. ASSUME NEW l, NEW w, NEW q, \/ q = [r EXCEPT !.stage = "resolve", !.l = l, !.wraps = w]
                                  \/ q = [r EXCEPT !.stage = "resolve", !.wraps = w, !.l = l]
      PROVE  Pinned(q)
  <2>1. q.stage = "resolve" /\ q.applied = r.applied /\ q.since = r.since
    BY <1>3 DEF Inv, LaunchesGood, Good, WellFormed, Fields
  <2> QED
    BY <2>1, PinsAside DEF PinInv, Pinned
<1> QED
  BY <1>1, <1>2, <1>3, PinMoved, PinStopping

LEMMA PinResolve == ASSUME Inv, PinInv, NEW i \in Launches, Resolve(i) PROVE PinInv'
<1> DEFINE r == launches[i]
           l == Identified(i, r.l)
           a == Applied(r.l)
<1>1. r.stage = "resolve" /\ UNCHANGED File /\ registry' = registry /\ edits' = edits /\ Good(sidecar, r)
  BY DEF Resolve, Env, Inv, LaunchesGood
<1>2. WellFlagged(r.l)
  BY <1>1 DEF Good, WellFormed
<1>3. a \notin {None, Refused} => a = [name |-> a.name, digest |-> a.digest] /\ registry.def[a.name] = a.digest
  BY DEF Applied, Profile
<1>4. l.provider = "claude" /\ l.hint # None => l.hint \in {claudeSessionIDArg(l.args), claudeResumeValue(l.args)}
  <2>1. CASE r.l.provider = "claude" /\ ~r.l.naked
    <3> DEFINE key == IF r.l.key = None THEN i ELSE r.l.key
               d == decideClaudeSession(r.l.args, key, i)
    <3>1. d.hint # None => d.hint \in {claudeSessionIDArg(d.args), claudeResumeValue(d.args)}
      BY <1>2, HintNamed DEF WellFlagged
    <3>2. l = [r.l EXCEPT !.args = d.args, !.key = d.key, !.hint = d.hint]
      BY <2>1 DEF Identified
    <3> HIDE DEF d, l
    <3>3. l.args = d.args /\ l.hint = d.hint
      BY <1>2, <3>2 DEF WellFlagged, FlagFields
    <3> QED
      BY <3>1, <3>3
  <2>2. CASE ~(r.l.provider = "claude" /\ ~r.l.naked)
    <3>1. l = [r.l EXCEPT !.key = IF @ = None THEN i ELSE @]
      BY <2>2 DEF Identified
    <3> QED
      BY <1>2, <2>2, <3>1 DEF WellFlagged, FlagFields
  <2> QED
    BY <2>1, <2>2
<1> HIDE DEF l, a
<1>5. \/ Refuse(i, "resolve")
      \/ /\ a # Refused
         /\ \E calm : Becomes(i, [r EXCEPT !.stage = "confine", !.applied = a, !.since = edits, !.l = l, !.calm = calm])
  BY DEF Resolve, l, a
<1>6. ASSUME a # Refused, NEW calm
      PROVE  Pinned([r EXCEPT !.stage = "confine", !.applied = a, !.since = edits, !.l = l, !.calm = calm])
  <2> DEFINE q == [r EXCEPT !.stage = "confine", !.applied = a, !.since = edits, !.l = l, !.calm = calm]
  <2>1. q.stage = "confine" /\ q.applied = a /\ q.since = edits /\ q.l = l
    BY <1>1 DEF Good, WellFormed, Fields
  <2> HIDE DEF q
  <2>2. Pinned(q)
    BY <1>3, <1>4, <1>6, <2>1 DEF Pinned, Current, Decided, ReadBefore, Upheld, PinGated, PinInv
  <2> QED
    BY <2>2 DEF q
<1> QED
  BY <1>1, <1>5, <1>6, PinMoved, PinStopping

LEMMA PinConfine == ASSUME Inv, PinInv, NEW i \in Launches, Confine(i) PROVE PinInv'
<1> DEFINE r == launches[i]
<1>1. /\ r.stage = "confine" /\ UNCHANGED File /\ registry' = registry /\ edits' = edits
      /\ Good(sidecar, r) /\ Pinned(r)
  BY DEF Confine, Env, Inv, LaunchesGood, PinInv
<1>2. WellFlagged(r.l)
  BY <1>1 DEF Good, WellFormed
<1>3. \/ Refuse(i, "confinement")
      \/ \E recs, spec, b, before, calm :
            /\ \A rec \in recs : rec.pin = None
            /\ Writing(i, recs, TRUE, "gate",
                       [r EXCEPT !.l = [r.l EXCEPT !.scope = spec], !.boundary = b, !.before = before, !.calm = calm])
  <2> DEFINE spec == ConfinementVerdict(r.l, sidecar, specs)
             recs == IF spec \in {None, Refused} THEN {}
                     ELSE {[Blank(id) EXCEPT !.scope = spec, !.boundary = specs[spec]] : id \in ConfinedIds(r.l)}
  <2>1. \A rec \in recs : rec.pin = None
    BY DEF Blank
  <2>2. \/ Refuse(i, "confinement")
        \/ \E b, before, calm :
              Writing(i, recs, TRUE, "gate",
                      [r EXCEPT !.l = [r.l EXCEPT !.scope = spec], !.boundary = b, !.before = before, !.calm = calm])
    BY DEF Confine
  <2> HIDE DEF recs, spec
  <2> QED
    BY <2>1, <2>2
<1>4. ASSUME NEW recs, NEW spec, NEW b, NEW before, NEW calm, \A rec \in recs : rec.pin = None,
             Writing(i, recs, TRUE, "gate",
                     [r EXCEPT !.l = [r.l EXCEPT !.scope = spec], !.boundary = b, !.before = before, !.calm = calm])
      PROVE  PinInv'
  <2> DEFINE m == [r EXCEPT !.l = [r.l EXCEPT !.scope = spec], !.boundary = b, !.before = before, !.calm = calm]
  <2>1. /\ Fields \subseteq DOMAIN m /\ m.applied = r.applied /\ m.since = r.since
        /\ m.l.provider = r.l.provider /\ m.l.hint = r.l.hint /\ m.l.args = r.l.args
    BY <1>1, <1>2 DEF Good, WellFormed, Fields, WellFlagged, FlagFields
  <2> HIDE DEF m
  <2> DEFINE q == Busied(m, recs, TRUE, "gate")
  <2>2. Becomes(i, q)
    BY <1>4 DEF Writing, Busied, m
  <2>3. /\ q.applied = r.applied /\ q.since = r.since /\ q.l = m.l /\ q.next = "gate" /\ q.writes = recs
        /\ \/ q.stage = "gate" 
           \/ q.stage = "writing" /\ q.seen = Len(sidecar)
    BY <2>1 DEF Busied, Fields
  <2> HIDE DEF q
  <2>4. Pinned(q)
    <3>1. Current(q) /\ Upheld(q)
      BY <1>1, <2>3 DEF Pinned, Current, Upheld, PinGated
    <3>2. Decided(q)
      BY <1>1, <2>1, <2>3 DEF Pinned, Decided, GateAhead
    <3>3. ReadBefore(sidecar, q)
      BY <1>4, <2>3, SequenceDomain DEF ReadBefore, Inv, FileOK
    <3> QED
      BY <3>1, <3>2, <3>3 DEF Pinned
  <2> QED
    BY <1>1, <2>2, <2>4, PinMoved
<1> QED
  BY <1>1, <1>3, <1>4, PinStopping

LEMMA PinGate == ASSUME Inv, PinInv, NEW i \in Launches, Gate(i) PROVE PinInv'
<1> DEFINE r == launches[i]
           launch == launchProfilePin(r.applied)
           d == checkLaunchProfile(r.l, launch, sidecar)
           id == gatedSessionID(r.l, sidecar)
           recs == IF d.early = None THEN {} ELSE {[Blank(id) EXCEPT !.pin = d.early]}
           pin == IF Conversation(r.l) = None THEN None ELSE ProfileOf(sidecar, Conversation(r.l))
           m == [r EXCEPT !.launch = launch, !.approved = d.approved, !.pinned = pin]
           q == Busied(m, recs, TRUE, "name")
<1>1. /\ r.stage = "gate" /\ UNCHANGED File /\ registry' = registry /\ edits' = edits
      /\ Good(sidecar, r) /\ Pinned(r)
  BY DEF Gate, Env, Inv, LaunchesGood, PinInv
<1>2. Refuse(i, "profile") \/ (d.ok /\ Writing(i, recs, TRUE, "name", m))
  BY DEF Gate
<1>3. CASE Refuse(i, "profile")
  BY <1>1, <1>3, PinStopping
<1>4. CASE d.ok /\ Writing(i, recs, TRUE, "name", m)
  <2>1. \A rec \in recs : rec.session = id /\ d.early # None /\ rec.pin = d.early
    BY DEF Blank
  <2>2. d.early # None => d.approved \/ ProfileOf(sidecar, id) = None
    BY EarlyPin
  <2>3. \/ r.l.provider # "claude" \/ Conversation(r.l) \notin Sessions \/ d.approved \/ pin = None
        \/ launch = pin /\ launch.digest # Unpinnable
    <3>1. r.l.provider = "claude" /\ r.l.hint # None =>
             r.l.hint \in {claudeSessionIDArg(r.l.args), claudeResumeValue(r.l.args)}
      BY <1>1 DEF Pinned, Decided, GateAhead
    <3> QED
      BY <1>4, <3>1, PinApplied
  <2>4. /\ launch # None => r.applied # None
        /\ launch # None /\ launch.digest # Unpinnable /\ r.since = edits => launch = r.applied
    <3>1. CASE r.applied = None
      BY <3>1 DEF launchProfilePin
    <3>2. CASE r.applied # None
      <4>1. launch = [name |-> r.applied.name, digest |-> Vouched(r.applied.name)]
        BY <3>2 DEF launchProfilePin
      <4>2. Vouched(r.applied.name) \in {Unpinnable, registry.def[r.applied.name]}
        BY DEF Vouched
      <4>3. /\ r.applied = [name |-> r.applied.name, digest |-> r.applied.digest]
            /\ r.since = edits => registry.def[r.applied.name] = r.applied.digest
        BY <1>1, <3>2 DEF Pinned, Current
      <4>4. launch.digest = Vouched(r.applied.name)
        BY <4>1
      <4> HIDE DEF launch
      <4>5. ASSUME launch.digest # Unpinnable, r.since = edits PROVE launch = r.applied
        <5>1. Vouched(r.applied.name) = r.applied.digest
          BY <4>2, <4>3, <4>4, <4>5
        <5> QED
          BY <4>1, <4>3, <5>1
      <4> QED
        BY <3>2, <4>5
    <3> QED
      BY <3>1, <3>2
  <2>5. Becomes(i, q)
    BY <1>4 DEF Writing, Busied
  <2> HIDE DEF launch, id, pin
  <2>6. /\ Fields \subseteq DOMAIN m /\ m.applied = r.applied /\ m.since = r.since /\ m.l = r.l
        /\ m.pinned = pin /\ m.approved = d.approved
    BY <1>1 DEF Good, WellFormed, Fields
  <2> HIDE DEF m, d, recs
  <2>7. /\ q.applied = r.applied /\ q.since = r.since /\ q.l = r.l /\ q.pinned = pin
        /\ q.approved = d.approved /\ q.next = "name" /\ q.writes = recs
        /\ \/ q.stage = "name" 
           \/ q.stage = "writing" /\ q.seen = Len(sidecar)
    BY <2>6 DEF Busied, Fields
  <2> HIDE DEF q
  <2>8. Current(q) /\ Decided(q)
    BY <1>1, <2>7 DEF Pinned, Current, Decided, GateAhead
  <2>9. Upheld(q)
    <3>1. ASSUME q.l.provider = "claude", Conversation(q.l) \in Sessions, ~q.approved, q.pinned # None, q.since = edits
          PROVE  q.applied = q.pinned
      <4>1. launch = pin /\ launch.digest # Unpinnable /\ launch # None
        BY <2>3, <2>7, <3>1
      <4> QED
        BY <2>4, <2>7, <3>1, <4>1
    <3> QED
      BY <3>1 DEF Upheld
  <2>10. ReadBefore(sidecar, q)
    <3>1. Len(sidecar) \in Nat /\ SubSeq(sidecar, 1, Len(sidecar)) = sidecar
      BY SequenceDomain, WholePrefix DEF Inv, FileOK
    <3>2. ASSUME q.stage = "writing", NEW rec \in q.writes
          PROVE  q.approved \/ ProfileOf(SubSeq(sidecar, 1, q.seen), rec.session) = None
      <4>1. q.seen = Len(sidecar) /\ rec.session = id /\ d.early # None
        BY <2>1, <2>7, <3>2
      <4> QED
        BY <2>2, <2>7, <3>1, <4>1
    <3>3. q.stage = "writing" => q.seen = Len(sidecar)
      BY <2>7
    <3> QED
      BY <3>1, <3>2, <3>3 DEF ReadBefore
  <2> QED
    BY <1>1, <2>5, <2>8, <2>9, <2>10, PinMoved DEF Pinned
<1> QED
  BY <1>2, <1>3, <1>4

LEMMA PinName == ASSUME Inv, PinInv, NEW i \in Launches, Name(i) PROVE PinInv'
<1> DEFINE r == launches[i]
           l == IF Wraps(i) THEN Inner(r.l, r.applied) ELSE r.l
           m == [r EXCEPT !.name = resolveClownName(i), !.l = l, !.muxName = IF Wraps(i) THEN r.l.key ELSE @]
           to == IF Wraps(i) THEN "resolve" ELSE "enter"
           recs == IF r.l.spawn THEN {[Blank(r.l.key) EXCEPT !.brief = "brief"]} ELSE {}
           q == Busied(m, recs, FALSE, to)
<1>1. /\ r.stage = "name" /\ UNCHANGED File /\ registry' = registry /\ edits' = edits
      /\ Good(sidecar, r) /\ Pinned(r)
  BY DEF Name, Env, Inv, LaunchesGood, PinInv
<1>2. Becomes(i, q)
  BY DEF Name, Writing, Busied
<1>3. \A rec \in recs : rec.pin = None
  BY DEF Blank
<1>4. \/ to = "resolve"
      \/ to = "enter" /\ l = r.l
  OBVIOUS
<1> HIDE DEF l, recs, to
<1>5. /\ Fields \subseteq DOMAIN m /\ m.applied = r.applied /\ m.since = r.since /\ m.l = l
      /\ m.pinned = r.pinned /\ m.approved = r.approved
  BY <1>1 DEF Good, WellFormed, Fields
<1> HIDE DEF m
<1>6. /\ q.applied = r.applied /\ q.since = r.since /\ q.l = l /\ q.pinned = r.pinned
      /\ q.approved = r.approved /\ q.next = to /\ q.writes = recs
      /\ \/ q.stage = to 
         \/ q.stage = "writing" /\ q.seen = Len(sidecar)
  BY <1>5 DEF Busied, Fields
<1> HIDE DEF q
<1>7. CASE to = "enter" /\ l = r.l
  <2>1. Pinned(q)
    BY <1>1, <1>3, <1>6, <1>7, PinsKept DEF Inv
  <2> QED
    BY <1>1, <1>2, <2>1, PinMoved
<1>8. CASE to = "resolve"
  <2>1. Current(q) /\ Decided(q) /\ Upheld(q)
    BY <1>1, <1>6, <1>8 DEF Pinned, Current, Decided, GateAhead, Upheld, PinGated
  <2>2. ReadBefore(sidecar, q)
    BY <1>3, <1>6, <1>8, SequenceDomain DEF ReadBefore, Inv, FileOK
  <2> QED
    BY <1>1, <1>2, <2>1, <2>2, PinMoved DEF Pinned
<1> QED
  BY <1>4, <1>7, <1>8

LEMMA PinEnter == ASSUME Inv, PinInv, NEW i \in Launches, Enter(i) PROVE PinInv'
<1> DEFINE r == launches[i]
<1>1. /\ r.stage = "enter" /\ UNCHANGED File /\ registry' = registry /\ edits' = edits
      /\ Good(sidecar, r) /\ Pinned(r)
  BY DEF Enter, Env, Inv, LaunchesGood, PinInv
<1>2. \/ End(i)
      \/ Becomes(i, [r EXCEPT !.stage = "start"])
      \/ \E ids : Becomes(i, [r EXCEPT !.stage = "record", !.present = TRUE, !.ids = ids])
  BY DEF Enter, Goto
<1>3. ASSUME NEW q, Becomes(i, q), \/ q = [r EXCEPT !.stage = "start"]
                                  \/ \E ids : q = [r EXCEPT !.stage = "record", !.present = TRUE, !.ids = ids]
      PROVE  PinInv'
  <2>1. /\ q.applied = r.applied /\ q.since = r.since /\ q.l = r.l /\ q.pinned = r.pinned
        /\ q.approved = r.approved /\ q.stage \in {"record", "start"}
    BY <1>1, <1>3 DEF Good, WellFormed, Fields
  <2>2. Pinned(q)
    BY <1>1, <2>1, PinsKept DEF Inv
  <2> QED
    BY <1>1, <1>3, <2>2, PinMoved
<1> QED
  BY <1>1, <1>2, <1>3, PinStopping

LEMMA PinRecordLaunch == ASSUME Inv, PinInv, NEW i \in Launches, RecordLaunch(i) PROVE PinInv'
<1> DEFINE r == launches[i]
           base(id) == [Blank(id) EXCEPT !.name = r.name, !.scope = r.l.scope, !.boundary = r.boundary]
           approved(id) == approvesRecordFor(r.l, [approved |-> r.approved], id)
           pin(id) == launchRecordFor(id, r.launch, approved(id), sidecar)
           rec(id) == [base(id) EXCEPT !.pin = pin(id)]
<1>1. /\ r.stage = "record" /\ UNCHANGED File /\ registry' = registry /\ edits' = edits
      /\ Good(sidecar, r) /\ Pinned(r)
  BY DEF RecordLaunch, Env, Inv, LaunchesGood, PinInv
<1>2. \/ Becomes(i, [r EXCEPT !.stage = "start"])
      \/ \E id \in r.ids : Writing(i, {rec(id)}, r.l.scope # None, "record", [r EXCEPT !.ids = @ \ {id}])
  BY DEF RecordLaunch, Goto
<1>3. CASE Becomes(i, [r EXCEPT !.stage = "start"])
  <2> DEFINE q == [r EXCEPT !.stage = "start"]
  <2>1. /\ q.applied = r.applied /\ q.since = r.since /\ q.l = r.l /\ q.pinned = r.pinned
        /\ q.approved = r.approved /\ q.stage = "start"
    BY <1>1 DEF Good, WellFormed, Fields
  <2> HIDE DEF q
  <2>2. Pinned(q)
    BY <1>1, <2>1, PinsKept DEF Inv
  <2> QED
    BY <1>1, <1>3, <2>2, PinMoved DEF q
<1>4. ASSUME NEW id \in r.ids, Writing(i, {rec(id)}, r.l.scope # None, "record", [r EXCEPT !.ids = @ \ {id}])
      PROVE  PinInv'
  <2> DEFINE m == [r EXCEPT !.ids = @ \ {id}]
             q == Busied(m, {rec(id)}, r.l.scope # None, "record")
  <2>1. rec(id).session = id /\ rec(id).pin = pin(id)
    BY DEF Blank
  <2>2. pin(id) = None \/ r.approved \/ ProfileOf(sidecar, id) \in {None, pin(id)}
    BY DEF launchRecordFor, approvesRecordFor
  <2>3. Becomes(i, q)
    BY <1>4 DEF Writing, Busied
  <2> HIDE DEF rec, pin
  <2>4. /\ Fields \subseteq DOMAIN m /\ m.applied = r.applied /\ m.since = r.since /\ m.l = r.l
        /\ m.pinned = r.pinned /\ m.approved = r.approved
    BY <1>1 DEF Good, WellFormed, Fields
  <2> HIDE DEF m
  <2>5. /\ q.applied = r.applied /\ q.since = r.since /\ q.l = r.l /\ q.pinned = r.pinned
        /\ q.approved = r.approved /\ q.next = "record" /\ q.writes = {rec(id)}
        /\ q.stage = "writing" /\ q.seen = Len(sidecar)
    BY <2>4 DEF Busied, Fields
  <2> HIDE DEF q
  <2>6. Pinned(q)
    BY <1>1, <2>1, <2>2, <2>5, PinsKept DEF Inv
  <2> QED
    BY <1>1, <2>3, <2>6, PinMoved
<1> QED
  BY <1>2, <1>3, <1>4

\* Nothing that starts over, runs or ends has a pin at hand.
LEMMA PinOthers ==
    ASSUME Inv, PinInv, NEW i \in Launches,
           Run(i) \/ ProviderExits(i) \/ Restart(i) \/ RelaunchGivenUp(i) \/ Relaunch(i)
    PROVE  PinInv'
<1> DEFINE r == launches[i]
<1>1. UNCHANGED File /\ registry' = registry /\ edits' = edits /\ Good(sidecar, r) /\ Pinned(r)
  BY DEF Run, ProviderExits, Restart, RelaunchGivenUp, Relaunch, Env, Inv, LaunchesGood, PinInv
<1>2. \/ End(i)
      \/ Refuse(i, "confinement")
      \/ Becomes(i, [r EXCEPT !.stage = "running"])
      \/ Becomes(i, [r EXCEPT !.stage = "stopped", !.restarts = @ + 1, !.calm = TRUE])
      \/ Becomes(i, [r EXCEPT !.stage = "resolve", !.l = Relaunched(r), !.relaunched = TRUE])
  BY DEF Run, ProviderExits, Restart, RelaunchGivenUp, Relaunch, Goto
<1>3. ASSUME NEW q, Becomes(i, q),
             \/ q = [r EXCEPT !.stage = "running"]
             \/ q = [r EXCEPT !.stage = "stopped", !.restarts = @ + 1, !.calm = TRUE]
             \/ q = [r EXCEPT !.stage = "resolve", !.l = Relaunched(r), !.relaunched = TRUE]
      PROVE  PinInv'
  <2>1. q.applied = r.applied /\ q.since = r.since /\ q.stage \in {"resolve", "running", "stopped"}
    BY <1>1, <1>3 DEF Good, WellFormed, Fields
  <2>2. Pinned(q)
    BY <1>1, <2>1, PinsAside DEF Pinned
  <2> QED
    BY <1>1, <1>3, <2>2, PinMoved
<1> QED
  BY <1>1, <1>2, <1>3, PinStopping

-----------------------------------------------------------------------------
(* Steps that write into the file, and the other actors, for the pins.     *)

Rereads(f, g) ==
    /\ Len(f) \in Nat /\ Len(g) \in Nat /\ Len(f) <= Len(g)
    /\ \A s : \A n \in Nat : n <= Len(f) =>
          ProfileOf(SubSeq(g, 1, n), s) \in {ProfileOf(SubSeq(f, 1, n), s), Unreadable}

LEMMA ReadStays ==
    ASSUME NEW f, NEW g, Rereads(f, g), NEW r, ReadBefore(f, r)
    PROVE  ReadBefore(g, r)
<1>1. ASSUME r.stage = "writing", NEW rec \in r.writes, rec.pin # None, ~r.approved
      PROVE  ProfileOf(SubSeq(g, 1, r.seen), rec.session) \in {None, Unreadable, rec.pin}
  <2>1. ProfileOf(SubSeq(f, 1, r.seen), rec.session) \in {None, Unreadable, rec.pin}
    BY <1>1 DEF ReadBefore
  <2> QED
    BY <1>1, <2>1 DEF ReadBefore, Rereads
<1> QED
  BY <1>1 DEF ReadBefore, Rereads

\* Launches go on as they were, perhaps less calm, while the file grows or what the registry says is edited.
LEMMA PinDisturbing ==
    ASSUME Inv, PinInv, Rereads(sidecar, sidecar'),
           \/ edits' = edits /\ registry' = registry
           \/ edits' = edits + 1,
           \A j \in Launches :
              \/ launches'[j] = launches[j]
              \/ launches'[j] = [launches[j] EXCEPT !.calm = FALSE]
              \/ /\ edits' = edits /\ registry' = registry
                 /\ Current(launches'[j]) /\ Decided(launches'[j]) /\ Upheld(launches'[j])
                 /\ ReadBefore(sidecar', launches'[j])
    PROVE  PinInv'
<1>1. edits \in Nat /\ edits' \in Nat
  BY DEF PinInv
<1>2. ASSUME NEW q, Current(q), Decided(q), Upheld(q), ReadBefore(sidecar', q)
      PROVE  /\ q.since \in Nat /\ q.since <= edits'
             /\ q.applied # None =>
                   /\ q.applied = [name |-> q.applied.name, digest |-> q.applied.digest]
                   /\ q.since = edits' => registry'.def[q.applied.name] = q.applied.digest
             /\ PinGated(q) /\ q.l.provider = "claude" /\ Conversation(q.l) \in Sessions
                  /\ ~q.approved /\ q.pinned # None /\ q.since = edits' => q.applied = q.pinned
  <2>1. CASE edits' = edits /\ registry' = registry
    BY <1>2, <2>1 DEF Current, Upheld
  <2>2. CASE edits' = edits + 1
    <3>1. q.since # edits' /\ q.since \in Nat /\ q.since <= edits'
      BY <1>1, <1>2, <2>2 DEF Current
    <3> QED
      BY <1>2, <3>1 DEF Current
  <2> QED
    BY <2>1, <2>2
<1>3. ASSUME NEW j \in Launches
      PROVE  LET q == launches'[j] IN Current(q) /\ Decided(q) /\ Upheld(q) /\ ReadBefore(sidecar', q)
  <2> DEFINE r == launches[j]
             q == launches'[j]
             c == [r EXCEPT !.calm = FALSE]
  <2>1. Current(r) /\ Decided(r) /\ Upheld(r) /\ ReadBefore(sidecar', r)
    BY ReadStays DEF PinInv, Pinned
  <2>2. Fields \subseteq DOMAIN r
    BY DEF Inv, LaunchesGood, Good, WellFormed
  <2>3. /\ c.stage = r.stage /\ c.l = r.l /\ c.writes = r.writes /\ c.next = r.next /\ c.applied = r.applied
        /\ c.approved = r.approved /\ c.pinned = r.pinned /\ c.seen = r.seen /\ c.since = r.since
    BY <2>2 DEF Fields
  <2> HIDE DEF c
  <2>4. Current(c) /\ Decided(c) /\ Upheld(c)
    BY <2>1, <2>3 DEF Current, Decided, GateAhead, Upheld, PinGated
  <2>5. ReadBefore(sidecar', c)
    BY <2>1, <2>3 DEF ReadBefore
  <2> QED
    BY <2>1, <2>4, <2>5 DEF c
<1>4. ASSUME NEW j \in Launches PROVE Pinned(launches[j])'
  <2>1. (Current(launches[j]))' /\ (Upheld(launches[j]))'
    BY <1>2, <1>3 DEF Current, Upheld, PinGated
  <2>2. (Decided(launches[j]))' /\ (ReadBefore(sidecar, launches[j]))'
    BY <1>3 DEF Decided, GateAhead, ReadBefore
  <2> QED
    BY <2>1, <2>2 DEF Pinned
<1> QED
  BY <1>1, <1>4 DEF PinInv

LEMMA Unread == ASSUME Inv, sidecar' = sidecar PROVE Rereads(sidecar, sidecar')
  BY SequenceDomain DEF Rereads, Inv, FileOK

LEMMA Grown ==
    ASSUME Inv, NEW line, Found(line), NEW saw, sidecar' = Appended(line, saw)
    PROVE  Rereads(sidecar, sidecar')
<1>1. Len(sidecar) \in Nat
  BY SequenceDomain DEF Inv, FileOK
<1> QED
  BY <1>1, Reread DEF Inv, Rereads

LEMMA PinBehind ==
    ASSUME NEW r, Good(sidecar, r), Pinned(r), r.stage = "writing", NEW rec \in r.writes, NEW g, ReadBefore(g, r)
    PROVE  LET q == Behind(r, rec) IN Current(q) /\ Decided(q) /\ Upheld(q) /\ ReadBefore(g, q)
<1> DEFINE q == Behind(r, rec)
<1>1. /\ q.l = r.l /\ q.applied = r.applied /\ q.since = r.since /\ q.pinned = r.pinned /\ q.approved = r.approved
      /\ q.next = r.next
      /\ \/ q.stage = r.next
         \/ q.stage = "writing" /\ q.writes = r.writes \ {rec} /\ q.seen = r.seen
  BY DEF Good, WellFormed, Behind, Fields
<1> HIDE DEF q
<1>2. r.next \in {"gate", "name", "resolve", "enter", "record"}
  BY DEF Good, WellFormed
<1>3. Current(q) /\ Decided(q) /\ Upheld(q)
  BY <1>1, <1>2 DEF Pinned, Current, Decided, GateAhead, Upheld, PinGated
<1>4. ReadBefore(g, q)
  BY <1>1, <1>2 DEF ReadBefore
<1> QED
  BY <1>3, <1>4 DEF q

LEMMA PinRecord == ASSUME Inv, PinInv, NEW i \in Launches, Record(i) PROVE PinInv'
<1> DEFINE r == launches[i]
<1>1. Good(sidecar, r) /\ Pinned(r) /\ r.stage = "writing" /\ registry' = registry /\ edits' = edits
  BY DEF Record, Env, Inv, LaunchesGood, PinInv
<1>2. PICK rec \in r.writes, saw \in {r.sawMidLine, midLine} :
        IF SaysNothing(rec)
        THEN launches' = [launches EXCEPT ![i] = Behind(r, rec)] /\ UNCHANGED File
        ELSE /\ sidecar' = Appended(Written(rec), saw)
             /\ midLine' = FALSE
             /\ launches' = [Undisturbed(launches, i, rec) EXCEPT ![i] = Behind(r, rec)]
  BY DEF Record
<1>3. Rereads(sidecar, sidecar')
  BY <1>2, Unread, Grown, WrittenFound DEF File
<1>4. ReadBefore(sidecar', r)
  BY <1>1, <1>3, ReadStays DEF Pinned
<1>5. LET q == Behind(r, rec) IN Current(q) /\ Decided(q) /\ Upheld(q) /\ ReadBefore(sidecar', q)
  BY <1>1, <1>4, PinBehind
<1>6. /\ launches'[i] = Behind(r, rec)
      /\ \A j \in Launches \ {i} : \/ launches'[j] = launches[j]
                                   \/ launches'[j] = [launches[j] EXCEPT !.calm = FALSE]
  BY <1>2 DEF Undisturbed, Inv, LaunchesGood
<1> QED
  BY <1>1, <1>3, <1>5, <1>6, PinDisturbing

LEMMA PinRecordFails == ASSUME Inv, PinInv, NEW i \in Launches, RecordFails(i) PROVE PinInv'
<1> DEFINE r == launches[i]
           goesOn == [r EXCEPT !.writes = {}, !.stage = r.next, !.calm = FALSE, !.sawMidLine = FALSE, !.seen = 0]
           stops == [NoLaunch EXCEPT !.stage = "refused", !.refusedBy = "record"]
<1>1. Good(sidecar, r) /\ Pinned(r) /\ r.stage = "writing" /\ registry' = registry /\ edits' = edits
  BY DEF RecordFails, Inv, LaunchesGood, PinInv
<1>2. PICK rec \in r.writes, then \in {goesOn, stops} :
        /\ launches' = [Disturbed EXCEPT ![i] = then]
        /\ \/ UNCHANGED File
           \/ \E line \in {Written(rec)} \cup {Torn(rec, keys) : keys \in Cuts(rec)} :
                sidecar' = Appended(line, midLine)
  BY DEF RecordFails
<1>3. Rereads(sidecar, sidecar')
  <2>1. CASE UNCHANGED File
    BY <2>1, Unread DEF File
  <2>2. ASSUME NEW line \in {Written(rec)} \cup {Torn(rec, keys) : keys \in Cuts(rec)},
               sidecar' = Appended(line, midLine)
        PROVE  Rereads(sidecar, sidecar')
    <3>1. Found(line)
      BY WrittenFound
    <3> QED
      BY <2>2, <3>1, Grown
  <2> QED
    BY <1>2, <2>1, <2>2
<1>4. Current(stops) /\ Decided(stops) /\ Upheld(stops) /\ ReadBefore(sidecar', stops)
  <2>1. stops.stage = "refused" /\ stops.since = 0 /\ stops.applied = None
    BY DEF NoLaunch
  <2> HIDE DEF stops
  <2> QED
    BY <2>1 DEF PinInv, Current, Decided, GateAhead, ReadBefore, Upheld, PinGated
<1>5. Current(goesOn) /\ Decided(goesOn) /\ Upheld(goesOn) /\ ReadBefore(sidecar', goesOn)
  <2>1. /\ goesOn.l = r.l /\ goesOn.applied = r.applied /\ goesOn.since = r.since /\ goesOn.pinned = r.pinned
        /\ goesOn.approved = r.approved /\ goesOn.stage = r.next
    BY <1>1 DEF Good, WellFormed, Fields
  <2>2. r.next \in {"gate", "name", "resolve", "enter", "record"}
    BY <1>1 DEF Good, WellFormed
  <2> HIDE DEF goesOn
  <2> QED
    BY <1>1, <2>1, <2>2 DEF Pinned, Current, Decided, GateAhead, ReadBefore, Upheld, PinGated
<1>6. /\ launches'[i] = then
      /\ \A j \in Launches \ {i} : launches'[j] = [launches[j] EXCEPT !.calm = FALSE]
  BY <1>2 DEF Disturbed, Inv, LaunchesGood
<1>7. Current(then) /\ Decided(then) /\ Upheld(then) /\ ReadBefore(sidecar', then)
  BY <1>2, <1>4, <1>5
<1> QED
  BY <1>1, <1>3, <1>6, <1>7, PinDisturbing

LEMMA PinEdits == ASSUME Inv, PinInv, EditRegistry \/ EditSpec \/ CloseSession \/ UNCHANGED vars PROVE PinInv'
<1>1. /\ sidecar' = sidecar
      /\ \/ edits' = edits /\ registry' = registry
         \/ edits' = edits + 1
      /\ launches' = Disturbed \/ launches' = launches
  BY DEF EditRegistry, EditSpec, CloseSession, vars, File
<1>2. \A j \in Launches : \/ launches'[j] = launches[j]
                          \/ launches'[j] = [launches[j] EXCEPT !.calm = FALSE]
  BY <1>1 DEF Disturbed
<1> QED
  BY <1>1, <1>2, Unread, PinDisturbing

LEMMA PinInit == ASSUME Init PROVE PinInv
<1>1. NoLaunch.stage = "idle" /\ NoLaunch.since = 0 /\ NoLaunch.applied = None
  BY DEF NoLaunch
<1>2. edits \in Nat /\ \A i \in Launches : launches[i] = NoLaunch
  BY DEF Init
<1> QED
  BY <1>1, <1>2, OverIsPinned DEF PinInv

LEMMA PinNext == ASSUME Inv, PinInv, [Next]_vars PROVE PinInv'
<1>1. ASSUME NEW i \in Launches, LaunchStep(i) PROVE PinInv'
  BY <1>1, PinStart, PinResolve, PinConfine, PinGate, PinName, PinEnter, PinRecordLaunch, PinOthers, PinRecord,
     PinRecordFails DEF LaunchStep
<1> QED
  BY <1>1, PinEdits DEF Next, Terminated

\* A pin that is replaced was replaced by a launch that was approved, or that had not read it.
LEMMA Repinned ==
    ASSUME Inv, PinInv, [Next]_vars, NEW s \in Sessions,
           ProfileOf(sidecar, s) \notin {None, Unreadable, ProfileOf(sidecar', s)}, ProfileOf(sidecar', s) # Unreadable
    PROVE  \E i \in Launches : MayRepin(i, s, ProfileOf(sidecar, s))
<1>1. sidecar' # sidecar
  OBVIOUS
<1>2. PICK i \in Launches : Record(i) \/ RecordFails(i)
  BY <1>1 DEF Next, LaunchStep, vars, File, StartDirect, ResumeFindsLive, StartResume, Resolve, Confine, Gate, Name,
     Enter, RecordLaunch, Run, ProviderExits, Restart, RelaunchGivenUp, Relaunch, EditRegistry, EditSpec,
     CloseSession, Terminated
<1> DEFINE r == launches[i]
<1>3. r.stage = "writing" /\ ReadBefore(sidecar, r)
  BY <1>2 DEF Record, RecordFails, PinInv, Pinned
<1>4. PICK rec \in r.writes : \E line, saw : /\ Found(line) /\ (line.parses => line.rec = rec)
                                             /\ sidecar' = Appended(line, saw)
  <2>1. CASE Record(i)
    <3>1. PICK rec \in r.writes : \E saw : sidecar' = Appended(Written(rec), saw)
      BY <1>1, <2>1 DEF Record, File
    <3> QED
      BY <3>1, WrittenFound DEF Written
  <2>2. CASE RecordFails(i)
    <3>1. PICK rec \in r.writes : \E line \in {Written(rec)} \cup {Torn(rec, keys) : keys \in Cuts(rec)} :
                                     sidecar' = Appended(line, midLine)
      BY <1>1, <2>2 DEF RecordFails, File
    <3>2. PICK line \in {Written(rec)} \cup {Torn(rec, keys) : keys \in Cuts(rec)} : sidecar' = Appended(line, midLine)
      BY <3>1
    <3>3. Found(line)
      BY WrittenFound
    <3>4. line.parses => line.rec = rec
      BY DEF Written, Torn
    <3> QED
      BY <3>2, <3>3, <3>4
  <2> QED
    BY <1>2, <2>1, <2>2
<1>5. rec.session = s /\ rec.pin # None /\ ProfileOf(sidecar', s) = rec.pin
  <2>1. PICK line, saw : Found(line) /\ (line.parses => line.rec = rec) /\ sidecar' = Appended(line, saw)
    BY <1>4
  <2>2. line.parses /\ line.rec.session = s /\ line.rec.pin # None /\ ProfileOf(sidecar', s) = line.rec.pin
    BY <2>1, Reread DEF Inv
  <2> QED
    BY <2>1, <2>2
<1>6. r.approved \/ PinOf(r.seen, s) # ProfileOf(sidecar, s)
  BY <1>3, <1>5 DEF ReadBefore, PinOf
<1> QED
  BY <1>3, <1>5, <1>6 DEF MayRepin

\* What a launch has read and applied is as the pins need it, always (checkLaunchProfile, launchRecordFor).
THEOREM PinsHold == Spec => [](Inv /\ PinInv)
<1>1. Init => Inv /\ PinInv
  BY InitGood, PinInit
<1>2. Inv /\ PinInv /\ [Next]_vars => (Inv /\ PinInv)'
  BY NextGood, PinNext
<1> QED
  BY <1>1, <1>2, PTL DEF Spec

\* A recorded pin is replaced only by a launch that was approved for it or that read the file before the pin
\* was there, and a provider starts on a pinned session only under the definition pinned, unless it was
\* approved or the registry was edited meanwhile (launchRecordFor, checkLaunchProfile).

\* Only Run starts a provider.
LEMMA StartsByRun == ASSUME Inv, [Next]_vars, NEW i \in Launches, ~Running(i), Running(i)' PROVE Run(i)
<1>1. launches[i].stage # "running" /\ launches'[i].stage = "running"
  BY DEF Running
<1>2. DOMAIN launches = Launches /\ \A j \in Launches : Fields \subseteq DOMAIN launches[j]
  BY DEF Inv, LaunchesGood, Good, WellFormed
<1>3. ASSUME NEW j \in Launches, NEW q, Becomes(j, q), q.stage # "running" PROVE FALSE
  BY <1>1, <1>2, <1>3 DEF Becomes
<1>4. ASSUME NEW j \in Launches, End(j) \/ \E by : Refuse(j, by) PROVE FALSE
  <2>1. CASE End(j)
    <3> DEFINE q == [NoLaunch EXCEPT !.stage = "done"]
    <3>1. Becomes(j, q) /\ q.stage = "done"
      BY <2>1 DEF End, NoLaunch
    <3> QED
      BY <1>3, <3>1
  <2>2. ASSUME NEW by, Refuse(j, by) PROVE FALSE
    <3>1. Becomes(j, RefusedBy(j, by)) /\ RefusedBy(j, by).stage = "refused"
      BY <2>2 DEF Refuse, RefusedBy, NoLaunch
    <3> QED
      BY <1>3, <3>1
  <2> QED
    BY <1>4, <2>1, <2>2
<1>5. ASSUME NEW j \in Launches, NEW recs, NEW must, NEW next \in {"gate", "name", "resolve", "enter", "record"}, NEW r,
             "stage" \in DOMAIN r, Writing(j, recs, must, next, r)
      PROVE  FALSE
  <2> DEFINE q == Busied(r, recs, must, next)
  <2>1. Becomes(j, q)
    BY <1>5 DEF Writing, Busied
  <2>2. q.stage \in {"writing", next}
    BY <1>5 DEF Busied
  <2> HIDE DEF q
  <2> QED
    BY <1>3, <2>1, <2>2
<1>6. ASSUME NEW j \in Launches, LaunchStep(j), ~Run(j) PROVE FALSE
  <2> DEFINE r == launches[j]
  <2>1. CASE StartDirect(j) \/ ResumeFindsLive(j) \/ StartResume(j)
    <3>1. \/ End(j)
          \/ \E l, w : \/ Becomes(j, [r EXCEPT !.stage = "resolve", !.l = l, !.wraps = w])
                       \/ Becomes(j, [r EXCEPT !.stage = "resolve", !.wraps = w, !.l = l])
      BY <2>1 DEF StartDirect, ResumeFindsLive, StartResume
    <3>2. \A l, w : /\ [r EXCEPT !.stage = "resolve", !.l = l, !.wraps = w].stage = "resolve"
                   /\ [r EXCEPT !.stage = "resolve", !.wraps = w, !.l = l].stage = "resolve"
      BY <1>2 DEF Fields
    <3> QED
      BY <1>3, <1>4, <3>1, <3>2
  <2>2. CASE Resolve(j)
    <3>1. \/ Refuse(j, "resolve")
          \/ \E a, l, c : Becomes(j, [r EXCEPT !.stage = "confine", !.applied = a, !.since = edits, !.l = l, !.calm = c])
      BY <2>2 DEF Resolve
    <3>2. \A a, l, c :
             [r EXCEPT !.stage = "confine", !.applied = a, !.since = edits, !.l = l, !.calm = c].stage = "confine"
      BY <1>2 DEF Fields
    <3> QED
      BY <1>3, <1>4, <3>1, <3>2
  <2>3. CASE Confine(j) \/ Gate(j) \/ Name(j)
    <3>1. \/ \E by : Refuse(j, by)
          \/ \E recs, must, q : "stage" \in DOMAIN q /\ \E next \in {"gate", "name", "resolve", "enter"} :
                                                             Writing(j, recs, must, next, q)
      BY <1>2, <2>3 DEF Confine, Gate, Name, Fields
    <3> QED
      BY <1>4, <1>5, <3>1
  <2>4. CASE Enter(j) \/ RecordLaunch(j)
    <3>1. \/ End(j)
          \/ Becomes(j, [r EXCEPT !.stage = "start"])
          \/ \E ids : Becomes(j, [r EXCEPT !.stage = "record", !.present = TRUE, !.ids = ids])
          \/ \E recs, must, q : "stage" \in DOMAIN q /\ Writing(j, recs, must, "record", q)
      BY <1>2, <2>4 DEF Enter, RecordLaunch, Goto, Fields
    <3>2. /\ [r EXCEPT !.stage = "start"].stage = "start"
          /\ \A ids : [r EXCEPT !.stage = "record", !.present = TRUE, !.ids = ids].stage = "record"
      BY <1>2 DEF Fields
    <3> QED
      BY <1>3, <1>4, <1>5, <3>1, <3>2
  <2>5. CASE ProviderExits(j) \/ Restart(j) \/ RelaunchGivenUp(j) \/ Relaunch(j)
    <3>1. \/ End(j)
          \/ Becomes(j, [r EXCEPT !.stage = "stopped", !.restarts = @ + 1, !.calm = TRUE])
          \/ Becomes(j, [r EXCEPT !.stage = "resolve", !.l = Relaunched(r), !.relaunched = TRUE])
      BY <2>5 DEF ProviderExits, Restart, RelaunchGivenUp, Relaunch
    <3>2. /\ [r EXCEPT !.stage = "stopped", !.restarts = @ + 1, !.calm = TRUE].stage = "stopped"
          /\ [r EXCEPT !.stage = "resolve", !.l = Relaunched(r), !.relaunched = TRUE].stage = "resolve"
      BY <1>2 DEF Fields
    <3> QED
      BY <1>3, <1>4, <3>1, <3>2
  <2>6. CASE Record(j)
    <3>1. PICK rec : /\ launches'[j] = Behind(r, rec)
                     /\ \A k \in Launches \ {j} : \/ launches'[k] = launches[k]
                                                  \/ launches'[k] = [launches[k] EXCEPT !.calm = FALSE]
      BY <1>2, <2>6 DEF Record, Undisturbed
    <3>2. r.stage = "writing" /\ r.next # "running"
      BY <2>6 DEF Record, Inv, LaunchesGood, Good, WellFormed
    <3>3. Behind(r, rec).stage \in {r.next, r.stage}
      BY <1>2 DEF Behind, Fields
    <3>4. \A k \in Launches : [launches[k] EXCEPT !.calm = FALSE].stage = launches[k].stage
      BY <1>2 DEF Fields
    <3> QED
      BY <1>1, <3>1, <3>2, <3>3, <3>4
  <2>7. CASE RecordFails(j)
    <3> DEFINE goesOn == [r EXCEPT !.writes = {}, !.stage = r.next, !.calm = FALSE, !.sawMidLine = FALSE, !.seen = 0]
               stops == [NoLaunch EXCEPT !.stage = "refused", !.refusedBy = "record"]
    <3>1. PICK then \in {goesOn, stops} : launches' = [Disturbed EXCEPT ![j] = then]
      BY <2>7 DEF RecordFails
    <3>2. r.next # "running"
      BY <2>7 DEF RecordFails, Inv, LaunchesGood, Good, WellFormed
    <3>3. goesOn.stage = r.next /\ stops.stage = "refused"
      BY <1>2 DEF Fields, NoLaunch
    <3>4. \A k \in Launches : [launches[k] EXCEPT !.calm = FALSE].stage = launches[k].stage
      BY <1>2 DEF Fields
    <3> HIDE DEF goesOn, stops
    <3>5. launches'[j] = then /\ \A k \in Launches \ {j} : launches'[k] = [launches[k] EXCEPT !.calm = FALSE]
      BY <3>1 DEF Disturbed
    <3> QED
      BY <1>1, <3>2, <3>3, <3>4, <3>5
  <2> QED
    BY <1>6, <2>1, <2>2, <2>3, <2>4, <2>5, <2>6, <2>7 DEF LaunchStep
<1>7. ASSUME EditRegistry \/ EditSpec \/ CloseSession \/ UNCHANGED vars PROVE FALSE
  <2>1. launches' = launches \/ launches' = Disturbed
    BY <1>7 DEF EditRegistry, EditSpec, CloseSession, vars
  <2>2. [launches[i] EXCEPT !.calm = FALSE].stage = launches[i].stage
    BY <1>2 DEF Fields
  <2> QED
    BY <1>1, <2>1, <2>2 DEF Disturbed
<1>8. PICK j \in Launches : Run(j)
  BY <1>6, <1>7 DEF Next, Terminated
<1>9. CASE j # i
  <2>1. \E q : Becomes(j, q)
    BY <1>8 DEF Run, Refuse, Goto
  <2> QED
    BY <1>1, <1>2, <1>9, <2>1 DEF Becomes
<1> QED
  BY <1>8, <1>9

\* A recorded pin is replaced only by a launch that was approved for it or that read the file before the pin
\* was there, and a provider starts on a pinned session only under the definition pinned, unless it was
\* approved or the registry was edited meanwhile (launchRecordFor, checkLaunchProfile).
THEOREM PinsStand == Spec => PinStands
<1>1. ASSUME Inv, PinInv, [Next]_vars, NEW i \in Launches, ~Running(i), Running(i)',
             launches[i].l.provider = "claude", Conversation(launches[i].l) \in Sessions, ~launches[i].approved,
             launches[i].pinned # None, launches[i].since = edits
      PROVE  launches[i].applied = launches[i].pinned
  <2>1. launches[i].stage = "start"
    BY <1>1, StartsByRun DEF Run
  <2> QED
    BY <1>1, <2>1 DEF PinInv, Pinned, Upheld, PinGated
<1>2. Inv /\ PinInv /\ [Next]_vars =>
        [/\ sidecar' # sidecar =>
               \A s \in Sessions :
                  LET p == ProfileOf(sidecar, s)
                      q == ProfileOf(sidecar', s)
                  IN  p \notin {None, Unreadable, q} /\ q # Unreadable => \E i \in Launches : MayRepin(i, s, p)
         /\ \A i \in Launches :
               LET r == launches[i] IN
               /\ ~Running(i) /\ Running(i)'
               /\ r.l.provider = "claude" /\ Conversation(r.l) \in Sessions /\ ~r.approved
               /\ r.pinned # None /\ r.since = edits
               => r.applied = r.pinned]_vars
  BY <1>1, Repinned
<1> QED
  BY <1>2, PinsHold, PTL DEF Spec, PinStands

-----------------------------------------------------------------------------
(* The gates agree: what a calm launch will be asked again, and why the    *)
(* answer will be the one it had.                                          *)

LaunchFields == DOMAIN NoLaunch

Flags == {"args", "scope", "hint", "provider", "naked", "key", "provided", "launchKey", "inner", "asked", "explicit",
          "resumeDefault", "fromRecord", "profileEnv", "digest", "digestSession", "unattended"}

\* The stage a launch is at, or goes on to when its records are written.
At(r) == IF r.stage = "writing" THEN r.next ELSE r.stage

Pending(r) == IF r.stage = "writing" THEN r.writes ELSE {}

Follows(r) == r.l.inner \/ r.relaunched

\* An outer clown, on its way to the wrap.
Outer(r) == r.wraps /\ ~r.l.inner

\* clown decided of these args before: they name what they are to name.
Named(args) ==
    \/ claudeFlagPresent(args, "print")
    \/ claudeFlagPresent(args, "continue")
    \/ claudeSessionIDArg(args) # None
    \/ resumeOccurrences(args) # {}

HintOf(args) ==
    IF claudeFlagPresent(args, "print") \/ claudeFlagPresent(args, "continue") THEN None
    ELSE IF claudeSessionIDArg(args) # None THEN claudeSessionIDArg(args)
    ELSE claudeResumeValue(args)

\* What clown decided of a launch's session it decides again.
Settled(l) ==
    /\ l.key # None
    /\ l.provider = "claude" /\ ~l.naked => Named(l.args) /\ l.hint = HintOf(l.args)

Unrefused(l) == ~unattendedLaunchError(l) /\ ~(l.scope # None /\ l.naked)

LateStages == {"enter", "record", "start", "running", "stopped"}

Stages == {"resolve", "confine", "gate", "name"} \cup LateStages

Started(r) == At(r) \in Stages /\ ~(At(r) = "resolve" /\ ~Follows(r))

Shape(r) ==
    /\ LaunchFields \subseteq DOMAIN r
    /\ At(r) \in Stages \cup {"idle", "done", "refused"}
    /\ At(r) \in Stages => Flags \subseteq DOMAIN r.l
    /\ r.stage = "idle" => ~r.relaunched
    /\ Started(r) => Unrefused(r.l)
    /\ Started(r) /\ (r.relaunched \/ At(r) \in LateStages) => ~Outer(r)
    /\ Started(r) /\ At(r) = "resolve" => r.l.explicit /\ ~r.l.resumeDefault
    /\ Started(r) /\ ~r.relaunched => Settled(r.l)
    /\ Started(r) /\ r.relaunched /\ At(r) \in {"resolve", "confine", "gate"} => resumeOccurrences(r.l.args) # {}
    /\ \A rec \in Pending(r) : /\ At(r) \in {"gate", "resolve"} => rec.pin = None
                               /\ At(r) \in {"name", "resolve"} => rec.scope = None

-----------------------------------------------------------------------------

Whole(f) == \A n \in DOMAIN f : f[n].parses

\* The flags that the next gate is asked with.
NextFlags(r) ==
    IF r.stage = "stopped" THEN Relaunched(r)
    ELSE IF Outer(r) THEN Inner(r.l, r.applied)
    ELSE r.l

\* A profile, and its pin, in a registry.
ProfileIn(reg, name) ==
    IF name = None THEN None
    ELSE IF reg.def[name] = None THEN Refused
    ELSE [name |-> name, digest |-> reg.def[name]]

PinIn(reg, p) ==
    IF p = None THEN None
    ELSE [name |-> p.name,
          digest |-> IF reg.vouched /\ reg.def[p.name] # None THEN reg.def[p.name] ELSE Unpinnable]

NextPin(reg, r) == PinIn(reg, ProfileIn(reg, NextFlags(r).asked))

\* The profile that is applied is the one asked for again.
ProfileStays(reg, r) ==
    /\ r.stage = "stopped" \/ (Follows(r) /\ At(r) = "resolve") =>
          ProfileIn(reg, NextFlags(r).asked) # Refused
    /\ (Outer(r) \/ Follows(r)) /\ At(r) \in {"confine", "gate", "name"} =>
          r.applied = ProfileIn(reg, NextFlags(r).asked) /\ r.applied # Refused

\* The pin that the gate wants recorded first, which is the one the next gate looks for.
FirstPinned(m, p, recs) ==
    LET id == IF claudeResumeID(m.args) # None THEN claudeResumeID(m.args) ELSE claudeSessionIDArg(m.args)
    IN /\ recs = {[Blank(id) EXCEPT !.pin = p]}
       /\ id # None
       /\ p # None /\ p.digest # Unpinnable /\ p = [name |-> p.name, digest |-> p.digest]
       /\ m.provider = "claude" /\ ~unseenResumeForm(m.args)
       /\ m.digest = None /\ m.digestSession = None

\* The profile gate lets the next one through.
PinAgrees(f, reg, r) ==
    /\ \/ r.stage = "stopped"
       \/ Follows(r) /\ At(r) \in {"resolve", "confine", "gate"}
       \/ Outer(r) /\ At(r) = "name"
    => IF At(r) = "name" /\ r.stage = "writing" THEN FirstPinned(NextFlags(r), NextPin(reg, r), r.writes)
       ELSE checkLaunchProfile(NextFlags(r), NextPin(reg, r), f).ok

\* Session id is recorded as confined to spec at boundary b.
Marked(f, id, spec, b) == HasScope(f, id) /\ AgentScopeRecordOf(f, id) = [spec |-> spec, boundary |-> b]

\* A launch that ran, or will, with flags m under m.scope, recs still to be written.
ConfinedAs(f, sp, m, recs) ==
    /\ m.provider = "claude"
    /\ ~claudeFlagPresent(m.args, "fork") /\ ~claudeFlagPresent(m.args, "from-pr")
    /\ ~claudeFlagPresent(m.args, "cluster")
    /\ confinedConversationID(m) # None
    /\ claudeResumeValue(m.args) \in {None, m.launchKey} \cup Sessions
    /\ sp[m.scope] # None
    /\ \A rec \in recs : rec.session # None /\ rec.scope = m.scope /\ rec.boundary = sp[m.scope]
    /\ \A id \in launchScopeIDs(m) : Marked(f, id, m.scope, sp[m.scope]) \/ \E rec \in recs : rec.session = id

\* Nothing confines it, and nothing keeps the gate from seeing that.
Unconfined(f, m) ==
    /\ \A id \in launchScopeIDs(m) : ~HasScope(f, id)
    /\ \/ ~AnyAgentScope(f)
       \/ ~claudeFlagPresent(m.args, "cluster") /\ claudeResumeValue(m.args) \in {None} \cup Sessions

Confinable(f, sp, m, recs) ==
    /\ m.scope # Refused
    /\ ~(Cardinality(Values(m.args, {"resume"})) > 1)
    /\ ~(Cardinality(Values(m.args, {"session-id"})) > 1)
    /\ IF m.scope = None THEN recs = {} /\ Unconfined(f, m) ELSE ConfinedAs(f, sp, m, recs)

\* The confinement gate lets the inner clown through.
ScopeAgrees(f, sp, r) ==
    /\ ~r.relaunched
    /\ \/ Outer(r) /\ At(r) \in {"gate", "name"}
       \/ r.l.inner /\ At(r) \in {"resolve", "confine"}
    => Confinable(f, sp, NextFlags(r), IF At(r) = "gate" THEN Pending(r) ELSE {})

\* The provider of an inner clown is let through as it was checked.
StillBounded(sp, r) ==
    ~r.relaunched /\ r.l.inner /\ At(r) \in {"gate", "name", "enter", "record", "start"} /\ r.l.scope # None =>
       sp[r.l.scope] = r.boundary /\ r.l.provider = "claude"

Agrees(f, reg, sp, r) ==
    /\ At(r) \in Stages => /\ ProfileStays(reg, r)
                           /\ PinAgrees(f, reg, r)
                           /\ ScopeAgrees(f, sp, r)
                           /\ StillBounded(sp, r)
    /\ r.stage = "refused" => r.relaunched /\ r.refusedBy = "confinement"

Quiet(f, reg, sp, r) == Shape(r) /\ (Whole(f) /\ r.calm => Agrees(f, reg, sp, r))

CalmInv == \A i \in Launches : Quiet(sidecar, registry, specs, launches[i])

-----------------------------------------------------------------------------
(* The file.                                                               *)

\* A file of whole records was one before its last line was added to it.
LEMMA WholeGrows ==
    ASSUME NEW f, IsSequence(f), NEW line, Whole(Append(f, line))
    PROVE  Whole(f) /\ line.parses
<1>1. /\ DOMAIN Append(f, line) = DOMAIN f \cup {Len(f) + 1}
      /\ \A n \in DOMAIN f : Append(f, line)[n] = f[n]
      /\ Append(f, line)[Len(f) + 1] = line
  BY Appending
<1> QED
  BY <1>1 DEF Whole

\* A line glued to another does not parse.
LEMMA WholeAppended ==
    ASSUME FileOK, NEW line, NEW saw, Whole(Appended(line, saw))
    PROVE  Appended(line, saw) = Append(sidecar, line) /\ Whole(sidecar)
<1>1. CASE midLine /\ ~saw
  <2> DEFINE k == Len(sidecar)
             g == Glued(sidecar[k], line)
             t == [sidecar EXCEPT ![k] = g]
  <2>1. Appended(line, saw) = t
    BY <1>1 DEF Appended
  <2>2. k \in DOMAIN sidecar /\ DOMAIN t = DOMAIN sidecar /\ t[k] = g
    BY <1>1, Replacing DEF FileOK
  <2>3. ~g.parses
    BY DEF Glued
  <2> HIDE DEF t, g, k
  <2> QED
    BY <2>1, <2>2, <2>3 DEF Whole
<1>2. CASE ~(midLine /\ ~saw)
  <2>1. Appended(line, saw) = Append(sidecar, line)
    BY <1>2 DEF Appended
  <2> QED
    BY <2>1, WholeGrows DEF FileOK
<1> QED
  BY <1>1, <1>2

\* What a new record says, and what it leaves as it was.
LEMMA NewWord ==
    ASSUME NEW f, IsSequence(f), NEW rec, NEW id, NEW field
    PROVE  LET g == Append(f, Written(rec)) IN
           /\ rec.session # id \/ rec[field] = None =>
                 Telling(g, id, field) = Telling(f, id, field) /\ LastOf(g, id, field) = LastOf(f, id, field)
           /\ rec.session = id /\ rec[field] # None =>
                 /\ Telling(g, id, field) = Telling(f, id, field) \cup {Len(f) + 1}
                 /\ Latest(Telling(g, id, field)) = Len(f) + 1
                 /\ LastOf(g, id, field) = rec[field]
<1> DEFINE line == Written(rec)
           g == Append(f, line)
           k == Len(f) + 1
           N == Telling(f, id, field)
<1>1. /\ Len(f) \in Nat /\ DOMAIN f = 1 .. Len(f) /\ DOMAIN g = DOMAIN f \cup {k}
      /\ (\A n \in DOMAIN f : g[n] = f[n]) /\ g[k] = line /\ line.parses /\ line.rec = rec
  BY SequenceDomain, Appending DEF Written
<1> HIDE DEF g, line
<1>2. ASSUME rec.session # id \/ rec[field] = None
      PROVE  Telling(g, id, field) = N /\ LastOf(g, id, field) = LastOf(f, id, field)
  <2>1. Telling(g, id, field) = N
    BY <1>1, <1>2 DEF Telling
  <2>2. N # {} => Latest(N) \in N
    BY <1>1, LatestIsOne DEF Telling
  <2>3. LastOf(g, id, field) = LastOf(f, id, field)
    BY <1>1, <2>1, <2>2 DEF LastOf, Telling
  <2> QED
    BY <2>1, <2>3
<1>3. ASSUME rec.session = id, rec[field] # None
      PROVE  /\ Telling(g, id, field) = N \cup {k}
             /\ Latest(Telling(g, id, field)) = k
             /\ LastOf(g, id, field) = rec[field]
  <2>1. Telling(g, id, field) = N \cup {k}
    BY <1>1, <1>3 DEF Telling
  <2>2. Latest(N \cup {k}) = k
    <3>1. \A n \in N : n \in Nat /\ n < k
      BY <1>1 DEF Telling
    <3> QED
      BY <1>1, <3>1 DEF Latest
  <2>3. LastOf(g, id, field) = rec[field]
    <3>1. Telling(g, id, field) # {} /\ Latest(Telling(g, id, field)) = k
      BY <2>1, <2>2
    <3> QED
      BY <1>1, <3>1 DEF LastOf
  <2> QED
    BY <2>1, <2>2, <2>3
<1> QED
  BY <1>2, <1>3 DEF g, line

\* The pins that a file of whole records shows.
LEMMA WholePins == ASSUME NEW f, Whole(f), NEW id PROVE ProfileOf(f, id) = LastOf(f, id, "pin") /\ ~Obscured(f, id)
  BY DEF Whole, ProfileOf, Hidden, Obscured

LEMMA PinKept ==
    ASSUME NEW f, IsSequence(f), NEW rec, Whole(Append(f, Written(rec))), NEW id, rec.session # id \/ rec.pin = None
    PROVE  ProfileOf(Append(f, Written(rec)), id) = ProfileOf(f, id)
<1>1. Whole(f)
  BY WholeGrows
<1>2. LastOf(Append(f, Written(rec)), id, "pin") = LastOf(f, id, "pin")
  BY NewWord
<1> QED
  BY <1>1, <1>2, WholePins

LEMMA PinTaken ==
    ASSUME NEW f, IsSequence(f), NEW rec, Whole(Append(f, Written(rec))), rec.pin # None
    PROVE  ProfileOf(Append(f, Written(rec)), rec.session) = rec.pin
<1>1. LastOf(Append(f, Written(rec)), rec.session, "pin") = rec.pin
  BY NewWord
<1> QED
  BY <1>1, WholePins

-----------------------------------------------------------------------------
(* What the confinement gate reads.                                        *)

\* A record without a scope leaves what confines a session.
LEMMA ScopeKept ==
    ASSUME NEW f, IsSequence(f), NEW rec, rec.scope = None, NEW id
    PROVE  LET g == Append(f, Written(rec)) IN
           /\ HasScope(g, id) <=> HasScope(f, id)
           /\ HasScope(f, id) => AgentScopeRecordOf(g, id) = AgentScopeRecordOf(f, id)
           /\ Whole(g) => (AnyAgentScope(g) <=> AnyAgentScope(f))
<1> DEFINE line == Written(rec)
           g == Append(f, line)
           k == Len(f) + 1
<1>1. /\ Len(f) \in Nat /\ DOMAIN f = 1 .. Len(f) /\ DOMAIN g = DOMAIN f \cup {k} /\ k \notin DOMAIN f
      /\ (\A n \in DOMAIN f : g[n] = f[n]) /\ g[k] = line /\ line.parses /\ line.rec = rec
  BY SequenceDomain, Appending DEF Written
<1>2. Telling(g, id, "scope") = Telling(f, id, "scope")
  BY NewWord
<1> HIDE DEF g, line
<1>3. HasScope(g, id) <=> HasScope(f, id)
  BY <1>2 DEF HasScope
<1>4. ASSUME HasScope(f, id) PROVE AgentScopeRecordOf(g, id) = AgentScopeRecordOf(f, id)
  <2> DEFINE T == Telling(f, id, "scope")
             spec == f[Latest(T)].rec.scope
             N == {n \in Telling(f, id, "boundary") : f[n].rec.scope = spec}
  <2>1. Latest(T) \in T
    BY <1>1, <1>4, LatestIsOne DEF Telling, HasScope
  <2>2. g[Latest(T)] = f[Latest(T)] /\ spec # None
    BY <1>1, <2>1 DEF Telling
  <2> HIDE DEF spec
  <2>3. {n \in Telling(g, id, "boundary") : g[n].rec.scope = spec} = N
    BY <1>1, <2>2 DEF Telling
  <2>4. N # {} => Latest(N) \in N
    BY <1>1, LatestIsOne DEF Telling
  <2>5. N # {} => g[Latest(N)] = f[Latest(N)]
    BY <1>1, <2>4 DEF Telling
  <2> HIDE DEF N
  <2>6. BoundaryOf(g, id, spec) = BoundaryOf(f, id, spec)
    BY <2>3, <2>5 DEF BoundaryOf, N
  <2> QED
    BY <1>2, <2>2, <2>6 DEF AgentScopeRecordOf, spec
<1>5. ASSUME Whole(g) PROVE AnyAgentScope(g) <=> AnyAgentScope(f)
  <2>1. Hidden(g, "scope") = {} /\ Hidden(f, "scope") = {}
    BY <1>1, <1>5 DEF Whole, Hidden
  <2>2. (\E i \in DOMAIN g : g[i].parses /\ g[i].rec.scope # None) <=> (\E i \in DOMAIN f : f[i].parses /\ f[i].rec.scope # None)
    BY <1>1
  <2> QED
    BY <2>1, <2>2 DEF AnyAgentScope
<1> QED
  BY <1>3, <1>4, <1>5 DEF g, line

\* The session of a record that confines it is marked, and the marks of others stay.
LEMMA Marks ==
    ASSUME NEW f, IsSequence(f), NEW rec, NEW spec, spec # None, NEW b, b # None, rec.scope = spec, rec.boundary = b,
           NEW id, Marked(f, id, spec, b) \/ rec.session = id
    PROVE  Marked(Append(f, Written(rec)), id, spec, b)
<1> DEFINE line == Written(rec)
           g == Append(f, line)
           k == Len(f) + 1
<1>1. /\ Len(f) \in Nat /\ DOMAIN f = 1 .. Len(f) /\ DOMAIN g = DOMAIN f \cup {k}
      /\ (\A n \in DOMAIN f : g[n] = f[n]) /\ g[k] = line /\ line.parses /\ line.rec = rec
  BY SequenceDomain, Appending DEF Written
<1>2. /\ rec.session # id => Telling(g, id, "scope") = Telling(f, id, "scope")
      /\ rec.session = id => Telling(g, id, "scope") # {} /\ Latest(Telling(g, id, "scope")) = k
  BY NewWord
<1> HIDE DEF g, line
<1>3. CASE rec.session = id
  <2> DEFINE N == {n \in Telling(g, id, "boundary") : g[n].rec.scope = spec}
  <2>1. HasScope(g, id) /\ g[Latest(Telling(g, id, "scope"))].rec.scope = spec
    BY <1>1, <1>2, <1>3 DEF HasScope
  <2>2. k \in N
    BY <1>1, <1>3 DEF Telling
  <2>3. \A n \in N : n \in Nat /\ n <= k
    BY <1>1 DEF Telling
  <2>4. Latest(N) = k
    <3>1. \A n \in N : (\A m \in N : m <= n) => n = k
      BY <1>1, <2>2, <2>3
    <3> QED
      BY <2>2, <2>3, <3>1 DEF Latest
  <2>5. BoundaryOf(g, id, spec) = b
    BY <1>1, <2>2, <2>4 DEF BoundaryOf
  <2> QED
    BY <2>1, <2>5 DEF Marked, AgentScopeRecordOf, g, line
<1>4. CASE rec.session # id
  <2> DEFINE T == Telling(f, id, "scope")
             M == {n \in Telling(f, id, "boundary") : f[n].rec.scope = spec}
  <2>1. HasScope(f, id) /\ AgentScopeRecordOf(f, id) = [spec |-> spec, boundary |-> b]
    BY <1>4 DEF Marked
  <2>2. Latest(T) \in T
    BY <1>1, <2>1, LatestIsOne DEF Telling, HasScope
  <2>3. f[Latest(T)].rec.scope = spec /\ BoundaryOf(f, id, spec) = b
    BY <2>1 DEF AgentScopeRecordOf
  <2>4. g[Latest(T)] = f[Latest(T)]
    BY <1>1, <2>2 DEF Telling
  <2>5. {n \in Telling(g, id, "boundary") : g[n].rec.scope = spec} = M
    BY <1>1, <1>4 DEF Telling
  <2>6. M # {} => g[Latest(M)] = f[Latest(M)]
    <3>1. M # {} => Latest(M) \in M
      BY <1>1, LatestIsOne DEF Telling
    <3> QED
      BY <1>1, <3>1 DEF Telling
  <2> HIDE DEF M, T
  <2>7. BoundaryOf(g, id, spec) = b
    BY <2>3, <2>5, <2>6 DEF BoundaryOf, M
  <2>8. HasScope(g, id) /\ g[Latest(Telling(g, id, "scope"))].rec.scope = spec
    BY <1>2, <1>4, <2>1, <2>3, <2>4 DEF HasScope, T
  <2> QED
    BY <2>7, <2>8 DEF Marked, AgentScopeRecordOf, g, line
<1> QED
  BY <1>3, <1>4

-----------------------------------------------------------------------------
(* The args.                                                               *)

\* What --resume and --session-id are read to name, the args name.
LEMMA ValueNamed ==
    ASSUME NEW args, IsSequence(args)
    PROVE  /\ claudeResumeValue(args) # None => claudeResumeValue(args) \in Values(args, {"resume", "session-id"})
           /\ claudeSessionIDArg(args) # None => claudeSessionIDArg(args) \in Values(args, {"resume", "session-id"})
<1>1. ASSUME claudeResumeValue(args) # None
      PROVE  claudeResumeValue(args) \in Values(args, {"resume", "session-id"})
  <2>1. /\ Of(args, {"resume", "cluster"}) # {}
        /\ First(args, {"resume", "cluster"}).k # "cluster"
        /\ claudeResumeValue(args) = First(args, {"resume", "cluster"}).v
    BY <1>1 DEF claudeResumeValue, resumeOccurrences
  <2>2. PICK n \in Of(args, {"resume", "cluster"}) : First(args, {"resume", "cluster"}) = args[n]
    BY <2>1, FirstIsOne
  <2> QED
    BY <1>1, <2>1, <2>2 DEF Of, Values
<1>2. ASSUME claudeSessionIDArg(args) # None
      PROVE  claudeSessionIDArg(args) \in Values(args, {"resume", "session-id"})
  <2>1. /\ Of(args, {"session-id"}) # {}
        /\ claudeSessionIDArg(args) = First(args, {"session-id"}).v
    BY <1>2 DEF claudeSessionIDArg
  <2>2. PICK n \in Of(args, {"session-id"}) : First(args, {"session-id"}) = args[n]
    BY <2>1, FirstIsOne
  <2> QED
    BY <1>2, <2>1, <2>2 DEF Of, Values
<1> QED
  BY <1>1, <1>2

\* The options of args with a session id put before them.
LEMMA Injecting ==
    ASSUME NEW args, IsSequence(args), NEW id
    PROVE  LET e == [k |-> "session-id", v |-> id]
               t == <<e>> \o args
           IN  /\ \A n \in DOMAIN t : t[n] = e \/ \E m \in DOMAIN args : t[n] = args[m]
               /\ \A ks : "session-id" \notin ks => (Of(t, ks) # {} <=> Of(args, ks) # {})
<1> DEFINE e == [k |-> "session-id", v |-> id]
           t == <<e>> \o args
           S == {args[n] : n \in DOMAIN args} \cup {e}
<1>1. args \in Seq(S) /\ <<e>> \in Seq(S)
  <2>1. args \in Seq({args[n] : n \in DOMAIN args})
    BY DEF IsSequence
  <2> QED
    BY <2>1
<1> HIDE DEF S
<1>2. /\ t \in Seq(S) /\ Len(t) = 1 + Len(args) /\ Len(args) \in Nat /\ t[1] = e
      /\ \A n \in 2 .. 1 + Len(args) : t[n] = args[n - 1]
  BY <1>1, ConcatProperties
<1>3. DOMAIN t = 1 .. 1 + Len(args) /\ DOMAIN args = 1 .. Len(args) /\ e.k = "session-id"
  BY <1>1, <1>2
<1> HIDE DEF t, e
<1>4. ASSUME NEW n \in DOMAIN t PROVE t[n] = e \/ \E m \in DOMAIN args : t[n] = args[m]
  <2>1. CASE n = 1
    BY <1>2, <2>1
  <2>2. CASE n # 1
    BY <1>2, <1>3, <2>2
  <2> QED
    BY <2>1, <2>2
<1>5. ASSUME NEW ks, "session-id" \notin ks PROVE Of(t, ks) # {} <=> Of(args, ks) # {}
  <2>1. ASSUME NEW m \in Of(args, ks) PROVE Of(t, ks) # {}
    <3>1. m \in 1 .. Len(args) /\ m + 1 \in 2 .. 1 + Len(args) /\ m + 1 \in DOMAIN t /\ (m + 1) - 1 = m
      BY <1>2, <1>3 DEF Of
    <3>2. t[m + 1] = args[m]
      BY <1>2, <3>1
    <3> QED
      BY <3>1, <3>2 DEF Of
  <2>2. ASSUME NEW n \in Of(t, ks) PROVE Of(args, ks) # {}
    BY <1>3, <1>4, <1>5 DEF Of
  <2> QED
    BY <2>1, <2>2
<1> QED
  BY <1>4, <1>5 DEF t, e

\* What clown decides of args, it decides of them again.
LEMMA DecidedIsNamed ==
    ASSUME NEW args, IsSequence(args), NEW key, key # None, NEW minted, minted # None
    PROVE  LET d == decideClaudeSession(args, key, minted)
           IN  Named(d.args) /\ d.hint = HintOf(d.args) /\ d.key # None
<1> DEFINE d == decideClaudeSession(args, key, minted)
<1>1. CASE claudeFlagPresent(args, "print") \/ claudeFlagPresent(args, "continue")
  <2>1. d = [args |-> args, key |-> key, hint |-> None]
    BY <1>1 DEF decideClaudeSession
  <2> QED
    BY <1>1, <2>1 DEF Named, HintOf
<1>2. CASE ~(claudeFlagPresent(args, "print") \/ claudeFlagPresent(args, "continue")) /\ claudeSessionIDArg(args) # None
  <2>1. d.args = args /\ d.key = claudeSessionIDArg(args) /\ d.hint = claudeSessionIDArg(args)
    BY <1>2 DEF decideClaudeSession
  <2> QED
    BY <1>2, <2>1 DEF Named, HintOf
<1>3. CASE /\ ~(claudeFlagPresent(args, "print") \/ claudeFlagPresent(args, "continue")) /\ claudeSessionIDArg(args) = None
           /\ isBareResume(args)
  <2>1. d.args = args /\ d.key = key /\ d.hint = None
    BY <1>3 DEF decideClaudeSession
  <2> QED
    BY <1>3, <2>1 DEF Named, HintOf, isBareResume
<1>4. CASE /\ ~(claudeFlagPresent(args, "print") \/ claudeFlagPresent(args, "continue")) /\ claudeSessionIDArg(args) = None
           /\ ~isBareResume(args) /\ claudeResumeValue(args) # None
  <2>1. d.args = args /\ d.key = claudeResumeValue(args) /\ d.hint = claudeResumeValue(args)
    BY <1>4 DEF decideClaudeSession
  <2>2. resumeOccurrences(args) # {}
    BY <1>4 DEF claudeResumeValue
  <2> QED
    BY <1>4, <2>1, <2>2 DEF Named, HintOf
<1>5. CASE /\ ~(claudeFlagPresent(args, "print") \/ claudeFlagPresent(args, "continue")) /\ claudeSessionIDArg(args) = None
           /\ ~isBareResume(args) /\ claudeResumeValue(args) = None
  <2>1. \E id : /\ id # None /\ d.args = <<[k |-> "session-id", v |-> id]>> \o args
                /\ d.hint = id /\ d.key = key
    BY <1>5 DEF decideClaudeSession
  <2>2. PICK id : /\ id # None /\ d.args = <<[k |-> "session-id", v |-> id]>> \o args
                  /\ d.hint = id /\ d.key = key
    BY <2>1
  <2>3. claudeSessionIDArg(d.args) = id
    BY <2>2, Injected
  <2>4. \A ks : "session-id" \notin ks => (Of(d.args, ks) # {} <=> Of(args, ks) # {})
    <3> DEFINE u == <<[k |-> "session-id", v |-> id]>> \o args
    <3>1. \A ks : "session-id" \notin ks => (Of(u, ks) # {} <=> Of(args, ks) # {})
      BY Injecting, Zenon
    <3>2. d.args = u
      BY <2>2
    <3> HIDE DEF u, d
    <3> QED
      BY <3>1, <3>2
  <2>5. "session-id" \notin {"print"} /\ "session-id" \notin {"continue"}
    OBVIOUS
  <2>6. ~(claudeFlagPresent(d.args, "print") \/ claudeFlagPresent(d.args, "continue"))
    BY <1>5, <2>4, <2>5 DEF claudeFlagPresent
  <2> QED
    BY <2>2, <2>3, <2>6 DEF Named, HintOf
<1> QED
  BY <1>1, <1>2, <1>3, <1>4, <1>5

LEMMA NamedIsKept ==
    ASSUME NEW args, Named(args), NEW key, NEW minted
    PROVE  LET d == decideClaudeSession(args, key, minted)
           IN  /\ d.args = args /\ d.hint = HintOf(args)
               /\ d.key = key \/ (d.key = d.hint /\ d.hint # None)
<1> DEFINE d == decideClaudeSession(args, key, minted)
<1>1. CASE claudeFlagPresent(args, "print") \/ claudeFlagPresent(args, "continue")
  <2>1. d = [args |-> args, key |-> key, hint |-> None]
    BY <1>1 DEF decideClaudeSession
  <2> QED
    BY <1>1, <2>1 DEF HintOf
<1>2. CASE ~(claudeFlagPresent(args, "print") \/ claudeFlagPresent(args, "continue")) /\ claudeSessionIDArg(args) # None
  <2>1. d.args = args /\ d.key = claudeSessionIDArg(args) /\ d.hint = claudeSessionIDArg(args)
    BY <1>2 DEF decideClaudeSession
  <2> QED
    BY <1>2, <2>1 DEF HintOf
<1>3. CASE /\ ~(claudeFlagPresent(args, "print") \/ claudeFlagPresent(args, "continue")) /\ claudeSessionIDArg(args) = None
           /\ isBareResume(args)
  <2>1. d.args = args /\ d.key = key /\ d.hint = None
    BY <1>3 DEF decideClaudeSession
  <2> QED
    BY <1>3, <2>1 DEF HintOf, isBareResume
<1>4. CASE /\ ~(claudeFlagPresent(args, "print") \/ claudeFlagPresent(args, "continue")) /\ claudeSessionIDArg(args) = None
           /\ ~isBareResume(args)
  <2>1. claudeResumeValue(args) # None
    BY <1>4 DEF Named, isBareResume
  <2>2. d.args = args /\ d.key = claudeResumeValue(args) /\ d.hint = claudeResumeValue(args)
    BY <1>4, <2>1 DEF decideClaudeSession
  <2> QED
    BY <1>4, <2>1, <2>2 DEF HintOf
<1> QED
  BY <1>1, <1>2, <1>3, <1>4

\* The args of a relaunch: the conversation it resumes is the one they name.
LEMMA RelaunchArgs ==
    ASSUME NEW args, IsSequence(args), NEW key
    PROVE  LET t == Append(withoutClaudeSessionArgs(args), [k |-> "resume", v |-> key])
           IN  /\ IsSequence(t)
               /\ resumeOccurrences(t) # {}
               /\ \A id \in Values(t, {"resume", "session-id"}) : id = key
               /\ \A ks : ks \cap {"resume", "session-id", "dropped"} = {} =>
                     /\ Of(t, ks) = Of(args, ks)
                     /\ \A n \in Of(args, ks) : t[n] = args[n]
<1> DEFINE s == withoutClaudeSessionArgs(args)
           e == [k |-> "resume", v |-> key]
           t == Append(s, e)
           len == Len(s) + 1
<1>1. /\ DOMAIN s = DOMAIN args
      /\ \A n \in DOMAIN args : s[n] = IF args[n].k \in {"resume", "session-id"} THEN Dropped ELSE args[n]
  BY DEF withoutClaudeSessionArgs
<1>2. IsSequence(s) /\ Len(s) \in Nat /\ DOMAIN s = 1 .. Len(s)
  BY Dropping, SequenceDomain
<1> HIDE DEF s
<1>3. /\ IsSequence(t) /\ DOMAIN t = DOMAIN s \cup {len} /\ len \notin DOMAIN s
      /\ (\A n \in DOMAIN s : t[n] = s[n]) /\ t[len] = e
  BY <1>2, Appending
<1>4. e.k = "resume" /\ e.v = key /\ Dropped.k = "dropped"
  BY DEF Dropped
<1> HIDE DEF t, e, len
<1>5. resumeOccurrences(t) # {}
  <2>1. len \in Of(t, {"resume", "cluster"})
    BY <1>3, <1>4 DEF Of
  <2> QED
    BY <2>1 DEF resumeOccurrences
<1>6. ASSUME NEW id \in Values(t, {"resume", "session-id"}) PROVE id = key
  <2>1. PICK n \in DOMAIN t : t[n].k \in {"resume", "session-id"} /\ t[n].v = id
    BY DEF Values, Of
  <2>2. n \notin DOMAIN s
    BY <1>1, <1>3, <1>4, <2>1
  <2> QED
    BY <1>3, <1>4, <2>1, <2>2
<1>7. ASSUME NEW ks, ks \cap {"resume", "session-id", "dropped"} = {}
      PROVE  Of(t, ks) = Of(args, ks) /\ \A n \in Of(args, ks) : t[n] = args[n]
  BY <1>1, <1>3, <1>4, <1>7 DEF Of
<1> QED
  BY <1>3, <1>5, <1>6, <1>7 DEF t, e, s

\* t has the options of args, but for those that name a session.
SameOptions(args, t) ==
    \A ks : ks \cap {"resume", "session-id", "dropped"} = {} =>
       Of(t, ks) = Of(args, ks) /\ \A n \in Of(args, ks) : t[n] = args[n]

LEMMA RelaunchOptions ==
    ASSUME NEW args, IsSequence(args), NEW key
    PROVE  SameOptions(args, Append(withoutClaudeSessionArgs(args), [k |-> "resume", v |-> key]))
<1> DEFINE t == Append(withoutClaudeSessionArgs(args), [k |-> "resume", v |-> key])
<1>1. \A ks : ks \cap {"resume", "session-id", "dropped"} = {} =>
           Of(t, ks) = Of(args, ks) /\ \A n \in Of(args, ks) : t[n] = args[n]
  BY RelaunchArgs
<1> HIDE DEF t
<1>2. SameOptions(args, t)
  BY <1>1 DEF SameOptions
<1> QED
  BY <1>2 DEF t

\* Whether a launch can be put in dontAsk does not depend on how its args name a session.
LEMMA UnattendedInjected ==
    ASSUME NEW args, IsSequence(args), NEW id, NEW l, NEW q, q.args = <<[k |-> "session-id", v |-> id]>> \o args,
           l.args = args, q.unattended = l.unattended, q.provider = l.provider, q.naked = l.naked,
           ~unattendedLaunchError(l)
    PROVE  ~unattendedLaunchError(q)
<1> DEFINE e == [k |-> "session-id", v |-> id]
           t == <<e>> \o args
<1>1. \A n \in DOMAIN t : t[n] = e \/ \E m \in DOMAIN args : t[n] = args[m]
  BY Injecting
<1>2. "session-id" \notin {"skip-permissions", "settings"} /\ e.k = "session-id"
  OBVIOUS
<1>3. Of(t, {"skip-permissions", "settings"}) # {} <=> Of(args, {"skip-permissions", "settings"}) # {}
  <2>1. \A ks : "session-id" \notin ks => (Of(t, ks) # {} <=> Of(args, ks) # {})
    BY Injecting, Zenon
  <2> QED
    BY <1>2, <2>1
<1> HIDE DEF e
<1>4. q.args = t
  BY DEF e
<1> HIDE DEF t
<1> QED
  BY <1>1, <1>2, <1>3, <1>4 DEF unattendedLaunchError

LEMMA UnattendedRelaunch ==
    ASSUME NEW l, IsSequence(l.args), NEW id, NEW q,
           q.args = Append(withoutClaudeSessionArgs(l.args), [k |-> "resume", v |-> id]),
           q.unattended = l.unattended, q.provider = l.provider, q.naked = l.naked,
           ~unattendedLaunchError(l)
    PROVE  ~unattendedLaunchError(q)
<1> DEFINE given == l.args
<1>1. {"skip-permissions", "settings"} \cap {"resume", "session-id", "dropped"} = {}
      /\ {"permission-mode"} \cap {"resume", "session-id", "dropped"} = {}
  OBVIOUS
<1>2. IsSequence(given) /\ q.args = Append(withoutClaudeSessionArgs(given), [k |-> "resume", v |-> id])
  OBVIOUS
<1> HIDE DEF given
<1>3. SameOptions(given, q.args)
  BY <1>2, RelaunchOptions
<1>4. Of(q.args, {"skip-permissions", "settings"}) = Of(given, {"skip-permissions", "settings"})
  BY <1>1, <1>3 DEF SameOptions
<1>5. /\ Of(q.args, {"permission-mode"}) = Of(given, {"permission-mode"})
      /\ \A n \in Of(given, {"permission-mode"}) : q.args[n] = given[n]
  BY <1>1, <1>3 DEF SameOptions
<1> QED
  BY <1>4, <1>5 DEF unattendedLaunchError, Of, given

-----------------------------------------------------------------------------
(* The profile gate, asked again.                                          *)

\* It goes by the pins of the sessions that the args name.
LEMMA SameGate ==
    ASSUME NEW m, IsSequence(m.args), NEW p, NEW f, NEW g,
           \A id \in Values(m.args, {"resume", "session-id"}) : ProfileOf(g, id) = ProfileOf(f, id)
    PROVE  checkLaunchProfile(m, p, g) = checkLaunchProfile(m, p, f)
<1>1. /\ claudeResumeID(m.args) # None => claudeResumeID(m.args) \in Values(m.args, {"resume", "session-id"})
      /\ claudeSessionIDArg(m.args) # None => claudeSessionIDArg(m.args) \in Values(m.args, {"resume", "session-id"})
  BY ValueNamed DEF claudeResumeID
<1>2. gatedSessionID(m, g) = gatedSessionID(m, f)
  BY <1>1 DEF gatedSessionID
<1>3. gatedSessionID(m, f) # None => ProfileOf(g, gatedSessionID(m, f)) = ProfileOf(f, gatedSessionID(m, f))
  BY <1>1 DEF gatedSessionID
<1> QED
  BY <1>2, <1>3 DEF checkLaunchProfile

\* A record that says nothing of their pins leaves its answer.
LEMMA GateKept ==
    ASSUME NEW f, IsSequence(f), NEW rec, Whole(Append(f, Written(rec))), NEW m, IsSequence(m.args), NEW p,
           rec.pin = None \/ rec.session \notin Values(m.args, {"resume", "session-id"}),
           checkLaunchProfile(m, p, f).ok
    PROVE  checkLaunchProfile(m, p, Append(f, Written(rec))).ok
<1> DEFINE g == Append(f, Written(rec))
<1>1. ASSUME NEW id \in Values(m.args, {"resume", "session-id"}) PROVE ProfileOf(g, id) = ProfileOf(f, id)
  <2>1. rec.session # id \/ rec.pin = None
    OBVIOUS
  <2> QED
    BY <2>1, PinKept
<1> HIDE DEF g
<1>2. checkLaunchProfile(m, p, g) = checkLaunchProfile(m, p, f)
  BY <1>1, SameGate
<1> QED
  BY <1>2 DEF g

\* The first pin of a session, once recorded, is the one that it finds.
LEMMA FirstPinFound ==
    ASSUME NEW f, IsSequence(f), NEW rec, Whole(Append(f, Written(rec))), NEW m, NEW p, FirstPinned(m, p, {rec})
    PROVE  checkLaunchProfile(m, p, Append(f, Written(rec))).ok
<1> DEFINE g == Append(f, Written(rec))
           id == IF claudeResumeID(m.args) # None THEN claudeResumeID(m.args) ELSE claudeSessionIDArg(m.args)
           first == [Blank(id) EXCEPT !.pin = p]
<1>1. /\ id # None /\ p # None /\ p.digest # Unpinnable /\ p = [name |-> p.name, digest |-> p.digest]
      /\ m.provider = "claude" /\ ~unseenResumeForm(m.args) /\ m.digest = None /\ m.digestSession = None
      /\ {rec} = {first}
  BY DEF FirstPinned
<1>2. rec.session = id /\ rec.pin = p
  <2>1. rec = first
    BY <1>1
  <2> QED
    BY <2>1 DEF Blank
<1>3. ProfileOf(g, id) = p
  BY <1>1, <1>2, PinTaken
<1> HIDE DEF g
<1>4. gatedSessionID(m, g) = id
  BY <1>1, <1>3 DEF gatedSessionID
<1>5. p # Unreadable
  <2>1. DOMAIN p = {"name", "digest"} /\ DOMAIN Unreadable = {"error"}
    BY <1>1 DEF Unreadable
  <2>2. "error" \notin {"name", "digest"}
    OBVIOUS
  <2> QED
    BY <2>1, <2>2
<1> HIDE DEF id
<1>6. checkLaunchProfile(m, p, g).ok
  BY <1>1, <1>3, <1>4, <1>5 DEF checkLaunchProfile, NoPin
<1> QED
  BY <1>6 DEF g

\* What the outer's gate let through, the inner's does, or will when the first pin is recorded.
LEMMA GateGranted ==
    ASSUME NEW l, Flags \subseteq DOMAIN l, NEW f, NEW p, NEW applied,
           p = None \/ p = [name |-> p.name, digest |-> p.digest],
           checkLaunchProfile(l, p, f).ok
    PROVE  LET m == Inner(l, applied)
               early == checkLaunchProfile(l, p, f).early
               id == gatedSessionID(l, f)
           IN  /\ early = None => checkLaunchProfile(m, p, f).ok
               /\ early # None => FirstPinned(m, p, {[Blank(id) EXCEPT !.pin = early]})
<1> DEFINE m == Inner(l, applied)
           id == gatedSessionID(l, f)
           pin == ProfileOf(f, id)
           early == checkLaunchProfile(l, p, f).early
<1>1. /\ m.args = l.args /\ m.provider = l.provider /\ m.inner /\ ~m.profileEnv /\ m.digest = None
      /\ m.digestSession = None
  BY DEF Inner, reexecArgv, Flags
<1> HIDE DEF m
<1>2. gatedSessionID(m, f) = id
  BY <1>1 DEF gatedSessionID
<1>3. Requested(m) = None
  BY <1>1 DEF Requested
<1>4. ~No.ok /\ NoPin.ok /\ NoPin.early = None
  BY DEF No, NoPin
<1>5. ~(l.provider = "claude" /\ unseenResumeForm(l.args) /\ p # None)
  BY <1>4 DEF checkLaunchProfile
<1>6. ASSUME early # None
      PROVE  /\ early = p /\ p # None /\ p.digest # Unpinnable /\ id # None
  <2>1. CASE l.digest # None
    BY <1>4, <1>6, <2>1 DEF checkLaunchProfile, Approval
  <2>2. CASE l.digest = None
    BY <1>4, <1>6, <2>2 DEF checkLaunchProfile, FirstUse
  <2> QED
    BY <2>1, <2>2
<1>7. ASSUME early = None PROVE checkLaunchProfile(m, p, f).ok
  <2>1. CASE id = None
    BY <1>1, <1>2, <1>4, <1>5, <2>1 DEF checkLaunchProfile
  <2>2. CASE id # None
    <3>1. l.digest = None
      <4>1. l.digest # None => Approval(l, p, id).ok /\ Approval(l, p, id).early = None
        BY <1>4, <1>7 DEF checkLaunchProfile
      <4> QED
        BY <1>4, <2>2, <4>1 DEF Approval
    <3>2. pin # Unreadable
      BY <1>4, <2>2, <3>1 DEF checkLaunchProfile
    <3>3. pin # None => p = pin /\ pin.digest # Unpinnable
      BY <1>4, <2>2, <3>1, <3>2 DEF checkLaunchProfile
    <3>4. FirstUse(m, p).ok
      BY <1>1, <1>3, <1>4 DEF FirstUse
    <3> HIDE DEF id, pin
    <3>5. checkLaunchProfile(m, p, f) = IF pin = None THEN FirstUse(m, p) ELSE NoPin
      BY <1>1, <1>2, <1>5, <2>2, <3>2, <3>3 DEF checkLaunchProfile, pin
    <3> QED
      BY <1>4, <3>4, <3>5
  <2> QED
    BY <2>1, <2>2
<1>8. ASSUME early # None PROVE FirstPinned(m, p, {[Blank(id) EXCEPT !.pin = early]})
  <2>1. early = p /\ p # None /\ p.digest # Unpinnable /\ id # None
    BY <1>6, <1>8
  <2>2. m.provider = "claude" /\ id = IF claudeResumeID(m.args) # None THEN claudeResumeID(m.args) ELSE claudeSessionIDArg(m.args)
    BY <1>1, <2>1 DEF gatedSessionID
  <2>3. ~unseenResumeForm(m.args)
    BY <1>1, <1>5, <2>1, <2>2
  <2> HIDE DEF early, id
  <2> QED
    BY <1>1, <2>1, <2>2, <2>3 DEF FirstPinned
<1> QED
  BY <1>7, <1>8 DEF m

-----------------------------------------------------------------------------
(* The confinement gate, asked again.                                      *)

\* What a record that confines nobody leaves.
LEMMA ConfinableKept ==
    ASSUME NEW f, IsSequence(f), NEW rec, rec.scope = None, Whole(Append(f, Written(rec))),
           NEW sp, NEW m, NEW recs, Confinable(f, sp, m, recs)
    PROVE  Confinable(Append(f, Written(rec)), sp, m, recs)
<1> DEFINE g == Append(f, Written(rec))
<1>1. \A id : /\ HasScope(g, id) <=> HasScope(f, id)
              /\ HasScope(f, id) => AgentScopeRecordOf(g, id) = AgentScopeRecordOf(f, id)
  BY ScopeKept
<1>2. AnyAgentScope(g) <=> AnyAgentScope(f)
  BY ScopeKept
<1> HIDE DEF g
<1>3. Unconfined(f, m) => Unconfined(g, m)
  BY <1>1, <1>2 DEF Unconfined
<1>4. ConfinedAs(f, sp, m, recs) => ConfinedAs(g, sp, m, recs)
  <2>1. \A id : Marked(f, id, m.scope, sp[m.scope]) => Marked(g, id, m.scope, sp[m.scope])
    BY <1>1 DEF Marked
  <2> QED
    BY <2>1 DEF ConfinedAs
<1> QED
  BY <1>3, <1>4 DEF Confinable, g

\* What one of its own records leaves.
LEMMA ConfinableRecorded ==
    ASSUME NEW f, IsSequence(f), NEW sp, NEW m, NEW recs, NEW rec \in recs, Confinable(f, sp, m, recs)
    PROVE  Confinable(Append(f, Written(rec)), sp, m, recs \ {rec}) /\ ~SaysNothing(rec)
<1> DEFINE g == Append(f, Written(rec))
           S == m.scope
           B == sp[m.scope]
<1>1. S # None /\ ConfinedAs(f, sp, m, recs)
  BY DEF Confinable
<1>2. /\ B # None
      /\ \A c \in recs : c.session # None /\ c.scope = S /\ c.boundary = B
      /\ \A id \in launchScopeIDs(m) : Marked(f, id, S, B) \/ \E c \in recs : c.session = id
  BY <1>1 DEF ConfinedAs
<1>3. \A id : Marked(f, id, S, B) \/ rec.session = id => Marked(g, id, S, B)
  BY <1>1, <1>2, Marks
<1>4. \A id \in launchScopeIDs(m) : Marked(g, id, S, B) \/ \E c \in recs \ {rec} : c.session = id
  <2> HIDE DEF g, S, B
  <2> QED
    BY <1>2, <1>3
<1>5. ~SaysNothing(rec)
  BY <1>1, <1>2 DEF SaysNothing
<1> HIDE DEF g
<1>6. ConfinedAs(g, sp, m, recs \ {rec})
  BY <1>1, <1>2, <1>4 DEF ConfinedAs
<1>7. Confinable(g, sp, m, recs \ {rec})
  BY <1>1, <1>6 DEF Confinable
<1> QED
  BY <1>5, <1>7 DEF g

LEMMA ResumeNamed ==
    ASSUME NEW m, IsSequence(m.args), claudeResumeValue(m.args) # None
    PROVE  claudeResumeValue(m.args) \in launchScopeIDs(m)
  BY ValueNamed DEF launchScopeIDs

\* The gate lets it through under the spec it has.
LEMMA ConfinementGranted ==
    ASSUME NEW f, Whole(f), NEW sp, NEW m, IsSequence(m.args), Unrefused(m), Confinable(f, sp, m, {})
    PROVE  /\ ConfinementVerdict(m, f, sp) = m.scope /\ m.scope # Refused
           /\ m.scope # None => m.provider = "claude"
<1>1. /\ m.scope # Refused
      /\ ~(Cardinality(Values(m.args, {"resume"})) > 1)
      /\ ~(Cardinality(Values(m.args, {"session-id"})) > 1)
  BY DEF Confinable
<1>2. \A id : ~Obscured(f, id)
  BY WholePins
<1>3. CASE m.scope = None
  <2>1. Unconfined(f, m)
    BY <1>3 DEF Confinable
  <2>2. ~(Uncheckable(m, f) /\ AnyAgentScope(f))
    BY <2>1 DEF Unconfined, Uncheckable, isUUID
  <2>3. ScopeRecords(m, f) = {}
    BY <2>1 DEF Unconfined, ScopeRecords
  <2>4. agentScopeForLaunch(m, f, sp) = None
    BY <1>2, <1>3, <2>3 DEF agentScopeForLaunch
  <2>5. ~conversationRefsError(m, f) /\ ~CannotHonour(m, FALSE, None)
    BY <1>1, <2>2 DEF conversationRefsError, CannotHonour
  <2> QED
    BY <1>1, <1>3, <2>3, <2>4, <2>5 DEF ConfinementVerdict
<1>4. CASE m.scope # None
  <2> DEFINE S == m.scope
             B == sp[m.scope]
             recs == ScopeRecords(m, f)
             one == [spec |-> S, boundary |-> B]
  <2>1. ConfinedAs(f, sp, m, {})
    BY <1>4 DEF Confinable
  <2>2. /\ m.provider = "claude"
        /\ ~claudeFlagPresent(m.args, "fork") /\ ~claudeFlagPresent(m.args, "from-pr")
        /\ ~claudeFlagPresent(m.args, "cluster")
        /\ confinedConversationID(m) # None
        /\ claudeResumeValue(m.args) \in {None, m.launchKey} \cup Sessions
        /\ B # None
        /\ \A id \in launchScopeIDs(m) : Marked(f, id, S, B)
    BY <2>1 DEF ConfinedAs
  <2>3. ~Uncheckable(m, f)
    <3> SUFFICES ASSUME claudeResumeValue(m.args) # None, ~isUUID(claudeResumeValue(m.args))
                 PROVE  claudeResumeValue(m.args) = recordedLaunchKey(m, f)
      BY <2>2 DEF Uncheckable
    <3>1. claudeResumeValue(m.args) = m.launchKey
      BY <2>2 DEF isUUID
    <3>2. HasScope(f, m.launchKey)
      BY <2>2, <3>1, ResumeNamed DEF Marked
    <3> QED
      BY <3>1, <3>2 DEF recordedLaunchKey
  <2>4. \A r \in recs : r = one
    BY <2>2 DEF ScopeRecords, Marked
  <2>5. ~ScopesDisagree(recs)
    BY <2>4 DEF ScopesDisagree
  <2>6. agentScopeForLaunch(m, f, sp) = S
    <3>1. CASE recs = {}
      BY <1>2, <3>1 DEF agentScopeForLaunch
    <3>2. CASE recs # {}
      <4>1. (CHOOSE r \in recs : TRUE) = one
        BY <2>4, <3>2
      <4>2. {r.boundary : r \in recs} \ {None} \subseteq {B} /\ B \in {r.boundary : r \in recs} \ {None}
        BY <2>2, <2>4, <3>2
      <4>3. one.spec = S
        OBVIOUS
      <4> HIDE DEF recs, one
      <4> QED
        BY <1>2, <2>2, <2>5, <3>2, <4>1, <4>2, <4>3 DEF agentScopeForLaunch, recs
    <3> QED
      BY <3>1, <3>2
  <2>7. ~conversationRefsError(m, f)
    BY <1>1, <2>3 DEF conversationRefsError
  <2>8. ~CannotHonour(m, recs # {}, S)
    BY <1>4, <2>2 DEF CannotHonour, Unrefused
  <2> QED
    BY <1>1, <1>4, <2>2, <2>6, <2>7, <2>8 DEF ConfinementVerdict
<1> QED
  BY <1>3, <1>4

\* What the flags of a launch are confined by, apart from its ids.
LEMMA FewerIds ==
    ASSUME NEW f, NEW sp, NEW m, Confinable(f, sp, m, {}), NEW q,
           q.args = m.args, q.provider = m.provider, q.hint = m.hint, q.scope = m.scope, q.launchKey = m.launchKey,
           launchScopeIDs(q) \subseteq launchScopeIDs(m)
    PROVE  Confinable(f, sp, q, {})
<1>1. confinedConversationID(q) = confinedConversationID(m)
  BY DEF confinedConversationID
<1>2. CASE m.scope = None
  BY <1>2 DEF Confinable, Unconfined
<1>3. CASE m.scope # None
  BY <1>1, <1>3 DEF Confinable, ConfinedAs
<1> QED
  BY <1>2, <1>3

\* The outer's gate: what it let through, and what it has it record, is what the inner's looks for.
LEMMA ConfinedFirst ==
    ASSUME NEW f, Whole(f), IsSequence(f), NEW sp, NEW l, Flags \subseteq DOMAIN l, IsSequence(l.args), Unrefused(l),
           NEW spec, spec = ConfinementVerdict(l, f, sp), spec # Refused,
           spec # None => ~OwnRecordRefuses(l),
           NEW recs, recs = IF spec \in {None, Refused} THEN {}
                            ELSE {[Blank(id) EXCEPT !.scope = spec, !.boundary = sp[spec]] : id \in ConfinedIds(l)},
           NEW applied
    PROVE  /\ Confinable(f, sp, Inner([l EXCEPT !.scope = spec], applied), recs)
           /\ Unrefused([l EXCEPT !.scope = spec])
<1> DEFINE new == [l EXCEPT !.scope = spec]
           m == Inner(new, applied)
<1>1. /\ m.args = l.args /\ m.provider = l.provider /\ m.hint = l.hint /\ m.key = l.key /\ m.provided = l.provided
      /\ m.scope = spec /\ m.launchKey = (IF l.launchKey = None THEN None ELSE l.key)
  BY DEF Inner, reexecArgv, Flags
<1>2. /\ new.args = l.args /\ new.provider = l.provider /\ new.unattended = l.unattended /\ new.scope = spec
      /\ new.naked = l.naked
  BY DEF Flags
<1> HIDE DEF m, new
<1>3. launchScopeIDs(m) = launchScopeIDs(l) /\ confinedConversationID(m) = confinedConversationID(l)
  BY <1>1 DEF launchScopeIDs, lineageRecordIDs, confinedConversationID
<1>4. /\ ~conversationRefsError(l, f) /\ spec = agentScopeForLaunch(l, f, sp)
      /\ spec # None => sp[spec] # None
      /\ ~CannotHonour(l, ScopeRecords(l, f) # {}, spec)
  BY DEF ConfinementVerdict
<1>5. /\ ~(Cardinality(Values(m.args, {"resume"})) > 1)
      /\ ~(Cardinality(Values(m.args, {"session-id"})) > 1)
      /\ ~(Uncheckable(l, f) /\ AnyAgentScope(f))
  BY <1>1, <1>4 DEF conversationRefsError
<1>6. \A r \in ScopeRecords(l, f) : r.spec # None
  <2>1. ASSUME NEW id, HasScope(f, id) PROVE AgentScopeRecordOf(f, id).spec # None
    <3>1. Latest(Telling(f, id, "scope")) \in Telling(f, id, "scope")
      BY <2>1, LatestIsOne, SequenceDomain DEF Telling, HasScope
    <3> QED
      BY <3>1 DEF AgentScopeRecordOf, Telling
  <2> QED
    BY <2>1 DEF ScopeRecords
<1>7. CASE spec = None
  <2>1. ScopeRecords(l, f) = {}
    <3> SUFFICES ASSUME ScopeRecords(l, f) # {} PROVE FALSE
      OBVIOUS
    <3> DEFINE chosen == CHOOSE r \in ScopeRecords(l, f) : TRUE
    <3>1. chosen \in ScopeRecords(l, f)
      OBVIOUS
    <3> HIDE DEF chosen
    <3>2. spec \in {Refused, chosen.spec}
      BY <1>4 DEF agentScopeForLaunch, chosen
    <3> QED
      BY <1>6, <1>7, <3>1, <3>2
  <2>2. \A id \in launchScopeIDs(l) : ~HasScope(f, id)
    BY <2>1 DEF ScopeRecords
  <2>3. recordedLaunchKey(l, f) = None \/ claudeResumeValue(l.args) = None \/ isUUID(claudeResumeValue(l.args))
    <3> SUFFICES ASSUME recordedLaunchKey(l, f) # None, claudeResumeValue(l.args) # None PROVE FALSE
      OBVIOUS
    <3>1. claudeResumeValue(l.args) = l.launchKey /\ HasScope(f, l.launchKey)
      BY WholePins DEF recordedLaunchKey
    <3> QED
      BY <2>2, <3>1, ResumeNamed
  <2>4. \/ ~AnyAgentScope(f)
        \/ ~claudeFlagPresent(l.args, "cluster") /\ claudeResumeValue(l.args) \in {None} \cup Sessions
    BY <1>5, <2>3 DEF Uncheckable, isUUID
  <2>5. Unconfined(f, m)
    BY <1>1, <1>3, <2>2, <2>4 DEF Unconfined
  <2>6. Confinable(f, sp, m, recs)
    BY <1>1, <1>5, <1>7, <2>5 DEF Confinable
  <2>7. Unrefused(new)
    BY <1>2, <1>7 DEF Unrefused, unattendedLaunchError
  <2> QED
    BY <2>6, <2>7 DEF m, new
<1>8. CASE spec # None
  <2>1. ~OwnRecordRefuses(l)
    BY <1>8
  <2>2. /\ l.provider = "claude" /\ ~claudeFlagPresent(l.args, "cluster")
        /\ claudeResumeValue(l.args) \in {None} \cup Sessions \cup (IF l.launchKey = None THEN {} ELSE {l.key})
    BY <2>1 DEF OwnRecordRefuses
  <2>3. ~l.naked
    <3>1. CASE ScopeRecords(l, f) = {}
      <4>1. spec = l.scope
        BY <1>4, <3>1 DEF agentScopeForLaunch
      <4> QED
        BY <1>8, <4>1 DEF Unrefused
    <3>2. CASE ScopeRecords(l, f) # {}
      BY <1>4, <3>2 DEF CannotHonour
    <3> QED
      BY <3>1, <3>2
  <2>4. /\ ~claudeFlagPresent(l.args, "fork") /\ ~claudeFlagPresent(l.args, "from-pr")
        /\ confinedConversationID(l) # None
    BY <1>4, <1>8, <2>2, <2>3 DEF CannotHonour
  <2>5. \A rec \in recs : rec.session # None /\ rec.scope = spec /\ rec.boundary = sp[spec]
    BY <1>8 DEF ConfinedIds, Blank
  <2>6. \A id \in launchScopeIDs(l) : \E rec \in recs : rec.session = id
    <3>1. ASSUME NEW id \in launchScopeIDs(l)
          PROVE  \E rec \in recs : rec.session = id
      <4> DEFINE rec == [Blank(id) EXCEPT !.scope = spec, !.boundary = sp[spec]]
      <4>1. id \in ConfinedIds(l)
        BY DEF ConfinedIds, launchScopeIDs
      <4>2. rec \in recs /\ rec.session = id
        BY <1>8, <4>1 DEF Blank
      <4> QED
        BY <4>2
    <3> QED
      BY <3>1
  <2>7. claudeResumeValue(m.args) \in {None, m.launchKey} \cup Sessions
    BY <1>1, <2>2
  <2>8. ConfinedAs(f, sp, m, recs)
    BY <1>1, <1>3, <1>4, <1>8, <2>2, <2>4, <2>5, <2>6, <2>7 DEF ConfinedAs
  <2>9. Confinable(f, sp, m, recs)
    BY <1>1, <1>5, <1>8, <2>8 DEF Confinable
  <2>10. Unrefused(new)
    BY <1>2, <2>3 DEF Unrefused, unattendedLaunchError
  <2> QED
    BY <2>9, <2>10 DEF m, new
<1> QED
  BY <1>7, <1>8

-----------------------------------------------------------------------------
(* Launches, moved on.                                                     *)

LEMMA Registered ==
    /\ \A name : Profile(name) = ProfileIn(registry, name)
    /\ \A p : launchProfilePin(p) = PinIn(registry, p)
  BY DEF Profile, ProfileIn, launchProfilePin, Vouched, PinIn

\* One launch moved, and nothing that is shared.
LEMMA CalmMoved ==
    ASSUME Inv, CalmInv, NEW i \in Launches, NEW q, Becomes(i, q), UNCHANGED <<File, registry, specs>>,
           Quiet(sidecar, registry, specs, q)
    PROVE  CalmInv'
<1>1. \A j \in Launches : launches'[j] = IF j = i THEN q ELSE launches[j]
  BY DEF Becomes, Inv, LaunchesGood
<1>2. sidecar' = sidecar /\ registry' = registry /\ specs' = specs
  BY DEF File
<1> QED
  BY <1>1, <1>2 DEF CalmInv

\* A launch that is not calm has only its shape.
LEMMA Uncalm ==
    ASSUME NEW f, NEW reg, NEW sp, NEW r, Shape(r), ~r.calm
    PROVE  Quiet(f, reg, sp, r)
  BY DEF Quiet

LEMMA OverIsQuiet ==
    ASSUME NEW f, NEW reg, NEW sp, NEW r, LaunchFields \subseteq DOMAIN r,
           \/ r.stage = "done"
           \/ r.stage = "refused" /\ (Whole(f) /\ r.calm => r.relaunched /\ r.refusedBy = "confinement")
    PROVE  Quiet(f, reg, sp, r)
<1>1. At(r) \notin Stages /\ r.stage # "idle" /\ At(r) \in {"done", "refused"} /\ Pending(r) = {} /\ ~Started(r)
  BY DEF At, Stages, LateStages, Pending, Started
<1>2. Shape(r)
  BY <1>1 DEF Shape
<1> QED
  BY <1>1, <1>2 DEF Quiet, Agrees

LEMMA CalmEnding ==
    ASSUME Inv, CalmInv, NEW i \in Launches, End(i), UNCHANGED <<File, registry, specs>>
    PROVE  CalmInv'
<1> DEFINE q == [NoLaunch EXCEPT !.stage = "done"]
<1>1. LaunchFields \subseteq DOMAIN q /\ q.stage = "done"
  BY DEF NoLaunch, LaunchFields
<1>2. Becomes(i, q)
  BY DEF End
<1> HIDE DEF q
<1> QED
  BY <1>1, <1>2, OverIsQuiet, CalmMoved

\* A launch may be refused that follows none, or that is not calm, or that is relaunched, by the confinement gate.
LEMMA CalmRefusing ==
    ASSUME Inv, CalmInv, NEW i \in Launches, NEW by, Refuse(i, by), UNCHANGED <<File, registry, specs>>,
           Whole(sidecar) /\ launches[i].calm /\ Follows(launches[i]) => launches[i].relaunched /\ by = "confinement"
    PROVE  CalmInv'
<1> DEFINE q == RefusedBy(i, by)
<1>1. /\ LaunchFields \subseteq DOMAIN q /\ q.stage = "refused" /\ q.refusedBy = by
      /\ q.relaunched = launches[i].relaunched
      /\ q.calm => launches[i].calm /\ Follows(launches[i])
  BY DEF NoLaunch, LaunchFields, RefusedBy, Follows
<1>2. Becomes(i, q)
  BY DEF Refuse
<1> HIDE DEF q
<1> QED
  BY <1>1, <1>2, OverIsQuiet, CalmMoved

\* An outer clown that is still to be resolved has been asked nothing.
LEMMA FreshIsQuiet ==
    ASSUME NEW f, NEW reg, NEW sp, NEW r, LaunchFields \subseteq DOMAIN r, r.stage = "resolve",
           Flags \subseteq DOMAIN r.l, ~Follows(r)
    PROVE  Quiet(f, reg, sp, r)
<1>1. At(r) = "resolve" /\ Pending(r) = {} /\ ~Started(r)
  BY DEF At, Pending, Started
<1>2. Shape(r)
  BY <1>1 DEF Shape, Stages
<1>3. ~r.l.inner
  BY DEF Follows
<1>4. ProfileStays(reg, r)
  BY <1>1 DEF ProfileStays
<1>5. PinAgrees(f, reg, r)
  BY <1>1 DEF PinAgrees
<1>6. ScopeAgrees(f, sp, r) /\ StillBounded(sp, r)
  BY <1>1, <1>3 DEF ScopeAgrees, StillBounded
<1> QED
  BY <1>1, <1>2, <1>4, <1>5, <1>6 DEF Quiet, Agrees

\* Past its name and its wrap a launch is asked no more but whether it still runs as it was checked.
LEMMA LateIsQuiet ==
    ASSUME NEW f, NEW reg, NEW sp, NEW r, Quiet(f, reg, sp, r), At(r) \in {"name", "enter", "record", "start"},
           ~Outer(r), NEW q, LaunchFields \subseteq DOMAIN q, q.l = r.l, q.wraps = r.wraps,
           q.relaunched = r.relaunched, q.boundary = r.boundary, q.calm => r.calm,
           At(q) \in {"enter", "record", "start", "running"}, q.stage \notin {"idle", "stopped", "refused"}
    PROVE  Quiet(f, reg, sp, q)
<1>1. Started(r) /\ Started(q) /\ ~Outer(q) /\ (Follows(q) <=> Follows(r))
  BY DEF Started, Stages, LateStages, Outer, Follows
<1>2. Shape(q)
  BY <1>1 DEF Quiet, Shape, Stages, LateStages
<1>3. ASSUME Whole(f), q.calm PROVE Agrees(f, reg, sp, q)
  <2>1. StillBounded(sp, r)
    BY <1>3 DEF Quiet, Agrees, Stages, LateStages
  <2>2. StillBounded(sp, q)
    BY <2>1 DEF StillBounded
  <2>3. ProfileStays(reg, q)
    BY DEF ProfileStays
  <2>4. PinAgrees(f, reg, q)
    BY DEF PinAgrees
  <2>5. ScopeAgrees(f, sp, q)
    BY DEF ScopeAgrees
  <2> QED
    BY <2>2, <2>3, <2>4, <2>5 DEF Agrees
<1> QED
  BY <1>2, <1>3 DEF Quiet

-----------------------------------------------------------------------------
(* A launch's own steps, calm.                                             *)

LEMMA CalmStart ==
    ASSUME Inv, CalmInv, NEW i \in Launches, StartDirect(i) \/ ResumeFindsLive(i) \/ StartResume(i)
    PROVE  CalmInv'
<1> DEFINE r == launches[i]
<1>1. /\ Shape(r) /\ r.stage = "idle" /\ UNCHANGED <<File, registry, specs>>
  BY DEF CalmInv, Quiet, StartDirect, ResumeFindsLive, StartResume, Env
<1>2. LaunchFields \subseteq DOMAIN r /\ ~r.relaunched
  BY <1>1 DEF Shape
<1>3. ASSUME NEW l, Flags \subseteq DOMAIN l, ~l.inner, NEW w,
             Becomes(i, [r EXCEPT !.stage = "resolve", !.l = l, !.wraps = w])
      PROVE  CalmInv'
  <2> DEFINE q == [r EXCEPT !.stage = "resolve", !.l = l, !.wraps = w]
  <2>1. LaunchFields \subseteq DOMAIN q /\ q.stage = "resolve" /\ q.l = l /\ q.relaunched = r.relaunched
    BY <1>2 DEF LaunchFields, NoLaunch
  <2>2. Becomes(i, q)
    BY <1>3
  <2> HIDE DEF q
  <2>3. ~Follows(q)
    BY <1>2, <1>3, <2>1 DEF Follows
  <2>4. Quiet(sidecar, registry, specs, q)
    BY <1>3, <2>1, <2>3, FreshIsQuiet
  <2> QED
    BY <1>1, <2>2, <2>4, CalmMoved
<1>4. CASE StartDirect(i)
  <2>1. PICK inv \in Invocations[i] : Becomes(i, [r EXCEPT !.stage = "resolve", !.l = inv.l, !.wraps = inv.wraps])
    BY <1>4 DEF StartDirect
  <2>2. Flags \subseteq DOMAIN inv.l /\ ~inv.l.inner
    BY InvocationsAssumption DEF Flags
  <2> QED
    BY <1>3, <2>1, <2>2
<1>5. CASE ResumeFindsLive(i)
  BY <1>1, <1>5, CalmEnding DEF ResumeFindsLive
<1>6. CASE StartResume(i)
  <2>1. PICK inv \in Invocations[i] :
          \/ End(i)
          \/ \E recorded, confirmed :
                Becomes(i, [r EXCEPT !.stage = "resolve", !.wraps = inv.wraps,
                                     !.l = resumeLaunchFlags(inv.l, inv.resume, recorded, confirmed)])
    BY <1>6 DEF StartResume
  <2>2. CASE End(i)
    BY <1>1, <2>2, CalmEnding
  <2>3. ASSUME NEW recorded, NEW confirmed,
               Becomes(i, [r EXCEPT !.stage = "resolve", !.wraps = inv.wraps,
                                     !.l = resumeLaunchFlags(inv.l, inv.resume, recorded, confirmed)])
        PROVE  CalmInv'
    <3> DEFINE l == resumeLaunchFlags(inv.l, inv.resume, recorded, confirmed)
    <3>1. Flags \subseteq DOMAIN inv.l /\ ~inv.l.inner
      BY InvocationsAssumption DEF Flags
    <3>2. DOMAIN l = DOMAIN inv.l /\ l.inner = inv.l.inner
      BY <3>1 DEF resumeLaunchFlags, Flags
    <3> HIDE DEF l
    <3>3. [r EXCEPT !.stage = "resolve", !.wraps = inv.wraps, !.l = l]
          = [r EXCEPT !.stage = "resolve", !.l = l, !.wraps = inv.wraps]
      OBVIOUS
    <3> QED
      BY <1>3, <2>3, <3>1, <3>2, <3>3 DEF l
  <2> QED
    BY <2>1, <2>2, <2>3
<1> QED
  BY <1>4, <1>5, <1>6

\* The profile gate reads neither the ids decided for a launch nor its spec.
LEMMA GateReads ==
    ASSUME NEW m, NEW q, q.args = m.args, q.provider = m.provider, q.digest = m.digest,
           q.digestSession = m.digestSession, q.profileEnv = m.profileEnv, q.fromRecord = m.fromRecord,
           q.inner = m.inner, q.asked = m.asked, NEW p, NEW f
    PROVE  checkLaunchProfile(q, p, f) = checkLaunchProfile(m, p, f)
<1>1. gatedSessionID(q, f) = gatedSessionID(m, f)
  BY DEF gatedSessionID
<1>2. Requested(q) = Requested(m)
  BY DEF Requested
<1>3. \A id : Approval(q, p, id) = Approval(m, p, id)
  BY DEF Approval
<1>4. FirstUse(q, p) = FirstUse(m, p)
  BY <1>2 DEF FirstUse
<1> QED
  BY <1>1, <1>3, <1>4 DEF checkLaunchProfile

LEMMA IdentifiedFields ==
    ASSUME NEW l, Flags \subseteq DOMAIN l, NEW i
    PROVE  LET q == Identified(i, l) IN
           /\ DOMAIN q = DOMAIN l
           /\ q.scope = l.scope /\ q.provider = l.provider /\ q.naked = l.naked /\ q.provided = l.provided
           /\ q.launchKey = l.launchKey /\ q.inner = l.inner /\ q.asked = l.asked /\ q.explicit = l.explicit
           /\ q.resumeDefault = l.resumeDefault /\ q.fromRecord = l.fromRecord /\ q.profileEnv = l.profileEnv
           /\ q.digest = l.digest /\ q.digestSession = l.digestSession /\ q.unattended = l.unattended
           /\ l.provider = "claude" /\ ~l.naked =>
                 LET d == decideClaudeSession(l.args, IF l.key = None THEN i ELSE l.key, i)
                 IN  q.args = d.args /\ q.key = d.key /\ q.hint = d.hint
           /\ ~(l.provider = "claude" /\ ~l.naked) =>
                 q.args = l.args /\ q.hint = l.hint /\ q.key = IF l.key = None THEN i ELSE l.key
<1> DEFINE d == decideClaudeSession(l.args, IF l.key = None THEN i ELSE l.key, i)
<1>1. CASE l.provider = "claude" /\ ~l.naked
  <2>1. Identified(i, l) = [l EXCEPT !.args = d.args, !.key = d.key, !.hint = d.hint]
    BY <1>1 DEF Identified
  <2> HIDE DEF d
  <2> QED
    BY <1>1, <2>1 DEF Flags, d
<1>2. CASE ~(l.provider = "claude" /\ ~l.naked)
  <2>1. Identified(i, l) = [l EXCEPT !.key = IF @ = None THEN i ELSE @]
    BY <1>2 DEF Identified
  <2> QED
    BY <1>2, <2>1 DEF Flags
<1> QED
  BY <1>1, <1>2

\* Whoever decides a launch's session first leaves the args naming it.
LEMMA IdentifiedFirst ==
    ASSUME NEW l, Flags \subseteq DOMAIN l, IsSequence(l.args), Unrefused(l), NEW i \in Launches
    PROVE  Settled(Identified(i, l)) /\ Unrefused(Identified(i, l))
<1> DEFINE q == Identified(i, l)
           k == IF l.key = None THEN i ELSE l.key
           d == decideClaudeSession(l.args, k, i)
<1>1. i # None /\ k # None
  BY LaunchesMintIds
<1>2. /\ q.scope = l.scope /\ q.provider = l.provider /\ q.naked = l.naked /\ q.unattended = l.unattended
      /\ l.provider = "claude" /\ ~l.naked => q.args = d.args /\ q.key = d.key /\ q.hint = d.hint
      /\ ~(l.provider = "claude" /\ ~l.naked) => q.args = l.args /\ q.key = k
  BY IdentifiedFields
<1>3. Named(d.args) /\ d.hint = HintOf(d.args) /\ d.key # None
  BY <1>1, DecidedIsNamed
<1>4. d.args = l.args \/ \E id : d.args = <<[k |-> "session-id", v |-> id]>> \o l.args
  BY DEF decideClaudeSession
<1> HIDE DEF q, d, k
<1>5. Settled(q)
  BY <1>1, <1>2, <1>3 DEF Settled
<1>6. ~unattendedLaunchError(q)
  <2>1. CASE q.args = l.args
    BY <1>2, <2>1 DEF Unrefused, unattendedLaunchError
  <2>2. ASSUME NEW id, q.args = <<[k |-> "session-id", v |-> id]>> \o l.args PROVE ~unattendedLaunchError(q)
    BY <1>2, <2>2, UnattendedInjected DEF Unrefused
  <2> QED
    BY <1>2, <1>4, <2>1, <2>2
<1> QED
  BY <1>2, <1>5, <1>6 DEF Unrefused, q

\* Whoever decides it again leaves the args and the hint, and adds no id.
LEMMA IdentifiedAgain ==
    ASSUME NEW l, Flags \subseteq DOMAIN l, Unrefused(l), l.provider = "claude" /\ ~l.naked => Named(l.args),
           NEW i \in Launches
    PROVE  LET q == Identified(i, l) IN
           /\ q.args = l.args /\ Unrefused(q)
           /\ Settled(l) => Settled(q) /\ q.hint = l.hint /\ launchScopeIDs(q) \subseteq launchScopeIDs(l)
<1> DEFINE q == Identified(i, l)
           k == IF l.key = None THEN i ELSE l.key
           d == decideClaudeSession(l.args, k, i)
<1>1. /\ q.scope = l.scope /\ q.provider = l.provider /\ q.naked = l.naked /\ q.unattended = l.unattended
      /\ q.provided = l.provided
      /\ l.provider = "claude" /\ ~l.naked => q.args = d.args /\ q.key = d.key /\ q.hint = d.hint
      /\ ~(l.provider = "claude" /\ ~l.naked) => q.args = l.args /\ q.hint = l.hint /\ q.key = k
  BY IdentifiedFields
<1>2. l.provider = "claude" /\ ~l.naked =>
        d.args = l.args /\ d.hint = HintOf(l.args) /\ (d.key = k \/ (d.key = d.hint /\ d.hint # None))
  BY NamedIsKept
<1> HIDE DEF q, d
<1>3. q.args = l.args
  BY <1>1, <1>2
<1>4. Unrefused(q)
  BY <1>1, <1>3 DEF Unrefused, unattendedLaunchError
<1>5. ASSUME Settled(l) PROVE Settled(q) /\ q.hint = l.hint /\ launchScopeIDs(q) \subseteq launchScopeIDs(l)
  <2>1. q.hint = l.hint /\ l.key # None /\ k = l.key
    BY <1>1, <1>2, <1>5 DEF Settled
  <2>2. q.key = l.key \/ (l.provider = "claude" /\ q.key = q.hint /\ q.hint # None)
    BY <1>1, <1>2, <2>1
  <2>3. q.key # None
    BY <2>1, <2>2
  <2>4. Settled(q)
    BY <1>1, <1>3, <1>5, <2>1, <2>3 DEF Settled
  <2>5. lineageRecordIDs(q) \subseteq lineageRecordIDs(l)
    BY <1>1, <2>1, <2>2 DEF lineageRecordIDs
  <2> QED
    BY <1>3, <2>1, <2>4, <2>5 DEF launchScopeIDs
<1> QED
  BY <1>3, <1>4, <1>5 DEF q

LEMMA CalmResolve == ASSUME Inv, CalmInv, NEW i \in Launches, Resolve(i) PROVE CalmInv'
<1> DEFINE r == launches[i]
           given == Applied(r.l)
           new == Identified(i, r.l)
           calm == r.calm \/ ~(r.l.inner \/ r.relaunched)
           q == [r EXCEPT !.stage = "confine", !.applied = given, !.since = edits, !.l = new, !.calm = calm]
<1>1. Quiet(sidecar, registry, specs, r) /\ r.stage = "resolve" /\ UNCHANGED <<File, registry, specs>>
  BY DEF CalmInv, Resolve, Env
<1>2. At(r) = "resolve" /\ Shape(r) /\ Pending(r) = {}
  BY <1>1 DEF Quiet, At, Pending
<1>3. LaunchFields \subseteq DOMAIN r /\ Flags \subseteq DOMAIN r.l /\ IsSequence(r.l.args)
  BY <1>1, <1>2 DEF Shape, Stages, Inv, LaunchesGood, Good, WellFormed, WellFlagged
<1>4. \/ Refuse(i, "resolve") /\ (given = Refused \/ ~Unrefused(r.l))
      \/ Becomes(i, q) /\ given # Refused /\ Unrefused(r.l)
  BY DEF Resolve, Unrefused
<1>5. /\ DOMAIN new = DOMAIN r.l
      /\ new.scope = r.l.scope /\ new.provider = r.l.provider /\ new.naked = r.l.naked
      /\ new.launchKey = r.l.launchKey /\ new.inner = r.l.inner /\ new.asked = r.l.asked
      /\ new.fromRecord = r.l.fromRecord /\ new.profileEnv = r.l.profileEnv
      /\ new.digest = r.l.digest /\ new.digestSession = r.l.digestSession /\ new.unattended = r.l.unattended
  BY <1>3, IdentifiedFields
<1>6. /\ LaunchFields \subseteq DOMAIN q /\ q.stage = "confine" /\ q.applied = given /\ q.l = new
      /\ q.wraps = r.wraps /\ q.relaunched = r.relaunched /\ (q.calm <=> calm)
  BY <1>3 DEF LaunchFields, NoLaunch
<1> HIDE DEF q, new
<1>7. At(q) = "confine" /\ Pending(q) = {} /\ Started(q) /\ (Follows(q) <=> Follows(r)) /\ (Outer(q) <=> Outer(r))
  BY <1>5, <1>6 DEF At, Pending, Started, Stages, Follows, Outer
<1>8. CASE ~Follows(r)
  <2>1. CASE Refuse(i, "resolve")
    BY <1>1, <1>8, <2>1, CalmRefusing
  <2>2. CASE Becomes(i, q) /\ given # Refused /\ Unrefused(r.l)
    <3>1. Settled(new) /\ Unrefused(new)
      BY <1>3, <2>2, IdentifiedFirst DEF new
    <3>2. ~q.relaunched /\ ~q.l.inner
      BY <1>7, <1>8 DEF Follows
    <3>3. Shape(q)
      BY <1>3, <1>5, <1>6, <1>7, <3>1, <3>2 DEF Shape, Stages, LateStages
    <3>4. ProfileStays(registry, q)
      <4>1. \E name : given = ProfileIn(registry, name)
        <5>1. given = None \/ \E name : given = Profile(name)
          BY DEF Applied
        <5> QED
          BY <5>1, Registered DEF ProfileIn
      <4>2. given = ProfileIn(registry, IF given = None THEN None ELSE given.name)
        BY <2>2, <4>1 DEF ProfileIn
      <4>3. Outer(q) => NextFlags(q).asked = IF given = None THEN None ELSE given.name
        <5>1. Flags \subseteq DOMAIN new
          BY <1>3, <1>5
        <5>2. Outer(q) => NextFlags(q) = Inner(new, given)
          BY <1>6 DEF NextFlags
        <5> HIDE DEF given
        <5>3. Inner(new, given).asked = IF given = None THEN None ELSE given.name
          BY <5>1 DEF Inner, reexecArgv, Flags
        <5> QED
          BY <5>2, <5>3
      <4> QED
        BY <1>6, <1>7, <1>8, <2>2, <4>2, <4>3 DEF ProfileStays
    <3>5. PinAgrees(sidecar, registry, q) /\ ScopeAgrees(sidecar, specs, q) /\ StillBounded(specs, q)
      BY <1>6, <1>7, <1>8, <3>2 DEF PinAgrees, ScopeAgrees, StillBounded
    <3>6. Quiet(sidecar, registry, specs, q)
      BY <1>6, <3>3, <3>4, <3>5 DEF Quiet, Agrees
    <3> QED
      BY <1>1, <2>2, <3>6, CalmMoved
  <2> QED
    BY <1>4, <2>1, <2>2
<1>9. CASE Follows(r)
  <2>1. Started(r) /\ Unrefused(r.l) /\ r.l.explicit /\ ~r.l.resumeDefault
    BY <1>2, <1>9 DEF Shape, Started, Stages
  <2>2. ~Outer(r) /\ (~r.relaunched => Settled(r.l)) /\ (r.relaunched => resumeOccurrences(r.l.args) # {})
    BY <1>2, <1>9, <2>1 DEF Shape, Outer, Follows
  <2>3. r.l.provider = "claude" /\ ~r.l.naked => Named(r.l.args)
    BY <2>2 DEF Settled, Named
  <2>4. given = ProfileIn(registry, r.l.asked)
    BY <2>1, Registered DEF Applied, launchProfileName
  <2>5. NextFlags(r) = r.l /\ NextFlags(q) = new
    BY <1>1, <1>6, <1>7, <2>2 DEF NextFlags
  <2>6. Whole(sidecar) /\ r.calm => /\ ProfileStays(registry, r) /\ PinAgrees(sidecar, registry, r)
                                    /\ ScopeAgrees(sidecar, specs, r)
    BY <1>1, <1>2 DEF Quiet, Agrees, Stages
  <2>7. Whole(sidecar) /\ r.calm => given # Refused
    BY <1>2, <1>9, <2>4, <2>5, <2>6 DEF ProfileStays
  <2>8. CASE Refuse(i, "resolve") /\ (given = Refused \/ ~Unrefused(r.l))
    BY <1>1, <2>1, <2>7, <2>8, CalmRefusing
  <2>9. CASE Becomes(i, q)
    <3>1. /\ new.args = r.l.args /\ Unrefused(new)
          /\ Settled(r.l) => /\ Settled(new) /\ new.hint = r.l.hint
                             /\ launchScopeIDs(new) \subseteq launchScopeIDs(r.l)
      BY <1>3, <2>1, <2>3, IdentifiedAgain DEF new
    <3>2. Shape(q)
      BY <1>3, <1>5, <1>6, <1>7, <2>2, <3>1 DEF Shape, Stages, LateStages
    <3>3. ASSUME Whole(sidecar), q.calm PROVE Agrees(sidecar, registry, specs, q)
      <4>1. r.calm
        BY <1>6, <1>9, <3>3 DEF Follows
      <4>2. ProfileStays(registry, q)
        BY <1>5, <1>6, <1>7, <2>4, <2>5, <2>7, <3>3, <4>1 DEF ProfileStays
      <4>3. PinAgrees(sidecar, registry, q)
        <5>1. checkLaunchProfile(r.l, NextPin(registry, r), sidecar).ok
          BY <1>1, <1>2, <1>9, <2>5, <2>6, <3>3, <4>1 DEF PinAgrees
        <5>2. NextPin(registry, q) = NextPin(registry, r)
          BY <1>5, <2>5 DEF NextPin
        <5>3. checkLaunchProfile(new, NextPin(registry, q), sidecar) = checkLaunchProfile(r.l, NextPin(registry, q), sidecar)
          BY <1>5, <3>1, GateReads
        <5> QED
          BY <1>7, <2>5, <5>1, <5>2, <5>3 DEF PinAgrees
      <4>4. ScopeAgrees(sidecar, specs, q)
        <5> SUFFICES ASSUME ~r.relaunched PROVE Confinable(sidecar, specs, new, {})
          BY <1>6, <1>7, <2>5 DEF ScopeAgrees
        <5>1. Confinable(sidecar, specs, r.l, {})
          BY <1>2, <1>9, <2>5, <2>6, <3>3, <4>1 DEF ScopeAgrees, Follows
        <5>2. /\ new.args = r.l.args /\ new.provider = r.l.provider /\ new.hint = r.l.hint /\ new.scope = r.l.scope
              /\ new.launchKey = r.l.launchKey /\ launchScopeIDs(new) \subseteq launchScopeIDs(r.l)
          BY <1>5, <2>2, <3>1
        <5> QED
          BY <5>1, <5>2, FewerIds
      <4>5. StillBounded(specs, q)
        BY <1>7 DEF StillBounded
      <4> QED
        BY <1>6, <4>2, <4>3, <4>4, <4>5 DEF Agrees
    <3>4. Quiet(sidecar, registry, specs, q)
      BY <3>2, <3>3 DEF Quiet
    <3> QED
      BY <1>1, <2>9, <3>4, CalmMoved
  <2> QED
    BY <1>4, <2>8, <2>9
<1> QED
  BY <1>8, <1>9

\* The spec that the confinement gate gives a launch is one it can be honoured with.
LEMMA VerdictUnrefused ==
    ASSUME NEW l, Flags \subseteq DOMAIN l, Unrefused(l), NEW f, NEW sp, ConfinementVerdict(l, f, sp) # Refused
    PROVE  Unrefused([l EXCEPT !.scope = ConfinementVerdict(l, f, sp)])
<1> DEFINE spec == ConfinementVerdict(l, f, sp)
           new == [l EXCEPT !.scope = spec]
<1>1. /\ new.scope = spec /\ new.args = l.args /\ new.provider = l.provider /\ new.naked = l.naked
      /\ new.unattended = l.unattended
  BY DEF Flags
<1>2. spec = agentScopeForLaunch(l, f, sp) /\ ~CannotHonour(l, ScopeRecords(l, f) # {}, spec)
  BY DEF ConfinementVerdict
<1> HIDE DEF new, spec
<1>3. ~(spec # None /\ l.naked)
  <2>1. CASE ScopeRecords(l, f) = {}
    <3>1. spec = l.scope \/ spec = Refused
      BY <1>2, <2>1 DEF agentScopeForLaunch
    <3> QED
      BY <3>1 DEF Unrefused, spec
  <2>2. CASE ScopeRecords(l, f) # {}
    BY <1>2, <2>2 DEF CannotHonour
  <2> QED
    BY <2>1, <2>2
<1>4. ~unattendedLaunchError(new)
  BY <1>1 DEF Unrefused, unattendedLaunchError
<1> QED
  BY <1>1, <1>3, <1>4 DEF Unrefused, new, spec

LEMMA CalmConfine == ASSUME Inv, CalmInv, NEW i \in Launches, Confine(i) PROVE CalmInv'
<1> DEFINE r == launches[i]
           spec == ConfinementVerdict(r.l, sidecar, specs)
           b == IF spec = None THEN None ELSE specs[spec]
           recs == IF spec \in {None, Refused} THEN {}
                   ELSE {[Blank(id) EXCEPT !.scope = spec, !.boundary = specs[spec]] : id \in ConfinedIds(r.l)}
           new == [r.l EXCEPT !.scope = spec]
           calm == r.calm /\ ~(Wraps(i) /\ spec # None /\ OwnRecordRefuses(r.l))
           kept == [r EXCEPT !.l = new, !.boundary = b, !.before = RanConfined(Conversation(r.l)),
                             !.calm = @ /\ ~(Wraps(i) /\ spec # None /\ OwnRecordRefuses(r.l))]
           q == Busied(kept, recs, TRUE, "gate")
<1>1. Quiet(sidecar, registry, specs, r) /\ r.stage = "confine" /\ UNCHANGED <<File, registry, specs>>
  BY DEF CalmInv, Confine, Env
<1>2. At(r) = "confine" /\ Shape(r) /\ Pending(r) = {} /\ Started(r)
  BY <1>1 DEF Quiet, At, Pending, Started, Stages
<1>3. /\ LaunchFields \subseteq DOMAIN r /\ Flags \subseteq DOMAIN r.l /\ IsSequence(r.l.args)
      /\ IsSequence(sidecar)
  BY <1>1, <1>2 DEF Shape, Stages, Inv, LaunchesGood, Good, WellFormed, WellFlagged, FileOK
<1>4. Unrefused(r.l) /\ (r.relaunched => ~Outer(r)) /\ (~r.relaunched => Settled(r.l))
  BY <1>2 DEF Shape
<1>5. Wraps(i) <=> Outer(r)
  BY DEF Wraps, Outer
<1>6. Whole(sidecar) /\ r.calm => /\ ProfileStays(registry, r) /\ PinAgrees(sidecar, registry, r)
                                  /\ ScopeAgrees(sidecar, specs, r)
  BY <1>1, <1>2 DEF Quiet, Agrees, Stages
<1>7. Whole(sidecar) /\ r.calm /\ Follows(r) /\ ~r.relaunched =>
        /\ spec = r.l.scope /\ spec # Refused
        /\ spec # None => r.l.provider = "claude"
  <2> SUFFICES ASSUME Whole(sidecar), r.calm, Follows(r), ~r.relaunched
               PROVE  /\ spec = r.l.scope /\ spec # Refused
                      /\ spec # None => r.l.provider = "claude"
    OBVIOUS
  <2>1. NextFlags(r) = r.l
    BY <1>1 DEF NextFlags, Outer, Follows
  <2>2. Confinable(sidecar, specs, r.l, {})
    BY <1>2, <1>6, <2>1 DEF ScopeAgrees, Follows
  <2> QED
    BY <1>3, <1>4, <2>2, ConfinementGranted
<1>8. CASE spec = Refused
  <2>1. Refuse(i, "confinement")
    BY <1>8 DEF Confine
  <2> QED
    BY <1>1, <1>7, <1>8, <2>1, CalmRefusing
<1>9. CASE spec # Refused
  <2>1. Becomes(i, q)
    BY <1>9 DEF Confine, Writing, Busied
  <2>2. /\ DOMAIN new = DOMAIN r.l /\ new.scope = spec /\ new.args = r.l.args /\ new.hint = r.l.hint
        /\ new.provider = r.l.provider /\ new.naked = r.l.naked /\ new.key = r.l.key /\ new.inner = r.l.inner
        /\ new.asked = r.l.asked /\ new.fromRecord = r.l.fromRecord /\ new.profileEnv = r.l.profileEnv
        /\ new.digest = r.l.digest /\ new.digestSession = r.l.digestSession
        /\ new.unattended = r.l.unattended
    BY <1>3 DEF Flags
  <2>3. /\ LaunchFields \subseteq DOMAIN kept /\ kept.l = new /\ kept.boundary = b /\ kept.wraps = r.wraps
        /\ kept.relaunched = r.relaunched /\ kept.applied = r.applied /\ (kept.calm <=> calm)
    BY <1>3 DEF LaunchFields, NoLaunch
  <2>4. Unrefused(new)
    BY <1>3, <1>4, <1>9, VerdictUnrefused
  <2>5. \A rec \in recs : rec.pin = None
    BY DEF Blank
  <2> HIDE DEF kept, recs
  <2>6. /\ LaunchFields \subseteq DOMAIN q /\ q.l = new /\ q.boundary = b /\ q.wraps = r.wraps
        /\ q.relaunched = r.relaunched /\ q.applied = r.applied /\ (q.calm <=> calm)
        /\ At(q) = "gate" /\ Pending(q) = recs /\ q.stage \in {"gate", "writing"}
    <3>1. /\ DOMAIN q = DOMAIN kept /\ q.l = kept.l /\ q.wraps = kept.wraps /\ q.relaunched = kept.relaunched
          /\ q.boundary = kept.boundary /\ q.applied = kept.applied /\ q.calm = kept.calm
          /\ q.writes = recs /\ q.next = "gate" /\ q.stage = (IF recs = {} THEN "gate" ELSE "writing")
      BY <2>3 DEF Busied, LaunchFields, NoLaunch
    <3> HIDE DEF q, calm
    <3>2. At(q) = "gate" /\ Pending(q) = recs
      BY <3>1 DEF At, Pending
    <3> QED
      BY <2>3, <3>1, <3>2
  <2> HIDE DEF q, new
  <2>7. Started(q) /\ (Follows(q) <=> Follows(r)) /\ (Outer(q) <=> Outer(r))
    BY <2>2, <2>6 DEF Started, Stages, Follows, Outer
  <2>8. Shape(q)
    <3>1. Settled(r.l) => Settled(new)
      BY <2>2 DEF Settled
    <3>2. r.relaunched => resumeOccurrences(new.args) # {}
      BY <1>2, <2>2 DEF Shape
    <3> QED
      BY <1>3, <1>4, <2>2, <2>4, <2>5, <2>6, <2>7, <3>1, <3>2 DEF Shape, Stages, LateStages
  <2>9. ASSUME Whole(sidecar), q.calm PROVE Agrees(sidecar, registry, specs, q)
    <3>1. r.calm /\ ~(Outer(r) /\ spec # None /\ OwnRecordRefuses(r.l))
      BY <1>5, <2>6, <2>9
    <3>2. /\ Outer(r) => NextFlags(r) = Inner(r.l, r.applied) /\ NextFlags(q) = Inner(new, r.applied)
          /\ ~Outer(r) => NextFlags(r) = r.l /\ NextFlags(q) = new
      BY <1>1, <2>6, <2>7 DEF NextFlags
    <3>3. NextFlags(q).asked = NextFlags(r).asked
      <4>1. Inner(r.l, r.applied).asked = Inner(new, r.applied).asked
        BY <1>3, <2>2 DEF Inner, reexecArgv, Flags
      <4> QED
        BY <2>2, <3>2, <4>1
    <3>4. ProfileStays(registry, q)
      BY <1>2, <1>6, <2>6, <2>7, <2>9, <3>1, <3>3 DEF ProfileStays
    <3>5. PinAgrees(sidecar, registry, q)
      <4> SUFFICES ASSUME Follows(r) PROVE checkLaunchProfile(NextFlags(q), NextPin(registry, q), sidecar).ok
        BY <2>6, <2>7 DEF PinAgrees
      <4>1. ~Outer(r)
        BY <1>4 DEF Follows, Outer
      <4>2. checkLaunchProfile(r.l, NextPin(registry, r), sidecar).ok
        BY <1>1, <1>2, <1>6, <2>9, <3>1, <3>2, <4>1 DEF PinAgrees
      <4>3. NextPin(registry, q) = NextPin(registry, r)
        BY <3>3 DEF NextPin
      <4>4. checkLaunchProfile(new, NextPin(registry, q), sidecar) = checkLaunchProfile(r.l, NextPin(registry, q), sidecar)
        BY <2>2, GateReads
      <4> QED
        BY <3>2, <4>1, <4>2, <4>3, <4>4
    <3>6. ScopeAgrees(sidecar, specs, q)
      <4> SUFFICES ASSUME Outer(r) PROVE Confinable(sidecar, specs, NextFlags(q), recs)
        BY <2>6, <2>7 DEF ScopeAgrees
      <4> DEFINE applied == r.applied
                 l == r.l
      <4>1. spec # None => ~OwnRecordRefuses(l)
        BY <3>1
      <4>2. recs = IF spec \in {None, Refused} THEN {}
                   ELSE {[Blank(id) EXCEPT !.scope = spec, !.boundary = specs[spec]] : id \in ConfinedIds(l)}
        BY DEF recs
      <4>3. spec = ConfinementVerdict(l, sidecar, specs)
        OBVIOUS
      <4> HIDE DEF spec, recs, applied, l
      <4>4. Confinable(sidecar, specs, Inner([l EXCEPT !.scope = spec], applied), recs)
        BY <1>3, <1>4, <1>9, <2>9, <4>1, <4>2, <4>3, ConfinedFirst DEF l
      <4> QED
        BY <3>2, <4>4 DEF new, l, applied
    <3>7. StillBounded(specs, q)
      <4> SUFFICES ASSUME ~r.relaunched, r.l.inner, spec # None PROVE specs[spec] = b /\ r.l.provider = "claude"
        BY <2>2, <2>6 DEF StillBounded
      <4> QED
        BY <1>7, <2>9, <3>1 DEF Follows
    <3> QED
      BY <2>6, <3>4, <3>5, <3>6, <3>7 DEF Agrees
  <2>10. Quiet(sidecar, registry, specs, q)
    BY <2>8, <2>9 DEF Quiet
  <2> QED
    BY <1>1, <2>1, <2>10, CalmMoved
<1> QED
  BY <1>8, <1>9

LEMMA CalmGate == ASSUME Inv, CalmInv, NEW i \in Launches, Gate(i) PROVE CalmInv'
<1> DEFINE r == launches[i]
           p == launchProfilePin(r.applied)
           d == checkLaunchProfile(r.l, p, sidecar)
           id == gatedSessionID(r.l, sidecar)
           recs == IF d.early = None THEN {} ELSE {[Blank(id) EXCEPT !.pin = d.early]}
           was == IF Conversation(r.l) = None THEN None ELSE ProfileOf(sidecar, Conversation(r.l))
           kept == [r EXCEPT !.launch = p, !.approved = d.approved, !.pinned = was]
           q == Busied(kept, recs, TRUE, "name")
<1>1. Quiet(sidecar, registry, specs, r) /\ r.stage = "gate" /\ UNCHANGED <<File, registry, specs>>
  BY DEF CalmInv, Gate, Env
<1>2. At(r) = "gate" /\ Shape(r) /\ Pending(r) = {} /\ Started(r)
  BY <1>1 DEF Quiet, At, Pending, Started, Stages
<1>3. LaunchFields \subseteq DOMAIN r /\ Flags \subseteq DOMAIN r.l
  BY <1>1, <1>2 DEF Shape, Stages
<1>4. (r.relaunched => ~Outer(r)) /\ (Follows(r) => ~Outer(r))
  BY <1>2 DEF Shape, Follows, Outer
<1>5. Whole(sidecar) /\ r.calm => /\ ProfileStays(registry, r) /\ PinAgrees(sidecar, registry, r)
                                  /\ ScopeAgrees(sidecar, specs, r) /\ StillBounded(specs, r)
  BY <1>1, <1>2 DEF Quiet, Agrees, Stages
<1>6. Whole(sidecar) /\ r.calm /\ (Outer(r) \/ Follows(r)) => p = NextPin(registry, r)
  BY <1>2, <1>5, Registered DEF ProfileStays, NextPin
<1>7. CASE ~d.ok
  <2>1. Refuse(i, "profile")
    BY <1>7 DEF Gate
  <2>2. ~(Whole(sidecar) /\ r.calm /\ Follows(r))
    <3> SUFFICES ASSUME Whole(sidecar), r.calm, Follows(r) PROVE FALSE
      OBVIOUS
    <3>1. NextFlags(r) = r.l
      BY <1>1, <1>4 DEF NextFlags
    <3> QED
      BY <1>1, <1>2, <1>5, <1>6, <1>7, <3>1 DEF PinAgrees
  <2> QED
    BY <1>1, <2>1, <2>2, CalmRefusing
<1>8. CASE d.ok
  <2>1. Becomes(i, q)
    BY <1>8 DEF Gate, Writing, Busied
  <2>2. /\ LaunchFields \subseteq DOMAIN kept /\ kept.l = r.l /\ kept.boundary = r.boundary /\ kept.wraps = r.wraps
        /\ kept.relaunched = r.relaunched /\ kept.applied = r.applied /\ kept.calm = r.calm
    BY <1>3 DEF LaunchFields, NoLaunch
  <2>3. \A rec \in recs : rec.scope = None
    BY DEF Blank
  <2> HIDE DEF kept, recs
  <2>4. /\ LaunchFields \subseteq DOMAIN q /\ q.l = r.l /\ q.boundary = r.boundary /\ q.wraps = r.wraps
        /\ q.relaunched = r.relaunched /\ q.applied = r.applied /\ q.calm = r.calm
        /\ q.writes = recs /\ q.next = "name" /\ q.stage = (IF recs = {} THEN "name" ELSE "writing")
    BY <2>2 DEF Busied, LaunchFields, NoLaunch
  <2> HIDE DEF q
  <2>5. At(q) = "name" /\ Pending(q) = recs
    BY <2>4 DEF At, Pending
  <2>6. Started(q) /\ (Follows(q) <=> Follows(r)) /\ (Outer(q) <=> Outer(r))
    BY <2>4, <2>5 DEF Started, Stages, Follows, Outer
  <2>7. Shape(q)
    BY <1>2, <1>3, <2>3, <2>4, <2>5, <2>6 DEF Shape, Stages, LateStages
  <2>8. NextFlags(q) = NextFlags(r)
    BY <1>1, <2>4, <2>6 DEF NextFlags
  <2>9. ASSUME Whole(sidecar), q.calm PROVE Agrees(sidecar, registry, specs, q)
    <3>1. r.calm
      BY <2>4, <2>9
    <3>2. ProfileStays(registry, q)
      BY <1>2, <1>5, <2>4, <2>5, <2>6, <2>8, <2>9, <3>1 DEF ProfileStays
    <3>3. PinAgrees(sidecar, registry, q)
      <4> SUFFICES ASSUME Outer(r)
                   PROVE  IF q.stage = "writing" THEN FirstPinned(NextFlags(q), NextPin(registry, q), q.writes)
                          ELSE checkLaunchProfile(NextFlags(q), NextPin(registry, q), sidecar).ok
        BY <2>4, <2>5, <2>6 DEF PinAgrees
      <4>1. NextFlags(q) = Inner(r.l, r.applied)
        BY <1>1, <2>8 DEF NextFlags
      <4>2. NextPin(registry, q) = p
        BY <1>6, <2>8, <2>9, <3>1 DEF NextPin
      <4>3. p = None \/ p = [name |-> p.name, digest |-> p.digest]
        BY DEF launchProfilePin
      <4> DEFINE e == d.early
                 l == r.l
                 a == r.applied
      <4>4. e = checkLaunchProfile(l, p, sidecar).early /\ id = gatedSessionID(l, sidecar)
            /\ checkLaunchProfile(l, p, sidecar).ok /\ Flags \subseteq DOMAIN l
        BY <1>3, <1>8
      <4>5. recs = IF e = None THEN {} ELSE {[Blank(id) EXCEPT !.pin = e]}
        BY DEF recs
      <4> HIDE DEF e, l, a, p, d, id
      <4>6. e = None => checkLaunchProfile(Inner(l, a), p, sidecar).ok
        BY <4>3, <4>4, GateGranted
      <4>7. e # None => FirstPinned(Inner(l, a), p, {[Blank(id) EXCEPT !.pin = e]})
        BY <4>3, <4>4, GateGranted
      <4>8. e = None => q.stage # "writing"
        BY <2>4, <4>5
      <4>9. e # None => q.stage = "writing"
        BY <2>4, <4>5
      <4>10. e # None => q.writes = {[Blank(id) EXCEPT !.pin = e]}
        BY <2>4, <4>5
      <4>11. NextFlags(q) = Inner(l, a)
        BY <4>1 DEF l, a
      <4> QED
        BY <4>2, <4>6, <4>7, <4>8, <4>9, <4>10, <4>11
    <3>4. ScopeAgrees(sidecar, specs, q)
      BY <1>2, <1>5, <2>4, <2>5, <2>6, <2>8, <2>9, <3>1 DEF ScopeAgrees
    <3>5. StillBounded(specs, q)
      BY <1>2, <1>5, <2>4, <2>5, <2>9, <3>1 DEF StillBounded
    <3> QED
      BY <2>4, <3>2, <3>3, <3>4, <3>5 DEF Agrees
  <2>10. Quiet(sidecar, registry, specs, q)
    BY <2>7, <2>9 DEF Quiet
  <2> QED
    BY <1>1, <2>1, <2>10, CalmMoved
<1> QED
  BY <1>7, <1>8

LEMMA CalmName == ASSUME Inv, CalmInv, NEW i \in Launches, Name(i) PROVE CalmInv'
<1> DEFINE r == launches[i]
           recs == IF r.l.spawn THEN {[Blank(r.l.key) EXCEPT !.brief = "brief"]} ELSE {}
           new == IF Wraps(i) THEN Inner(r.l, r.applied) ELSE r.l
           to == IF Wraps(i) THEN "resolve" ELSE "enter"
           mux == IF Wraps(i) THEN r.l.key ELSE r.muxName
           kept == [r EXCEPT !.name = resolveClownName(i), !.l = new, !.muxName = mux]
           q == Busied(kept, recs, FALSE, to)
<1>1. Quiet(sidecar, registry, specs, r) /\ r.stage = "name" /\ UNCHANGED <<File, registry, specs>>
  BY DEF CalmInv, Name, Env
<1>2. At(r) = "name" /\ Shape(r) /\ Pending(r) = {} /\ Started(r)
  BY <1>1 DEF Quiet, At, Pending, Started, Stages
<1>3. LaunchFields \subseteq DOMAIN r /\ Flags \subseteq DOMAIN r.l
  BY <1>1, <1>2 DEF Shape, Stages
<1>4. (Wraps(i) <=> Outer(r)) /\ (Outer(r) => ~r.relaunched)
  BY <1>2 DEF Wraps, Outer, Shape
<1>5. Becomes(i, q)
  <2>1. kept = [r EXCEPT !.name = resolveClownName(i), !.l = IF Wraps(i) THEN Inner(r.l, r.applied) ELSE r.l,
                         !.muxName = IF Wraps(i) THEN r.l.key ELSE @]
    OBVIOUS
  <2> HIDE DEF kept
  <2> QED
    BY <2>1 DEF Name, Writing, Busied
<1>6. /\ LaunchFields \subseteq DOMAIN kept /\ kept.l = new /\ kept.boundary = r.boundary /\ kept.wraps = r.wraps
      /\ kept.relaunched = r.relaunched /\ kept.applied = r.applied /\ kept.calm = r.calm
  BY <1>3 DEF LaunchFields, NoLaunch
<1>7. (\A rec \in recs : rec.scope = None /\ rec.pin = None) /\ (to = "resolve" <=> Outer(r)) /\ (to = "enter" <=> ~Outer(r))
  BY <1>4 DEF Blank
<1> HIDE DEF kept, recs, to, new
<1>8. /\ LaunchFields \subseteq DOMAIN q /\ q.l = new /\ q.boundary = r.boundary /\ q.wraps = r.wraps
      /\ q.relaunched = r.relaunched /\ q.applied = r.applied /\ q.calm = r.calm
      /\ q.writes = recs /\ q.next = to /\ q.stage = (IF recs = {} THEN to ELSE "writing")
  BY <1>6 DEF Busied, LaunchFields, NoLaunch
<1> HIDE DEF q
<1>9. At(q) = to /\ Pending(q) = recs
  BY <1>7, <1>8 DEF At, Pending
<1>10. CASE ~Outer(r)
  <2>1. new = r.l
    BY <1>4, <1>10 DEF new
  <2>2. Quiet(sidecar, registry, specs, q)
    BY <1>1, <1>2, <1>7, <1>8, <1>9, <1>10, <2>1, LateIsQuiet
  <2> QED
    BY <1>1, <1>5, <2>2, CalmMoved
<1>11. CASE Outer(r)
  <2>1. NextFlags(r) = new /\ new = Inner(r.l, r.applied)
    BY <1>1, <1>4, <1>11 DEF NextFlags, new
  <2>2. /\ Flags \subseteq DOMAIN new /\ new.args = r.l.args /\ new.provider = r.l.provider /\ new.hint = r.l.hint
        /\ new.key = r.l.key /\ new.naked = r.l.naked /\ new.scope = r.l.scope /\ new.unattended = r.l.unattended
        /\ new.inner = TRUE /\ new.explicit = TRUE /\ new.resumeDefault = FALSE
    BY <1>3, <2>1 DEF Inner, reexecArgv, Flags
  <2>3. Follows(q) /\ ~Outer(q) /\ At(q) = "resolve" /\ Started(q) /\ NextFlags(q) = new /\ ~q.relaunched
    BY <1>4, <1>7, <1>8, <1>9, <1>11, <2>2 DEF Follows, Outer, Started, Stages, NextFlags
  <2>4. Unrefused(new) /\ Settled(new)
    <3>1. Unrefused(r.l) /\ Settled(r.l)
      BY <1>2, <1>4, <1>11 DEF Shape
    <3> QED
      BY <2>2, <3>1 DEF Unrefused, Settled, unattendedLaunchError
  <2>5. Shape(q)
    BY <1>7, <1>8, <1>9, <1>11, <2>2, <2>3, <2>4 DEF Shape, Stages, LateStages
  <2>6. ASSUME Whole(sidecar), q.calm PROVE Agrees(sidecar, registry, specs, q)
    <3>1. ProfileStays(registry, r) /\ PinAgrees(sidecar, registry, r) /\ ScopeAgrees(sidecar, specs, r)
      BY <1>1, <1>2, <1>8, <2>6 DEF Quiet, Agrees, Stages
    <3>2. ProfileStays(registry, q)
      BY <1>1, <1>2, <1>11, <2>1, <2>3, <3>1 DEF ProfileStays
    <3>3. PinAgrees(sidecar, registry, q)
      <4>1. checkLaunchProfile(NextFlags(r), NextPin(registry, r), sidecar).ok
        BY <1>1, <1>2, <1>11, <3>1 DEF PinAgrees
      <4>2. NextPin(registry, q) = NextPin(registry, r)
        BY <2>1, <2>3 DEF NextPin
      <4> QED
        BY <2>1, <2>3, <4>1, <4>2 DEF PinAgrees
    <3>4. ScopeAgrees(sidecar, specs, q)
      <4>1. Confinable(sidecar, specs, NextFlags(r), {})
        BY <1>2, <1>4, <1>11, <3>1 DEF ScopeAgrees
      <4> QED
        BY <2>1, <2>3, <4>1 DEF ScopeAgrees
    <3>5. StillBounded(specs, q)
      BY <2>3 DEF StillBounded
    <3>6. q.stage # "refused"
      BY <1>8, <1>11, <1>7
    <3> QED
      BY <3>2, <3>3, <3>4, <3>5, <3>6 DEF Agrees
  <2>7. Quiet(sidecar, registry, specs, q)
    BY <2>5, <2>6 DEF Quiet
  <2> QED
    BY <1>1, <1>5, <2>7, CalmMoved
<1> QED
  BY <1>10, <1>11

LEMMA CalmEnter == ASSUME Inv, CalmInv, NEW i \in Launches, Enter(i) PROVE CalmInv'
<1> DEFINE r == launches[i]
<1>1. Quiet(sidecar, registry, specs, r) /\ r.stage = "enter" /\ UNCHANGED <<File, registry, specs>>
  BY DEF CalmInv, Enter, Env
<1>2. At(r) = "enter" /\ LaunchFields \subseteq DOMAIN r /\ ~Outer(r)
  BY <1>1 DEF Quiet, At, Shape, Started, Stages, LateStages
<1>3. \/ End(i)
      \/ Becomes(i, [r EXCEPT !.stage = "start"])
      \/ \E ids : Becomes(i, [r EXCEPT !.stage = "record", !.present = TRUE, !.ids = ids])
  BY DEF Enter, Goto
<1>4. ASSUME NEW q, Becomes(i, q), \/ q = [r EXCEPT !.stage = "start"]
                                  \/ \E ids : q = [r EXCEPT !.stage = "record", !.present = TRUE, !.ids = ids]
      PROVE  CalmInv'
  <2>1. /\ LaunchFields \subseteq DOMAIN q /\ q.l = r.l /\ q.wraps = r.wraps /\ q.relaunched = r.relaunched
        /\ q.boundary = r.boundary /\ q.calm = r.calm /\ q.stage \in {"record", "start"}
    BY <1>2, <1>4 DEF LaunchFields, NoLaunch
  <2>2. At(q) \in {"record", "start"}
    BY <2>1 DEF At
  <2>3. Quiet(sidecar, registry, specs, q)
    BY <1>1, <1>2, <2>1, <2>2, LateIsQuiet
  <2> QED
    BY <1>1, <1>4, <2>3, CalmMoved
<1> QED
  BY <1>1, <1>3, <1>4, CalmEnding

LEMMA CalmRecordLaunch == ASSUME Inv, CalmInv, NEW i \in Launches, RecordLaunch(i) PROVE CalmInv'
<1> DEFINE r == launches[i]
<1>1. Quiet(sidecar, registry, specs, r) /\ r.stage = "record" /\ UNCHANGED <<File, registry, specs>>
  BY DEF CalmInv, RecordLaunch, Env
<1>2. At(r) = "record" /\ LaunchFields \subseteq DOMAIN r /\ ~Outer(r)
  BY <1>1 DEF Quiet, At, Shape, Started, Stages, LateStages
<1>3. \/ Becomes(i, [r EXCEPT !.stage = "start"])
      \/ \E recs, ids : \E must \in BOOLEAN : Writing(i, recs, must, "record", [r EXCEPT !.ids = ids])
  BY DEF RecordLaunch, Goto
<1>4. ASSUME NEW q, Becomes(i, q), LaunchFields \subseteq DOMAIN q, q.l = r.l, q.wraps = r.wraps,
             q.relaunched = r.relaunched, q.boundary = r.boundary, q.calm = r.calm,
             q.stage = "start" \/ (q.stage \in {"record", "writing"} /\ q.next = "record")
      PROVE  CalmInv'
  <2>1. At(q) \in {"record", "start"}
    BY <1>4 DEF At
  <2>2. Quiet(sidecar, registry, specs, q)
    BY <1>1, <1>2, <1>4, <2>1, LateIsQuiet
  <2> QED
    BY <1>1, <1>4, <2>2, CalmMoved
<1>5. CASE Becomes(i, [r EXCEPT !.stage = "start"])
  <2> DEFINE q == [r EXCEPT !.stage = "start"]
  <2>1. /\ LaunchFields \subseteq DOMAIN q /\ q.l = r.l /\ q.wraps = r.wraps /\ q.relaunched = r.relaunched
        /\ q.boundary = r.boundary /\ q.calm = r.calm /\ q.stage = "start"
    BY <1>2 DEF LaunchFields, NoLaunch
  <2> HIDE DEF q
  <2>2. Becomes(i, q)
    BY <1>5 DEF q
  <2> QED
    BY <1>4, <2>1, <2>2
<1>6. ASSUME NEW recs, NEW must \in BOOLEAN, NEW ids, Writing(i, recs, must, "record", [r EXCEPT !.ids = ids])
      PROVE  CalmInv'
  <2> DEFINE kept == [r EXCEPT !.ids = ids]
  <2>1. /\ LaunchFields \subseteq DOMAIN kept /\ kept.l = r.l /\ kept.wraps = r.wraps
        /\ kept.relaunched = r.relaunched /\ kept.boundary = r.boundary /\ kept.calm = r.calm
    BY <1>2 DEF LaunchFields, NoLaunch
  <2> HIDE DEF kept
  <2> DEFINE q == Busied(kept, recs, must, "record")
  <2>2. Becomes(i, q)
    BY <1>6 DEF Writing, Busied, kept
  <2>3. /\ LaunchFields \subseteq DOMAIN q /\ q.l = r.l /\ q.wraps = r.wraps /\ q.relaunched = r.relaunched
        /\ q.boundary = r.boundary /\ q.calm = r.calm
        /\ q.stage = (IF recs = {} THEN "record" ELSE "writing") /\ q.next = "record"
    BY <2>1 DEF Busied, LaunchFields, NoLaunch
  <2> HIDE DEF q
  <2> QED
    BY <1>4, <2>2, <2>3
<1> QED
  BY <1>3, <1>5, <1>6

\* The provider of an inner clown starts as its own gate and the outer's checked it.
LEMMA CalmRun == ASSUME Inv, CalmInv, NEW i \in Launches, Run(i) PROVE CalmInv'
<1> DEFINE r == launches[i]
           q == [r EXCEPT !.stage = "running"]
           cannot == r.l.scope # None /\ (specs[r.l.scope] # r.boundary \/ r.l.provider # "claude")
<1>1. Quiet(sidecar, registry, specs, r) /\ r.stage = "start" /\ UNCHANGED <<File, registry, specs>>
  BY DEF CalmInv, Run, Env
<1>2. At(r) = "start" /\ LaunchFields \subseteq DOMAIN r /\ ~Outer(r)
  BY <1>1 DEF Quiet, At, Shape, Started, Stages, LateStages
<1>3. CASE cannot
  <2>1. Refuse(i, "confinement")
    BY <1>3 DEF Run
  <2>2. Whole(sidecar) /\ r.calm => StillBounded(specs, r)
    BY <1>1, <1>2 DEF Quiet, Agrees, Stages, LateStages
  <2>3. Whole(sidecar) /\ r.calm /\ Follows(r) => r.relaunched
    BY <1>2, <1>3, <2>2 DEF StillBounded, Follows
  <2> QED
    BY <1>1, <2>1, <2>3, CalmRefusing
<1>4. CASE ~cannot
  <2>1. Becomes(i, q)
    BY <1>4 DEF Run, Goto
  <2>2. /\ LaunchFields \subseteq DOMAIN q /\ q.l = r.l /\ q.wraps = r.wraps /\ q.relaunched = r.relaunched
        /\ q.boundary = r.boundary /\ q.calm = r.calm /\ q.stage = "running"
    BY <1>2 DEF LaunchFields, NoLaunch
  <2> HIDE DEF q
  <2>3. At(q) = "running"
    BY <2>2 DEF At
  <2>4. Quiet(sidecar, registry, specs, q)
    BY <1>1, <1>2, <2>2, <2>3, LateIsQuiet
  <2> QED
    BY <1>1, <2>1, <2>4, CalmMoved
<1> QED
  BY <1>3, <1>4

LEMMA CalmEnd == ASSUME Inv, CalmInv, NEW i \in Launches, ProviderExits(i) \/ RelaunchGivenUp(i) PROVE CalmInv'
<1>1. End(i) /\ UNCHANGED <<File, registry, specs>>
  BY DEF ProviderExits, RelaunchGivenUp, Env
<1> QED
  BY <1>1, CalmEnding

LEMMA CalmRestart == ASSUME Inv, CalmInv, NEW i \in Launches, Restart(i) PROVE CalmInv'
<1> DEFINE r == launches[i]
           q == [r EXCEPT !.stage = "stopped", !.restarts = @ + 1, !.calm = TRUE]
<1>1. Shape(r) /\ r.stage = "running" /\ UNCHANGED <<File, registry, specs>> /\ Becomes(i, q) /\ RestartChecked(i)
  BY DEF CalmInv, Quiet, Restart, Env
<1>2. At(r) = "running" /\ LaunchFields \subseteq DOMAIN r /\ Started(r)
  BY <1>1 DEF At, Shape, Started, Stages, LateStages
<1>3. /\ LaunchFields \subseteq DOMAIN q /\ q.l = r.l /\ q.wraps = r.wraps /\ q.relaunched = r.relaunched
      /\ q.applied = r.applied /\ q.muxName = r.muxName /\ q.stage = "stopped"
  BY <1>2 DEF LaunchFields, NoLaunch
<1> HIDE DEF q
<1>4. At(q) = "stopped" /\ Pending(q) = {} /\ Started(q) /\ (Outer(q) <=> Outer(r)) /\ NextFlags(q) = Relaunched(r)
  BY <1>3 DEF At, Pending, Started, Stages, LateStages, Outer, NextFlags, Relaunched
<1>5. Shape(q)
  BY <1>1, <1>2, <1>3, <1>4 DEF Shape, Stages, LateStages
<1> DEFINE now == ProfileIn(registry, Relaunched(r).asked)
<1>6. now # Refused /\ checkLaunchProfile(Relaunched(r), PinIn(registry, now), sidecar).ok
  BY <1>1, Registered DEF RestartChecked
<1>7. ProfileStays(registry, q)
  BY <1>4, <1>6 DEF ProfileStays
<1>8. PinAgrees(sidecar, registry, q)
  BY <1>4, <1>6 DEF PinAgrees, NextPin
<1>9. ScopeAgrees(sidecar, specs, q) /\ StillBounded(specs, q)
  BY <1>4 DEF ScopeAgrees, StillBounded
<1>10. Quiet(sidecar, registry, specs, q)
  BY <1>3, <1>5, <1>7, <1>8, <1>9 DEF Quiet, Agrees
<1> QED
  BY <1>1, <1>10, CalmMoved

LEMMA CalmRelaunch == ASSUME Inv, CalmInv, NEW i \in Launches, Relaunch(i) PROVE CalmInv'
<1> DEFINE r == launches[i]
           new == Relaunched(r)
           q == [r EXCEPT !.stage = "resolve", !.l = Relaunched(r), !.relaunched = TRUE]
<1>1. /\ Quiet(sidecar, registry, specs, r) /\ r.stage = "stopped" /\ UNCHANGED <<File, registry, specs>>
      /\ Becomes(i, q)
  BY DEF CalmInv, Relaunch, Env
<1>2. At(r) = "stopped" /\ Shape(r) /\ Started(r)
  BY <1>1 DEF Quiet, At, Started, Stages, LateStages
<1>3. /\ LaunchFields \subseteq DOMAIN r /\ Flags \subseteq DOMAIN r.l /\ IsSequence(r.l.args)
      /\ ~Outer(r) /\ Unrefused(r.l)
  BY <1>1, <1>2 DEF Shape, Stages, LateStages, Inv, LaunchesGood, Good, WellFormed, WellFlagged
<1>4. /\ DOMAIN new = DOMAIN r.l
      /\ new.args = Append(withoutClaudeSessionArgs(r.l.args), [k |-> "resume", v |-> r.l.key])
      /\ new.scope = r.l.scope /\ new.provider = r.l.provider /\ new.naked = r.l.naked
      /\ new.unattended = r.l.unattended /\ new.inner = r.l.inner
      /\ new.explicit = TRUE /\ new.resumeDefault = FALSE
  BY <1>3 DEF Relaunched, reexecArgv, Flags
<1>5. /\ LaunchFields \subseteq DOMAIN q /\ q.l = new /\ q.wraps = r.wraps /\ q.relaunched
      /\ q.calm = r.calm /\ q.stage = "resolve"
  BY <1>3 DEF LaunchFields, NoLaunch
<1>6. NextFlags(r) = new
  BY <1>1 DEF NextFlags
<1> HIDE DEF q, new
<1>7. ~unattendedLaunchError(new)
  BY <1>3, <1>4, UnattendedRelaunch DEF Unrefused
<1>8. resumeOccurrences(new.args) # {}
  BY <1>3, <1>4, RelaunchArgs
<1>9. /\ At(q) = "resolve" /\ Pending(q) = {} /\ Follows(q) /\ Started(q) /\ ~Outer(q) /\ NextFlags(q) = new
  BY <1>3, <1>4, <1>5 DEF At, Pending, Follows, Started, Stages, Outer, NextFlags
<1>10. Shape(q)
  BY <1>3, <1>4, <1>5, <1>7, <1>8, <1>9 DEF Shape, Stages, LateStages, Unrefused
<1>11. ASSUME Whole(sidecar), q.calm PROVE Agrees(sidecar, registry, specs, q)
  <2>1. ProfileStays(registry, r) /\ PinAgrees(sidecar, registry, r)
    BY <1>1, <1>2, <1>5, <1>11 DEF Quiet, Agrees, Stages, LateStages
  <2>2. ProfileStays(registry, q)
    BY <1>1, <1>6, <1>9, <2>1 DEF ProfileStays
  <2>3. checkLaunchProfile(NextFlags(r), NextPin(registry, r), sidecar).ok
    BY <1>1, <1>2, <2>1 DEF PinAgrees
  <2>4. PinAgrees(sidecar, registry, q)
    BY <1>6, <1>9, <2>3 DEF PinAgrees, NextPin
  <2>5. ScopeAgrees(sidecar, specs, q) /\ StillBounded(specs, q)
    BY <1>5 DEF ScopeAgrees, StillBounded
  <2> QED
    BY <1>5, <2>2, <2>4, <2>5 DEF Agrees
<1>12. Quiet(sidecar, registry, specs, q)
  BY <1>10, <1>11 DEF Quiet
<1> QED
  BY <1>1, <1>12, CalmMoved

-----------------------------------------------------------------------------
(* Records, failures and edits, calm.                                      *)

\* The args that the next gate reads name what the launch's args and its key name.
LEMMA NextNames ==
    ASSUME NEW r, Flags \subseteq DOMAIN r.l, IsSequence(r.l.args)
    PROVE  LET m == NextFlags(r) IN
           /\ IsSequence(m.args)
           /\ Values(m.args, {"resume", "session-id"}) \subseteq Values(r.l.args, {"resume", "session-id"}) \cup {r.l.key}
           /\ r.stage # "stopped" => m.args = r.l.args
<1>1. CASE r.stage = "stopped"
  <2> DEFINE t == Append(withoutClaudeSessionArgs(r.l.args), [k |-> "resume", v |-> r.l.key])
  <2>1. NextFlags(r).args = t
    BY <1>1 DEF NextFlags, Relaunched, reexecArgv, Flags
  <2>2. IsSequence(t) /\ \A id \in Values(t, {"resume", "session-id"}) : id = r.l.key
    BY RelaunchArgs
  <2> HIDE DEF t
  <2> QED
    BY <1>1, <2>1, <2>2
<1>2. CASE r.stage # "stopped"
  <2>1. NextFlags(r).args = r.l.args
    BY <1>2 DEF NextFlags, Inner, reexecArgv, Flags
  <2> QED
    BY <2>1
<1> QED
  BY <1>1, <1>2

\* A launch is asked the same after another's record that says nothing of what it reads.
LEMMA Untouched ==
    ASSUME NEW f, IsSequence(f), NEW rec, NEW g, Whole(g) => g = Append(f, Written(rec)) /\ Whole(f),
           NEW reg, NEW sp, NEW r, WellFormed(r), Quiet(f, reg, sp, r), ~Touches(rec, r)
    PROVE  Quiet(g, reg, sp, r)
<1>1. Shape(r)
  BY DEF Quiet
<1>2. ASSUME Whole(g), r.calm PROVE Agrees(g, reg, sp, r)
  <2>1. g = Append(f, Written(rec)) /\ Whole(f) /\ Whole(Append(f, Written(rec))) /\ Agrees(f, reg, sp, r)
    BY <1>2 DEF Quiet
  <2>2. CASE At(r) \notin Stages
    BY <2>1, <2>2 DEF Agrees
  <2>3. CASE At(r) \in Stages
    <3>1. r.stage \notin {"idle", "done", "refused"}
      BY <2>3 DEF At, Stages, LateStages
    <3>2. Flags \subseteq DOMAIN r.l /\ IsSequence(r.l.args)
      BY <1>1, <2>3, <3>1 DEF Shape, WellFormed, WellFlagged
    <3>3. rec.scope = None /\ rec.session \notin {r.l.key} \cup Values(r.l.args, {"resume", "session-id"})
      BY <3>1 DEF Touches
    <3> DEFINE m == NextFlags(r)
    <3>4. IsSequence(m.args) /\ rec.session \notin Values(m.args, {"resume", "session-id"})
      BY <3>2, <3>3, NextNames
    <3> HIDE DEF m
    <3>5. ProfileStays(reg, r) /\ PinAgrees(f, reg, r) /\ ScopeAgrees(f, sp, r) /\ StillBounded(sp, r)
      BY <2>1, <2>3 DEF Agrees
    <3>6. \A p : checkLaunchProfile(m, p, f).ok => checkLaunchProfile(m, p, g).ok
      BY <2>1, <3>4, GateKept
    <3>7. PinAgrees(g, reg, r)
      BY <3>5, <3>6 DEF PinAgrees, m
    <3>8. \A recs : Confinable(f, sp, m, recs) => Confinable(g, sp, m, recs)
      BY <2>1, <3>3, ConfinableKept
    <3>9. ScopeAgrees(g, sp, r)
      BY <3>5, <3>8 DEF ScopeAgrees, m
    <3> QED
      BY <2>1, <3>5, <3>7, <3>9 DEF Agrees
  <2> QED
    BY <2>2, <2>3
<1> QED
  BY <1>1, <1>2 DEF Quiet

\* Without its calm a launch keeps its shape.
LEMMA Calmed ==
    ASSUME NEW r, Shape(r), NEW f, NEW reg, NEW sp
    PROVE  Quiet(f, reg, sp, [r EXCEPT !.calm = FALSE])
<1> DEFINE q == [r EXCEPT !.calm = FALSE]
<1>1. LaunchFields \subseteq DOMAIN r
  BY DEF Shape
<1>2. /\ LaunchFields \subseteq DOMAIN q /\ q.stage = r.stage /\ q.next = r.next /\ q.writes = r.writes
      /\ q.l = r.l /\ q.wraps = r.wraps /\ q.relaunched = r.relaunched /\ ~q.calm
  BY <1>1 DEF LaunchFields, NoLaunch
<1> HIDE DEF q
<1>3. At(q) = At(r) /\ Pending(q) = Pending(r) /\ (Outer(q) <=> Outer(r)) /\ (Follows(q) <=> Follows(r))
  BY <1>2 DEF At, Pending, Outer, Follows
<1>4. Started(q) <=> Started(r)
  BY <1>3 DEF Started
<1>5. Shape(q)
  BY <1>2, <1>3, <1>4 DEF Shape
<1>6. Quiet(f, reg, sp, q)
  BY <1>2, <1>5, Uncalm
<1> QED
  BY <1>6 DEF q

\* A launch with fewer records to write, or none, at the stage it was.
LEMMA Lighter ==
    ASSUME NEW r, Shape(r), r.stage = "writing", WellFormed(r), NEW q, LaunchFields \subseteq DOMAIN q, q.l = r.l,
           q.wraps = r.wraps, q.relaunched = r.relaunched,
           \/ q.stage = r.next /\ q.writes = {}
           \/ q.stage = "writing" /\ q.next = r.next /\ q.writes \subseteq r.writes
    PROVE  /\ Shape(q) /\ At(q) = At(r) /\ Pending(q) = q.writes
           /\ (Outer(q) <=> Outer(r)) /\ (Follows(q) <=> Follows(r))
           /\ r.next \in {"gate", "name", "resolve", "enter", "record"}
<1>1. r.next \in {"gate", "name", "resolve", "enter", "record"} /\ At(r) = r.next
  BY DEF WellFormed, At
<1>2. At(q) = At(r) /\ Pending(q) = q.writes /\ (Outer(q) <=> Outer(r)) /\ (Follows(q) <=> Follows(r))
  BY <1>1 DEF At, Pending, Outer, Follows
<1>3. Started(q) <=> Started(r)
  BY <1>2 DEF Started
<1>4. Pending(q) \subseteq Pending(r)
  BY <1>2 DEF Pending
<1>5. Shape(q)
  BY <1>1, <1>2, <1>3, <1>4 DEF Shape
<1> QED
  BY <1>1, <1>2, <1>5

\* The launch that wrote rec is asked as it was to be, in a file that has rec, or that needs none.
LEMMA WriterIsQuiet ==
    ASSUME NEW f, IsSequence(f), NEW rec, NEW g,
           Whole(g) => Whole(f) /\ (g = Append(f, Written(rec)) \/ (SaysNothing(rec) /\ g = f)),
           NEW reg, NEW sp, NEW r, WellFormed(r), Quiet(f, reg, sp, r), r.stage = "writing", rec \in r.writes
    PROVE  Quiet(g, reg, sp, Behind(r, rec))
<1> DEFINE q == Behind(r, rec)
<1>1. Shape(r) /\ LaunchFields \subseteq DOMAIN r
  BY DEF Quiet, Shape
<1>2. /\ LaunchFields \subseteq DOMAIN q /\ q.l = r.l /\ q.wraps = r.wraps /\ q.relaunched = r.relaunched
      /\ q.calm = r.calm /\ q.applied = r.applied /\ q.boundary = r.boundary /\ q.writes = r.writes \ {rec}
      /\ r.writes = {rec} => q.stage = r.next
      /\ r.writes # {rec} => q.stage = "writing" /\ q.next = r.next
  BY <1>1 DEF Behind, LaunchFields, NoLaunch
<1> HIDE DEF q
<1>3. /\ Shape(q) /\ At(q) = At(r) /\ Pending(q) = r.writes \ {rec} /\ (Outer(q) <=> Outer(r))
      /\ (Follows(q) <=> Follows(r)) /\ r.next \in {"gate", "name", "resolve", "enter", "record"}
  BY <1>1, <1>2, Lighter
<1>4. /\ At(r) = r.next /\ Pending(r) = r.writes /\ At(r) \in Stages
      /\ q.stage \notin {"stopped", "refused"} /\ NextFlags(q) = NextFlags(r)
  BY <1>2, <1>3 DEF At, Pending, Stages, LateStages, NextFlags
<1>5. ASSUME Whole(g), q.calm PROVE Agrees(g, reg, sp, q)
  <2> DEFINE m == NextFlags(r)
  <2>1. /\ Whole(f)
        /\ \/ g = Append(f, Written(rec))
           \/ SaysNothing(rec) /\ g = f
        /\ ProfileStays(reg, r) /\ PinAgrees(f, reg, r) /\ ScopeAgrees(f, sp, r) /\ StillBounded(sp, r)
    BY <1>2, <1>4, <1>5 DEF Quiet, Agrees
  <2>2. /\ At(r) \in {"gate", "resolve"} => rec.pin = None
        /\ At(r) \in {"name", "resolve"} => rec.scope = None
    BY <1>1, <1>4 DEF Shape
  <2>3. IsSequence(m.args)
    BY <1>1, <1>4, NextNames DEF Shape, WellFormed, WellFlagged
  <2>4. ProfileStays(reg, q)
    BY <1>2, <1>3, <1>4, <2>1 DEF ProfileStays
  <2>5. StillBounded(sp, q)
    BY <1>2, <1>3, <2>1 DEF StillBounded
  <2> HIDE DEF m
  <2>6. PinAgrees(g, reg, q)
    <3>1. NextPin(reg, q) = NextPin(reg, r)
      BY <1>4 DEF NextPin
    <3> DEFINE p == NextPin(reg, r)
    <3>2. CASE At(r) = "name" /\ Outer(r)
      <4>1. FirstPinned(m, p, r.writes)
        BY <2>1, <3>2 DEF PinAgrees, m
      <4> HIDE DEF p
      <4>2. r.writes = {rec} /\ rec.session # None /\ rec.pin # None
        <5>1. PICK id : r.writes = {[Blank(id) EXCEPT !.pin = p]} /\ id # None /\ p # None
          BY <4>1 DEF FirstPinned
        <5>2. rec = [Blank(id) EXCEPT !.pin = p]
          BY <5>1
        <5> QED
          BY <5>1, <5>2 DEF Blank
      <4>3. ~SaysNothing(rec)
        BY <4>2 DEF SaysNothing
      <4>4. checkLaunchProfile(m, p, g).ok
        BY <1>5, <2>1, <4>1, <4>2, <4>3, FirstPinFound
      <4> QED
        BY <1>2, <1>3, <1>4, <3>1, <3>2, <4>2, <4>4 DEF PinAgrees, m, p
    <3>3. CASE Follows(r) /\ At(r) \in {"resolve", "gate"}
      <4>1. checkLaunchProfile(m, p, f).ok
        BY <2>1, <3>3 DEF PinAgrees, m
      <4> HIDE DEF p
      <4>2. checkLaunchProfile(m, p, g).ok
        BY <1>5, <2>1, <2>2, <2>3, <3>3, <4>1, GateKept
      <4> QED
        BY <1>2, <1>3, <1>4, <3>1, <3>3, <4>2 DEF PinAgrees, m, p
    <3> QED
      BY <1>3, <1>4, <3>2, <3>3 DEF PinAgrees
  <2>7. ScopeAgrees(g, sp, q)
    <3>1. CASE At(r) = "gate" /\ Outer(r) /\ ~r.relaunched
      <4>1. Confinable(f, sp, m, r.writes)
        BY <1>4, <2>1, <3>1 DEF ScopeAgrees, m
      <4>2. Confinable(Append(f, Written(rec)), sp, m, r.writes \ {rec}) /\ ~SaysNothing(rec)
        BY <4>1, ConfinableRecorded
      <4> QED
        BY <1>3, <1>4, <2>1, <3>1, <4>2 DEF ScopeAgrees, m
    <3>2. CASE (Outer(r) \/ r.l.inner) /\ At(r) \in {"name", "resolve"} /\ ~r.relaunched
      <4> SUFFICES ASSUME \/ Outer(r) /\ At(r) \in {"gate", "name"}
                          \/ r.l.inner /\ At(r) \in {"resolve", "confine"}
                   PROVE  Confinable(g, sp, m, {})
        BY <1>2, <1>3, <1>4, <3>2 DEF ScopeAgrees, m
      <4>1. Confinable(f, sp, m, {})
        BY <2>1, <3>2 DEF ScopeAgrees, m
      <4>2. Whole(Append(f, Written(rec))) => Confinable(Append(f, Written(rec)), sp, m, {})
        BY <2>2, <3>2, <4>1, ConfinableKept
      <4> QED
        BY <1>5, <2>1, <4>1, <4>2
    <3> QED
      BY <1>2, <1>3, <1>4, <3>1, <3>2 DEF ScopeAgrees
  <2> QED
    BY <1>4, <2>4, <2>5, <2>6, <2>7 DEF Agrees
<1>6. Quiet(g, reg, sp, q)
  BY <1>3, <1>5 DEF Quiet
<1> QED
  BY <1>6 DEF q

LEMMA CalmRecord == ASSUME Inv, CalmInv, NEW i \in Launches, Record(i) PROVE CalmInv'
<1> DEFINE r == launches[i]
<1>1. /\ r.stage = "writing" /\ registry' = registry /\ specs' = specs
      /\ IsSequence(sidecar) /\ FileOK /\ DOMAIN launches = Launches
      /\ \A j \in Launches : WellFormed(launches[j]) /\ Quiet(sidecar, registry, specs, launches[j])
  BY DEF Record, Env, Inv, LaunchesGood, Good, FileOK, CalmInv
<1>2. PICK rec \in r.writes, saw \in {r.sawMidLine, midLine} :
        IF SaysNothing(rec)
        THEN launches' = [launches EXCEPT ![i] = Behind(r, rec)] /\ UNCHANGED File
        ELSE /\ sidecar' = Appended(Written(rec), saw)
             /\ midLine' = FALSE
             /\ launches' = [Undisturbed(launches, i, rec) EXCEPT ![i] = Behind(r, rec)]
  BY DEF Record
<1>3. CASE SaysNothing(rec)
  <2>1. Becomes(i, Behind(r, rec)) /\ UNCHANGED <<File, registry, specs>>
    BY <1>1, <1>2, <1>3 DEF Becomes
  <2>2. Quiet(sidecar, registry, specs, Behind(r, rec))
    BY <1>1, <1>3, WriterIsQuiet
  <2> QED
    BY <2>1, <2>2, CalmMoved
<1>4. CASE ~SaysNothing(rec)
  <2> DEFINE g == Appended(Written(rec), saw)
  <2>1. Whole(g) => g = Append(sidecar, Written(rec)) /\ Whole(sidecar)
    BY <1>1, WholeAppended
  <2>2. sidecar' = g /\ launches' = [Undisturbed(launches, i, rec) EXCEPT ![i] = Behind(r, rec)]
    BY <1>2, <1>4
  <2> HIDE DEF g
  <2>3. Quiet(g, registry, specs, Behind(r, rec))
    BY <1>1, <2>1, WriterIsQuiet
  <2>4. ASSUME NEW j \in Launches \ {i} PROVE Quiet(g, registry, specs, launches'[j])
    <3>1. CASE Touches(rec, launches[j])
      <4>1. launches'[j] = [launches[j] EXCEPT !.calm = FALSE]
        BY <2>2, <2>4, <3>1 DEF Undisturbed
      <4>2. Shape(launches[j])
        BY <1>1 DEF Quiet
      <4> QED
        BY <4>1, <4>2, Calmed
    <3>2. CASE ~Touches(rec, launches[j])
      <4>1. launches'[j] = launches[j]
        BY <2>2, <2>4, <3>2 DEF Undisturbed
      <4>2. Quiet(g, registry, specs, launches[j])
        BY <1>1, <2>1, <3>2, Untouched
      <4> QED
        BY <4>1, <4>2
    <3> QED
      BY <3>1, <3>2
  <2>5. launches'[i] = Behind(r, rec)
    BY <2>2 DEF Undisturbed
  <2>6. \A j \in Launches : Quiet(g, registry, specs, launches'[j])
    BY <2>3, <2>4, <2>5
  <2> QED
    BY <1>1, <2>2, <2>6 DEF CalmInv
<1> QED
  BY <1>3, <1>4

\* Everyone but the launch that moved has lost its calm.
LEMMA AllCalmed ==
    ASSUME CalmInv, NEW i,
           \A j \in Launches \ {i} : launches'[j] = [launches[j] EXCEPT !.calm = FALSE],
           i \in Launches => Shape(launches'[i]) /\ ~launches'[i].calm
    PROVE  CalmInv'
<1>1. ASSUME NEW j \in Launches PROVE Quiet(sidecar', registry', specs', launches'[j])
  <2>1. CASE j = i
    BY <2>1, Uncalm
  <2>2. CASE j # i
    <3>1. Shape(launches[j])
      BY DEF CalmInv, Quiet
    <3>2. launches'[j] = [launches[j] EXCEPT !.calm = FALSE]
      BY <2>2
    <3> QED
      BY <3>1, <3>2, Calmed
  <2> QED
    BY <2>1, <2>2
<1> QED
  BY <1>1 DEF CalmInv

LEMMA CalmRecordFails == ASSUME Inv, CalmInv, NEW i \in Launches, RecordFails(i) PROVE CalmInv'
<1> DEFINE r == launches[i]
           goesOn == [r EXCEPT !.writes = {}, !.stage = r.next, !.calm = FALSE, !.sawMidLine = FALSE, !.seen = 0]
           stops == [NoLaunch EXCEPT !.stage = "refused", !.refusedBy = "record"]
<1>1. Shape(r) /\ WellFormed(r) /\ r.stage = "writing" /\ LaunchFields \subseteq DOMAIN r
  BY DEF RecordFails, Inv, LaunchesGood, Good, CalmInv, Quiet, Shape
<1>2. PICK then \in {goesOn, stops} : launches' = [Disturbed EXCEPT ![i] = then]
  BY DEF RecordFails
<1>3. /\ launches'[i] = then
      /\ \A j \in Launches \ {i} : launches'[j] = [launches[j] EXCEPT !.calm = FALSE]
  BY <1>2 DEF Disturbed
<1>4. Shape(stops) /\ ~stops.calm
  <2>1. LaunchFields \subseteq DOMAIN stops /\ stops.stage = "refused" /\ ~stops.calm
    BY DEF NoLaunch, LaunchFields
  <2> HIDE DEF stops
  <2>2. Quiet(sidecar, registry, specs, stops)
    BY <2>1, OverIsQuiet
  <2> QED
    BY <2>1, <2>2 DEF Quiet
<1>5. Shape(goesOn) /\ ~goesOn.calm
  <2>1. /\ LaunchFields \subseteq DOMAIN goesOn /\ goesOn.l = r.l /\ goesOn.wraps = r.wraps
        /\ goesOn.relaunched = r.relaunched /\ goesOn.stage = r.next /\ goesOn.writes = {} /\ ~goesOn.calm
    BY <1>1 DEF LaunchFields, NoLaunch
  <2> HIDE DEF goesOn
  <2> QED
    BY <1>1, <2>1, Lighter
<1>6. Shape(launches'[i]) /\ ~launches'[i].calm
  BY <1>2, <1>3, <1>4, <1>5
<1> QED
  BY <1>3, <1>6, AllCalmed

LEMMA CalmOthers == ASSUME Inv, CalmInv, EditRegistry \/ EditSpec \/ CloseSession \/ UNCHANGED vars PROVE CalmInv'
<1>1. CASE EditRegistry \/ EditSpec
  <2>1. \A j \in Launches : launches'[j] = [launches[j] EXCEPT !.calm = FALSE]
    BY <1>1 DEF EditRegistry, EditSpec, Disturbed
  <2>2. \A j \in Launches : Shape(launches[j])
    BY DEF CalmInv, Quiet
  <2>3. ASSUME NEW j \in Launches PROVE Quiet(sidecar', registry', specs', launches'[j])
    <3>1. Shape(launches[j])
      BY <2>2
    <3>2. launches'[j] = [launches[j] EXCEPT !.calm = FALSE]
      BY <2>1
    <3> QED
      BY <3>1, <3>2, Calmed
  <2> QED
    BY <2>3 DEF CalmInv
<1>2. CASE CloseSession \/ UNCHANGED vars
  <2>1. sidecar' = sidecar /\ registry' = registry /\ specs' = specs /\ launches' = launches
    BY <1>2 DEF CloseSession, vars, File
  <2> QED
    BY <2>1 DEF CalmInv
<1> QED
  BY <1>1, <1>2

LEMMA CalmInit == ASSUME Init PROVE CalmInv
<1>1. /\ LaunchFields \subseteq DOMAIN NoLaunch /\ NoLaunch.stage = "idle" /\ ~NoLaunch.relaunched /\ ~NoLaunch.calm
  BY DEF NoLaunch, LaunchFields
<1>2. \A i \in Launches : launches[i] = NoLaunch
  BY DEF Init
<1> HIDE DEF NoLaunch
<1>3. At(NoLaunch) = "idle" /\ Pending(NoLaunch) = {} /\ ~Started(NoLaunch)
  BY <1>1 DEF At, Pending, Started, Stages, LateStages
<1>4. Shape(NoLaunch)
  BY <1>1, <1>3 DEF Shape, Stages, LateStages
<1> QED
  BY <1>1, <1>2, <1>4, Uncalm DEF CalmInv

LEMMA CalmNext == ASSUME Inv, CalmInv, [Next]_vars PROVE CalmInv'
<1>1. ASSUME NEW i \in Launches, LaunchStep(i) PROVE CalmInv'
  BY <1>1, CalmStart, CalmResolve, CalmConfine, CalmGate, CalmName, CalmEnter, CalmRecordLaunch, CalmRun, CalmEnd,
     CalmRecord, CalmRecordFails, CalmRestart, CalmRelaunch DEF LaunchStep
<1> QED
  BY <1>1, CalmOthers DEF Next, Terminated

\* What a calm launch will be asked again is as it was when it was let through: nothing that its inner clown
\* or its relaunch reads has changed but by its own records (runWithFlags, asked again behind the [attach] wrap
\* and after a restart).
THEOREM CalmHolds == Spec => [](Inv /\ CalmInv)
<1>1. Init => Inv /\ CalmInv
  BY InitGood, CalmInit
<1>2. Inv /\ CalmInv /\ [Next]_vars => (Inv /\ CalmInv)'
  BY NextGood, CalmNext
<1> QED
  BY <1>1, <1>2, PTL DEF Spec

\* An inner clown is not refused what its outer was granted, nor a relaunch by the profile gate that the
\* restart asked, unless someone else changed what the gates read (checkLaunchProfile, agentScopeForLaunch).
THEOREM GatesStayAgreed == Spec => []GatesAgree
<1>1. Inv /\ CalmInv => GatesAgree
  BY DEF CalmInv, Quiet, Agrees, GatesAgree, Whole
<1> QED
  BY <1>1, CalmHolds, PTL
=============================================================================

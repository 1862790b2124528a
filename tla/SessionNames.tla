---------------------------- MODULE SessionNames ----------------------------
(***************************************************************************)
(* session-names.jsonl, the append-only journal of what each session was   *)
(* launched with, and the allocator of clown-names.                        *)
(*                                                                         *)
(* A line is what a reader can tell of it: whether it parses and to which  *)
(* record, and the session ids and keys a search of its text finds.  A     *)
(* record's fields are written in a fixed order, so a torn write shows a   *)
(* prefix of its keys.                                                     *)
(***************************************************************************)
EXTENDS Naturals, Sequences, FiniteSets

CONSTANTS None,         \* no value: an absent field, no session, no profile
          Unpinnable,   \* the digest of a profile nobody can vouch for
          Pool          \* the clown-names, in the order they are tried

VARIABLES sidecar,      \* the lines of the file
          midLine       \* the file does not end in a newline

-----------------------------------------------------------------------------

\* A reader's error, which is no record's word on anything.
Unreadable == [error |-> "unreadable"]

Blank(id) == [session |-> id, name |-> None, pin |-> None, source |-> None,
              scope |-> None, boundary |-> None, brief |-> None]

SaysNothing(rec) ==
    \/ rec.session = None
    \/ \A f \in {"name", "pin", "scope", "brief"} : rec[f] = None

Keys(rec) == {k \in {"profile", "scope"} :
                \/ k = "profile" /\ rec.pin # None
                \/ k = "scope" /\ rec.scope # None}

Written(rec) == [parses |-> TRUE, rec |-> rec, ids |-> {rec.session}, keys |-> Keys(rec)]

\* What a write that stopped after the given keys left of the record.
Torn(rec, keys) == [parses |-> FALSE, rec |-> None, ids |-> {rec.session}, keys |-> keys]

Cuts(rec) == {keys \in SUBSET Keys(rec) : "scope" \in keys /\ rec.pin # None => "profile" \in keys}

\* A record written right behind a line that has no newline: one line, which no longer parses.
Glued(l, k) == [parses |-> FALSE, rec |-> None, ids |-> l.ids \cup k.ids, keys |-> l.keys \cup k.keys]

\* The file after a write of line, which began with a newline when the writer saw the file end mid-line.
Appended(line, sawMidLine) ==
    IF midLine /\ ~sawMidLine
    THEN [sidecar EXCEPT ![Len(sidecar)] = Glued(@, line)]
    ELSE Append(sidecar, line)

-----------------------------------------------------------------------------
(* Readers.  Those that gate a launch fail closed on a line they cannot    *)
(* parse that could be the record they look for.                           *)

Hidden(f, key) == {i \in DOMAIN f : ~f[i].parses /\ key \in f[i].keys}

\* The lines with a record of id that says something of field.
Telling(f, id, field) == {n \in DOMAIN f : f[n].parses /\ f[n].rec.session = id /\ f[n].rec[field] # None}

Latest(N) == CHOOSE n \in N : \A m \in N : m <= n

\* The last word id's records say of field.
LastOf(f, id, field) ==
    IF Telling(f, id, field) = {} THEN None ELSE f[Latest(Telling(f, id, field))].rec[field]

ProfileOf(f, id) ==
    IF \E i \in Hidden(f, "profile") : id \in f[i].ids THEN Unreadable ELSE LastOf(f, id, "pin")

\* The last boundary recorded for id under spec; a record without one erases none.
BoundaryOf(f, id, spec) ==
    LET N == {n \in Telling(f, id, "boundary") : f[n].rec.scope = spec}
    IN  IF N = {} THEN None ELSE f[Latest(N)].rec.boundary

\* A line that does not parse may be id's confinement record.
Obscured(f, id) == \E n \in Hidden(f, "scope") : id \in f[n].ids

HasScope(f, id) == Telling(f, id, "scope") # {}

\* The spec and the boundary id is confined to, where it is.
AgentScopeRecordOf(f, id) ==
    LET spec == f[Latest(Telling(f, id, "scope"))].rec.scope
    IN  [spec |-> spec, boundary |-> BoundaryOf(f, id, spec)]

AnyAgentScope(f) ==
    \/ Hidden(f, "scope") # {}
    \/ \E i \in DOMAIN f : f[i].parses /\ f[i].rec.scope # None

NameOf(f, id) == LastOf(f, id, "name")

SpawnBriefDigestOf(f, id) == LastOf(f, id, "brief")

-----------------------------------------------------------------------------
(* Clown-names: the first of the pool no live session holds, else the      *)
(* lowest free generation of the pool's first.                             *)

FreeBases(live) == {i \in DOMAIN Pool : <<Pool[i], 1>> \notin live}

Allocate(live) ==
    IF FreeBases(live) # {}
    THEN <<Pool[CHOOSE i \in FreeBases(live) : \A j \in FreeBases(live) : i <= j], 1>>
    ELSE <<Pool[1], CHOOSE n \in 2 .. Cardinality(live) + 2 :
                      /\ <<Pool[1], n>> \notin live
                      /\ \A m \in 2 .. n - 1 : <<Pool[1], m>> \in live>>

=============================================================================

---------------------------- MODULE DataValidity ----------------------------
(***************************************************************************)
(* DataValidity of modes/types.go and the functions of modes/track.go that *)
(* work on it: who may overwrite a datum of an aircraft, how long a datum  *)
(* counts as fresh, and what a datum derived from two others inherits.     *)
(***************************************************************************)
EXTENDS Integers

CONSTANTS
    StaleAfter,   \* 60 s: from then on a less trusted source may overwrite
    ExpireAfter   \* 70 s: from then on the datum is invalid

\* DataSource, in order of increasing priority.
SourceInvalid == 0
SourceMLAT == 1
SourceModeS == 2
SourceModeSChecked == 3
SourceTISB == 4
SourceADSB == 5
DataSource == SourceInvalid .. SourceADSB

ASSUME ValidityAssumption ==
    /\ StaleAfter \in Nat \ {0}
    /\ ExpireAfter \in Nat \ {0}
    /\ StaleAfter <= ExpireAfter

Validity == [source : DataSource, updated : Nat, stale : Nat, expires : Nat]

\* The zero value, of a field that was never set.
NoData == [source |-> SourceInvalid, updated |-> 0, stale |-> 0, expires |-> 0]

\* acceptData: does it turn new data away, and what does it write otherwise?
Rejects(v, source, now) == source < v.source /\ now < v.stale

\* Mutant: the sign is wrong.
AcceptedFromPast(source, now) ==
    [source |-> source, updated |-> now,
     stale |-> now - StaleAfter, expires |-> now + ExpireAfter]

AcceptedFrom(source, now) ==
    [source |-> source, updated |-> now,
     stale |-> now + StaleAfter, expires |-> now + ExpireAfter]

Lesser(m, n) == IF m < n THEN m ELSE n
Greater(m, n) == IF m > n THEN m ELSE n

\* combineValidity: what it writes to its first argument.
CombineValidity(v, w) ==
    IF v.source = SourceInvalid THEN w
    ELSE IF w.source = SourceInvalid THEN v
    ELSE [source |-> Lesser(v.source, w.source),
          updated |-> Greater(v.updated, w.updated),
          stale |-> Lesser(v.stale, w.stale),
          expires |-> Lesser(v.expires, w.expires)]

\* Mutant: the later wins, whatever its source.
BetterByTime(v, w, now) == v.updated > w.updated

\* compareValidity(v, w, now) > 0
Better(v, w, now) ==
    \/ now < v.stale /\ v.source > w.source
    \/ /\ ~(now < w.stale /\ v.source < w.source)
       /\ v.updated > w.updated

Invalidated(v) == [v EXCEPT !.source = SourceInvalid]

ExpireField(v, now) ==
    IF v.source # SourceInvalid /\ now >= v.expires THEN Invalidated(v) ELSE v

DataValid(v) == v.source # SourceInvalid

\* dataAge(v, now) < limit
YoungerThan(v, now, limit) == DataValid(v) /\ (v.updated >= now \/ now - v.updated < limit)

=============================================================================

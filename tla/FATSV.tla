------------------------------- MODULE FATSV -------------------------------
(***************************************************************************)
(* The periodic FATSV output of modes/fatsv.go on top of the tracker.  The *)
(* periodic task of the server writes a round of lines after each sweep of *)
(* the tracker, in the same goroutine: it reads the clock, takes a copy of *)
(* every record, and marks in the tracker each record that it has written. *)
(* Handlers run between any two of these.  How a line looks is left out,   *)
(* but not which fields it has.                                            *)
(***************************************************************************)
EXTENDS Tracker

CONSTANTS
    FreshFor,   \* 15 s: how long after its update a datum may be written
    Age1, Age5, Age10, Age30   \* 1, 5, 10, 30 s: least times between lines

ASSUME FATSVAssumption ==
    /\ \A t \in {FreshFor, Age1, Age5, Age10, Age30} : t \in Nat \ {0}
    /\ Age1 <= Age5 /\ Age5 <= Age10 /\ Age10 <= Age30
    /\ MaxLag + 2 * Period < FreshFor /\ FreshFor + MaxLag <= Age30

VARIABLES
    emitted,   \* the FATSV part of each record
    stage,     \* where the periodic task is
    round,     \* the reading of the clock of this round of lines
    pending,   \* lines written whose records are not marked yet
    copies,    \* history: how often each datum was written
    shown,     \* history: the last value written of each field of change detection
    confirmed  \* history: when each record had its second message, Never if it has not

fatsvVars == <<emitted, stage, round, pending, copies, shown, confirmed>>
allVars == <<vars, fatsvVars>>

Ground == 1
Airborne == 2

\* Fields that are compared with what was last written.
Kept == Scalars \cap {"altitude", "altitudeGNSS", "heading", "headingMagnetic",
                      "speed", "speedIAS", "speedTAS", "airGround"}

\* Fields that a line may have.
Columns == Kept \cup ((Scalars \cap {"callsign", "squawk", "category"}) \cup {"position"})

\* The zero value of the time of the last line is long before the clock's first reading.
LongAgo == -Age30

NotEmitted == [last |-> LongAgo, value |-> [f \in Kept |-> 0]]

-----------------------------------------------------------------------------
(* formatAircraftFATSV: a is the copy of a record, e what was last written of it. *)

\* dataValidEx
Fresh15(a, f, now) ==
    /\ f \in Columns
    /\ DataValid(a.valid[f])
    /\ a.valid[f].source >= IF f \in {"altitude", "squawk"} THEN SourceModeS ELSE SourceModeSChecked
    /\ now < a.valid[f].updated + FreshFor

OnGround(a, now) == Fresh15(a, "airGround", now) /\ a.value["airGround"] = Ground

\* Mode S altitudes are not reliable on the ground.
Usable(a, f, now) ==
    /\ Fresh15(a, f, now)
    /\ f = "altitude" /\ OnGround(a, now) => a.valid[f].source >= SourceModeSChecked

Turn(m, n) == Lesser(Between(m, n), 360 - Between(m, n))

\* Has f changed by so much?
Changed(a, e, f) ==
    CASE f \in {"altitude", "altitudeGNSS"} -> Between(a.value[f], e.value[f]) >= 50
      [] f \in {"heading", "headingMagnetic"} -> Turn(a.value[f], e.value[f]) >= 2
      [] f \in {"speed", "speedIAS", "speedTAS"} -> Between(a.value[f], e.value[f]) >= 25
      [] OTHER -> FALSE

\* The aircraft has left or touched the ground.
Transition(a, e, now) ==
    /\ Fresh15(a, "airGround", now)
    /\ {a.value["airGround"], e.value["airGround"]} = {Ground, Airborne}

\* A field is below a limit, or perhaps below it for not being known.
Below(a, f, limit, now) == Usable(a, f, now) /\ a.value[f] < limit
NotAbove(a, f, limit, now) == Usable(a, f, now) => a.value[f] < limit

SlowOrLow(a, now) ==
    \/ OnGround(a, now)
    \/ Below(a, "altitude", 500, now) /\ NotAbove(a, "speed", 200, now)
    \/ Below(a, "speed", 100, now) /\ NotAbove(a, "altitude", 1000, now)

MinAge(a, e, now) ==
    LET changed == \E f \in Kept : Usable(a, f, now) /\ Changed(a, e, f)
    IN  CASE Transition(a, e, now) -> 0
          [] ~Transition(a, e, now) /\ ~Usable(a, "position", now) -> Age30
          [] ~Transition(a, e, now) /\ Usable(a, "position", now) ->
                IF SlowOrLow(a, now) THEN Age1
                ELSE IF NotAbove(a, "altitude", 10000, now)
                     THEN (IF changed THEN Age5 ELSE Age10)
                     ELSE (IF changed THEN Age10 ELSE Age30)

\* A blank callsign, an ordinary category and an unknown state are not worth a column.
Worth(a, f) ==
    CASE f = "callsign" -> a.value[f] # 0
      [] f = "category" -> a.value[f] \notin 160 .. 175
      [] f = "airGround" -> a.value[f] \in {Ground, Airborne}
      [] OTHER -> TRUE

\* Mutant: the limit itself is too early.
LineLater(a, e, now) ==
    IF now - e.last <= MinAge(a, e, now) THEN {}
    ELSE {f \in Columns : Usable(a, f, now) /\ a.valid[f].updated > e.last /\ Worth(a, f)}

\* The fields of the line, none if there is to be no line.
Line(a, e, now) ==
    IF now - e.last < MinAge(a, e, now) THEN {}
    ELSE {f \in Columns : Usable(a, f, now) /\ a.valid[f].updated > e.last /\ Worth(a, f)}

\* WriteFATSV, the test of one copy.
Written(a, e, now) ==
    IF a.messages < 2 \/ a.seen < e.last THEN {} ELSE Line(a, e, now)

\* The state to mark.
State(a, e, line, now) ==
    [last |-> now, value |-> [f \in Kept |-> IF f \in line THEN a.value[f] ELSE e.value[f]]]

\* Mutant: records are marked whether or not a line was written.
MarkedLinesAll(line) == DOMAIN line

\* The records to mark: those that have a line.
MarkedLines(line) == {x \in DOMAIN line : line[x] # {}}

-----------------------------------------------------------------------------
(* The tracker's steps: a record comes and goes with its FATSV part. *)

\* A datum of x is new when its validity or its time is.
Renewed(x, f) ==
    \/ x \notin DOMAIN aircraft
    \/ aircraft'[x].valid[f] # aircraft[x].valid[f]
    \/ aircraft'[x].born[f] # aircraft[x].born[f]

Follow ==
    /\ emitted' = [x \in DOMAIN aircraft' |->
                      IF x \in DOMAIN aircraft THEN emitted[x] ELSE NotEmitted]
    /\ copies' = [x \in DOMAIN aircraft' |-> [f \in Columns |->
                      IF Renewed(x, f) THEN 0 ELSE copies[x][f]]]
    /\ shown' = [x \in DOMAIN aircraft' |->
                    IF x \in DOMAIN aircraft THEN shown[x] ELSE NotEmitted.value]
    /\ confirmed' = [x \in DOMAIN aircraft' |->
                        IF x \in DOMAIN confirmed /\ confirmed[x] # Never THEN confirmed[x]
                        ELSE IF aircraft'[x].messages >= 2 THEN clock ELSE Never]

Handle ==
    /\ \/ \E h \in Handlers : TakeTime(h)
       \/ \E h \in Handlers, m \in Message : UpdateFromMessage(h, m)
       \/ \E h \in Handlers, r \in Reply : UpdateFromModeAC(h, r)
    /\ Follow
    /\ UNCHANGED <<stage, round, pending>>

\* The periodic task calls PeriodicUpdate, then WriteFATSV.
SweepStart == stage = "sweep" /\ SweepCall /\ UNCHANGED fatsvVars

SweepEnd ==
    /\ PeriodicUpdate
    /\ Follow
    /\ stage' = "read"
    /\ UNCHANGED <<round, pending>>

\* The first line of WriteFATSV.
ReadClock ==
    /\ stage = "read"
    /\ round' = clock
    /\ stage' = "copy"
    /\ UNCHANGED <<vars, emitted, pending, copies, shown, confirmed>>

\* GetAllAircraft, and the lines that the copies give.
Format ==
    LET line == [x \in DOMAIN aircraft |-> Written(aircraft[x], emitted[x], round)]
        lines == MarkedLines(line)
    IN  /\ stage = "copy"
        /\ pending' = [x \in lines |-> State(aircraft[x], emitted[x], line[x], round)]
        /\ copies' = [x \in DOMAIN aircraft |-> [f \in Columns |->
                         copies[x][f] + IF f \in line[x] THEN 1 ELSE 0]]
        /\ shown' = [x \in DOMAIN aircraft |-> [f \in Kept |->
                        IF f \in line[x] THEN aircraft[x].value[f] ELSE shown[x][f]]]
        /\ stage' = IF lines = {} THEN "sweep" ELSE "mark"
        /\ UNCHANGED <<vars, emitted, round, confirmed>>

\* Mutants: MarkFATSVEmitted instead, without the values; the values without the time.
MarkedTimeOnly(x) == [emitted EXCEPT ![x].last = pending[x].last]
MarkedValuesOnly(x) == [emitted EXCEPT ![x].value = pending[x].value]

\* MarkFATSVPeriodicEmitted
Marked(x) ==
    IF x \in DOMAIN aircraft THEN [emitted EXCEPT ![x] = pending[x]] ELSE emitted

Mark(x) ==
    /\ stage = "mark"
    /\ emitted' = Marked(x)
    /\ pending' = [y \in DOMAIN pending \ {x} |-> pending[y]]
    /\ stage' = IF DOMAIN pending = {x} THEN "sweep" ELSE "mark"
    /\ UNCHANGED <<vars, round, copies, shown, confirmed>>

\* The periodic task waits no longer for the lock than handlers do.
Pass ==
    /\ Tick
    /\ stage \in {"copy", "mark"} => clock < round + MaxLag
    /\ UNCHANGED fatsvVars

FATSVInit ==
    /\ Init
    /\ emitted = [x \in {} |-> NotEmitted]
    /\ stage = "sweep" /\ round = 0
    /\ pending = [x \in {} |-> NotEmitted]
    /\ copies = [x \in {} |-> [f \in Columns |-> 0]]
    /\ shown = [x \in {} |-> NotEmitted.value]
    /\ confirmed = [x \in {} |-> Never]

FATSVNext ==
    \/ Handle
    \/ SweepStart
    \/ SweepEnd
    \/ ReadClock
    \/ Format
    \/ \E x \in DOMAIN pending : Mark(x)
    \/ Pass

FATSVSpec == FATSVInit /\ [][FATSVNext]_allVars

-----------------------------------------------------------------------------
(* Properties. *)

\* Change detection compares with what was really written last, although the writer
\* works on copies and handlers replace the values in between.
DetectsChanges ==
    \A x \in DOMAIN aircraft \ DOMAIN pending : emitted[x].value = shown[x]

\* A datum that was not updated since is not written for ever.  A second time it is, when it
\* came between the writer's reading of the clock, which becomes the time of the line, and the
\* copy.
WrittenTwiceAtMost == \A x \in DOMAIN aircraft : \A f \in Columns : copies[x][f] <= 2

\* The two ways in which a value that a message brought and the decoder trusts may stay
\* unwritten until another replaces it.  (Left out are what is derived or combined and may
\* be dated back, Mode S altitudes, which are dropped on the ground, and what may not be
\* worth a column.)
Direct == Columns \ {"altitudeGNSS", "position", "callsign", "category", "airGround"}

\* Lines are for what was updated after the last one.
PassedOver(x, f) == copies[x][f] = 0 /\ aircraft[x].valid[f].updated <= emitted[x].last
Awaited(x, f) == copies[x][f] = 0 /\ aircraft[x].valid[f].updated > emitted[x].last

\* A fresh value is passed over only if it came while a round was written: it is dated no
\* earlier than MaxLag before the time of that round, be it that the round marks the record
\* after the value came, or that the handler stores it after the mark.
PassedOverOnlyInRound ==
    [][\A x \in DOMAIN aircraft', f \in Direct :
         LET v == aircraft'[x].valid[f]
         IN  /\ PassedOver(x, f)' /\ (Renewed(x, f) \/ ~PassedOver(x, f))
             /\ Fresh15(aircraft'[x], f, clock') /\ v.source >= SourceModeSChecked
             => v.updated >= emitted'[x].last - MaxLag]_allVars

\* An awaited value gets too old unwritten only if its record had no second message until
\* two periods ago, or a line less than the longest time between lines and two periods ago.
AgesOutBetweenLines ==
    [][\A x \in DOMAIN aircraft \cap DOMAIN aircraft', f \in Direct :
         /\ Awaited(x, f) /\ aircraft[x].valid[f].source >= SourceModeSChecked
         /\ Fresh15(aircraft[x], f, clock) /\ ~Renewed(x, f) /\ ~Fresh15(aircraft'[x], f, clock')
         => \/ confirmed[x] = Never \/ clock' <= confirmed[x] + 2 * Period
            \/ clock' < emitted[x].last + Age30 + 2 * Period]_allVars

=============================================================================

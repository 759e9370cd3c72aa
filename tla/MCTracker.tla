----------------------------- MODULE MCTracker -----------------------------
(***************************************************************************)
(* Small instances of the tracker.  A time unit stands for some 30 s: data *)
(* go stale after 2, expire after 3, an aircraft is forgotten after 4.     *)
(***************************************************************************)
EXTENDS Tracker, TLC

Symmetry == Permutations(Handlers)

NoValue == <<>>
OneValue(f, n) == [g \in {f} |-> n]

\* Reports of one aircraft that carry some scalar fields.
Report(addr, source, value) ==
    [addr |-> addr, addrType |-> 0, source |-> source, value |-> value,
     CPRValid |-> FALSE, CPROdd |-> FALSE, CPRType |-> "surface", slow |-> FALSE]

Frame(addr, source, odd, type) ==
    [addr |-> addr, addrType |-> 0, source |-> source, value |-> NoValue,
     CPRValid |-> TRUE, CPROdd |-> odd, CPRType |-> type, slow |-> FALSE]

AnswerA(squawk) == [addr |-> 100 + squawk, value |-> OneValue("squawk", squawk)]
AnswerC(squawk, altitude) ==
    [addr |-> 100 + squawk,
     value |-> [f \in {"squawk", "altitude"} |-> IF f = "squawk" THEN squawk ELSE altitude]]

\* The altitudes: barometric and GNSS reports and the difference between the two.
AltitudeReports == {
    Report(1, SourceADSB, OneValue("altitude", 1000)),
    Report(1, SourceTISB, OneValue("gnssDelta", 50)),
    Report(1, SourceADSB, OneValue("altitudeGNSS", 900))}

\* The frames of another: one trusted source and one less so.
FrameReports == {
    Frame(2, SourceADSB, FALSE, "airborne"), Frame(2, SourceADSB, TRUE, "airborne"),
    Frame(2, SourceMLAT, FALSE, "airborne")}

AltitudesAndFrames == AltitudeReports \cup FrameReports

Elapsed == [c \in CPRTypes \cup {"slow"} |-> IF c = "slow" THEN 2 ELSE 1]

\* Mode S aircraft and replies.
SquawkReports == {
    Report(1, SourceADSB, OneValue("squawk", 1)), Report(1, SourceADSB, OneValue("squawk", 2)),
    Report(1, SourceADSB, OneValue("altitude", 300))}
Replies == {AnswerA(1), AnswerC(2, 300)}

-----------------------------------------------------------------------------
(* What tells states apart: ages rather than times.  No limit is beyond AgeCap.  Of a *)
(* field that is not valid only the order of Updated matters, which                   *)
(* compareValidity asks for; of a message count, whether it is 0, 1 or more.          *)

AgeCap == TTL + MaxDataAge
Ago(t) == Lesser(clock - t, AgeCap)
Ahead(t) == Greater(t - clock, -1)
Few(n) == Lesser(n, 2)

Looks(a) == [a EXCEPT
    !.seen = Ago(@), !.messages = Few(@), !.modeACount = Few(@), !.modeCCount = Few(@),
    !.valid = [f \in Fields |->
        IF DataValid(@[f])
        THEN [@[f] EXCEPT !.updated = Ago(@), !.stale = Ahead(@), !.expires = Ahead(@)]
        ELSE NoData],
    !.born = [f \in Fields |-> IF DataValid(a.valid[f]) THEN Ago(@[f]) ELSE 0]]

AltitudeFields == {"altitude", "gnssDelta", "altitudeGNSS"}
Later(a) == {p \in AltitudeFields \X AltitudeFields :
                a.valid[p[1]].updated > a.valid[p[2]].updated}

Relative ==
    <<[x \in DOMAIN aircraft |-> <<Looks(aircraft[x]), Later(aircraft[x])>>],
      [h \in Handlers |-> IF reading[h] = Never THEN Never ELSE clock - reading[h]],
      IF sweep = Never THEN Never ELSE clock - sweep,
      clock - swept>>

\* Records are independent, and explored one at a time.
OneAircraft == Cardinality(DOMAIN aircraft) <= 1

=============================================================================

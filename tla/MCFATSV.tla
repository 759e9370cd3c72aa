------------------------------ MODULE MCFATSV ------------------------------
(***************************************************************************)
(* One aircraft that reports its position and altitude, and that it is on  *)
(* the ground or in the air.  A time unit stands for some 5 s.             *)
(***************************************************************************)
EXTENDS FATSV, TLC

Report(values, cpr, type) ==
    [addr |-> 1, addrType |-> 0, source |-> SourceADSB, value |-> values,
     CPRValid |-> cpr, CPROdd |-> FALSE, CPRType |-> type, slow |-> FALSE]

PositionReport(altitude) ==
    Report(("altitude" :> altitude) @@ ("airGround" :> Airborne), TRUE, "airborne")

Reports == {PositionReport(20000), PositionReport(300), Report("airGround" :> Ground, FALSE, "surface")}

Elapsed == [c \in CPRTypes \cup {"slow"} |-> 1]

\* What tells states apart, as in MCTracker: no record is silent, no datum is valid and no
\* line is of interest for longer than AgeCap.
AgeCap == Age30 + 2 * Period + MaxLag
Ago(t) == Lesser(clock - t, AgeCap)
Ahead(t) == Greater(t - clock, -1)

Looks(a) ==
    <<Ago(a.seen), Lesser(a.messages, 2), a.flags,
      [f \in Fields |-> IF DataValid(a.valid[f])
                        THEN <<a.valid[f].source, Ago(a.valid[f].updated),
                               Ahead(a.valid[f].stale), Ahead(a.valid[f].expires),
                               Ago(a.born[f])>>
                        ELSE <<>>],
      [f \in {g \in Scalars : DataValid(a.valid[g])} |-> a.value[f]]>>

\* The first component is always TRUE: comparing the functions makes TLC
\* evaluate them before it stores the state.
Relative ==
    <<aircraft = aircraft, [x \in DOMAIN aircraft |->
          <<Looks(aircraft[x]), Ago(emitted[x].last), emitted[x].value, copies[x], shown[x],
            IF confirmed[x] = Never THEN Never ELSE Lesser(clock - confirmed[x], 2 * Period)>>],
      [h \in Handlers |-> IF reading[h] = Never THEN Never ELSE clock - reading[h]],
      IF sweep = Never THEN Never ELSE clock - sweep,
      clock - swept,
      stage, IF stage = "sweep" THEN 0 ELSE Ago(round),
      [x \in DOMAIN pending |-> <<Ago(pending[x].last), pending[x].value>>]>>

=============================================================================

------------------------------- MODULE Codecs -------------------------------
(***************************************************************************)
(* Three signals whose decoding depends on what came before: an aircraft   *)
(* that moves between its position frames, a frame in which one bit after  *)
(* another is inverted on its way, and a transponder that climbs.          *)
(***************************************************************************)
EXTENDS CPR, CRC, ModeAC

CONSTANTS
    Starts,    \* positions at which an aircraft is seen first
    Moves,     \* how it may move within the time a pair of frames may span, on the ground or not
    MaxMoves,  \* bound on its moves
    Receivers, \* reference positions
    Exposed,   \* the bits that may be inverted in a frame of each length
    MaxErrors  \* bound on how many are

Positions == {p \in [lat : Int, lon : Int] : Magnitude(p.lat) <= Quarter /\ 2 * Magnitude(p.lon) <= Turn}

\* Frames are paired within so few seconds that an aircraft goes less than half the difference of
\* an even and an odd zone: 3 nautical miles in the air, .75 on the ground, less what rounding may
\* take of either frame.  Zones of longitude are as narrow as this at the equator.
Pairable(d, surface) ==
    LET even == Step(FALSE, surface)
        odd == Step(TRUE, surface)
        quarters == IF surface THEN 4 ELSE 1
    IN /\ 2 * Magnitude(d.lat) + even + odd < (odd - even) * Bins
       /\ 2 * Magnitude(d.lon) * quarters * 59 * 58 * Bins + (59 + 58) * Turn < Turn * Bins

ASSUME CodecsAssumption ==
    /\ Starts \cup Receivers \subseteq Positions
    /\ \A surface \in BOOLEAN :
          /\ Moves[surface] \subseteq [lat : Int, lon : Int]
          /\ \A d \in Moves[surface] \cup {[lat |-> 0, lon |-> 0]} : Pairable(d, surface)
    /\ \A bits \in Lengths : Exposed[bits] \subseteq 5 .. bits - 1

VARIABLE signal

Flights ==
    [kind : {"flight"}, surface : BOOLEAN, at : Starts, moves : {0},
     sent : {<<>>}, fflag : {FALSE}]

Frames == [kind : {"frame"}, bits : Lengths, fixBits : 0 .. 2, error : {{}}]

Climbs == {[kind |-> "climb", code |-> c] : c \in {x \in SUBSET Pulses : ModeAToModeC(x) = -12}}

Init == signal \in Flights \cup Frames \cup Climbs

\* Where an aircraft is after a move; it does not fly over a pole.
Moved(p, d) ==
    LET lon == p.lon + d.lon IN
    [lat |-> p.lat + d.lat,
     lon |-> IF 2 * lon > Turn THEN lon - Turn ELSE IF 2 * lon < -Turn THEN lon + Turn ELSE lon]

\* Frames are paired only while a pair may be used: at most one move apart.
Move ==
    /\ signal.kind = "flight" /\ signal.moves < MaxMoves
    /\ \E d \in Moves[signal.surface] :
         /\ Magnitude(signal.at.lat + d.lat) <= Quarter
         /\ signal' = [signal EXCEPT !.at = Moved(@, d), !.moves = @ + 1,
                          !.sent = [f \in {g \in DOMAIN @ : @[g].age = 0} |-> [@[f] EXCEPT !.age = 1]]]

Send ==
    /\ signal.kind = "flight"
    /\ \E f \in BOOLEAN :
         signal' = [signal EXCEPT !.fflag = f,
             !.sent = [g \in DOMAIN @ \cup {f} |-> IF g = f THEN [from |-> signal.at, age |-> 0] ELSE @[g]]]

Invert ==
    /\ signal.kind = "frame" /\ Cardinality(signal.error) < MaxErrors
    /\ \E i \in Exposed[signal.bits] \ signal.error :
         signal' = [signal EXCEPT !.error = @ \cup {i}]

\* The one pulse that appears or disappears with the next hundred feet.
Climbing(code) == {p \in Pulses : ModeAToModeC(Xor(code, {p})) = ModeAToModeC(code) + 1}

Highest == 1267

Climb ==
    /\ signal.kind = "climb" /\ ModeAToModeC(signal.code) < Highest
    /\ \E p \in Climbing(signal.code) : signal' = [signal EXCEPT !.code = Xor(@, {p})]

Next == Move \/ Send \/ Invert \/ Climb

Spec == Init /\ [][Next]_signal

-----------------------------------------------------------------------------
(* Properties. *)

Frame(f) == Encoded(signal.sent[f].from, f, signal.surface)
Sent(f) == Expressible(signal.sent[f].from, f, signal.surface)

\* Both frames that a global position needs.
Paired == signal.kind = "flight" /\ DOMAIN signal.sent = BOOLEAN

\* A result is the position of the newer frame, to the step, or the two frames were sent on
\* either side of a latitude where the number of zones changes.
Right(r) ==
    \/ r.err = 0 /\ r.lat = Sent(signal.fflag).lat /\ r.lon = Sent(signal.fflag).lon
    \/ r.err = -1 /\ cprNLFunction(Sent(TRUE).lat) # cprNLFunction(Sent(FALSE).lat)

\* The distance of two longitudes.
Apart(a, b) == LET d == Magnitude(a - b) IN IF 2 * d > Turn THEN Turn - d ELSE d

\* Global decoding finds the position of an aircraft that moved between its frames, anywhere: at
\* poles, at the antimeridian, and where zones change; on the ground with any reference less
\* than 45 degrees away, by half a step of longitude at least.
GlobalInverts ==
    Paired =>
        IF signal.surface
        THEN \A ref \in Receivers :
                /\ \A f \in BOOLEAN : 2 * Magnitude(Sent(f).lat - ref.lat) < Quarter
                /\ LET steps == cprNFunction(Sent(signal.fflag).lat, signal.fflag) * Bins
                   IN 8 * Apart(signal.sent[signal.fflag].from.lon, ref.lon) * steps < Turn * (steps - 1)
                => Right(DecodeCPRSurface(ref, Frame(FALSE), Frame(TRUE), signal.fflag))
        ELSE Right(DecodeCPRAirborne(Frame(FALSE), Frame(TRUE), signal.fflag))

\* The reference is less than half a zone away, with a step to spare.
Within(p, ref, f) ==
    LET step == Step(f, signal.surface)
        zones == ZonesAround(Sent(f).lat, f, signal.surface)
    IN /\ 2 * Magnitude(p.lat - ref.lat) < step * (Bins - 2)
       /\ 2 * Apart(p.lon, ref.lon) * zones * Bins < Turn * (Bins - 2)

\* Local decoding finds the position from one frame and a reference less than half a zone away,
\* unless the antimeridian lies between them: then it may fail, and a longitude may be one below
\* -180 degrees.
LocalInverts ==
    signal.kind = "flight" =>
        \A f \in DOMAIN signal.sent, ref \in Receivers :
            LET p == signal.sent[f].from
                r == DecodeCPRRelative(ref, Frame(f), f, signal.surface)
                zones == ZonesAround(Sent(f).lat, f, signal.surface)
                sameSide == 2 * Magnitude(p.lon - ref.lon) < Turn
            IN Within(p, ref, f) =>
                 \/ /\ r.err = 0 /\ r.lat = Sent(f).lat /\ Renormalized(r.lon, zones) = Sent(f).lon
                    /\ sameSide => 2 * Magnitude(r.lon) <= zones * Bins
                 \/ r.err = -1 /\ ~sameSide

\* What is repaired is repaired rightly: a squitter with up to four wrong bits is restored or
\* rejected, and the address of an all-call reply with up to two, which has less parity to check.
NeverMisrepaired ==
    signal.kind = "frame" =>
        LET left == AfterRepair(signal.error, signal.bits, signal.fixBits) IN
        IF signal.bits = LongBits
        THEN Cardinality(signal.error) <= 4 => left \in {{}, Nil}
        ELSE Cardinality(signal.error) <= 2 => left \cap AddressBits = {}

\* From the lowest code to the highest, a single pulse changes with each hundred feet, and the
\* three decoders of such codes agree on the altitude.
HundredsClimb ==
    signal.kind = "climb" =>
        LET altitude == 100 * ModeAToModeC(signal.code) IN
        /\ ModeAToModeC(signal.code) < Highest => Cardinality(Climbing(signal.code)) = 1
        /\ DecodeAC13Field(signal.code) = altitude
        /\ decodeAC12Field(signal.code) = altitude
        /\ DecodeModeAMessage(signal.code).altitude = altitude

=============================================================================

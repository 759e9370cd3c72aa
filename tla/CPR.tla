-------------------------------- MODULE CPR --------------------------------
(***************************************************************************)
(* Compact position reporting, cpr.go, in integers.  A latitude is a       *)
(* number of units of which 59 make the step between the surface positions *)
(* that an even frame can express, and 60 that of an odd frame; airborne   *)
(* steps are four times as long.  A decoded longitude is a number of steps *)
(* from the zero meridian, any other a number of 1/Turn of the circle.     *)
(***************************************************************************)
EXTENDS Integers, FiniteSets

CONSTANTS
    Bins,  \* the values of a coordinate: cprMaxValue, 2^17 in the program
    Turn   \* the units of longitude in a circle

ASSUME CPRAssumption == Bins \in Nat \ {0} /\ Turn \in Nat \ {0} /\ Bins % 4 = 0 /\ Turn % 4 = 0

\* 90 degrees of latitude.
Quarter == 59 * 60 * Bins

\* The latitudes from which a parallel has one zone less, in thousandths of a degree.
Transitions ==
    <<10470, 14828, 18186, 21029, 23545, 25829, 27939, 29911, 31772, 33540, 35229, 36850,
      38412, 39923, 41387, 42809, 44195, 45546, 46867, 48160, 49428, 50672, 51893, 53095,
      54278, 55444, 56593, 57727, 58848, 59955, 61049, 62132, 63204, 64266, 65318, 66362,
      67396, 68423, 69442, 70455, 71460, 72459, 73452, 74439, 75421, 76397, 77368, 78334,
      79294, 80249, 81198, 82140, 83072, 83992, 84892, 85755, 86535, 87000>>

Magnitude(x) == IF x < 0 THEN -x ELSE x

cprNLFunction(lat) ==
    59 - Cardinality({i \in 1 .. 58 : Magnitude(lat) * 1500 >= Transitions[i] * 59 * Bins})

cprNFunction(lat, fflag) ==
    LET nl == cprNLFunction(lat) - (IF fflag THEN 1 ELSE 0) IN IF nl < 1 THEN 1 ELSE nl

\* The zones around a parallel; those of surface positions cover a quarter of it, cprDlonFunction.
ZonesAround(lat, fflag, surface) == cprNFunction(lat, fflag) * (IF surface THEN 4 ELSE 1)

\* The step of latitude: airDlat0 or airDlat1.
Step(fflag, surface) == (IF fflag THEN 60 ELSE 59) * (IF surface THEN 1 ELSE 4)

\* The integer nearest to a / b: math.Floor(a / b + 0.5).
Rounded(a, b) == (2 * a + b) \div (2 * b)

\* To -180 .. +180 degrees.
Renormalized(lon, zones) == lon - Rounded(lon, zones * Bins) * zones * Bins

Success(lat, lon) == [err |-> 0, lat |-> lat, lon |-> lon]
Failure(err) == [err |-> err, lat |-> 0, lon |-> 0]

\* The latitude index j.
Index(even, odd) == Rounded(59 * even.lat - 60 * odd.lat, Bins)

\* Where the index puts the latitude of a frame, from the equator northwards.
Indexed(frame, j, fflag, surface) ==
    Step(fflag, surface) * ((j % (IF fflag THEN 59 ELSE 60)) * Bins + frame.lat)

\* rlat0 and rlat1 of an airborne position.
AirborneLat(lat) == IF lat >= 3 * Quarter THEN lat - 4 * Quarter ELSE lat

\* rlat0 and rlat1 of a surface position, in the quadrant nearest to the reference.
SurfaceLat(lat, reflat) ==
    CASE lat = 0 /\ 2 * reflat < -Quarter -> -Quarter
      [] lat = 0 /\ 2 * reflat > Quarter -> Quarter
      [] lat # 0 /\ 2 * (lat - reflat) > Quarter -> lat - Quarter
      [] OTHER -> lat

\* Mutant: the even frame gives the longitude even if the odd one is newer.
LongitudeNot(even, odd, lat, fflag) ==
    LET nl == cprNLFunction(lat)
        m == Rounded(even.lon * (nl - 1) - odd.lon * nl, Bins)
    IN (m % cprNFunction(lat, fflag)) * Bins + even.lon

\* rlon, from the longitude index m, eastwards from the zero meridian.
Longitude(even, odd, lat, fflag) ==
    LET nl == cprNLFunction(lat)
        m == Rounded(even.lon * (nl - 1) - odd.lon * nl, Bins)
    IN (m % cprNFunction(lat, fflag)) * Bins + (IF fflag THEN odd.lon ELSE even.lon)

\* rlon of a surface position, in the quadrant nearest to the reference.
SurfaceLon(lon, reflon, n) == lon + Rounded(4 * reflon * n * Bins - Turn * lon, Turn * n * Bins) * n * Bins

\* What the latitudes of both frames say about decoding.
Verdict(rlat0, rlat1) ==
    CASE Magnitude(rlat0) > Quarter \/ Magnitude(rlat1) > Quarter -> -2
      [] cprNLFunction(rlat0) # cprNLFunction(rlat1) -> -1
      [] OTHER -> 0

DecodeCPRAirborne(even, odd, fflag) ==
    LET j == Index(even, odd)
        rlat0 == AirborneLat(Indexed(even, j, FALSE, FALSE))
        rlat1 == AirborneLat(Indexed(odd, j, TRUE, FALSE))
        rlat == IF fflag THEN rlat1 ELSE rlat0
        rlon == Longitude(even, odd, rlat, fflag)
    IN IF Verdict(rlat0, rlat1) # 0 THEN Failure(Verdict(rlat0, rlat1))
       ELSE Success(rlat, Renormalized(rlon, ZonesAround(rlat, fflag, FALSE)))

DecodeCPRSurface(ref, even, odd, fflag) ==
    LET j == Index(even, odd)
        rlat0 == SurfaceLat(Indexed(even, j, FALSE, TRUE), ref.lat)
        rlat1 == SurfaceLat(Indexed(odd, j, TRUE, TRUE), ref.lat)
        rlat == IF fflag THEN rlat1 ELSE rlat0
        rlon == SurfaceLon(Longitude(even, odd, rlat, fflag), ref.lon, cprNFunction(rlat, fflag))
    IN IF Verdict(rlat0, rlat1) # 0 THEN Failure(Verdict(rlat0, rlat1))
       ELSE Success(rlat, Renormalized(rlon, ZonesAround(rlat, fflag, TRUE)))

\* Mutant: the zone of the reference instead of the one that brings the position nearest.
ZoneNot(a, b, fraction) == a \div b

\* The index of the zone which brings the position nearest to the reference a / b.
Zone(a, b, fraction) == a \div b + Rounded((a % b) * Bins - fraction * b, b * Bins)

DecodeCPRRelative(ref, frame, fflag, surface) ==
    LET step == Step(fflag, surface)
        j == Zone(ref.lat, step * Bins, frame.lat)
        rlat == AirborneLat(step * (j * Bins + frame.lat))
        zones == ZonesAround(rlat, fflag, surface)
        east == Zone(ref.lon * zones, Turn, frame.lon) * Bins + frame.lon
        rlon == IF 2 * east > zones * Bins THEN east - zones * Bins ELSE east
        far == \/ 2 * Magnitude(rlat - ref.lat) > step * Bins
               \/ 2 * Magnitude(rlon * Turn - ref.lon * zones * Bins) > Turn * Bins
    IN IF Magnitude(rlat) > Quarter \/ far THEN Failure(-1) ELSE Success(rlat, rlon)

-----------------------------------------------------------------------------
(* The transponder, which is no part of the program. *)

\* The nearest position that a frame can express.
Expressible(p, fflag, surface) ==
    LET lat == Rounded(p.lat, Step(fflag, surface)) * Step(fflag, surface)
        zones == ZonesAround(lat, fflag, surface)
    IN [lat |-> lat, lon |-> Renormalized(Rounded(p.lon * zones * Bins, Turn), zones)]

Encoded(p, fflag, surface) ==
    LET at == Expressible(p, fflag, surface)
    IN [lat |-> (at.lat \div Step(fflag, surface)) % Bins, lon |-> at.lon % Bins]

=============================================================================

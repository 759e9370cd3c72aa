------------------------------ MODULE MCCodecs ------------------------------
(* Aircraft near the equator, the poles, the antimeridian, the borders of zones and the first *)
(* and the last latitude at which their number changes; with frames of 256 values to a        *)
(* coordinate, rounding leaves it a move of 1.5 nautical miles.  The bits of a squitter that  *)
(* may be inverted include six of which any two and the other four have the same syndrome.    *)
EXTENDS Codecs

Lats == {0, 105420, 60416, -61440, 876032, 906100, -906100, -453120}
Lons == {0, 7199, -7200, 3601, -1800}

MCStarts == [lat : Lats, lon : Lons]
MCMoves ==
    [s \in BOOLEAN |-> IF s THEN [lat : {-60, 60}, lon : {0}]
                       ELSE {[lat |-> 250, lon |-> 1], [lat |-> -250, lon |-> -1], [lat |-> 0, lon |-> 1]}]
MCReceivers == [lat : {150, 104000, -58000, 880000, -906000, -455000}, lon : {-30, 7170, -7170, 3590}]
MCExposed == [b \in Lengths |-> IF b = LongBits THEN {5, 6, 10, 12, 20, 41, 91, 111}
                                ELSE {5, 20, 28, 29, 41, 44, 50, 55}]
=============================================================================

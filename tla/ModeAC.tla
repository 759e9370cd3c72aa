------------------------------- MODULE ModeAC -------------------------------
(***************************************************************************)
(* Altitude codes, mode_ac.go and decodeAC12Field of decoder.go.  A reply  *)
(* is the set of its pulses; the fields of Mode S hold the same pulses in  *)
(* another order, and the bits M and Q, the latter in the place of D1.     *)
(***************************************************************************)
EXTENDS Integers, FiniteSets, SequencesExt

Pulses == {"A1", "A2", "A4", "B1", "B2", "B4", "C1", "C2", "C4", "D1", "D2", "D4", "SPI"}

INVALID_ALTITUDE == -9999

\* Gray code: each of the pulses inverts its bit and all lower ones.
Inverting == <<"D2", "D4", "A1", "A2", "A4", "B1", "B2", "B4">>

Odd(set) == Cardinality(set) % 2 = 1

fiveHundreds(code) ==
    LET bit(k) == IF Odd({j \in 1 .. k : Inverting[j] \in code}) THEN 2 ^ (8 - k) ELSE 0
    IN FoldLeft(LAMBDA n, k : n + bit(k), 0, [k \in 1 .. 8 |-> k])

\* C1, C2 and C4 invert 7, 3 and 1; then 7 becomes 5, and 5 becomes 7.
oneHundreds(code) ==
    LET four == "C1" \in code
        two == Odd(code \cap {"C1", "C2"})
        one == Odd(code \cap {"C1", "C2", "C4"})
    IN (IF four THEN 4 ELSE 0) + (IF two # (four /\ one) THEN 2 ELSE 0) + (IF one THEN 1 ELSE 0)

\* Mutant: the hundreds run upwards in every five hundred.
HundredsNot(code) == oneHundreds(code)

\* In every second five hundred they run downwards.
Hundreds(code) ==
    IF fiveHundreds(code) % 2 = 1 THEN 6 - oneHundreds(code) ELSE oneHundreds(code)

\* In hundreds of feet.
ModeAToModeC(code) ==
    IF "D1" \in code \/ "SPI" \in code \/ code \cap {"C1", "C2", "C4"} = {} \/ oneHundreds(code) > 5
    THEN INVALID_ALTITUDE
    ELSE fiveHundreds(code) * 5 + Hundreds(code) - 13

\* The order of the pulses in the fields, highest bit first.
AC13 == <<"C1", "A1", "C2", "A2", "C4", "A4", "M", "B1", "Q", "B2", "D2", "B4", "D4">>

DecodeID13Field(field) == (field \ {"M", "Q"}) \cup (IF "Q" \in field THEN {"D1"} ELSE {})

\* The number that is left without M and Q.
Without(field) ==
    LET order == SelectSeq(AC13, LAMBDA p : p \notin {"M", "Q"})
    IN FoldLeft(LAMBDA n, p : 2 * n + (IF p \in field THEN 1 ELSE 0), 0, order)

\* In feet; an altitude in metres is not decoded.
DecodeAC13Field(field) ==
    CASE "M" \in field -> INVALID_ALTITUDE
      [] "M" \notin field /\ "Q" \in field -> Without(field) * 25 - 1000
      [] OTHER -> LET n == ModeAToModeC(DecodeID13Field(field))
                  IN IF n < -12 THEN INVALID_ALTITUDE ELSE 100 * n

\* The field of a squitter has no M.
decodeAC12Field(field) == DecodeAC13Field(field \ {"M"})

\* DecodeModeAMessage: the squawk, and the altitude unless the pilot identifies.
DecodeModeAMessage(code) ==
    [addr |-> code \ {"SPI"}, squawk |-> code \ {"SPI"}, spi |-> "SPI" \in code,
     altitude |-> IF ModeAToModeC(code) = INVALID_ALTITUDE THEN INVALID_ALTITUDE
                  ELSE 100 * ModeAToModeC(code)]

=============================================================================

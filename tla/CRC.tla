-------------------------------- MODULE CRC --------------------------------
(***************************************************************************)
(* The parity of Mode S frames, crc.go, and what decoder.go repairs with   *)
(* it.  A syndrome is the set of its bits that are set, 0 the lowest, and  *)
(* an error the set of the bits of a frame that are wrong, 0 the first;    *)
(* the parity is linear, so that the error alone decides the syndrome.     *)
(***************************************************************************)
EXTENDS Integers, FiniteSets, SequencesExt

\* MODES_GENERATOR_POLY, 0xfff409.
Generator == {0, 3, 10} \cup 12 .. 23

LongBits == 112
ShortBits == 56
Lengths == {ShortBits, LongBits}

\* Exclusive or.
Xor(a, b) == (a \ b) \cup (b \ a)

\* One step of the remainder by the polynomial.
Shifted(s) == LET up == {b + 1 : b \in s} IN IF 24 \in up THEN Xor(up \ {24}, Generator) ELSE up

\* initLookupTables: the syndrome of each bit of a long frame, the first at 1.
singleBitSyndrome ==
    LET of[i \in 1 .. LongBits] == IF i = LongBits THEN {0} ELSE Shifted(of[i + 1])
    IN [i \in 1 .. LongBits |-> of[i]]

\* The bits of a frame the tables know, all but the format, and their syndromes.
Bit(bits) == 5 .. bits - 1
Syndrome(i, bits) == singleBitSyndrome[i + 1 + LongBits - bits]

\* ModesChecksum of a frame with this error.
Checksum(error, bits) == FoldSet(Xor, {}, {Syndrome(i, bits) : i \in error})

\* The bit with a syndrome: no two bits of a frame share one.
BitOf ==
    LET all == [b \in Lengths |-> {Syndrome(i, b) : i \in Bit(b)}]
    IN [b \in Lengths |-> [s \in all[b] |-> CHOOSE i \in Bit(b) : Syndrome(i, b) = s]]

\* The syndromes of the errors of two bits.
OfTwo == [b \in Lengths |-> {Xor(Syndrome(x[1], b), Syndrome(x[2], b)) :
                               x \in {y \in Bit(b) \X Bit(b) : y[1] < y[2]}}]

\* prepareSubtable: the errors of one bit, and of two, that have this syndrome.
Single(s, bits) == {{BitOf[bits][x]} : x \in {s} \cap DOMAIN BitOf[bits]}

Double(s, bits) ==
    IF s \notin OfTwo[bits] THEN {}
    ELSE {{i, BitOf[bits][Xor(s, Syndrome(i, bits))]} :
            i \in {j \in Bit(bits) : Xor(s, Syndrome(j, bits)) \in DOMAIN BitOf[bits]}}

\* Mutant: collisions with errors of more bits are not looked for.
flagCollisionsNot(s, bits) == FALSE

\* flagCollisions: an error of three or four bits, which are two and one or two others, has the
\* same syndrome.
flagCollisions(s, bits) ==
    \E i \in Bit(bits) : \E j \in i + 1 .. bits - 1 :
        LET rest == Xor(s, Xor(Syndrome(i, bits), Syndrome(j, bits)))
        IN \E e \in Single(rest, bits) \cup Double(rest, bits) : e \cap {i, j} = {}

\* No correction.
Nil == {-1}

\* prepareErrorTable, by the number of bits to repair: the errors left for a syndrome when those
\* that share it, and those that collide, are removed.
Repairs(s, bits, fixBits) ==
    LET known == {e \in Single(s, bits) \cup Double(s, bits) : Cardinality(e) <= fixBits} IN
    IF Cardinality(known) # 1 \/ (fixBits = 2 /\ flagCollisions(s, bits)) THEN {} ELSE known

\* ModesChecksumDiagnose after ModesChecksumInit(fixBits): the error to repair.
Diagnose(s, bits, fixBits) ==
    IF s = {} THEN {}
    ELSE IF Repairs(s, bits, fixBits) = {} THEN Nil
    ELSE CHOOSE e \in Repairs(s, bits, fixBits) : TRUE

\* A frame of DF11 keeps the interrogator in the low seven bits of its parity, and is not
\* repaired in two bits.
AllCallSyndrome(s) == s \ (0 .. 6)

\* DecodeModesMessageWithFilter: the error that is left in a squitter or an all-call reply, or Nil.
AfterRepair(error, bits, fixBits) ==
    LET s == Checksum(error, bits)
        repair == Diagnose(IF bits = LongBits THEN s ELSE AllCallSyndrome(s), bits, fixBits)
    IN IF repair = Nil \/ (bits = ShortBits /\ Cardinality(repair) > 1) THEN Nil
       ELSE Xor(error, repair)

\* The bits of the address.
AddressBits == 8 .. 31

=============================================================================

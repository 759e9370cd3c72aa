------------------------------- MODULE Decoder -------------------------------
(***************************************************************************)
(* How a received frame is trusted: scoreModesMessage of                   *)
(* src/modes/demod.go, which picks the best of five readings of the same   *)
(* samples, and DecodeModesMessageWithFilter of src/modes/decoder.go, which *)
(* then decodes the one picked, both against the addresses known so far.   *)
(*                                                                         *)
(* A frame keeps what trust depends on:                                    *)
(*   df      its class: "AP", a reply whose parity holds the address;      *)
(*           "CommB", likewise; "AllCall" (DF11); "Squitter" (DF17, DF18)  *)
(*   addr    the address as received                                       *)
(*   errors  the number of bits the parity says are wrong, 0 .. 2, or Bad  *)
(*   fixed   the address after those bits are flipped                      *)
(*   scored  the address as correctAAField flips it, which counts the bits *)
(*           of the address from the start of the message, so that it may  *)
(*           be neither                                                    *)
(*   iid     whether an all-call reply answers an interrogator             *)
(*   other   whether a squitter's address is not an ICAO address           *)
(* A message that is all zeros, which both reject, is no frame here.       *)
(***************************************************************************)
EXTENDS Integers, FiniteSets

CONSTANTS
    Addr,   \* the 24-bit addresses
    Zero    \* the address 0, which marks an empty slot of the filter

ASSUME DecoderAssumption == Zero \in Addr

\* More errors than the tables repair.
Bad == 3

\* An address as the tracker and the filter see it: MODES_NON_ICAO_ADDRESS
\* is a bit of its own.
Address == [addr : Addr, other : BOOLEAN]

ICAO(a) == [addr |-> a, other |-> FALSE]

(***************************************************************************)
(* decodeExtendedSquitter: what DF18's control field and the IMF bit say   *)
(* about the address.                                                      *)
(***************************************************************************)
NonICAO(cf, imf) ==
    \/ cf \in {1, 4, 5, 7}
    \/ cf \in {2, 3, 6} /\ imf

Others == {o \in BOOLEAN : \E cf \in 0 .. 7, imf \in BOOLEAN : o = NonICAO(cf, imf)}

Replies == [df : {"AP", "CommB"}, addr : Addr]

\* Announcements of an address: what is wrong with them, and how they would be
\* repaired, is arbitrary, but that the score knows the address of two errors.
Announced ==
    {f \in [df : {"AllCall", "Squitter"}, addr : Addr, errors : 0 .. Bad,
            fixed : Addr, scored : Addr, iid : BOOLEAN, other : Others] :
        /\ f.errors \in {0, Bad} => f.fixed = f.addr /\ f.scored = f.addr
        /\ f.errors = 2 => f.scored = f.fixed
        /\ f.df = "AllCall" => ~f.other
        /\ f.df = "Squitter" => ~f.iid}

Frame == Replies \cup Announced

\* A squitter received without an error.
CleanSquitters == {f \in Announced : f.df = "Squitter" /\ f.errors = 0}

\* What decoding returns instead of an address: a frame nobody can check, and
\* one that is bad or beyond repair.
Unknown == -1
Rejected == -2

(***************************************************************************)
(* ICAOFilter.Test.  The probe for 0 is answered by the first empty slot,  *)
(* and one of the two tables has one unless both are full.                 *)
(***************************************************************************)
Test(a, known) == ICAO(a) \in known \/ a = Zero

(***************************************************************************)
(* scoreModesMessage: a higher score is more to be trusted.                *)
(***************************************************************************)
\* Mutant: the number of repaired bits does not count.
PerErrorNot(score, f) == score

PerError(score, f) == score \div (f.errors + 1)

Score(f, known) ==
    CASE f.df = "AP" -> IF Test(f.addr, known) THEN 1000 ELSE Unknown
      [] f.df = "CommB" -> IF Test(f.addr, known) THEN 1000 ELSE Rejected
      [] f.df = "AllCall" /\ f.errors > 1 -> Rejected
      [] f.df = "AllCall" /\ f.errors <= 1 ->
           IF Test(f.scored, known)
           THEN PerError(IF f.iid THEN 1000 ELSE 1600, f)
           ELSE IF f.iid THEN Unknown ELSE PerError(750, f)
      [] f.df = "Squitter" /\ f.errors = Bad -> Rejected
      [] f.df = "Squitter" /\ f.errors < Bad ->
           PerError(IF Test(f.scored, known) THEN 1800 ELSE 1400, f)

\* Demodulate2400 keeps the first of the readings with the highest score.
Best(readings, known) ==
    LET score == [i \in DOMAIN readings |-> Score(readings[i], known)]
        i == CHOOSE i \in DOMAIN readings :
                 \A k \in DOMAIN readings :
                     score[k] < score[i] \/ (score[k] = score[i] /\ i <= k)
    IN  readings[i]

(***************************************************************************)
(* DecodeModesMessageWithFilter: may the frame be passed on, when it came  *)
(* from the radio and `known` is the filter, or from the network and there *)
(* is none?                                                                *)
(***************************************************************************)
Trusted(f, known) ==
    CASE f.df \in {"AP", "CommB"} -> Test(f.addr, known)
      [] f.df = "AllCall" ->
           f.errors = 0 \/ (f.errors = 1 /\ Test(f.fixed, known))
      [] f.df = "Squitter" ->
           f.errors # Bad /\ (f.addr = f.fixed \/ Test(f.fixed, known))

TrustedUnfiltered(f) ==
    CASE f.df = "AP" -> TRUE
      [] f.df = "CommB" -> FALSE
      [] f.df = "AllCall" -> f.errors <= 1
      [] f.df = "Squitter" -> f.errors # Bad

\* The address the message is handled with.
AddressOf(f) ==
    IF f.df \in {"AP", "CommB"} THEN ICAO(f.addr)
    ELSE [addr |-> f.fixed, other |-> f.other]

\* Mutant: repaired messages make their address known too.
AnnouncesNot(f) == f.df = "Squitter" \/ (f.df = "AllCall" /\ ~f.iid)

\* Demodulate2400 and handleMessage: the address becomes known.
Announces(f) ==
    /\ f.df = "Squitter" \/ (f.df = "AllCall" /\ ~f.iid)
    /\ f.errors = 0
==============================================================================

---------------------------- MODULE MCICAOFilter ----------------------------
(***************************************************************************)
(* Three slots for three addresses: 1 and 4 share their low bits, 2 and 4  *)
(* their hash, and the probe of 1 wraps around.  An address is also filed  *)
(* under its low bits, so the table is full with two of them.              *)
(***************************************************************************)
EXTENDS ICAOFilter

MCAddr == {1, 2, 4}
MCHash == [a \in MCAddr |-> CASE a = 1 -> 2 [] a = 2 -> 0 [] a = 4 -> 0]

\* Only differences between times matter, and of an address's age only whether it
\* is past the bound of Forgotten: the clock itself needs no bound.
AgeCap == MaxAge + 1
Age(a) == IF heard[a] = Never \/ clock - heard[a] > AgeCap THEN AgeCap ELSE clock - heard[a]

Relative ==
    <<filter, active, nextFlip - clock, clock - expired,
      IF expiring = Never THEN Never ELSE clock - expiring,
      [a \in Addr |-> Age(a)]>>
=============================================================================

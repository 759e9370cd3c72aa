-------------------------- MODULE RecentAddresses --------------------------
(***************************************************************************)
(* What the ICAO filter of modes/icao_filter.go promises its callers, with *)
(* no hash table, no probing and no clock: the set of addresses heard in   *)
(* the current period and the set heard in the one before.  An address is  *)
(* known while it is in either set.                                        *)
(***************************************************************************)

CONSTANT Addr  \* the 24-bit addresses the receiver may hear

VARIABLES
    young,  \* addresses heard since the last rotation
    old     \* addresses heard in the period before it

vars == <<young, old>>

TypeOK == young \subseteq Addr /\ old \subseteq Addr

Init == young = {} /\ old = {}

\* An address was heard.
Hear(a) == young' = young \cup {a} /\ UNCHANGED old

\* A period ended: the addresses of the one before it are forgotten.
Rotate == young' = {} /\ old' = young

Next == Rotate \/ \E a \in Addr : Hear(a)

Spec == Init /\ [][Next]_vars

Known == young \cup old

=============================================================================

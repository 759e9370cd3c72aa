---------------------------- MODULE MCReceiver ----------------------------
(***************************************************************************)
(* An aircraft and the address 0, and two transmissions in a stream of     *)
(* sixteen samples.                                                        *)
(***************************************************************************)
EXTENDS Receiver, TLC

Lengths == [kind \in {"long", "short", "ac"} |->
                CASE kind = "long" -> 3 [] kind = "short" -> 2 [] kind = "ac" -> 1]

Symmetry == Permutations(Sent) \cup Permutations(Addr \ {Zero})

\* Where the buffers end and what is trusted are explored one at a time: the
\* filter fills only while the device reads two transmissions that follow each
\* other within its second buffer.
Bound == spoken # {} \/ rotations > 0 =>
             device /\ {sent[t].start : t \in Sent} = {5, 8}

AnyRead == {3, 5, 8}
==============================================================================

------------------------------ MODULE MCBeast ------------------------------
(***************************************************************************)
(* Bodies of 3, 4 and 6 bytes, the first two of them before the message.   *)
(* Escape bytes come at the start and the end of a body and before what    *)
(* looks like a type.  From within the broken frame a message goes on over *)
(* the one after it, from within the status frame one is too short for its *)
(* format; there is a heartbeat, and short messages have any parity.       *)
(***************************************************************************)
EXTENDS Beast, TLC

Lengths == (TypeModeAC :> 3) @@ (TypeShort :> 4) @@ (TypeLong :> 6)

Reply == [type |-> TypeModeAC, body |-> <<7, 0, 7>>]
Answer == [type |-> TypeModeAC, body |-> <<Escape, 7, Escape>>]
Heart == [type |-> TypeModeAC, body |-> <<0, 0, 0>>]
Short == [type |-> TypeShort, body |-> <<7, 7, 0, 7>>]
Long == [type |-> TypeLong, body |-> <<7, 7, 136, 7, 7, 7>>]
Doubled == [type |-> TypeLong, body |-> <<7, 7, 136, Escape, TypeModeAC, 7>>]
Broken == [type |-> TypeLong, body |-> <<7, 7, 136, 7, Escape, TypeLong>>]
Status == [type |-> TypeStatus, body |-> <<7, Escape, TypeShort, 7, 7, 136, 7>>]

Frames == {Reply, Answer, Heart, Short, Long, Doubled, Broken, Status}
Checked == {Long, Doubled}

=============================================================================

--------------------------- MODULE MCHousekeeping ---------------------------
(***************************************************************************)
(* Two goroutines feed the statistics, a web page asks for a report while  *)
(* the periodic goroutine writes its own, and the history has two or three *)
(* slots.                                                                  *)
(***************************************************************************)
EXTENDS Housekeeping, TLC

TwoOrThree == {2, 3}

\* The two halves meet only in the periodic goroutine and in a crash, so that
\* an execution that takes snapshots need not fill the statistics too; and
\* reports only read, so that one at a time is enough.
Bound ==
    /\ Cardinality({r \in Reporters : report[r].read # <<>>}) <= 1
    /\ stamp > 0 \/ ~intact =>
           /\ log = <<>> /\ added = Zero
           /\ \A r \in Reporters : report[r].read = <<>>
==============================================================================

---------------------------- MODULE Housekeeping ----------------------------
(***************************************************************************)
(* The server's periodic goroutine (runPeriodicTasks in                    *)
(* src/cmd/dump1090-server/main.go), which writes the JSON files and then  *)
(* closes the window of statistics, beside the goroutines that feed the    *)
(* statistics and the HTTP handlers that read both.  The intervals between *)
(* two writes of a file are arbitrary: any of them may be due at any tick. *)
(***************************************************************************)
EXTENDS Stats, History

CONSTANTS
    Periodic,   \* the periodic goroutine, one of Reporters
    MaxAdded, MaxRotations, MaxSnapshots    \* bounds on what they name

ASSUME HousekeepingAssumption ==
    Periodic \in Reporters /\ {MaxAdded, MaxRotations, MaxSnapshots} \subseteq Nat

vars == <<statsVars, historyVars>>

Init == StatsInit /\ HistoryInit

\* The receiver's goroutines count what they do.
Feed(g) ==
    /\ step \notin {"down", "initial"}
    /\ Feeding(g)
    /\ MapThenSumSet(LAMBDA c : added'[c], Counter) <= MaxAdded
    /\ UNCHANGED historyVars

\* PeriodicUpdate takes a snapshot when one is due.
Record == stamp < MaxSnapshots /\ Snapshot /\ UNCHANGED statsVars

\* PeriodicUpdate goes on to stats.json, or nothing but that is due.
ToStats ==
    /\ step = "idle" /\ step' = "stats"
    /\ UNCHANGED <<historySize, history, historyNext, historyCount,
                   receiverWritten, oldCount, disk, receiver, stamp, intact>>
    /\ UNCHANGED statsVars

Write == HistoryStep /\ UNCHANGED statsVars

\* A report is read and written out: stats.json, or a request for it.
Report(r) ==
    /\ IF r = Periodic THEN step = "stats" ELSE step \notin {"down", "initial"}
    /\ Get(r) \/ Reported(r)
    /\ UNCHANGED historyVars

\* The end of a tick: stats.json is written, or was not due, and the window
\* of statistics rotates when its minute is over.
Tick ==
    /\ report[Periodic].read = <<>>
    /\ PeriodicDone
    /\ \/ Len(log) < MaxRotations /\ Update
       \/ UNCHANGED statsVars

\* The process dies, and everything it held in memory with it.
Crash == CrashHistory /\ StatsRestart

Outage == (LoseFile \/ Start) /\ UNCHANGED statsVars

Next ==
    \/ \E g \in Demods \cup Remotes : Feed(g)
    \/ Record
    \/ ToStats
    \/ Write
    \/ \E r \in Reporters : Report(r)
    \/ Tick
    \/ Crash
    \/ Outage

Spec == Init /\ [][Next]_vars
==============================================================================

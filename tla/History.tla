------------------------------- MODULE History -------------------------------
(***************************************************************************)
(* The history of the JSON writer (src/modes/json_writer.go): a ring of    *)
(* snapshots of aircraft.json in memory, a file for each slot on disk, and *)
(* receiver.json, which tells a web page how many of them it may fetch.    *)
(* The server may crash between any two steps and restores the ring from   *)
(* the files when it starts again, perhaps with another --history-size;    *)
(* a write may fail, which the code ignores, and files may disappear.      *)
(*                                                                         *)
(* A snapshot is the number of the tick it was taken in, which also orders *)
(* the modification times of the files.  Temporary files are left out: no  *)
(* reader's pattern matches their names, and the rename is what counts.    *)
(***************************************************************************)
EXTENDS Integers, FiniteSets, FiniteSetsExt

CONSTANTS
    Sizes,      \* the values of --history-size the server is started with
    MaxSize     \* bound: the largest of them

ASSUME HistoryAssumption ==
    MaxSize \in Nat /\ Sizes \subseteq 1 .. MaxSize /\ Sizes # {}

VARIABLES
    historySize, history, historyNext, historyCount, receiverWritten,
    step,      \* where the periodic goroutine is within PeriodicUpdate
    oldCount,  \* its local variable of that name
    disk,      \* disk[i]: the snapshot in history_i.json
    receiver,  \* one more than the "history" member of receiver.json
    stamp,     \* the snapshots taken so far
    intact     \* nothing on disk was lost or refused, the size never changed

historyVars == <<historySize, history, historyNext, historyCount,
                 receiverWritten, step, oldCount, disk, receiver, stamp,
                 intact>>

Slot == 0 .. MaxSize - 1

\* No snapshot in this slot; no such file; no receiver.json.
None == 0

\* An empty file, as a power failure leaves it after the rename.
Empty == -1

Slots(size) == 0 .. size - 1

(***************************************************************************)
(* NewJSONWriter with restoreHistoryFromDisk: every file of a slot that is *)
(* not empty is loaded, and the ring goes on after the newest.             *)
(***************************************************************************)
Usable(size) == {i \in Slots(size) : disk[i] \notin {None, Empty}}

Newest(slots) == CHOOSE i \in slots : \A k \in slots : disk[k] <= disk[i]

\* Mutant: the ring goes on after the last slot, not after the newest.
ResumeNot(size) == IF Usable(size) = {} THEN 0
                   ELSE (Max(Usable(size)) + 1) % size

Resume(size) == IF Usable(size) = {} THEN 0
                ELSE (Newest(Usable(size)) + 1) % size

restoreHistoryFromDisk(size) ==
    /\ historySize' = size
    /\ history' = [i \in Slot |-> IF i \in Usable(size) THEN disk[i] ELSE None]
    /\ historyCount' = Cardinality(Usable(size))
    /\ historyNext' = Resume(size)

HistoryInit ==
    /\ historySize \in Sizes
    /\ history = [i \in Slot |-> None]
    /\ historyNext = 0 /\ historyCount = 0
    /\ receiverWritten = FALSE
    /\ step = "initial" /\ oldCount = 0
    /\ disk = [i \in Slot |-> None] /\ receiver = None
    /\ stamp = 0 /\ intact = TRUE

\* A fault, of which there is at most one.
Fault == intact /\ intact' = FALSE

\* Mutant: the capacity of the ring is advertised, not what it holds.
getHistoryCountNot == historySize

getHistoryCount == historyCount

\* writeJsonToFile("receiver.json", ...), whose error nobody looks at.
WriteReceiver ==
    /\ \/ receiver' = getHistoryCount + 1 /\ UNCHANGED intact
       \/ Fault /\ UNCHANGED receiver
    /\ receiverWritten' = TRUE

\* WriteInitialFiles.
WriteInitialFiles ==
    /\ step = "initial" /\ step' = "idle"
    /\ WriteReceiver
    /\ UNCHANGED <<historySize, history, historyNext, historyCount, oldCount,
                   disk, stamp>>

\* PeriodicUpdate when a snapshot is due: it takes the lock and fills the slot.
Snapshot ==
    /\ step = "idle" /\ step' = "file"
    /\ oldCount' = historyCount
    /\ stamp' = stamp + 1
    /\ history' = [history EXCEPT ![historyNext] = stamp + 1]
    /\ UNCHANGED <<historySize, historyNext, historyCount, receiverWritten,
                   disk, receiver, intact>>

WriteHistory ==
    /\ step = "file" /\ step' = "advance"
    /\ \/ disk' = [disk EXCEPT ![historyNext] = history[historyNext]]
          /\ UNCHANGED intact
       \/ Fault /\ UNCHANGED disk
    /\ UNCHANGED <<historySize, history, historyNext, historyCount,
                   receiverWritten, oldCount, receiver, stamp>>

\* The ring advances and the lock is released.
Advance ==
    /\ step = "advance"
    /\ historyNext' = (historyNext + 1) % historySize
    /\ historyCount' = IF historyCount < historySize THEN historyCount + 1
                                                     ELSE historyCount
    /\ step' = IF ~receiverWritten \/ historyCount' # oldCount
               THEN "receiver" ELSE "stats"
    /\ UNCHANGED <<historySize, history, receiverWritten, oldCount, disk,
                   receiver, stamp, intact>>

UpdateReceiver ==
    /\ step = "receiver" /\ step' = "stats"
    /\ WriteReceiver
    /\ UNCHANGED <<historySize, history, historyNext, historyCount, oldCount,
                   disk, stamp>>

\* The rest of PeriodicUpdate, whatever it writes, is over.
PeriodicDone ==
    /\ step = "stats" /\ step' = "idle"
    /\ UNCHANGED <<historySize, history, historyNext, historyCount,
                   receiverWritten, oldCount, disk, receiver, stamp, intact>>

(***************************************************************************)
(* The server dies, files may suffer, and it is started again.             *)
(***************************************************************************)
CrashHistory ==
    /\ step # "down" /\ step' = "down"
    /\ history' = [i \in Slot |-> None]
    /\ historyNext' = 0 /\ historyCount' = 0 /\ oldCount' = 0
    /\ receiverWritten' = FALSE
    /\ UNCHANGED <<historySize, disk, receiver, stamp, intact>>

\* A file is deleted, or lost its content in a power failure.
LoseFile ==
    /\ step = "down"
    /\ \E i \in Slot, left \in {None, Empty} :
           disk[i] # None /\ disk' = [disk EXCEPT ![i] = left]
    /\ Fault
    /\ UNCHANGED <<historySize, history, historyNext, historyCount,
                   receiverWritten, step, oldCount, receiver, stamp>>

Start ==
    /\ step = "down" /\ step' = "initial"
    /\ \E size \in Sizes :
           /\ restoreHistoryFromDisk(size)
           /\ \/ size = historySize /\ UNCHANGED intact
              \/ size # historySize /\ Fault
    /\ UNCHANGED <<receiverWritten, oldCount, disk, receiver, stamp>>

\* What /data/history_N.json answers; None is "not found".
GetHistoryJSON(index) ==
    IF index \in Slots(historySize) THEN history[index] ELSE None

HistoryStep == WriteInitialFiles \/ WriteHistory \/ Advance \/ UpdateReceiver

------------------------------------------------------------------------------
Populated == {i \in Slots(historySize) : history[i] # None}

Locked == step \in {"file", "advance"}

\* The slot that is written next follows the newest snapshot of the ring,
\* whatever was lost, refused or resized and wherever a crash fell: a
\* restart never goes on in the middle and overwrites recent history
\* (restoreHistoryFromDisk).
NextFollowsNewest ==
    ~Locked => \A i \in Populated :
        history[i] <= history[(historyNext - 1 + historySize) % historySize]

\* What the receiver information advertises can be fetched: every index below
\* the count is in memory for /data/history_N.json, and every index below the
\* count last written to receiver.json is a file; and the ring read from
\* historyNext on is in the order the snapshots were taken.  With crashes at
\* any step, as long as no write was refused, no file lost and the size kept.
AdvertisedIsThere ==
    intact =>
        /\ \A i \in Slots(historyCount) : GetHistoryJSON(i) # None
        /\ receiver # None => \A i \in Slots(receiver - 1) : disk[i] # None
        /\ ~Locked => \A a, b \in Slots(historySize) : a < b =>
              LET from == historyNext + a
                  to == historyNext + b
              IN  to % historySize \in Populated =>
                      history[from % historySize] < history[to % historySize]
==============================================================================

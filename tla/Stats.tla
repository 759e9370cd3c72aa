-------------------------------- MODULE Stats --------------------------------
(***************************************************************************)
(* The statistics collector (src/modes/stats.go) and the goroutines that   *)
(* feed it: the demodulator and the network inputs raise counters of the   *)
(* current window one call at a time, the periodic goroutine closes the    *)
(* window once a minute, and reports (GenerateStatsJSON in                 *)
(* src/modes/json_schema.go) read five aggregates under five separate      *)
(* locks.                                                                  *)
(*                                                                         *)
(* The forty counters of a window are four here: the preambles the         *)
(* demodulator tried, what became of them, the messages handled and the    *)
(* positions attempted.  Times are left out, but for the test Start > 0    *)
(* that says whether a slot of the ring was ever used.                     *)
(***************************************************************************)
EXTENDS Integers, Sequences, FiniteSets, FiniteSetsExt

CONSTANTS
    Windows,    \* STATS_HISTORY_SIZE, 15 in the code
    Short,      \* the windows of "last5min", 5 in the code
    Patience,   \* the rotations that may fall within one report
    Demods,     \* the goroutines that demodulate
    Remotes,    \* the goroutines that read a network input
    Reporters   \* the goroutines that write a report

ASSUME StatsAssumption ==
    /\ Short \in Nat \ {0} /\ Windows \in Nat \ {0}
    /\ Patience \in 0 .. Short - 1 /\ Short + Patience <= Windows
    /\ IsFiniteSet(Demods)

VARIABLES
    current,      \* the window in progress
    ring,         \* the circular buffer of completed windows, "history" in the code
    latestIndex,  \* the most recent of them
    last5, last15, allTime,
    stage,        \* stage[g]: where a feeding goroutine is between two calls
    report,       \* report[r]: the aggregates r has read so far
    log,          \* every window completed so far (kept by the model only)
    added         \* every call so far, by counter (kept by the model only)

statsVars == <<current, ring, latestIndex, last5, last15, allTime,
               stage, report, log, added>>

Counter == {"preambles", "results", "messages", "positions"}

Zero == [c \in Counter |-> 0]

\* A slot of the ring that no window was stored in (Start = 0).
Unused == [c \in Counter |-> -1]

addStats(src, dst) == [c \in Counter |-> dst[c] + src[c]]

\* A slot that no window was stored in is passed over.
Stored(window) == IF window = Unused THEN Zero ELSE window

\* The sums of the first windows of a sequence, and of all of it.
Sums(windows) ==
    LET sum[n \in 0 .. Len(windows)] ==
            IF n = 0 THEN Zero ELSE addStats(windows[n], sum[n - 1])
    IN  sum

Total(windows) == Sums(windows)[Len(windows)]

\* The aggregates of a report in the order GenerateStatsJSON reads them.
Latest == 1
Last1 == 2
Last5 == 3
Last15 == 4
AllTime == 5

NoReport == [at |-> 0, read |-> <<>>]

StatsInit ==
    /\ current = Zero
    /\ ring = [i \in 0 .. Windows - 1 |-> Unused]
    /\ latestIndex = Windows - 1
    /\ last5 = Zero /\ last15 = Zero /\ allTime = Zero
    /\ stage = [g \in Demods \cup Remotes |-> "free"]
    /\ report = [r \in Reporters |-> NoReport]
    /\ log = <<>>
    /\ added = Zero

\* The server died and was started again.
StatsRestart ==
    /\ current' = Zero
    /\ ring' = [i \in 0 .. Windows - 1 |-> Unused]
    /\ latestIndex' = Windows - 1
    /\ last5' = Zero /\ last15' = Zero /\ allTime' = Zero
    /\ stage' = [g \in Demods \cup Remotes |-> "free"]
    /\ report' = [r \in Reporters |-> NoReport]
    /\ log' = <<>>
    /\ added' = Zero

(***************************************************************************)
(* The Add... methods: each raises some counters of the current window     *)
(* under the lock.                                                         *)
(***************************************************************************)
Add(counters) ==
    /\ current' = [c \in Counter |-> IF c \in counters THEN current[c] + 1
                                                       ELSE current[c]]
    /\ added' = [c \in Counter |-> IF c \in counters THEN added[c] + 1
                                                     ELSE added[c]]
    /\ UNCHANGED <<ring, latestIndex, last5, last15, allTime, report, log>>

At(g, from, to) == stage[g] = from /\ stage' = [stage EXCEPT ![g] = to]

\* Demodulate2400: a preamble passed the tests on its shape.
AddPreamble(g) == At(g, "free", "scored") /\ Add({"preambles"})

\* AddDemodResult, for a candidate that was rejected...
Rejected(g) == At(g, "scored", "free") /\ Add({"results"})

\* ...and for one that was accepted, which goes on to handleMessage.
Accepted(g) == At(g, "scored", "handled") /\ Add({"results"})

\* handleMessage starts: AddMessage.
AddMessage(g) ==
    /\ \/ g \in Demods /\ At(g, "handled", "tracked")
       \/ g \in Remotes /\ At(g, "free", "tracked")
    /\ Add({"messages"})

(***************************************************************************)
(* updatePosition: a global decoding has one result; when the frames do    *)
(* not decide it ("skipped"), or are not both there, a local one is tried, *)
(* and one that fails a check is counted for it and once more as skipped.  *)
(***************************************************************************)
AddCPRResult(g) ==
    /\ \/ At(g, "tracked", "free")
       \/ At(g, "tracked", "local")
       \/ At(g, "tracked", "failed")
       \/ At(g, "local", "free")
       \/ At(g, "local", "failed")
       \/ At(g, "failed", "free")
    /\ Add({"positions"})

\* The message holds no position that can be decoded.
Done(g) ==
    /\ At(g, "tracked", "free")
    /\ UNCHANGED <<current, ring, latestIndex, last5, last15, allTime,
                   report, log, added>>

(***************************************************************************)
(* Update, when the minute is over: the current window goes into the ring, *)
(* the aggregates are computed anew and the next window starts empty.      *)
(***************************************************************************)
\* Mutant: the five minutes are counted from the slot before the latest.
RecentNot(index) == [i \in 1 .. Short |-> (index - i + Windows) % Windows]

Recent(index) == [i \in 1 .. Short |-> (index - (i - 1) + Windows) % Windows]

All == [i \in 1 .. Windows |-> i - 1]

Filled(slots, from) == [i \in DOMAIN slots |-> Stored(from[slots[i]])]

InTime == \A r \in Reporters : report[r].read # <<>> =>
                                  Len(log) - report[r].at < Patience

Update ==
    LET index == (latestIndex + 1) % Windows
        filled == [ring EXCEPT ![index] = current]
    IN  /\ InTime
        /\ latestIndex' = index
        /\ ring' = filled
        /\ allTime' = addStats(current, allTime)
        /\ last5' = Total(Filled(Recent(index), filled))
        /\ last15' = Total(Filled(All, filled))
        /\ current' = Zero
        /\ log' = Append(log, current)
        /\ UNCHANGED <<stage, report, added>>

(***************************************************************************)
(* GenerateStatsJSON: five getters, each under the lock for itself.        *)
(***************************************************************************)
GetLast1Min == Stored(ring[latestIndex])

GetAllTime == addStats(current, allTime)

\* Mutant: the total is read first and written last.
GetterNot(k) == <<GetAllTime, GetLast1Min, last5, last15, current>>[k]

Getter(k) == <<current, GetLast1Min, last5, last15, GetAllTime>>[k]

Get(r) ==
    /\ Len(report[r].read) < AllTime
    /\ report' = [report EXCEPT ![r] =
           [at |-> IF @.read = <<>> THEN Len(log) ELSE @.at,
            read |-> Append(@.read, Getter(Len(@.read) + 1))]]
    /\ UNCHANGED <<current, ring, latestIndex, last5, last15, allTime,
                   stage, log, added>>

\* The report is formatted and sent, or written to stats.json.
Reported(r) ==
    /\ Len(report[r].read) = AllTime
    /\ report' = [report EXCEPT ![r] = NoReport]
    /\ UNCHANGED <<current, ring, latestIndex, last5, last15, allTime,
                   stage, log, added>>

Feeding(g) ==
    \/ g \in Demods /\ (AddPreamble(g) \/ Rejected(g) \/ Accepted(g))
    \/ AddMessage(g)
    \/ AddCPRResult(g)
    \/ Done(g)

------------------------------------------------------------------------------
LastOf(n, seq) == SubSeq(seq, 1 + Len(seq) - (IF n < Len(seq) THEN n ELSE Len(seq)),
                         Len(seq))

\* Every counted call is in exactly one window, and every aggregate covers
\* exactly the windows it names, also after the ring has wrapped: nothing
\* added by another goroutine while the windows rotate is lost or counted
\* twice (Update, addStats and the getters of stats.go).
EachCountedOnce ==
    /\ addStats(current, Total(log)) = added
    /\ allTime = Total(log)
    /\ last5 = Total(LastOf(Short, log))
    /\ last15 = Total(LastOf(Windows, log))
    /\ GetLast1Min = Total(LastOf(1, log))

AtMost(a, b) == \A c \in Counter : a[c] <= b[c]

\* A report whose five reads straddle a rotation still nests: the window in
\* progress within the total, the last minute within the last five, those
\* within the last fifteen, and those within the total; and its total counts
\* an outcome for each preamble but those being decided.
ReportNests ==
    \A r \in Reporters : LET read == report[r].read IN
        /\ Len(read) >= Last5 => AtMost(read[Last1], read[Last5])
        /\ Len(read) >= Last15 => AtMost(read[Last5], read[Last15])
        /\ Len(read) = AllTime =>
              /\ AtMost(read[Latest], read[AllTime])
              /\ AtMost(read[Last15], read[AllTime])
              /\ read[AllTime]["preambles"] - read[AllTime]["results"]
                     \in 0 .. Cardinality(Demods)
==============================================================================

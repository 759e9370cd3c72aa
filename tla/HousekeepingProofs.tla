------------------------- MODULE HousekeepingProofs -------------------------
(***************************************************************************)
(* The history of snapshots survives what may happen to it: for all sizes  *)
(* of the ring, crashes between any two steps, lost files and failing      *)
(* writes, whatever the statistics and their readers do meanwhile.  And    *)
(* the statistics count every call once and their reports nest, for all    *)
(* sizes of their ring, whatever the history does.                         *)
(***************************************************************************)
EXTENDS Housekeeping, FiniteSetTheorems, WellFoundedInduction, TLAPS

------------------------------------------------------------------------------
(***************************************************************************)
(* Numbers.                                                                *)
(***************************************************************************)

\* A set of natural numbers has a least element.
LEMMA Least ==
    ASSUME NEW T, T \subseteq Nat, T # {}
    PROVE  \E x \in T : \A y \in T : x <= y
<1> DEFINE R == OpToRel(<, Nat)
<1>1. IsWellFoundedOn(R, Nat)
  BY NatLessThanWellFounded
<1>2. ASSUME NEW x \in Nat, NEW y \in Nat, y < x
      PROVE  <<y, x>> \in R
  BY <1>2 DEF OpToRel
<1> HIDE DEF R
<1>3. PICK x \in T : \A y \in T : ~(<<y, x>> \in R)
  BY <1>1, WFMin
<1>4. \A y \in T : ~(y < x)
  BY <1>2, <1>3
<1> QED BY <1>4

\* The slot before the one after a slot is that slot.
LEMMA Around ==
    ASSUME NEW size \in Nat, NEW i \in Nat, i < size
    PROVE  /\ (i + 1) % size = IF i + 1 < size THEN i + 1 ELSE 0
           /\ (i + 1) % size \in Slots(size)
           /\ (((i + 1) % size) - 1 + size) % size = i
BY DEF Slots

------------------------------------------------------------------------------
(***************************************************************************)
(* The newest snapshot.                                                    *)
(***************************************************************************)

HistoryTypeInv ==
    /\ historySize \in Sizes /\ historyNext \in Slots(historySize)
    /\ historyCount \in Nat /\ stamp \in Nat /\ intact \in BOOLEAN
    /\ history \in [Slot -> Nat] /\ \A i \in Slot : history[i] <= stamp
    /\ disk \in [Slot -> Nat \cup {Empty}] /\ \A i \in Slot : disk[i] <= stamp
    /\ receiver \in Nat
    /\ step \in {"initial", "idle", "file", "advance", "receiver", "stats", "down"}

Previous == (historyNext - 1 + historySize) % historySize

\* The newest is where the ring goes on after it, or is being written.
NewestInv ==
    /\ step \in {"file", "advance"} => history[historyNext] = stamp
    /\ step \notin {"file", "advance"} =>
           \A i \in Populated : history[i] <= history[Previous]

\* Sizes fit the arrays.
LEMMA SlotsFit ==
    ASSUME NEW size \in Sizes
    PROVE  size \in Nat /\ size >= 1 /\ Slots(size) \subseteq Slot
BY HistoryAssumption DEF HistoryAssumption, Slots, Slot

\* The newest file of those that are there.
LEMMA NewestIsNewest ==
    ASSUME HistoryTypeInv, NEW size \in Sizes, Usable(size) # {}
    PROVE  /\ Newest(Usable(size)) \in Usable(size)
           /\ \A k \in Usable(size) : disk[k] <= disk[Newest(Usable(size))]
<1> DEFINE U == Usable(size)
           T == {stamp - disk[i] : i \in U}
<1>1. U \subseteq Slot /\ \A i \in U : disk[i] \in Int /\ stamp - disk[i] \in Nat
  BY SlotsFit DEF Usable, HistoryTypeInv, Empty
<1>2. PICK x \in T : \A y \in T : x <= y
  <2>1. T \subseteq Nat /\ T # {}
    BY <1>1
  <2> HIDE DEF T
  <2> QED BY <2>1, Least
<1>3. PICK i \in U : x = stamp - disk[i]
  BY <1>2
<1>4. \A k \in U : disk[k] <= disk[i]
  <2> SUFFICES ASSUME NEW k \in U PROVE disk[k] <= disk[i]
    OBVIOUS
  <2>1. stamp - disk[i] <= stamp - disk[k]
    BY <1>2, <1>3
  <2> QED BY <1>1, <2>1 DEF HistoryTypeInv
<1> QED BY <1>3, <1>4 DEF Newest

LEMMA InitNewest == Init => HistoryTypeInv /\ NewestInv
<1> SUFFICES ASSUME Init PROVE HistoryTypeInv /\ NewestInv
  OBVIOUS
<1>1. historySize \in Sizes /\ historySize \in Nat /\ historySize >= 1
  BY SlotsFit DEF Init, HistoryInit
<1>2. historyNext \in Slots(historySize)
  BY <1>1 DEF Init, HistoryInit, Slots
<1> QED BY <1>1, <1>2, SlotsFit
        DEF Init, HistoryInit, HistoryTypeInv, NewestInv, Populated, None, Empty

LEMMA StartNewest ==
    ASSUME HistoryTypeInv, Start
    PROVE  HistoryTypeInv' /\ NewestInv'
<1>1. PICK size \in Sizes : /\ restoreHistoryFromDisk(size)
                            /\ UNCHANGED intact \/ Fault
  BY DEF Start
<1>2. /\ step' = "initial" /\ UNCHANGED <<disk, receiver, stamp>> /\ intact' \in BOOLEAN
      /\ historySize' = size /\ size \in Nat /\ size >= 1 /\ Slots(size) \subseteq Slot
  BY <1>1, SlotsFit DEF Start, restoreHistoryFromDisk, Fault, HistoryTypeInv
<1>3. /\ history' = [i \in Slot |-> IF i \in Usable(size) THEN disk[i] ELSE None]
      /\ historyNext' = Resume(size)
  BY <1>1 DEF restoreHistoryFromDisk
<1>4. historyCount' \in Nat
  <2>1. IsFiniteSet(Slots(size))
    BY <1>2, FS_Interval DEF Slots
  <2>2. IsFiniteSet(Usable(size))
    BY <2>1, FS_Subset DEF Usable
  <2> QED BY <1>1, <2>2, FS_CardinalityType DEF restoreHistoryFromDisk
<1>5. /\ Usable(size) \subseteq Slots(size)
      /\ \A i \in Usable(size) : disk[i] \in Nat /\ disk[i] # None
  BY <1>2 DEF Usable, HistoryTypeInv
<1>6. history' \in [Slot -> Nat] /\ \A i \in Slot : history'[i] <= stamp
  BY <1>3, <1>5 DEF HistoryTypeInv, None
<1>7. CASE Usable(size) = {}
  <2>1. historyNext' = 0
    BY <1>3, <1>7 DEF Resume
  <2>2. Populated' = {}
    BY <1>2, <1>3, <1>7 DEF Populated
  <2> QED BY <1>1, <1>2, <1>4, <1>6, <2>1, <2>2 DEF HistoryTypeInv, NewestInv, Slots
<1>8. CASE Usable(size) # {}
  <2> DEFINE n == Newest(Usable(size))
  <2>1. n \in Usable(size) /\ \A k \in Usable(size) : disk[k] <= disk[n]
    BY <1>8, NewestIsNewest
  <2>2. historyNext' = (n + 1) % size
    BY <1>3, <1>8 DEF Resume
  <2> HIDE DEF n
  <2>3. n \in Nat /\ n < size
    BY <1>2, <1>5, <2>1 DEF Slots
  <2>4. /\ (n + 1) % size \in Slots(size)
        /\ (((n + 1) % size) - 1 + size) % size = n
    BY <1>2, <2>3, Around
  <2>6. historyNext' \in Slots(size) /\ Previous' = n
    BY <1>2, <2>2, <2>4 DEF Previous
  <2>5. \A i \in Populated' : history'[i] <= history'[n]
    BY <1>2, <1>3, <1>5, <2>1 DEF Populated
  <2> QED BY <1>1, <1>2, <1>4, <1>6, <2>5, <2>6 DEF HistoryTypeInv, NewestInv
<1> QED BY <1>7, <1>8

LEMMA AdvanceNewest ==
    ASSUME HistoryTypeInv, NewestInv, Advance
    PROVE  HistoryTypeInv' /\ NewestInv'
<1>1. /\ historySize \in Sizes /\ historySize \in Nat /\ historySize >= 1
      /\ Slots(historySize) \subseteq Slot
      /\ historyNext \in Nat /\ historyNext < historySize /\ historyNext \in Slot
  BY SlotsFit DEF HistoryTypeInv, Slots
<1>2. /\ step = "advance" /\ historyNext' = (historyNext + 1) % historySize
      /\ historyCount' = IF historyCount < historySize THEN historyCount + 1 ELSE historyCount
      /\ step' \in {"receiver", "stats"}
      /\ UNCHANGED <<historySize, history, disk, receiver, stamp, intact>>
  BY DEF Advance
<1>3. historyNext' \in Slots(historySize) /\ Previous' = historyNext
  BY <1>1, <1>2, Around DEF Slots, Previous
<1>4. HistoryTypeInv'
  BY <1>2, <1>3 DEF HistoryTypeInv
<1>5. \A i \in Populated' : history'[i] <= history'[Previous']
  BY <1>1, <1>2, <1>3 DEF Populated, HistoryTypeInv, NewestInv
<1> QED BY <1>2, <1>4, <1>5 DEF NewestInv

LEMMA NextNewest == HistoryTypeInv /\ NewestInv /\ [Next]_vars => HistoryTypeInv' /\ NewestInv'
<1> SUFFICES ASSUME HistoryTypeInv, NewestInv, [Next]_vars
             PROVE  HistoryTypeInv' /\ NewestInv'
  OBVIOUS
<1>1. historyNext \in Slot /\ Slots(historySize) \subseteq Slot
  BY SlotsFit DEF HistoryTypeInv
<1>2. CASE Record
  <2>1. /\ step = "idle" /\ step' = "file" /\ stamp' = stamp + 1
        /\ history' = [history EXCEPT ![historyNext] = stamp + 1]
        /\ UNCHANGED <<historySize, historyNext, historyCount, disk, receiver, intact>>
    BY <1>2 DEF Record, Snapshot
  <2> QED BY <1>1, <2>1 DEF HistoryTypeInv, NewestInv, Empty
<1>3. CASE Write
  <2>1. CASE WriteInitialFiles \/ UpdateReceiver
    <3>1. /\ step \in {"initial", "receiver"} /\ step' \in {"idle", "stats"}
          /\ WriteReceiver
          /\ UNCHANGED <<historySize, history, historyNext, historyCount, disk, stamp>>
      BY <2>1 DEF WriteInitialFiles, UpdateReceiver
    <3>2. receiver' \in Nat
      <4>1. receiver' = historyCount + 1 \/ receiver' = receiver
        BY <3>1 DEF WriteReceiver, getHistoryCount
      <4> QED BY <4>1 DEF HistoryTypeInv
    <3>3. intact' \in BOOLEAN
      BY <3>1, Zenon DEF WriteReceiver, Fault, HistoryTypeInv
    <3>4. HistoryTypeInv'
      BY <3>1, <3>2, <3>3 DEF HistoryTypeInv
    <3> QED BY <3>1, <3>4 DEF NewestInv, Populated, Previous
  <2>2. CASE WriteHistory
    <3>1. /\ step = "file" /\ step' = "advance" /\ intact' \in BOOLEAN
          /\ disk' = [disk EXCEPT ![historyNext] = history[historyNext]] \/ disk' = disk
          /\ UNCHANGED <<historySize, history, historyNext, historyCount, receiver, stamp>>
      BY <2>2 DEF WriteHistory, Fault, HistoryTypeInv
    <3> QED BY <1>1, <3>1 DEF HistoryTypeInv, NewestInv
  <2> QED BY <1>3, <2>1, <2>2, AdvanceNewest DEF Write, HistoryStep
<1>4. CASE Crash
  <2>1. /\ step' = "down" /\ history' = [i \in Slot |-> None] /\ historyNext' = 0
        /\ historyCount' = 0 /\ UNCHANGED <<historySize, disk, receiver, stamp, intact>>
    BY <1>4 DEF Crash, CrashHistory
  <2>2. Populated' = {} /\ 0 \in Slots(historySize)
    BY <1>1, <2>1, SlotsFit DEF Populated, Slots, HistoryTypeInv
  <2> QED BY <2>1, <2>2 DEF HistoryTypeInv, NewestInv, None
<1>5. CASE LoseFile
  <2>1. PICK i \in Slot, gone \in {None, Empty} : disk' = [disk EXCEPT ![i] = gone]
    BY <1>5 DEF LoseFile
  <2>2. /\ step = "down" /\ intact' \in BOOLEAN
        /\ UNCHANGED <<historySize, history, historyNext, historyCount, step, receiver, stamp>>
    BY <1>5 DEF LoseFile, Fault
  <2>3. disk' \in [Slot -> Nat \cup {Empty}] /\ \A k \in Slot : disk'[k] <= stamp
    BY <2>1 DEF HistoryTypeInv, None, Empty
  <2> QED BY <2>2, <2>3 DEF HistoryTypeInv, NewestInv, Populated, Previous
<1>6. CASE ToStats \/ Tick
  BY <1>6 DEF ToStats, Tick, PeriodicDone, HistoryTypeInv, NewestInv, Populated, Previous
<1>7. CASE (\E g \in Demods \cup Remotes : Feed(g)) \/ (\E r \in Reporters : Report(r))
           \/ UNCHANGED vars
  <2>1. UNCHANGED historyVars
    BY <1>7 DEF Feed, Report, vars
  <2> QED BY <2>1 DEF historyVars, HistoryTypeInv, NewestInv, Populated, Previous
<1> QED BY <1>2, <1>3, <1>4, <1>5, <1>6, <1>7, StartNewest DEF Next, Outage

\* A restart goes on after the newest snapshot, never in the middle of the ring,
\* for all sizes and whatever was lost, refused, torn or resized and wherever a
\* crash fell (restoreHistoryFromDisk, PeriodicUpdate).
THEOREM GoesOnAfterNewest == Spec => []NextFollowsNewest
<1>1. NewestInv => NextFollowsNewest
  BY DEF NewestInv, NextFollowsNewest, Locked, Previous
<1> QED BY <1>1, InitNewest, NextNewest, PTL DEF Spec

------------------------------------------------------------------------------
(***************************************************************************)
(* What is advertised is there.                                            *)
(***************************************************************************)

\* The slot after n, and the count of a ring with one more snapshot.
After(size, n) == IF n + 1 < size THEN n + 1 ELSE 0
Grown(size, m) == IF m < size THEN m + 1 ELSE m

\* The first m slots of f are filled, in the order of their snapshots from slot n on.
RingOK(size, f, n, m) ==
    /\ n \in Slots(size) /\ m \in 0 .. size /\ (m < size => n = m)
    /\ \A i \in Slots(size) : IF i < m THEN f[i] > 0 ELSE f[i] = None
    /\ \A i, k \in Slots(size) : i < m /\ k < m =>
           /\ i < k /\ (k < n \/ n <= i) => f[i] < f[k]
           /\ i < n /\ n <= k => f[k] < f[i]

OnDisk == \A i \in Slots(historySize) : disk[i] = history[i]

\* What memory and disk hold at each place of PeriodicUpdate, if nothing was lost.
RingInv ==
    /\ step \in {"initial", "idle", "receiver", "stats"} =>
           OnDisk /\ RingOK(historySize, history, historyNext, historyCount)
    /\ step = "file" =>
           /\ RingOK(historySize, disk, historyNext, historyCount)
           /\ \A i \in Slots(historySize) :
                  /\ disk[i] < stamp
                  /\ history[i] = IF i = historyNext THEN stamp ELSE disk[i]
    /\ step = "advance" =>
           /\ OnDisk /\ historyCount <= historySize
           /\ RingOK(historySize, history, After(historySize, historyNext),
                     Grown(historySize, historyCount))
    /\ step = "down" =>
           /\ \E n \in Slots(historySize), m \in 0 .. historySize :
                  RingOK(historySize, disk, n, m)
           /\ historyCount = 0 /\ \A i \in Slots(historySize) : history[i] = None

ReceiverInv == receiver # None => \A i \in Slots(receiver - 1) : disk[i] # None

AdvertisedInv == intact => RingInv /\ ReceiverInv

\* Only what the slots hold counts.
LEMMA RingSame ==
    ASSUME NEW size, NEW f, NEW g, NEW n, NEW m, RingOK(size, f, n, m),
           \A i \in Slots(size) : g[i] = f[i]
    PROVE  RingOK(size, g, n, m)
BY DEF RingOK

\* A ring stays one when the next slot is filled.
LEMMA RingFilled ==
    ASSUME NEW size \in Nat, NEW f, NEW g, NEW n, NEW m, RingOK(size, f, n, m), NEW s \in Nat,
           \A i \in Slots(size) : f[i] \in Nat /\ f[i] < s,
           \A i \in Slots(size) : g[i] = IF i = n THEN s ELSE f[i]
    PROVE  RingOK(size, g, After(size, n), Grown(size, m))
<1> DEFINE a == After(size, n)
           b == Grown(size, m)
<1>1. n \in Nat /\ n < size /\ m \in Nat /\ m <= size /\ (m < size => n = m)
  BY DEF RingOK, Slots
<1>2. a \in Slots(size) /\ b \in 0 .. size /\ (b < size => a = b)
  BY <1>1 DEF After, Grown, Slots
<1>3. \A i \in Slots(size) : i < b <=> i < m \/ i = n
  BY <1>1 DEF Grown, Slots
<1>4. s > 0
  BY <1>1 DEF Slots
<1>5. ASSUME NEW i \in Slots(size)
      PROVE  IF i < b THEN g[i] > 0 ELSE g[i] = None
  BY <1>3, <1>4 DEF RingOK
<1>6. ASSUME NEW i \in Slots(size), NEW k \in Slots(size), i < b, k < b
      PROVE  /\ i < k /\ (k < a \/ a <= i) => g[i] < g[k]
             /\ i < a /\ a <= k => g[k] < g[i]
  <2>1. i \in Nat /\ k \in Nat /\ i < size /\ k < size
    BY DEF Slots
  <2>2. (i < m \/ i = n) /\ (k < m \/ k = n)
    BY <1>3, <1>6
  <2>3. /\ f[i] \in Nat /\ f[i] < s /\ f[k] \in Nat /\ f[k] < s
        /\ g[i] = (IF i = n THEN s ELSE f[i]) /\ g[k] = (IF k = n THEN s ELSE f[k])
    OBVIOUS
  <2>4. i < m /\ k < m => /\ i < k /\ (k < n \/ n <= i) => f[i] < f[k]
                          /\ i < n /\ n <= k => f[k] < f[i]
    BY DEF RingOK
  <2>5. (n + 1 < size /\ a = n + 1) \/ (n + 1 = size /\ a = 0)
    BY <1>1 DEF After
  <2> HIDE DEF a, b
  <2> QED BY <1>1, <2>1, <2>2, <2>3, <2>4, <2>5
<1> QED BY <1>2, <1>5, <1>6 DEF RingOK

\* A slot counted from the next one.
LEMMA Rotated ==
    ASSUME NEW size \in Nat, NEW n \in Slots(size), NEW a \in Slots(size)
    PROVE  /\ (n + a) % size \in Slots(size)
           /\ (n + a) % size = IF n + a < size THEN n + a ELSE n + a - size
<1>1. n \in Nat /\ n < size /\ a \in Nat /\ a < size
  BY DEF Slots
<1>2. CASE n + a < size
  BY <1>1, <1>2 DEF Slots
<1>3. CASE n + a >= size
  <2>1. (n + a) - size \in 0 .. size - 1 /\ (n + a) = ((n + a) - size) + size
    BY <1>1, <1>3
  <2>2. (n + a) % size = (n + a) - size
    BY <1>1, <1>3, <2>1
  <2> QED BY <1>1, <1>3, <2>1, <2>2 DEF Slots
<1> QED BY <1>1, <1>2, <1>3

\* Read from the next slot on, a ring is in the order of its snapshots.
LEMMA RingRead ==
    ASSUME NEW size \in Nat, NEW f, NEW n, NEW m, RingOK(size, f, n, m),
           NEW a \in Slots(size), NEW b \in Slots(size), a < b, f[(n + b) % size] # None,
           \A i \in Slots(size) : f[i] \in Nat
    PROVE  f[(n + a) % size] < f[(n + b) % size]
<1> DEFINE i == (n + a) % size
           k == (n + b) % size
<1>1. n \in Slots(size) /\ m \in Nat /\ m <= size /\ (m < size => n = m)
  BY DEF RingOK
<1>2. /\ i \in Slots(size) /\ k \in Slots(size)
      /\ i = (IF n + a < size THEN n + a ELSE n + a - size)
      /\ k = (IF n + b < size THEN n + b ELSE n + b - size)
  BY <1>1, Rotated
<1>3. /\ IF i < m THEN f[i] > 0 ELSE f[i] = None
      /\ IF k < m THEN f[k] > 0 ELSE f[k] = None
      /\ i < m /\ k < m => /\ i < k /\ (k < n \/ n <= i) => f[i] < f[k]
                           /\ k < n /\ n <= i => f[i] < f[k]
  BY <1>2 DEF RingOK
<1> HIDE DEF i, k
<1>4. /\ n \in Nat /\ n < size /\ a \in Nat /\ b \in Nat /\ b < size /\ a < size
      /\ i \in Nat /\ k \in Nat /\ f[i] \in Nat /\ f[k] \in Nat
  BY <1>1, <1>2 DEF Slots
<1>5. k < m
  BY <1>3 DEF k
<1>6. f[i] < f[k]
  <2>1. CASE i < m
    BY <1>1, <1>2, <1>3, <1>4, <1>5, <2>1
  <2>2. CASE ~(i < m)
    <3>1. f[k] > 0
      BY <1>3, <1>5
    <3>2. f[i] = 0
      BY <1>3, <2>2 DEF None
    <3> QED BY <3>1, <3>2
  <2> QED BY <2>1, <2>2
<1> QED BY <1>6 DEF i, k

\* A restart finds the ring where it was.
LEMMA RingRestored ==
    ASSUME HistoryTypeInv, NEW size \in Sizes, NEW n, NEW m, RingOK(size, disk, n, m)
    PROVE  /\ \A i \in Slots(size) : i \in Usable(size) <=> i < m
           /\ \A i \in Slots(size) : i \notin Usable(size) => disk[i] = None
           /\ Cardinality(Usable(size)) = m
           /\ Resume(size) = n
<1>1. size \in Nat /\ size >= 1 /\ Slots(size) \subseteq Slot
  BY SlotsFit
<1>2. n \in Nat /\ n < size /\ m \in Nat /\ m <= size /\ (m < size => n = m)
  BY <1>1 DEF RingOK, Slots
<1>3. \A i \in Slots(size) : (i \in Usable(size) <=> i < m) /\ (i < m \/ disk[i] = None)
  BY DEF RingOK, Usable, None, Empty
<1>4. Usable(size) = 0 .. m - 1
  BY <1>1, <1>2, <1>3 DEF Usable, Slots
<1>5. Cardinality(Usable(size)) = m
  BY <1>2, <1>4, FS_Interval
<1>6. Resume(size) = n
  <2>1. CASE m = 0
    BY <1>1, <1>2, <1>4, <2>1 DEF Resume
  <2>2. CASE m > 0
    <3> DEFINE k == Newest(Usable(size))
               p == IF n = 0 THEN size - 1 ELSE n - 1
    <3>1. Usable(size) # {}
      <4>1. 0 \in 0 .. m - 1
        BY <1>2, <2>2
      <4> QED BY <1>4, <4>1
    <3>2. k \in Usable(size) /\ \A i \in Usable(size) : disk[i] <= disk[k]
      BY <3>1, NewestIsNewest
    <3>3. p \in Slots(size) /\ p < m /\ p \in Nat /\ p < size
      BY <1>1, <1>2, <2>2 DEF Slots
    <3>4. k \in Slots(size) /\ k < m /\ k \in Nat /\ disk[k] \in Int /\ disk[p] \in Int
      BY <1>1, <1>2, <1>3, <1>4, <3>2, <3>3 DEF Usable, HistoryTypeInv, Empty
    <3>5. disk[p] <= disk[k]
      BY <1>3, <3>2, <3>3
    <3>6. /\ k < p /\ (p < n \/ n <= k) => disk[k] < disk[p]
          /\ p < n /\ n <= k => disk[k] < disk[p]
      BY <3>3, <3>4 DEF RingOK
    <3> HIDE DEF k
    <3>7. k = p
      BY <1>1, <1>2, <3>3, <3>4, <3>5, <3>6
    <3>8. (p + 1) % size = n
      BY <1>1, <1>2, <3>3, Around
    <3> QED BY <3>1, <3>7, <3>8 DEF Resume, k
  <2> QED BY <1>2, <2>1, <2>2
<1> QED BY <1>3, <1>5, <1>6

LEMMA InitAdvertised == Init => AdvertisedInv
<1> SUFFICES ASSUME Init PROVE RingInv /\ ReceiverInv
  BY DEF AdvertisedInv
<1>1. historySize \in Nat /\ historySize >= 1 /\ Slots(historySize) \subseteq Slot
  BY SlotsFit DEF Init, HistoryInit
<1>2. RingOK(historySize, history, historyNext, historyCount)
  <2>1. 0 \in Slots(historySize) /\ 0 \in 0 .. historySize
    BY <1>1 DEF Slots
  <2>2. \A i \in Slots(historySize) : i \in Nat /\ history[i] = None
    BY <1>1 DEF Init, HistoryInit, Slots
  <2>3. historyNext = 0 /\ historyCount = 0
    BY DEF Init, HistoryInit
  <2> QED BY <2>1, <2>2, <2>3 DEF RingOK
<1> QED BY <1>1, <1>2 DEF Init, HistoryInit, RingInv, ReceiverInv, OnDisk

\* Nothing repairs a fault.
LEMMA FaultStays == Next => (intact' => intact)
<1> SUFFICES ASSUME Next, intact' PROVE intact
  OBVIOUS
<1>1. Fault => FALSE
  BY Zenon DEF Fault
<1>2. CASE Record \/ ToStats \/ Tick \/ Crash \/ Advance
  BY <1>2, Zenon
     DEF Record, Snapshot, ToStats, Tick, PeriodicDone, Crash, CrashHistory, Advance
<1>3. CASE WriteInitialFiles \/ UpdateReceiver \/ WriteHistory
  BY <1>1, <1>3, Zenon DEF WriteInitialFiles, UpdateReceiver, WriteReceiver, WriteHistory
<1>4. CASE Outage
  BY <1>1, <1>4, Zenon DEF Outage, LoseFile, Start
<1>5. CASE (\E g \in Demods \cup Remotes : Feed(g)) \/ (\E r \in Reporters : Report(r))
  <2>1. intact' = intact
    BY <1>5, Zenon DEF Feed, Report, historyVars
  <2> QED BY <2>1
<1> QED BY <1>2, <1>3, <1>4, <1>5, Zenon DEF Next, Write, HistoryStep

\* receiver.json is written.
LEMMA ReceiverAdvertised ==
    ASSUME HistoryTypeInv, RingInv, ReceiverInv, intact', WriteInitialFiles \/ UpdateReceiver
    PROVE  RingInv' /\ ReceiverInv'
<1>1. /\ step \in {"initial", "receiver"} /\ step' \in {"idle", "stats"}
      /\ receiver' = historyCount + 1
      /\ UNCHANGED <<historySize, history, historyNext, historyCount, disk, stamp>>
  BY Zenon DEF WriteInitialFiles, UpdateReceiver, WriteReceiver, Fault, getHistoryCount
<1>2. OnDisk /\ RingOK(historySize, history, historyNext, historyCount)
  BY <1>1 DEF RingInv
<1>3. RingInv'
  BY <1>1, <1>2 DEF RingInv, OnDisk
<1>4. receiver' - 1 = historyCount
  BY <1>1 DEF HistoryTypeInv
<1>5. \A i \in Slots(historyCount) : disk[i] # None
  BY <1>2, SlotsFit DEF HistoryTypeInv, OnDisk, RingOK, Slots, None
<1> QED BY <1>1, <1>3, <1>4, <1>5 DEF ReceiverInv

\* The snapshot goes to disk.
LEMMA WrittenAdvertised ==
    ASSUME HistoryTypeInv, RingInv, ReceiverInv, intact', WriteHistory
    PROVE  RingInv' /\ ReceiverInv'
<1>1. /\ step = "file" /\ step' = "advance"
      /\ disk' = [disk EXCEPT ![historyNext] = history[historyNext]]
      /\ UNCHANGED <<historySize, history, historyNext, historyCount, receiver, stamp>>
  BY Zenon DEF WriteHistory, Fault
<1>2. /\ RingOK(historySize, disk, historyNext, historyCount)
      /\ \A i \in Slots(historySize) :
             /\ disk[i] < stamp
             /\ history[i] = IF i = historyNext THEN stamp ELSE disk[i]
  BY <1>1 DEF RingInv
<1>3. /\ historySize \in Nat /\ Slots(historySize) \subseteq Slot
      /\ historyNext \in Slots(historySize) /\ historyCount <= historySize
      /\ stamp \in Nat
  BY <1>2, SlotsFit DEF HistoryTypeInv, RingOK
<1>4. \A i \in Slots(historySize) : disk[i] \in Nat /\ disk[i] < stamp
  BY <1>2, <1>3 DEF RingOK, None, HistoryTypeInv, Empty
<1>5. RingOK(historySize, history, After(historySize, historyNext),
             Grown(historySize, historyCount))
  BY <1>2, <1>3, <1>4, RingFilled
<1>6. stamp > 0 /\ history[historyNext] = stamp
  BY <1>2, <1>3, <1>4
<1>7. OnDisk'
  BY <1>1, <1>2, <1>3 DEF OnDisk, HistoryTypeInv
<1>8. RingInv'
  BY <1>1, <1>3, <1>5, <1>7 DEF RingInv
<1>9. \A i : disk[i] # None => disk'[i] # None
  BY <1>1, <1>3, <1>6 DEF HistoryTypeInv, None
<1> QED BY <1>1, <1>8, <1>9 DEF ReceiverInv

\* The ring moves on.
LEMMA MovedAdvertised ==
    ASSUME HistoryTypeInv, RingInv, ReceiverInv, Advance
    PROVE  RingInv' /\ ReceiverInv'
<1>1. /\ step = "advance" /\ historyNext' = (historyNext + 1) % historySize
      /\ historyCount' = IF historyCount < historySize THEN historyCount + 1 ELSE historyCount
      /\ step' \in {"receiver", "stats"}
      /\ UNCHANGED <<historySize, history, disk, receiver, stamp, intact>>
  BY DEF Advance
<1>2. historySize \in Nat /\ historyNext \in Nat /\ historyNext < historySize
  BY SlotsFit DEF HistoryTypeInv, Slots
<1>3. /\ historyNext' = After(historySize, historyNext)
      /\ historyCount' = Grown(historySize, historyCount)
  BY <1>1, <1>2, Around DEF After, Grown
<1> QED BY <1>1, <1>3 DEF RingInv, ReceiverInv, OnDisk

\* The process dies.
LEMMA CrashAdvertised ==
    ASSUME HistoryTypeInv, RingInv, ReceiverInv, Crash
    PROVE  RingInv' /\ ReceiverInv'
<1>1. /\ step # "down" /\ step' = "down" /\ history' = [i \in Slot |-> None]
      /\ historyCount' = 0 /\ UNCHANGED <<historySize, disk, receiver, stamp, intact>>
  BY DEF Crash, CrashHistory
<1>2. \E n, m : RingOK(historySize, disk, n, m)
  <2>1. CASE step = "file"
    BY <2>1 DEF RingInv
  <2>2. CASE step # "file"
    <3>1. OnDisk /\ \E n, m : RingOK(historySize, history, n, m)
      BY <1>1, <2>2 DEF RingInv, HistoryTypeInv
    <3> QED BY <3>1, RingSame DEF OnDisk
  <2> QED BY <2>1, <2>2
<1>3. \E n \in Slots(historySize), m \in 0 .. historySize : RingOK(historySize, disk, n, m)
  BY <1>2 DEF RingOK
<1>4. \A i \in Slots(historySize) : history'[i] = None
  BY <1>1, SlotsFit DEF HistoryTypeInv
<1> QED BY <1>1, <1>3, <1>4 DEF RingInv, ReceiverInv

\* The server is started again.
LEMMA StartAdvertised ==
    ASSUME HistoryTypeInv, RingInv, ReceiverInv, intact', Start
    PROVE  RingInv' /\ ReceiverInv'
<1>1. /\ step = "down" /\ step' = "initial" /\ UNCHANGED <<disk, receiver, stamp>>
      /\ restoreHistoryFromDisk(historySize)
  BY Zenon DEF Start, Fault
<1>2. PICK n, m : RingOK(historySize, disk, n, m)
  BY <1>1 DEF RingInv
<1>3. historySize \in Sizes /\ Slots(historySize) \subseteq Slot
  BY SlotsFit DEF HistoryTypeInv
<1>4. /\ \A i \in Slots(historySize) : i \notin Usable(historySize) => disk[i] = None
      /\ Cardinality(Usable(historySize)) = m
      /\ Resume(historySize) = n
  BY <1>2, <1>3, RingRestored
<1>5. /\ historySize' = historySize /\ historyCount' = m /\ historyNext' = n
      /\ \A i \in Slots(historySize) : history'[i] = disk[i]
  BY <1>1, <1>3, <1>4 DEF restoreHistoryFromDisk
<1>6. RingOK(historySize, history', n, m)
  BY <1>2, <1>5, RingSame
<1>7. OnDisk' /\ RingOK(historySize, history, historyNext, historyCount)'
  BY <1>1, <1>5, <1>6 DEF OnDisk
<1> QED BY <1>1, <1>7 DEF RingInv, ReceiverInv

LEMMA NextAdvertised ==
    HistoryTypeInv /\ AdvertisedInv /\ [Next]_vars => AdvertisedInv'
<1> SUFFICES ASSUME HistoryTypeInv, AdvertisedInv, [Next]_vars, intact'
             PROVE  RingInv' /\ ReceiverInv'
  BY DEF AdvertisedInv
<1>1. CASE UNCHANGED vars
  BY <1>1 DEF vars, historyVars, AdvertisedInv, RingInv, ReceiverInv, OnDisk
<1>2. CASE Next
  <2>1. RingInv /\ ReceiverInv
    BY <1>2, FaultStays, Zenon DEF AdvertisedInv
  <2>2. CASE Record
    <3>1. /\ step = "idle" /\ step' = "file" /\ stamp' = stamp + 1
          /\ history' = [history EXCEPT ![historyNext] = stamp + 1]
          /\ UNCHANGED <<historySize, historyNext, historyCount, disk, receiver, intact>>
      BY <2>2 DEF Record, Snapshot
    <3>2. OnDisk /\ RingOK(historySize, history, historyNext, historyCount)
      BY <2>1, <3>1 DEF RingInv
    <3>3. RingOK(historySize, disk, historyNext, historyCount)
      BY <3>2, RingSame DEF OnDisk
    <3>4. \A i \in Slots(historySize) :
              /\ disk[i] < stamp + 1
              /\ history'[i] = IF i = historyNext THEN stamp + 1 ELSE disk[i]
      BY <3>1, <3>2, SlotsFit DEF HistoryTypeInv, OnDisk
    <3> QED BY <2>1, <3>1, <3>3, <3>4 DEF RingInv, ReceiverInv
  <2>3. CASE ToStats \/ Tick
    <3>1. /\ step \in {"idle", "stats"} /\ step' \in {"idle", "stats"}
          /\ UNCHANGED <<historySize, history, historyNext, historyCount, disk, receiver,
                         stamp, intact>>
      BY <2>3 DEF ToStats, Tick, PeriodicDone
    <3> QED BY <2>1, <3>1 DEF RingInv, ReceiverInv, OnDisk
  <2>4. CASE (\E g \in Demods \cup Remotes : Feed(g)) \/ (\E r \in Reporters : Report(r))
    <3>1. UNCHANGED historyVars
      BY <2>4 DEF Feed, Report
    <3> QED BY <2>1, <3>1 DEF historyVars, RingInv, ReceiverInv, OnDisk
  <2>5. ~LoseFile
    BY Zenon DEF LoseFile, Fault
  <2> QED
    BY <1>2, <2>1, <2>2, <2>3, <2>4, <2>5, ReceiverAdvertised, WrittenAdvertised,
       MovedAdvertised, CrashAdvertised, StartAdvertised
       DEF Next, Write, HistoryStep, Outage
<1> QED BY <1>1, <1>2

\* Whatever receiver.json and the server advertise is there, in memory and on disk,
\* and in the order of the snapshots, for all sizes of the ring and with crashes
\* between any two steps, as long as no write was refused, no file lost and the size
\* kept (PeriodicUpdate, restoreHistoryFromDisk, WriteInitialFiles).
THEOREM AdvertisedStaysThere == Spec => []AdvertisedIsThere
<1>1. HistoryTypeInv /\ AdvertisedInv => AdvertisedIsThere
  <2> SUFFICES ASSUME HistoryTypeInv, RingInv, ReceiverInv
               PROVE  AdvertisedIsThere
    BY DEF AdvertisedInv, AdvertisedIsThere
  <2>1. historySize \in Nat /\ Slots(historySize) \subseteq Slot
    BY SlotsFit DEF HistoryTypeInv
  <2>2. \A i \in Slots(historyCount) : GetHistoryJSON(i) # None
    <3> SUFFICES ASSUME NEW i \in Slots(historyCount) PROVE GetHistoryJSON(i) # None
      OBVIOUS
    <3>1. CASE step \in {"initial", "idle", "receiver", "stats"}
      BY <2>1, <3>1 DEF RingInv, RingOK, Slots, GetHistoryJSON, None
    <3>2. CASE step = "file"
      <4>1. i \in Slots(historySize) /\ disk[i] > 0 /\ disk[i] < stamp
        BY <2>1, <3>2 DEF RingInv, RingOK, Slots
      <4>2. disk[i] \in Int
        BY <2>1, <4>1 DEF HistoryTypeInv, Empty
      <4>3. history[i] \in {stamp, disk[i]}
        BY <3>2, <4>1 DEF RingInv
      <4> QED BY <4>1, <4>2, <4>3 DEF GetHistoryJSON, None, HistoryTypeInv
    <3>3. CASE step = "advance"
      <4>1. /\ historyCount <= historySize
            /\ RingOK(historySize, history, After(historySize, historyNext),
                      Grown(historySize, historyCount))
        BY <3>3 DEF RingInv
      <4>2. i \in Slots(historySize) /\ i < Grown(historySize, historyCount)
        BY <2>1, <4>1 DEF Slots, Grown, HistoryTypeInv
      <4> QED BY <4>1, <4>2 DEF RingOK, GetHistoryJSON, None
    <3>4. CASE step = "down"
      BY <3>4 DEF RingInv, Slots
    <3> QED BY <3>1, <3>2, <3>3, <3>4 DEF HistoryTypeInv
  <2>3. ASSUME ~Locked, NEW a \in Slots(historySize), NEW b \in Slots(historySize), a < b,
               (historyNext + b) % historySize \in Populated
        PROVE  history[(historyNext + a) % historySize] < history[(historyNext + b) % historySize]
    <3>1. step # "down"
      BY <2>3 DEF RingInv, Populated
    <3>2. RingOK(historySize, history, historyNext, historyCount)
      BY <2>3, <3>1 DEF RingInv, Locked, HistoryTypeInv
    <3>3. history[(historyNext + b) % historySize] # None
      BY <2>3 DEF Populated
    <3>4. \A i \in Slots(historySize) : history[i] \in Nat
      BY <2>1 DEF HistoryTypeInv
    <3> QED BY <2>1, <2>3, <3>2, <3>3, <3>4, RingRead
  <2> QED BY <2>2, <2>3 DEF AdvertisedIsThere, ReceiverInv
<1>2. HistoryTypeInv /\ NewestInv /\ AdvertisedInv /\ [Next]_vars
        => HistoryTypeInv' /\ NewestInv' /\ AdvertisedInv'
  BY NextNewest, NextAdvertised
<1> QED BY <1>1, <1>2, InitNewest, InitAdvertised, PTL DEF Spec

------------------------------------------------------------------------------
(***************************************************************************)
(* Sums of windows.                                                        *)
(***************************************************************************)

\* Induction, over a set of numbers.
LEMMA Climbs ==
    ASSUME NEW S, 0 \in S, \A n \in Nat : n \in S => n + 1 \in S
    PROVE  \A n \in Nat : n \in S
<1> DEFINE T == {n \in Nat : n \notin S}
<1>1. SUFFICES ASSUME T # {} PROVE FALSE
  OBVIOUS
<1>2. PICK x \in T : \A y \in T : x <= y
  <2>1. T \subseteq Nat
    OBVIOUS
  <2> HIDE DEF T
  <2> QED BY <1>1, <2>1, Least
<1>3. x \in Nat /\ x # 0 /\ x - 1 \in Nat /\ (x - 1) + 1 = x
  OBVIOUS
<1>4. x - 1 \in S
  BY <1>2, <1>3
<1> QED BY <1>3, <1>4

Window == [Counter -> Nat]

\* The recursion of Sums is well-founded.
LEMMA SumsUnfold ==
    ASSUME NEW w, Len(w) \in Nat
    PROVE  Sums(w) = [n \in 0 .. Len(w) |-> IF n = 0 THEN Zero
                                            ELSE addStats(w[n], Sums(w)[n - 1])]
<1> DEFINE Is(N, f) == f = [n \in 0 .. N |-> IF n = 0 THEN Zero ELSE addStats(w[n], f[n - 1])]
           S == {N \in Nat : \E f : Is(N, f)}
<1>1. 0 \in S
  <2>1. Is(0, [n \in 0 .. 0 |-> Zero])
    OBVIOUS
  <2> QED BY <2>1
<1>2. ASSUME NEW N \in Nat, N \in S PROVE N + 1 \in S
  <2>1. PICK f : Is(N, f)
    BY <1>2
  <2> DEFINE g == [n \in 0 .. N + 1 |-> IF n = N + 1 THEN addStats(w[N + 1], f[N]) ELSE f[n]]
  <2>2. ASSUME NEW n \in 0 .. N + 1
        PROVE  g[n] = IF n = 0 THEN Zero ELSE addStats(w[n], g[n - 1])
    <3>1. CASE n = 0
      BY <2>1, <3>1
    <3>2. CASE n # 0 /\ n # N + 1
      <4>1. n \in 0 .. N /\ n - 1 \in 0 .. N + 1 /\ n - 1 # N + 1
        BY <3>2
      <4>2. g[n] = f[n] /\ g[n - 1] = f[n - 1]
        BY <4>1, <3>2
      <4>3. f[n] = addStats(w[n], f[n - 1])
        BY <2>1, <4>1, <3>2
      <4> QED BY <3>2, <4>2, <4>3
    <3>3. CASE n = N + 1
      <4>1. n # 0 /\ n - 1 = N /\ N \in 0 .. N + 1 /\ N # N + 1
        BY <3>3
      <4>2. g[n] = addStats(w[N + 1], f[N]) /\ g[N] = f[N]
        BY <4>1, <3>3
      <4> QED BY <3>3, <4>1, <4>2
    <3> QED BY <3>1, <3>2, <3>3
  <2>3. g = [n \in 0 .. N + 1 |-> g[n]]
    OBVIOUS
  <2> HIDE DEF g
  <2>4. Is(N + 1, g)
    BY <2>2, <2>3
  <2> QED BY <2>4
<1>3. Len(w) \in S
  <2> HIDE DEF S
  <2> QED BY <1>1, <1>2, Climbs
<1>4. \E f : Is(Len(w), f)
  BY <1>3
<1>5. Sums(w) = CHOOSE f : Is(Len(w), f)
  BY DEF Sums
<1> HIDE DEF Is
<1>6. Is(Len(w), Sums(w))
  BY <1>4, <1>5
<1> QED BY <1>6 DEF Is

\* What grows like the sums of a sequence of windows is the sums.
LEMMA SumsAre ==
    ASSUME NEW w, Len(w) \in Nat, NEW f, f[0] = Zero,
           \A n \in 1 .. Len(w) : f[n] = addStats(w[n], f[n - 1])
    PROVE  \A n \in 0 .. Len(w) : Sums(w)[n] = f[n]
<1> DEFINE S == {n \in Nat : n <= Len(w) => Sums(w)[n] = f[n]}
<1>1. 0 \in S
  BY SumsUnfold
<1>2. ASSUME NEW n \in Nat, n \in S PROVE n + 1 \in S
  <2> SUFFICES ASSUME n + 1 <= Len(w) PROVE Sums(w)[n + 1] = f[n + 1]
    OBVIOUS
  <2>1. n + 1 \in 1 .. Len(w) /\ n + 1 \in 0 .. Len(w) /\ (n + 1) - 1 = n /\ n + 1 # 0
    OBVIOUS
  <2>2. Sums(w)[n] = f[n]
    BY <1>2
  <2>3. Sums(w)[n + 1] = addStats(w[n + 1], Sums(w)[n])
    BY <2>1, SumsUnfold
  <2> QED BY <2>1, <2>2, <2>3
<1>3. \A n \in Nat : n \in S
  <2> HIDE DEF S
  <2> QED BY <1>1, <1>2, Climbs
<1> QED BY <1>3

\* The sums are windows, and each adds one to the sum before it.
LEMMA SumsType ==
    ASSUME NEW w, Len(w) \in Nat, \A n \in 1 .. Len(w) : w[n] \in Window
    PROVE  /\ Sums(w)[0] = Zero
           /\ \A n \in 0 .. Len(w) : Sums(w)[n] \in Window
           /\ \A n \in 1 .. Len(w) : Sums(w)[n] = addStats(w[n], Sums(w)[n - 1])
<1> DEFINE S == {n \in Nat : n <= Len(w) => Sums(w)[n] \in Window}
<1>1. Sums(w)[0] = Zero
  BY SumsUnfold
<1>2. ASSUME NEW n \in 1 .. Len(w)
      PROVE  Sums(w)[n] = addStats(w[n], Sums(w)[n - 1])
  <2>1. n \in 0 .. Len(w) /\ n # 0
    OBVIOUS
  <2> QED BY <2>1, SumsUnfold
<1>3. 0 \in S
  BY <1>1 DEF Zero, Window
<1>4. ASSUME NEW n \in Nat, n \in S PROVE n + 1 \in S
  <2> SUFFICES ASSUME n + 1 <= Len(w) PROVE Sums(w)[n + 1] \in Window
    OBVIOUS
  <2>1. n + 1 \in 1 .. Len(w) /\ (n + 1) - 1 = n
    OBVIOUS
  <2>2. Sums(w)[n] \in Window /\ w[n + 1] \in Window
    BY <1>4, <2>1
  <2>3. Sums(w)[n + 1] = addStats(w[n + 1], Sums(w)[n])
    BY <1>2, <2>1
  <2> QED BY <2>2, <2>3 DEF addStats, Window
<1>5. \A n \in Nat : n \in S
  <2> HIDE DEF S
  <2> QED BY <1>3, <1>4, Climbs
<1> QED BY <1>1, <1>2, <1>5

\* They never fall.
LEMMA SumsGrow ==
    ASSUME NEW w, Len(w) \in Nat, \A n \in 1 .. Len(w) : w[n] \in Window,
           NEW a \in 0 .. Len(w), NEW b \in a .. Len(w), NEW c \in Counter
    PROVE  Sums(w)[a][c] <= Sums(w)[b][c]
<1> DEFINE S == {d \in Nat : a + d <= Len(w) => Sums(w)[a][c] <= Sums(w)[a + d][c]}
<1>0. a \in Nat /\ b - a \in Nat /\ a + (b - a) = b /\ b <= Len(w)
  OBVIOUS
<1>1. 0 \in S
  <2>1. Sums(w)[a][c] \in Nat
    BY SumsType DEF Window
  <2> QED BY <1>0, <2>1
<1>2. ASSUME NEW d \in Nat, d \in S PROVE d + 1 \in S
  <2> SUFFICES ASSUME a + (d + 1) <= Len(w)
               PROVE Sums(w)[a][c] <= Sums(w)[a + (d + 1)][c]
    OBVIOUS
  <2>1. /\ a + (d + 1) \in 1 .. Len(w) /\ (a + (d + 1)) - 1 = a + d
        /\ a + d \in 0 .. Len(w) /\ a + d <= Len(w)
    BY <1>0
  <2>2. /\ Sums(w)[a + (d + 1)] = addStats(w[a + (d + 1)], Sums(w)[a + d])
        /\ Sums(w)[a + d] \in Window /\ w[a + (d + 1)] \in Window
        /\ Sums(w)[a] \in Window
    BY <2>1, SumsType
  <2>3. Sums(w)[a][c] <= Sums(w)[a + d][c]
    BY <1>2, <2>1
  <2>4. Sums(w)[a + (d + 1)][c] = Sums(w)[a + d][c] + w[a + (d + 1)][c]
    BY <2>2 DEF addStats
  <2> QED BY <2>2, <2>3, <2>4 DEF Window
<1>3. \A d \in Nat : d \in S
  <2> HIDE DEF S
  <2> QED BY <1>1, <1>2, Climbs
<1>4. b - a \in S
  BY <1>0, <1>3
<1> QED BY <1>0, <1>4

\* One more window leaves the sums of those before it.
LEMMA SumsAppend ==
    ASSUME NEW w \in Seq(Window), NEW x \in Window
    PROVE  /\ \A n \in 0 .. Len(w) : Sums(Append(w, x))[n] = Sums(w)[n]
           /\ Sums(Append(w, x))[Len(w) + 1] = addStats(x, Sums(w)[Len(w)])
<1> DEFINE v == Append(w, x)
           f == [n \in 0 .. Len(w) + 1 |-> IF n <= Len(w) THEN Sums(w)[n]
                                           ELSE addStats(x, Sums(w)[Len(w)])]
<1>1. /\ Len(w) \in Nat /\ Len(v) = Len(w) + 1 /\ v[Len(w) + 1] = x
      /\ \A n \in 1 .. Len(w) : v[n] = w[n] /\ w[n] \in Window
  OBVIOUS
<1>2. f[0] = Zero
  BY <1>1, SumsType
<1>3. ASSUME NEW n \in 1 .. Len(v) PROVE f[n] = addStats(v[n], f[n - 1])
  <2>1. n - 1 \in 0 .. Len(w) /\ n - 1 <= Len(w) /\ n \in 0 .. Len(w) + 1
    BY <1>1
  <2>2. f[n - 1] = Sums(w)[n - 1]
    BY <1>1, <2>1
  <2>3. CASE n <= Len(w)
    <3>1. n \in 1 .. Len(w)
      BY <2>3, <1>1
    <3> QED BY <1>1, <2>1, <2>2, <2>3, <3>1, SumsType
  <2>4. CASE n = Len(w) + 1
    BY <1>1, <2>1, <2>2, <2>4
  <2> QED BY <1>1, <2>1, <2>3, <2>4
<1> HIDE DEF v
<1>4. \A n \in 0 .. Len(v) : Sums(v)[n] = f[n]
  <2> HIDE DEF f
  <2> QED BY <1>1, <1>2, <1>3, SumsAre
<1> QED BY <1>1, <1>4 DEF v

\* What the windows of seq after the first a of them count, up to the b-th;
\* and the n windows that end with the m-th.
Span(seq, a, b) == [c \in Counter |-> Sums(seq)[b][c] - Sums(seq)[a][c]]
Past(seq, n, m) == Span(seq, m - (IF n < m THEN n ELSE m), m)

LEMMA SeqType ==
    ASSUME NEW w \in Seq(Window)
    PROVE  /\ Len(w) \in Nat /\ \A n \in 1 .. Len(w) : w[n] \in Window
           /\ Sums(w)[0] = Zero
           /\ \A n \in 0 .. Len(w) : Sums(w)[n] \in Window
           /\ \A n \in 0 .. Len(w), c \in Counter : Sums(w)[n][c] \in Nat
           /\ \A n \in 1 .. Len(w), c \in Counter :
                  /\ w[n][c] \in Nat
                  /\ Sums(w)[n][c] = Sums(w)[n - 1][c] + w[n][c]
<1>1. Len(w) \in Nat /\ \A n \in 1 .. Len(w) : w[n] \in Window
  OBVIOUS
<1>2. /\ Sums(w)[0] = Zero
      /\ \A n \in 0 .. Len(w) : Sums(w)[n] \in Window
      /\ \A n \in 1 .. Len(w) : Sums(w)[n] = addStats(w[n], Sums(w)[n - 1])
  BY <1>1, SumsType
<1>3. ASSUME NEW n \in 1 .. Len(w), NEW c \in Counter
      PROVE  Sums(w)[n][c] = Sums(w)[n - 1][c] + w[n][c]
  BY <1>2 DEF addStats
<1> QED BY <1>1, <1>2, <1>3 DEF Window

LEMMA StoredIs ==
    ASSUME NEW x \in Window
    PROVE  Stored(x) = x /\ Stored(Unused) = Zero
<1>1. x["preambles"] \in Nat /\ Unused["preambles"] = -1
  BY DEF Window, Counter, Unused
<1> QED BY <1>1 DEF Stored

\* The total of a stretch of a sequence is a difference of sums.
LEMMA TotalSpan ==
    ASSUME NEW w \in Seq(Window), NEW a \in 0 .. Len(w), NEW b \in a .. Len(w)
    PROVE  Total(SubSeq(w, a + 1, b)) = Span(w, a, b)
<1> DEFINE v == SubSeq(w, a + 1, b)
           f == [n \in 0 .. b - a |-> Span(w, a, a + n)]
<1>1. /\ Len(w) \in Nat /\ a \in Nat /\ b \in Nat /\ a <= b /\ b <= Len(w)
      /\ b - a \in Nat /\ a + (b - a) = b
  OBVIOUS
<1>2. Len(v) = b - a /\ \A n \in 1 .. b - a : v[n] = w[a + n]
  BY <1>1
<1>3. f[0] = Zero
  BY <1>1, SeqType DEF Span, Zero
<1>4. ASSUME NEW n \in 1 .. b - a PROVE f[n] = addStats(w[a + n], f[n - 1])
  <2>1. /\ n \in 0 .. b - a /\ n - 1 \in 0 .. b - a
        /\ a + n \in 1 .. Len(w) /\ (a + n) - 1 = a + (n - 1)
        /\ a + (n - 1) \in 0 .. Len(w) /\ a + n \in 0 .. Len(w)
    BY <1>1
  <2>2. f[n] = Span(w, a, a + n) /\ f[n - 1] = Span(w, a, a + (n - 1))
    BY <2>1
  <2>3. ASSUME NEW c \in Counter
        PROVE  Span(w, a, a + n)[c] = Span(w, a, a + (n - 1))[c] + w[a + n][c]
    <3>1. /\ Sums(w)[a + n][c] = Sums(w)[a + (n - 1)][c] + w[a + n][c]
          /\ w[a + n][c] \in Nat /\ Sums(w)[a + (n - 1)][c] \in Nat /\ Sums(w)[a][c] \in Nat
      BY <2>1, SeqType
    <3>2. /\ Span(w, a, a + n)[c] = Sums(w)[a + n][c] - Sums(w)[a][c]
          /\ Span(w, a, a + (n - 1))[c] = Sums(w)[a + (n - 1)][c] - Sums(w)[a][c]
      BY DEF Span
    <3> QED BY <3>1, <3>2
  <2>4. Span(w, a, a + n) = [c \in Counter |-> Span(w, a, a + n)[c]]
    BY DEF Span
  <2>5. Span(w, a, a + n) = addStats(w[a + n], Span(w, a, a + (n - 1)))
    BY <2>3, <2>4 DEF addStats
  <2> QED BY <2>2, <2>5
<1> HIDE DEF v
<1>5. \A n \in 0 .. Len(v) : Sums(v)[n] = f[n]
  <2>1. \A n \in 1 .. Len(v) : f[n] = addStats(v[n], f[n - 1])
    BY <1>2, <1>4
  <2> HIDE DEF f
  <2> QED BY <1>1, <1>2, <1>3, <2>1, SumsAre
<1>6. Total(v) = f[b - a]
  BY <1>1, <1>2, <1>5 DEF Total
<1> QED BY <1>1, <1>6 DEF v

\* The n windows that end with the m-th.
LEMMA TotalPast ==
    ASSUME NEW w \in Seq(Window), NEW n \in Nat
    PROVE  Total(LastOf(n, w)) = Past(w, n, Len(w))
<1> DEFINE k == IF n < Len(w) THEN n ELSE Len(w)
<1>1. /\ Len(w) \in Nat /\ k \in Nat /\ k <= Len(w)
      /\ Len(w) - k \in 0 .. Len(w) /\ Len(w) \in (Len(w) - k) .. Len(w)
      /\ (1 + Len(w)) - k = (Len(w) - k) + 1
  OBVIOUS
<1>2. LastOf(n, w) = SubSeq(w, (Len(w) - k) + 1, Len(w))
  <2>1. 1 + Len(w) - (IF n < Len(w) THEN n ELSE Len(w)) = (Len(w) - k) + 1
    BY <1>1
  <2> QED BY <2>1 DEF LastOf
<1>3. Past(w, n, Len(w)) = Span(w, Len(w) - k, Len(w))
  BY DEF Past
<1> HIDE DEF k
<1> QED BY <1>1, <1>2, <1>3, TotalSpan

------------------------------------------------------------------------------
(***************************************************************************)
(* The ring of windows.                                                    *)
(***************************************************************************)

\* The window a slot holds when there were n of them and the last is in slot k.
Held(n, k, i) == (n - k) + (i - (IF i > k THEN Windows ELSE 0))

RingHolds(r, k, w) ==
    /\ k \in 0 .. Windows - 1
    /\ Len(w) <= Windows => k = IF Len(w) = 0 THEN Windows - 1 ELSE Len(w) - 1
    /\ \A i \in 0 .. Windows - 1 :
           r[i] = IF Held(Len(w), k, i) >= 1 THEN w[Held(Len(w), k, i)] ELSE Unused

LEMMA RingNext ==
    ASSUME NEW w \in Seq(Window), NEW r, NEW k, RingHolds(r, k, w), NEW x \in Window,
           DOMAIN r = 0 .. Windows - 1
    PROVE  RingHolds([r EXCEPT ![(k + 1) % Windows] = x], (k + 1) % Windows, Append(w, x))
<1> DEFINE j == (k + 1) % Windows
           v == Append(w, x)
           L == Len(w)
           s == [r EXCEPT ![j] = x]
<1>1. /\ Windows \in Nat /\ Windows >= 1 /\ k \in Nat /\ k < Windows /\ L \in Nat
      /\ Len(v) = L + 1 /\ v[L + 1] = x /\ \A n \in 1 .. L : v[n] = w[n]
      /\ L <= Windows => k = IF L = 0 THEN Windows - 1 ELSE L - 1
  BY StatsAssumption DEF StatsAssumption, RingHolds
<1>2. j = IF k + 1 < Windows THEN k + 1 ELSE 0
  BY <1>1, Around
<1> HIDE DEF j, v, L
<1>3. /\ j \in 0 .. Windows - 1 /\ j \in Nat
      /\ L + 1 <= Windows => j = (L + 1) - 1
  BY <1>1, <1>2
<1>4. ASSUME NEW i \in 0 .. Windows - 1
      PROVE  s[i] = IF Held(L + 1, j, i) >= 1 THEN v[Held(L + 1, j, i)] ELSE Unused
  <2>0. i \in Nat /\ i < Windows
    BY <1>1
  <2>1. CASE i = j
    <3>1. Held(L + 1, j, i) = L + 1
      BY <1>1, <1>3, <2>1 DEF Held
    <3> QED BY <1>1, <1>3, <2>1, <3>1
  <2>2. CASE i # j
    <3>1. Held(L + 1, j, i) = Held(L, k, i) /\ Held(L, k, i) \in Int /\ Held(L, k, i) <= L
      <4>1. Windows \in Nat /\ k \in Nat /\ k < Windows /\ L \in Nat
        BY <1>1
      <4>2. CASE k + 1 < Windows
        BY <1>2, <2>0, <2>2, <4>1, <4>2 DEF Held
      <4>3. CASE k + 1 = Windows
        BY <1>2, <2>0, <2>2, <4>1, <4>3 DEF Held
      <4> QED BY <4>1, <4>2, <4>3
    <3>2. r[i] = IF Held(L, k, i) >= 1 THEN w[Held(L, k, i)] ELSE Unused
      BY DEF RingHolds, L
    <3>3. s[i] = r[i]
      BY <2>2
    <3>4. Held(L, k, i) >= 1 => Held(L, k, i) \in 1 .. L
      BY <3>1, <1>1
    <3> QED BY <1>1, <3>1, <3>2, <3>3, <3>4
  <2> QED BY <2>1, <2>2
<1> HIDE DEF s
<1>5. RingHolds(s, j, v)
  BY <1>1, <1>3, <1>4 DEF RingHolds
<1> QED BY <1>5 DEF s, j, v

\* The last five minutes.
LEMMA RecentTotal ==
    ASSUME NEW w \in Seq(Window), NEW r, NEW k, RingHolds(r, k, w)
    PROVE  Total(Filled(Recent(k), r)) = Past(w, Short, Len(w))
<1> DEFINE L == Len(w)
           v == Filled(Recent(k), r)
           f == [n \in 0 .. Short |-> Past(w, n, L)]
<1>1. /\ Windows \in Nat /\ Windows >= 1 /\ k \in Nat /\ k < Windows /\ L \in Nat
      /\ Short \in Nat /\ Short <= Windows
  BY StatsAssumption DEF StatsAssumption, RingHolds
<1>2. Len(v) = Short
  BY <1>1 DEF Filled, Recent
<1>3. ASSUME NEW n \in 1 .. Short
      PROVE  v[n] = IF L - n >= 0 THEN w[(L - n) + 1] ELSE Zero
  <2> DEFINE i == ((k - (n - 1)) + Windows) % Windows
             h == (L - n) + 1
  <2>0. n \in Nat /\ n >= 1 /\ n <= Windows
    BY <1>1
  <2>1. /\ i \in 0 .. Windows - 1
        /\ i = IF n - 1 <= k THEN k - (n - 1) ELSE (k - (n - 1)) + Windows
    <3>1. CASE n - 1 <= k
      <4>1. k - (n - 1) \in 0 .. Windows - 1
        BY <1>1, <2>0, <3>1
      <4> QED BY <1>1, <2>0, <3>1, <4>1
    <3>2. CASE n - 1 > k
      <4>1. (k - (n - 1)) + Windows \in 0 .. Windows - 1
        BY <1>1, <2>0, <3>2
      <4> QED BY <1>1, <2>0, <3>2, <4>1
    <3> QED BY <1>1, <2>0, <3>1, <3>2
  <2>2. v[n] = Stored(r[i])
    <3>1. Recent(k)[n] = i /\ n \in DOMAIN Recent(k)
      BY DEF Recent
    <3> QED BY <3>1 DEF Filled
  <2> HIDE DEF i
  <2>3. Held(L, k, i) = h
    BY <1>1, <2>0, <2>1 DEF Held
  <2>4. r[i] = IF h >= 1 THEN w[h] ELSE Unused
    BY <2>1, <2>3 DEF RingHolds
  <2>5. CASE h >= 1
    <3>1. w[h] \in Window
      BY <1>1, <2>0, <2>5
    <3> QED BY <1>1, <2>0, <2>2, <2>4, <2>5, <3>1, StoredIs
  <2>6. CASE ~(h >= 1)
    <3>1. Zero \in Window
      BY DEF Zero, Window
    <3> QED BY <1>1, <2>0, <2>2, <2>4, <2>6, <3>1, StoredIs
  <2> QED BY <2>5, <2>6
<1>4. f[0] = Zero
  <2>1. L - (IF 0 < L THEN 0 ELSE L) = L
    BY <1>1
  <2>2. Past(w, 0, L) = Span(w, L, L)
    BY <2>1 DEF Past
  <2>3. \A c \in Counter : Sums(w)[L][c] - Sums(w)[L][c] = 0
    BY <1>1, SeqType
  <2> QED BY <1>1, <2>2, <2>3 DEF Span, Zero
<1>5. ASSUME NEW n \in 1 .. Short PROVE f[n] = addStats(v[n], f[n - 1])
  <2>1. /\ n \in 0 .. Short /\ n - 1 \in 0 .. Short /\ n \in Nat /\ n >= 1
        /\ f[n] = Past(w, n, L) /\ f[n - 1] = Past(w, n - 1, L)
    BY <1>1
  <2>2. CASE n <= L
    <3>1. Past(w, n, L) = Span(w, L - n, L) /\ Past(w, n - 1, L) = Span(w, (L - n) + 1, L)
      <4>1. L - (IF n < L THEN n ELSE L) = L - n
        BY <1>1, <2>1, <2>2
      <4>2. L - (IF n - 1 < L THEN n - 1 ELSE L) = (L - n) + 1
        <5>1. n - 1 < L /\ n - 1 \in Int /\ L \in Int /\ n \in Int
          BY <1>1, <2>1, <2>2
        <5> HIDE DEF L
        <5> QED BY <5>1
      <4> QED BY <4>1, <4>2 DEF Past
    <3>2. (L - n) + 1 \in 1 .. L /\ L - n \in 0 .. L /\ ((L - n) + 1) - 1 = L - n
      BY <1>1, <2>1, <2>2
    <3>3. ASSUME NEW c \in Counter
          PROVE  Span(w, L - n, L)[c] = Span(w, (L - n) + 1, L)[c] + w[(L - n) + 1][c]
      <4>1. /\ Sums(w)[(L - n) + 1][c] = Sums(w)[L - n][c] + w[(L - n) + 1][c]
            /\ w[(L - n) + 1][c] \in Nat /\ Sums(w)[L - n][c] \in Nat /\ Sums(w)[L][c] \in Nat
        <5>1. ASSUME NEW h \in 1 .. L, NEW g \in 0 .. L, h - 1 = g
              PROVE  /\ Sums(w)[h][c] = Sums(w)[g][c] + w[h][c]
                     /\ w[h][c] \in Nat /\ Sums(w)[g][c] \in Nat
          BY <5>1, SeqType
        <5>2. Sums(w)[L][c] \in Nat
          BY <1>1, SeqType
        <5> HIDE DEF L
        <5> QED BY <3>2, <5>1, <5>2
      <4>2. /\ Span(w, L - n, L)[c] = Sums(w)[L][c] - Sums(w)[L - n][c]
            /\ Span(w, (L - n) + 1, L)[c] = Sums(w)[L][c] - Sums(w)[(L - n) + 1][c]
        BY DEF Span
      <4> QED BY <4>1, <4>2
    <3>4. Span(w, L - n, L) = [c \in Counter |-> Span(w, L - n, L)[c]]
      BY DEF Span
    <3>5. Span(w, L - n, L) = addStats(w[(L - n) + 1], Span(w, (L - n) + 1, L))
      BY <3>3, <3>4 DEF addStats
    <3>6. v[n] = w[(L - n) + 1]
      BY <1>1, <1>3, <2>1, <2>2
    <3> QED BY <2>1, <3>1, <3>5, <3>6
  <2>3. CASE n > L
    <3>1. v[n] = Zero /\ Past(w, n, L) = Past(w, n - 1, L)
      <4>1. L - (IF n < L THEN n ELSE L) = L - (IF n - 1 < L THEN n - 1 ELSE L)
        BY <1>1, <2>1, <2>3
      <4>2. ~(L - n >= 0)
        BY <1>1, <2>1, <2>3
      <4> QED BY <1>3, <4>1, <4>2 DEF Past
    <3>2. addStats(Zero, Past(w, n - 1, L)) = Past(w, n - 1, L)
      <4>1. L - (IF n - 1 < L THEN n - 1 ELSE L) \in 0 .. L
        BY <1>1, <2>1
      <4>2. \A c \in Counter : Past(w, n - 1, L)[c] \in Int
        BY <1>1, <4>1, SeqType DEF Past, Span
      <4>3. Past(w, n - 1, L) = [c \in Counter |-> Past(w, n - 1, L)[c]]
        BY DEF Past, Span
      <4>4. \A c \in Counter : Past(w, n - 1, L)[c] + Zero[c] = Past(w, n - 1, L)[c]
        BY <4>2 DEF Zero
      <4> QED BY <4>3, <4>4 DEF addStats
    <3> QED BY <2>1, <3>1, <3>2
  <2> QED BY <1>1, <2>1, <2>2, <2>3
<1> HIDE DEF v
<1>6. \A n \in 0 .. Len(v) : Sums(v)[n] = f[n]
  <2> HIDE DEF f
  <2> QED BY <1>1, <1>2, <1>4, <1>5, SumsAre
<1>7. Total(v) = f[Short]
  BY <1>1, <1>2, <1>6 DEF Total
<1> QED BY <1>1, <1>7 DEF v

\* A stretch and the window after it.
LEMMA SpanNext ==
    ASSUME NEW w \in Seq(Window), NEW a \in 0 .. Len(w), NEW b \in a .. Len(w), b < Len(w)
    PROVE  /\ Span(w, a, b + 1) = addStats(w[b + 1], Span(w, a, b))
           /\ \A c \in Counter : /\ w[b + 1][c] \in Nat
                                 /\ Span(w, a, b)[c] \in Int
                                 /\ Span(w, a, b + 1)[c] = Span(w, a, b)[c] + w[b + 1][c]
<1>1. /\ a \in Nat /\ b \in Nat /\ b + 1 \in 1 .. Len(w) /\ (b + 1) - 1 = b
      /\ b \in 0 .. Len(w) /\ b + 1 \in 0 .. Len(w)
  OBVIOUS
<1>2. ASSUME NEW c \in Counter
      PROVE  /\ w[b + 1][c] \in Nat
             /\ Span(w, a, b)[c] \in Int
             /\ Span(w, a, b + 1)[c] = Span(w, a, b)[c] + w[b + 1][c]
  <2>1. /\ Sums(w)[b + 1][c] = Sums(w)[b][c] + w[b + 1][c]
        /\ w[b + 1][c] \in Nat /\ Sums(w)[b][c] \in Nat /\ Sums(w)[a][c] \in Nat
    BY <1>1, SeqType
  <2>2. /\ Span(w, a, b + 1)[c] = Sums(w)[b + 1][c] - Sums(w)[a][c]
        /\ Span(w, a, b)[c] = Sums(w)[b][c] - Sums(w)[a][c]
    BY DEF Span
  <2> QED BY <2>1, <2>2
<1>3. Span(w, a, b + 1) = [c \in Counter |-> Span(w, a, b + 1)[c]]
  BY DEF Span
<1> QED BY <1>2, <1>3 DEF addStats

LEMMA SpanEmpty ==
    ASSUME NEW w \in Seq(Window), NEW a \in 0 .. Len(w)
    PROVE  Span(w, a, a) = Zero
BY SeqType DEF Span, Zero

\* The last fifteen minutes.
LEMMA AllTotal ==
    ASSUME NEW w \in Seq(Window), NEW r, NEW k, RingHolds(r, k, w)
    PROVE  Total(Filled(All, r)) = Past(w, Windows, Len(w))
<1> DEFINE v == Filled(All, r)
<1>1. PICK L \in Nat : L = Len(w)
  OBVIOUS
<1>2. /\ Windows \in Nat /\ Windows >= 1 /\ k \in Nat /\ k < Windows
      /\ L <= Windows => k = IF L = 0 THEN Windows - 1 ELSE L - 1
  BY <1>1, StatsAssumption DEF StatsAssumption, RingHolds
<1>3. Len(v) = Windows
  BY <1>2 DEF Filled, All
<1>4. ASSUME NEW n \in 1 .. Windows
      PROVE  v[n] = IF Held(L, k, n - 1) >= 1 THEN w[Held(L, k, n - 1)] ELSE Zero
  <2>1. n - 1 \in 0 .. Windows - 1
    BY <1>2
  <2>2. v[n] = Stored(r[n - 1])
    BY DEF Filled, All
  <2>3. r[n - 1] = IF Held(L, k, n - 1) >= 1 THEN w[Held(L, k, n - 1)] ELSE Unused
    BY <1>1, <2>1 DEF RingHolds
  <2>4. Held(L, k, n - 1) \in Int /\ Held(L, k, n - 1) <= L
    BY <1>2, <2>1 DEF Held
  <2>5. CASE Held(L, k, n - 1) >= 1
    <3>1. w[Held(L, k, n - 1)] \in Window
      BY <1>1, <2>4, <2>5
    <3> QED BY <2>2, <2>3, <2>5, <3>1, StoredIs
  <2>6. CASE ~(Held(L, k, n - 1) >= 1)
    <3>1. Zero \in Window
      BY DEF Zero, Window
    <3> QED BY <2>2, <2>3, <2>6, <3>1, StoredIs
  <2> QED BY <2>5, <2>6
<1> HIDE DEF v
<1>5. CASE L <= Windows
  <2> DEFINE f == [n \in 0 .. Windows |-> IF n <= L THEN Span(w, 0, n) ELSE Span(w, 0, L)]
  <2>1. f[0] = Zero
    BY <1>1, <1>2, SpanEmpty
  <2>2. ASSUME NEW n \in 1 .. Windows PROVE f[n] = addStats(v[n], f[n - 1])
    <3>1. n \in 0 .. Windows /\ n - 1 \in 0 .. Windows /\ n \in Nat /\ n >= 1
      BY <1>2
    <3>2. CASE n <= L
      <4>1. Held(L, k, n - 1) = n
        BY <1>2, <1>5, <3>1, <3>2 DEF Held
      <4>2. n - 1 \in Nat /\ n - 1 \in 0 .. Len(w) /\ n - 1 < Len(w) /\ (n - 1) + 1 = n /\ n - 1 <= L
        BY <1>1, <3>1, <3>2
      <4>3. Span(w, 0, n) = addStats(w[n], Span(w, 0, n - 1))
        BY <4>2, SpanNext
      <4> QED BY <1>4, <3>1, <3>2, <4>1, <4>2, <4>3
    <3>3. CASE n > L
      <4>1. ~(Held(L, k, n - 1) >= 1)
        BY <1>2, <1>5, <3>1, <3>3 DEF Held
      <4>2. f[n] = Span(w, 0, L) /\ f[n - 1] = Span(w, 0, L)
        BY <1>1, <3>1, <3>3
      <4>3. \A c \in Counter : Span(w, 0, L)[c] \in Int
        BY <1>1, SeqType DEF Span
      <4>4. Span(w, 0, L) = [c \in Counter |-> Span(w, 0, L)[c]]
        BY DEF Span
      <4>5. \A c \in Counter : Span(w, 0, L)[c] + Zero[c] = Span(w, 0, L)[c]
        BY <4>3 DEF Zero
      <4>6. v[n] = Zero
        BY <1>4, <4>1
      <4> QED BY <4>2, <4>4, <4>5, <4>6 DEF addStats
    <3> QED BY <1>1, <3>1, <3>2, <3>3
  <2>3. \A n \in 0 .. Len(v) : Sums(v)[n] = f[n]
    <3> HIDE DEF f
    <3> QED BY <1>2, <1>3, <2>1, <2>2, SumsAre
  <2>4. Total(v) = f[Windows]
    BY <1>2, <1>3, <2>3 DEF Total
  <2>5. f[Windows] = Span(w, 0, L)
    BY <1>2, <1>5
  <2>6. L - (IF Windows < L THEN Windows ELSE L) = 0
    BY <1>2, <1>5
  <2>7. Past(w, Windows, L) = Span(w, 0, L)
    BY <2>6 DEF Past
  <2> QED BY <1>1, <2>4, <2>5, <2>7 DEF v
<1>6. CASE L > Windows
  <2> DEFINE old == L - Windows
             turn == (L - k) - 1
             f == [n \in 0 .. Windows |->
                     IF n <= k + 1 THEN Span(w, turn, turn + n)
                     ELSE addStats(Span(w, old, old + (n - (k + 1))), Span(w, turn, L))]
  <2>0. /\ old \in Nat /\ turn \in Nat /\ old <= turn /\ turn + (k + 1) = L /\ turn < L
        /\ old + (Windows - (k + 1)) = turn
    BY <1>2, <1>6
  <2> HIDE DEF old, turn
  <2>1. f[0] = Zero
    BY <1>1, <1>2, <2>0, SpanEmpty
  <2>2. ASSUME NEW n \in 1 .. Windows PROVE f[n] = addStats(v[n], f[n - 1])
    <3>1. n \in 0 .. Windows /\ n - 1 \in 0 .. Windows /\ n \in Nat /\ n >= 1 /\ n <= Windows
      BY <1>2
    <3>2. CASE n <= k + 1
      <4>1. Held(L, k, n - 1) = turn + n
        BY <1>2, <2>0, <3>1, <3>2 DEF Held
      <4>2. /\ turn \in 0 .. Len(w) /\ turn + (n - 1) \in turn .. Len(w)
            /\ turn + (n - 1) < Len(w) /\ (turn + (n - 1)) + 1 = turn + n
            /\ turn + n >= 1 /\ n - 1 <= k + 1
        BY <1>1, <1>2, <2>0, <3>1, <3>2
      <4>3. Span(w, turn, turn + n) = addStats(w[turn + n], Span(w, turn, turn + (n - 1)))
        BY <4>2, SpanNext
      <4>4. v[n] = w[turn + n]
        BY <1>4, <4>1, <4>2
      <4>5. f[n] = Span(w, turn, turn + n) /\ f[n - 1] = Span(w, turn, turn + (n - 1))
        BY <3>1, <3>2, <4>2
      <4> QED BY <4>3, <4>4, <4>5
    <3>3. CASE n > k + 1
      <4> DEFINE d == (n - 1) - (k + 1)
      <4>1. /\ d \in Nat /\ n - (k + 1) = d + 1 /\ ~(n <= k + 1)
            /\ old \in 0 .. Len(w) /\ old + d \in old .. Len(w) /\ old + d < Len(w)
            /\ old + (d + 1) = (old + d) + 1 /\ (old + d) + 1 >= 1
        BY <1>1, <1>2, <2>0, <3>1, <3>3
      <4>2. Held(L, k, n - 1) = (old + d) + 1
        BY <1>2, <2>0, <3>1, <3>3 DEF Held, old
      <4>3. v[n] = w[(old + d) + 1]
        BY <1>4, <4>1, <4>2
      <4>4. f[n] = addStats(Span(w, old, (old + d) + 1), Span(w, turn, L))
        BY <3>1, <4>1
      <4>5. f[n - 1] = addStats(Span(w, old, old + d), Span(w, turn, L))
        <5>1. CASE n - 1 > k + 1
          BY <1>2, <3>1, <5>1
        <5>2. CASE n - 1 = k + 1
          <6>1. d = 0 /\ old + d = old /\ turn + (n - 1) = L /\ n - 1 <= k + 1
            BY <1>2, <2>0, <3>1, <5>2
          <6>2. f[n - 1] = Span(w, turn, L) /\ Span(w, old, old + d) = Zero
            BY <3>1, <4>1, <6>1, SpanEmpty
          <6>3. \A c \in Counter : Span(w, turn, L)[c] \in Int
            BY <1>1, <2>0, SeqType DEF Span
          <6>4. Span(w, turn, L) = [c \in Counter |-> Span(w, turn, L)[c]]
            BY DEF Span
          <6>5. \A c \in Counter : Span(w, turn, L)[c] + Zero[c] = Span(w, turn, L)[c]
            BY <6>3 DEF Zero
          <6> QED BY <6>2, <6>4, <6>5 DEF addStats
        <5> QED BY <1>2, <3>1, <3>3, <5>1, <5>2
      <4> HIDE DEF d
      <4>6. \A c \in Counter :
               /\ w[(old + d) + 1][c] \in Nat /\ Span(w, old, old + d)[c] \in Int
               /\ Span(w, old, (old + d) + 1)[c] = Span(w, old, old + d)[c] + w[(old + d) + 1][c]
        BY <4>1, SpanNext
      <4>7. \A c \in Counter : Span(w, turn, L)[c] \in Int
        BY <1>1, <2>0, SeqType DEF Span
      <4>8. \A c \in Counter :
               Span(w, turn, L)[c] + Span(w, old, (old + d) + 1)[c]
                 = (Span(w, turn, L)[c] + Span(w, old, old + d)[c]) + w[(old + d) + 1][c]
        BY <4>6, <4>7
      <4>9. addStats(Span(w, old, (old + d) + 1), Span(w, turn, L))
              = addStats(w[(old + d) + 1], addStats(Span(w, old, old + d), Span(w, turn, L)))
        BY <4>8 DEF addStats
      <4> HIDE DEF f
      <4> QED BY <4>3, <4>4, <4>5, <4>9
    <3> QED BY <1>2, <3>1, <3>2, <3>3
  <2>3. \A n \in 0 .. Len(v) : Sums(v)[n] = f[n]
    <3> HIDE DEF f
    <3> QED BY <1>2, <1>3, <2>1, <2>2, SumsAre
  <2>4. Total(v) = f[Windows]
    BY <1>2, <1>3, <2>3 DEF Total
  <2>5. f[Windows] = Span(w, old, L)
    <3>1. CASE k + 1 = Windows
      <4>1. turn + Windows = L /\ old = turn
        BY <1>2, <2>0, <3>1
      <4> QED BY <1>2, <3>1, <4>1
    <3>2. CASE k + 1 < Windows
      <4>1. f[Windows] = addStats(Span(w, old, turn), Span(w, turn, L))
        BY <1>2, <2>0, <3>2
      <4>2. \A c \in Counter : Span(w, turn, L)[c] + Span(w, old, turn)[c] = Span(w, old, L)[c]
        <5> SUFFICES ASSUME NEW c \in Counter
                     PROVE  Span(w, turn, L)[c] + Span(w, old, turn)[c] = Span(w, old, L)[c]
          OBVIOUS
        <5>1. /\ Sums(w)[old][c] \in Nat /\ Sums(w)[turn][c] \in Nat
              /\ Sums(w)[L][c] \in Nat
          <6>1. old \in 0 .. Len(w) /\ turn \in 0 .. Len(w) /\ L \in 0 .. Len(w)
            BY <1>1, <2>0
          <6> QED BY <6>1, SeqType
        <5> QED BY <5>1 DEF Span
      <4>3. Span(w, old, L) = [c \in Counter |-> Span(w, old, L)[c]]
        BY DEF Span
      <4> QED BY <4>1, <4>2, <4>3 DEF addStats
    <3> QED BY <1>2, <3>1, <3>2
  <2>6. L - (IF Windows < L THEN Windows ELSE L) = old
    BY <1>2, <1>6 DEF old
  <2>7. Past(w, Windows, L) = Span(w, old, L)
    BY <2>6 DEF Past
  <2> QED BY <1>1, <2>4, <2>5, <2>7 DEF v
<1> QED BY <1>2, <1>5, <1>6

\* Where a stretch of n windows that ends with the m-th starts.
LEMMA PastFrom ==
    ASSUME NEW n \in Nat, NEW m \in Nat
    PROVE  \E a \in 0 .. m : /\ a = (IF n < m THEN m - n ELSE 0)
                             /\ \A w : Past(w, n, m) = Span(w, a, m)
<1> DEFINE a == m - (IF n < m THEN n ELSE m)
<1>1. a \in 0 .. m /\ a = (IF n < m THEN m - n ELSE 0)
  OBVIOUS
<1>2. \A w : Past(w, n, m) = Span(w, a, m)
  BY DEF Past
<1> QED BY <1>1, <1>2

LEMMA PastType ==
    ASSUME NEW w \in Seq(Window), NEW n \in Nat, NEW m \in 0 .. Len(w)
    PROVE  Past(w, n, m) \in Window
<1>1. m \in Nat /\ Len(w) \in Nat /\ m <= Len(w)
  OBVIOUS
<1>2. PICK a \in 0 .. m : Past(w, n, m) = Span(w, a, m)
  BY <1>1, PastFrom
<1>3. ASSUME NEW c \in Counter PROVE Sums(w)[m][c] - Sums(w)[a][c] \in Nat
  <2>1. a \in 0 .. Len(w) /\ m \in a .. Len(w)
    BY <1>1
  <2>2. Sums(w)[m][c] \in Nat /\ Sums(w)[a][c] \in Nat
    BY <2>1, SeqType
  <2>3. Sums(w)[a][c] <= Sums(w)[m][c]
    BY <2>1, SeqType, SumsGrow
  <2> QED BY <2>2, <2>3
<1> QED BY <1>2, <1>3 DEF Span, Window

\* What was counted stays so.
LEMMA PastStays ==
    ASSUME NEW w \in Seq(Window), NEW x \in Window, NEW n \in Nat, NEW m \in 0 .. Len(w)
    PROVE  Past(Append(w, x), n, m) = Past(w, n, m)
<1>1. m \in Nat /\ Len(w) \in Nat /\ m <= Len(w)
  OBVIOUS
<1>2. PICK a \in 0 .. m : \A v : Past(v, n, m) = Span(v, a, m)
  BY <1>1, PastFrom
<1>3. a \in 0 .. Len(w) /\ m \in 0 .. Len(w)
  BY <1>1
<1>4. Span(Append(w, x), a, m) = Span(w, a, m)
  BY <1>3, SumsAppend DEF Span
<1> QED BY <1>2, <1>4

\* A stretch within another counts no more.
LEMMA PastNests ==
    ASSUME NEW w \in Seq(Window), NEW n \in Nat, NEW k \in Nat,
           NEW l \in 0 .. Len(w), NEW m \in l .. Len(w), m + n <= l + k
    PROVE  AtMost(Past(w, n, l), Past(w, k, m))
<1>1. /\ l \in Nat /\ m \in Nat /\ Len(w) \in Nat /\ l <= m /\ m <= Len(w)
  OBVIOUS
<1>2. PICK a \in 0 .. l : /\ a = (IF n < l THEN l - n ELSE 0)
                          /\ Past(w, n, l) = Span(w, a, l)
  BY <1>1, PastFrom
<1>3. PICK b \in 0 .. m : /\ b = (IF k < m THEN m - k ELSE 0)
                          /\ Past(w, k, m) = Span(w, b, m)
  BY <1>1, PastFrom
<1>4. b <= a
  BY <1>1, <1>2, <1>3
<1>5. ASSUME NEW c \in Counter PROVE Span(w, a, l)[c] <= Span(w, b, m)[c]
  <2>1. /\ a \in 0 .. Len(w) /\ l \in a .. Len(w) /\ b \in 0 .. Len(w)
        /\ a \in b .. Len(w) /\ m \in l .. Len(w) /\ m \in 0 .. Len(w)
    BY <1>1, <1>4
  <2>2. /\ Sums(w)[a][c] \in Nat /\ Sums(w)[b][c] \in Nat
        /\ Sums(w)[l][c] \in Nat /\ Sums(w)[m][c] \in Nat
    BY <2>1, SeqType
  <2>3. Sums(w)[b][c] <= Sums(w)[a][c] /\ Sums(w)[l][c] <= Sums(w)[m][c]
    BY <2>1, SeqType, SumsGrow
  <2> QED BY <2>2, <2>3 DEF Span
<1> QED BY <1>2, <1>3, <1>5 DEF AtMost

\* And no more than everything.
LEMMA PastInTotal ==
    ASSUME NEW w \in Seq(Window), NEW n \in Nat, NEW m \in 0 .. Len(w)
    PROVE  AtMost(Past(w, n, m), Sums(w)[Len(w)])
<1>1. m \in Nat /\ Len(w) \in Nat /\ m <= Len(w)
  OBVIOUS
<1>2. PICK a \in 0 .. m : Past(w, n, m) = Span(w, a, m)
  BY <1>1, PastFrom
<1>3. ASSUME NEW c \in Counter PROVE Span(w, a, m)[c] <= Sums(w)[Len(w)][c]
  <2>1. a \in 0 .. Len(w) /\ m \in a .. Len(w) /\ Len(w) \in m .. Len(w) /\ Len(w) \in 0 .. Len(w)
    BY <1>1
  <2>2. Sums(w)[a][c] \in Nat /\ Sums(w)[m][c] \in Nat /\ Sums(w)[Len(w)][c] \in Nat
    BY <2>1, SeqType
  <2>3. Sums(w)[m][c] <= Sums(w)[Len(w)][c]
    BY <2>1, SeqType, SumsGrow
  <2> QED BY <2>2, <2>3 DEF Span
<1> QED BY <1>2, <1>3 DEF AtMost

\* As is a single window.
LEMMA WindowInTotal ==
    ASSUME NEW w \in Seq(Window), NEW n \in 1 .. Len(w)
    PROVE  AtMost(w[n], Sums(w)[Len(w)])
<1>1. ASSUME NEW c \in Counter PROVE w[n][c] <= Sums(w)[Len(w)][c]
  <2>1. /\ n \in 0 .. Len(w) /\ n - 1 \in 0 .. Len(w) /\ Len(w) \in n .. Len(w)
        /\ Len(w) \in 0 .. Len(w)
    OBVIOUS
  <2>2. /\ Sums(w)[n][c] = Sums(w)[n - 1][c] + w[n][c] /\ w[n][c] \in Nat
        /\ Sums(w)[n - 1][c] \in Nat /\ Sums(w)[Len(w)][c] \in Nat
    BY <2>1, SeqType
  <2>3. Sums(w)[n][c] <= Sums(w)[Len(w)][c]
    BY <2>1, SeqType, SumsGrow
  <2> QED BY <2>2, <2>3
<1> QED BY <1>1 DEF AtMost

------------------------------------------------------------------------------
(***************************************************************************)
(* A report that is being read.                                            *)
(***************************************************************************)

\* ReportNests, of one reader.
Nests(read) ==
    /\ Len(read) >= Last5 => AtMost(read[Last1], read[Last5])
    /\ Len(read) >= Last15 => AtMost(read[Last5], read[Last15])
    /\ Len(read) = AllTime =>
          /\ AtMost(read[Latest], read[AllTime])
          /\ AtMost(read[Last15], read[AllTime])
          /\ read[AllTime]["preambles"] - read[AllTime]["results"]
                 \in 0 .. Cardinality(Demods)

\* What was read before is of the windows w closed since, or of the one in progress.
ReadInv(at, read, w, now) ==
    /\ Len(read) <= AllTime
    /\ Len(read) >= Latest =>
          /\ at <= Len(w) /\ Len(w) <= at + Patience
          /\ AtMost(read[Latest], IF Len(w) = at THEN now ELSE w[at + 1])
    /\ Len(read) >= Last1 => \E l \in at .. Len(w) : read[Last1] = Past(w, 1, l)
    /\ Len(read) >= Last5 => \E l \in at .. Len(w) : read[Last5] = Past(w, Short, l)
    /\ Len(read) >= Last15 => \E l \in at .. Len(w) : read[Last15] = Past(w, Windows, l)
    /\ Nests(read)

\* While counters rise.
LEMMA ReadMore ==
    ASSUME NEW at \in Nat, NEW read \in Seq(Window), NEW w \in Seq(Window),
           NEW now \in Window, NEW more \in Window, AtMost(now, more),
           ReadInv(at, read, w, now)
    PROVE  ReadInv(at, read, w, more)
<1>1. Len(read) >= Latest /\ Len(w) = at => AtMost(read[Latest], more)
  <2> SUFFICES ASSUME Len(read) >= Latest, Len(w) = at, NEW c \in Counter
               PROVE  read[Latest][c] <= more[c]
    BY DEF AtMost
  <2>1. read[Latest] \in Window
    BY DEF Latest
  <2>2. read[Latest][c] <= now[c] /\ now[c] <= more[c]
    BY DEF ReadInv, AtMost
  <2> QED BY <2>1, <2>2 DEF Window
<1> QED BY <1>1 DEF ReadInv

\* When the window is closed.
LEMMA ReadLater ==
    ASSUME NEW at \in Nat, NEW read \in Seq(Window), NEW w \in Seq(Window),
           NEW now \in Window, ReadInv(at, read, w, now),
           read # <<>> => Len(w) - at < Patience
    PROVE  ReadInv(at, read, Append(w, now), Zero)
<1> DEFINE v == Append(w, now)
<1>1. /\ Len(w) \in Nat /\ Len(v) = Len(w) + 1 /\ v[Len(w) + 1] = now
      /\ \A n \in 1 .. Len(w) : v[n] = w[n]
  OBVIOUS
<1>2. \A n \in Nat, m \in 0 .. Len(w) : Past(v, n, m) = Past(w, n, m)
  BY PastStays
<1> HIDE DEF v
<1>3. ASSUME NEW n \in Nat, NEW k \in Nat, \E l \in at .. Len(w) : read[k] = Past(w, n, l)
      PROVE  \E l \in at .. Len(v) : read[k] = Past(v, n, l)
  <2>1. PICK l \in at .. Len(w) : read[k] = Past(w, n, l)
    BY <1>3
  <2>2. l \in 0 .. Len(w) /\ l \in at .. Len(v)
    BY <1>1
  <2> QED BY <1>2, <2>1, <2>2
<1>4. Len(read) >= Latest =>
          /\ at <= Len(v) /\ Len(v) <= at + Patience
          /\ AtMost(read[Latest], IF Len(v) = at THEN Zero ELSE v[at + 1])
  <2> SUFFICES ASSUME Len(read) >= Latest
               PROVE  /\ at <= Len(v) /\ Len(v) <= at + Patience
                      /\ AtMost(read[Latest], IF Len(v) = at THEN Zero ELSE v[at + 1])
    OBVIOUS
  <2>1. /\ Len(w) - at < Patience /\ at <= Len(w) /\ Patience \in Nat
        /\ AtMost(read[Latest], IF Len(w) = at THEN now ELSE w[at + 1])
    BY StatsAssumption DEF ReadInv, Latest, StatsAssumption
  <2>2. /\ at <= Len(v) /\ Len(v) <= at + Patience /\ Len(v) # at
        /\ Len(w) # at => at + 1 \in 1 .. Len(w)
    BY <1>1, <2>1
  <2> QED BY <1>1, <2>1, <2>2
<1>5. 1 \in Nat /\ Short \in Nat /\ Windows \in Nat
      /\ Last1 \in Nat /\ Last5 \in Nat /\ Last15 \in Nat
  BY StatsAssumption DEF StatsAssumption, Last1, Last5, Last15
<1>6. /\ Len(read) >= Last1 => \E l \in at .. Len(v) : read[Last1] = Past(v, 1, l)
      /\ Len(read) >= Last5 => \E l \in at .. Len(v) : read[Last5] = Past(v, Short, l)
      /\ Len(read) >= Last15 => \E l \in at .. Len(v) : read[Last15] = Past(v, Windows, l)
  BY <1>3, <1>5 DEF ReadInv
<1>7. Len(read) <= AllTime /\ Nests(read)
  BY DEF ReadInv
<1>8. ReadInv(at, read, v, Zero)
  BY <1>4, <1>6, <1>7 DEF ReadInv
<1> QED BY <1>8 DEF v

\* What the next getter of a report returns.
NextRead(read, w, now) ==
    << now, Past(w, 1, Len(w)), Past(w, Short, Len(w)), Past(w, Windows, Len(w)),
       addStats(now, Sums(w)[Len(w)]) >>[Len(read) + 1]

\* A sum is no less than either part.
LEMMA AtMostSum ==
    ASSUME NEW a \in Window, NEW b \in Window, NEW d \in Window, AtMost(a, b)
    PROVE  AtMost(a, addStats(b, d)) /\ AtMost(a, addStats(d, b))
<1>1. ASSUME NEW c \in Counter PROVE a[c] <= b[c] + d[c] /\ a[c] <= d[c] + b[c]
  <2>1. a[c] \in Nat /\ b[c] \in Nat /\ d[c] \in Nat /\ a[c] <= b[c]
    BY DEF Window, AtMost
  <2> QED BY <2>1
<1>2. \A c \in Counter : /\ addStats(b, d)[c] = d[c] + b[c]
                         /\ addStats(d, b)[c] = b[c] + d[c]
  BY DEF addStats
<1> QED BY <1>1, <1>2 DEF AtMost

\* When a getter is called.
LEMMA ReadNext ==
    ASSUME NEW at \in Nat, NEW read \in Seq(Window), NEW w \in Seq(Window),
           NEW now \in Window, ReadInv(at, read, w, now), Len(read) < AllTime,
           addStats(now, Sums(w)[Len(w)])["preambles"] - addStats(now, Sums(w)[Len(w)])["results"]
               \in 0 .. Cardinality(Demods),
           NEW x, x = NextRead(read, w, now)
    PROVE  /\ x \in Window
           /\ ReadInv(IF read = <<>> THEN Len(w) ELSE at, Append(read, x), w, now)
<1> DEFINE L == Len(w)
           sum == addStats(now, Sums(w)[L])
           new == Append(read, x)
<1>1. /\ L \in Nat /\ L \in 0 .. L /\ Short \in Nat /\ Windows \in Nat /\ Patience \in Nat
      /\ Patience < Short /\ Short + Patience <= Windows
  BY StatsAssumption DEF StatsAssumption
<1>2. /\ now \in Window /\ Past(w, 1, L) \in Window /\ Past(w, Short, L) \in Window
      /\ Past(w, Windows, L) \in Window
  BY <1>1, PastType
<1>3. Sums(w)[L] \in Window /\ sum \in Window
  <2>1. Sums(w)[L] \in Window
    BY <1>1, SeqType
  <2> QED BY <2>1 DEF addStats, Window
<1>4. PICK n \in 0 .. 4 : n = Len(read)
  <2>1. Len(read) \in Nat /\ Len(read) < 5
    BY DEF AllTime
  <2>2. PICK n \in Nat : n = Len(read)
    BY <2>1
  <2>3. n \in 0 .. 4
    BY <2>1, <2>2
  <2> QED BY <2>2, <2>3
<1>5. x = << now, Past(w, 1, L), Past(w, Short, L), Past(w, Windows, L), sum >>[n + 1]
  BY <1>4 DEF NextRead
<1> HIDE DEF L, sum
<1>6. x \in Window
  <2>1. n = 0 \/ n = 1 \/ n = 2 \/ n = 3 \/ n = 4
    OBVIOUS
  <2> QED BY <1>2, <1>3, <1>5, <2>1
<1>7. /\ Len(new) = n + 1 /\ new[n + 1] = x
      /\ \A i \in 1 .. n : new[i] = read[i]
      /\ read = <<>> <=> n = 0
  BY <1>4
<1> HIDE DEF new
<1>8. n >= 1 => at <= L /\ L <= at + Patience
  BY <1>4 DEF ReadInv, Latest, L
<1>9. CASE n = 0
  <2>1. x = now /\ \A c \in Counter : now[c] <= now[c]
    BY <1>5, <1>9 DEF Window
  <2> QED BY <1>1, <1>6, <1>7, <1>9, <2>1
          DEF ReadInv, Nests, AtMost, Latest, Last1, Last5, Last15, AllTime, new, L
<1>10. CASE n = 1
  <2>1. x = Past(w, 1, L)
    BY <1>5, <1>10
  <2>2. L \in at .. L
    BY <1>1, <1>8, <1>10
  <2> QED BY <1>4, <1>6, <1>7, <1>10, <2>1, <2>2
          DEF ReadInv, Nests, Latest, Last1, Last5, Last15, AllTime, new, L
<1>11. CASE n = 2
  <2>1. x = Past(w, Short, L)
    BY <1>5, <1>11
  <2>2. L \in at .. L
    BY <1>1, <1>8, <1>11
  <2>3. AtMost(read[2], x)
    <3>1. PICK l \in at .. L : read[2] = Past(w, 1, l)
      BY <1>4, <1>11 DEF ReadInv, Last1, L
    <3>2. l \in 0 .. L /\ L \in l .. L /\ L + 1 <= l + Short
      BY <1>1, <1>8, <1>11
    <3> QED BY <1>1, <2>1, <3>1, <3>2, PastNests DEF L
  <2> QED BY <1>4, <1>6, <1>7, <1>11, <2>1, <2>2, <2>3
          DEF ReadInv, Nests, Latest, Last1, Last5, Last15, AllTime, new, L
<1>12. CASE n = 3
  <2>1. x = Past(w, Windows, L)
    BY <1>5, <1>12
  <2>2. L \in at .. L
    BY <1>1, <1>8, <1>12
  <2>3. AtMost(read[3], x)
    <3>1. PICK l \in at .. L : read[3] = Past(w, Short, l)
      BY <1>4, <1>12 DEF ReadInv, Last5, L
    <3>2. l \in 0 .. L /\ L \in l .. L /\ L + Short <= l + Windows
      BY <1>1, <1>8, <1>12
    <3> QED BY <1>1, <2>1, <3>1, <3>2, PastNests DEF L
  <2> QED BY <1>4, <1>6, <1>7, <1>12, <2>1, <2>2, <2>3
          DEF ReadInv, Nests, Latest, Last1, Last5, Last15, AllTime, new, L
<1>13. CASE n = 4
  <2>1. x = sum
    BY <1>5, <1>13
  <2>2. AtMost(read[4], x)
    <3>1. PICK l \in at .. L : read[4] = Past(w, Windows, l)
      BY <1>4, <1>13 DEF ReadInv, Last15, L
    <3>2. l \in 0 .. L
      BY <1>1
    <3>3. AtMost(Past(w, Windows, l), Sums(w)[L]) /\ Past(w, Windows, l) \in Window
      BY <1>1, <3>2, PastInTotal, PastType DEF L
    <3> QED BY <1>2, <1>3, <2>1, <3>1, <3>3, AtMostSum DEF sum
  <2>3. AtMost(read[1], x)
    <3>1. AtMost(read[1], IF L = at THEN now ELSE w[at + 1])
      BY <1>4, <1>13 DEF ReadInv, Latest, L
    <3>9. read[1] \in Window
      <4>1. 1 \in 1 .. Len(read)
        BY <1>4, <1>13
      <4> QED BY <4>1
    <3>2. CASE L = at
      BY <1>2, <1>3, <2>1, <3>1, <3>2, <3>9, AtMostSum DEF sum
    <3>3. CASE L # at
      <4>1. at + 1 \in 1 .. L
        BY <1>1, <1>8, <1>13, <3>3
      <4>2. AtMost(w[at + 1], Sums(w)[L]) /\ w[at + 1] \in Window
        BY <4>1, WindowInTotal, SeqType DEF L
      <4>3. AtMost(read[1], Sums(w)[L])
        <5> SUFFICES ASSUME NEW c \in Counter PROVE read[1][c] <= Sums(w)[L][c]
          BY DEF AtMost
        <5>1. read[1][c] <= w[at + 1][c] /\ w[at + 1][c] <= Sums(w)[L][c]
          BY <3>1, <3>3, <4>2 DEF AtMost
        <5>2. read[1][c] \in Nat /\ w[at + 1][c] \in Nat /\ Sums(w)[L][c] \in Nat
          BY <1>3, <3>9, <4>2 DEF Window
        <5> QED BY <5>1, <5>2
      <4> QED BY <1>2, <1>3, <2>1, <3>9, <4>3, AtMostSum DEF sum
    <3> QED BY <3>2, <3>3
  <2>4. x["preambles"] - x["results"] \in 0 .. Cardinality(Demods)
    BY <2>1 DEF sum, L
  <2> QED BY <1>4, <1>6, <1>7, <1>13, <2>2, <2>3, <2>4
          DEF ReadInv, Nests, Latest, Last1, Last5, Last15, AllTime, new, L
<1> QED BY <1>9, <1>10, <1>11, <1>12, <1>13

------------------------------------------------------------------------------
(***************************************************************************)
(* Every call is counted once, and reports nest.                           *)
(***************************************************************************)

StatsTypeInv ==
    /\ current \in Window /\ log \in Seq(Window) /\ allTime \in Window
    /\ DOMAIN ring = 0 .. Windows - 1
    /\ stage \in [Demods \cup Remotes -> {"free", "scored", "handled", "tracked",
                                          "local", "failed"}]
    /\ report \in [Reporters -> [at : Nat, read : Seq(Window)]]

CountedInv ==
    /\ RingHolds(ring, latestIndex, log)
    /\ last5 = Past(log, Short, Len(log)) /\ last15 = Past(log, Windows, Len(log))
    /\ allTime = Sums(log)[Len(log)] /\ addStats(current, allTime) = added

\* The demodulators that tried a preamble and did not say yet what became of it.
Deciding == {g \in Demods : stage[g] = "scored"}
DecidedInv == added["preambles"] - added["results"] = Cardinality(Deciding)

ReportInv == \A r \in Reporters : ReadInv(report[r].at, report[r].read, log, current)

StatsInv == StatsTypeInv /\ CountedInv /\ DecidedInv /\ ReportInv

LEMMA DecidingFinite ==
    /\ IsFiniteSet(Deciding)
    /\ Cardinality(Deciding) \in 0 .. Cardinality(Demods)
<1>1. IsFiniteSet(Demods) /\ Deciding \subseteq Demods
  BY StatsAssumption DEF StatsAssumption, Deciding
<1> QED BY <1>1, FS_Subset, FS_CardinalityType

LEMMA Latest1 ==
    ASSUME StatsTypeInv, CountedInv
    PROVE  GetLast1Min = Past(log, 1, Len(log))
<1>1. PICK n \in Nat : n = Len(log)
  BY DEF StatsTypeInv
<1>2. /\ ring[latestIndex] = IF Held(n, latestIndex, latestIndex) >= 1
                             THEN log[Held(n, latestIndex, latestIndex)] ELSE Unused
      /\ Held(n, latestIndex, latestIndex) = n
  BY <1>1 DEF CountedInv, RingHolds, Held
<1>3. CASE n = 0
  <2>1. Past(log, 1, n) = Span(log, 0, 0)
    <3>1. n - (IF 1 < n THEN 1 ELSE n) = 0
      BY <1>3
    <3> QED BY <1>3, <3>1 DEF Past
  <2>2. Span(log, 0, 0) = Zero
    BY <1>1, SpanEmpty DEF StatsTypeInv
  <2>3. Zero \in Window
    BY DEF Zero, Window
  <2> QED BY <1>1, <1>2, <1>3, <2>1, <2>2, <2>3, StoredIs DEF GetLast1Min
<1>4. CASE n >= 1
  <2>1. Past(log, 1, n) = Span(log, n - 1, n)
    <3>1. n - (IF 1 < n THEN 1 ELSE n) = n - 1
      BY <1>4
    <3> QED BY <3>1 DEF Past
  <2>2. n - 1 \in 0 .. Len(log) /\ n - 1 \in (n - 1) .. Len(log) /\ n - 1 < Len(log)
        /\ (n - 1) + 1 = n /\ n \in 1 .. Len(log)
    BY <1>1, <1>4
  <2>3. /\ Span(log, n - 1, n) = addStats(log[n], Span(log, n - 1, n - 1))
        /\ Span(log, n - 1, n - 1) = Zero
    BY <2>2, SpanNext, SpanEmpty DEF StatsTypeInv
  <2>4. log[n] \in Window
    BY <2>2 DEF StatsTypeInv
  <2>5. addStats(log[n], Zero) = log[n]
    BY <2>4 DEF addStats, Zero, Window
  <2> QED BY <1>1, <1>2, <1>4, <2>1, <2>3, <2>4, <2>5, StoredIs DEF GetLast1Min
<1> QED BY <1>3, <1>4

\* What the properties say follows.
LEMMA StatsCounted == StatsInv => EachCountedOnce /\ ReportNests
<1> SUFFICES ASSUME StatsTypeInv, CountedInv, ReportInv PROVE EachCountedOnce /\ ReportNests
  BY DEF StatsInv
<1>1. log \in Seq(Window) /\ 1 \in Nat /\ Short \in Nat /\ Windows \in Nat
  BY StatsAssumption DEF StatsTypeInv, StatsAssumption
<1>2. /\ Total(LastOf(1, log)) = Past(log, 1, Len(log))
      /\ Total(LastOf(Short, log)) = Past(log, Short, Len(log))
      /\ Total(LastOf(Windows, log)) = Past(log, Windows, Len(log))
  BY <1>1, TotalPast
<1>3. EachCountedOnce
  BY <1>2, Latest1 DEF EachCountedOnce, CountedInv, Total
<1>4. ReportNests
  BY DEF ReportNests, ReportInv, ReadInv, Nests
<1> QED BY <1>3, <1>4

\* An empty log.
LEMMA StatsEmpty ==
    /\ <<>> \in Seq(Window) /\ Zero \in Window
    /\ RingHolds([i \in 0 .. Windows - 1 |-> Unused], Windows - 1, <<>>)
    /\ Sums(<<>>)[0] = Zero /\ addStats(Zero, Zero) = Zero
    /\ Past(<<>>, Short, 0) = Zero /\ Past(<<>>, Windows, 0) = Zero
    /\ \A now : ReadInv(0, <<>>, <<>>, now)
<1>1. Windows \in Nat /\ Windows >= 1 /\ Short \in Nat /\ Short >= 1
  BY StatsAssumption DEF StatsAssumption
<1>2. <<>> \in Seq(Window) /\ Len(<<>>) = 0 /\ Zero \in Window
  BY DEF Zero, Window
<1>3. RingHolds([i \in 0 .. Windows - 1 |-> Unused], Windows - 1, <<>>)
  <2>1. Windows - 1 \in 0 .. Windows - 1
    BY <1>1
  <2>2. \A i \in 0 .. Windows - 1 : ~(Held(0, Windows - 1, i) >= 1)
    BY <1>1 DEF Held
  <2> QED BY <1>2, <2>1, <2>2 DEF RingHolds
<1>4. Sums(<<>>)[0] = Zero /\ Span(<<>>, 0, 0) = Zero
  <2>1. 0 \in 0 .. Len(<<>>)
    BY <1>2
  <2> QED BY <1>2, <2>1, SeqType, SpanEmpty
<1>5. addStats(Zero, Zero) = Zero
  BY DEF addStats, Zero
<1>6. Past(<<>>, Short, 0) = Zero /\ Past(<<>>, Windows, 0) = Zero
  <2>1. ASSUME NEW n \in Nat PROVE Past(<<>>, n, 0) = Span(<<>>, 0, 0)
    <3>1. 0 \in Nat /\ \A a \in 0 .. 0 : a = 0
      OBVIOUS
    <3> QED BY <3>1, PastFrom
  <2> QED BY <1>1, <1>4, <2>1
<1>7. \A now : ReadInv(0, <<>>, <<>>, now)
  BY <1>2 DEF ReadInv, Nests, Latest, Last1, Last5, Last15, AllTime
<1> QED BY <1>2, <1>3, <1>4, <1>5, <1>6, <1>7

\* When the server starts, and whenever it starts again.
LEMMA InitStats == Init => StatsInv
<1> SUFFICES ASSUME StatsInit PROVE StatsInv
  BY DEF Init
<1>1. Windows \in Nat /\ Windows >= 1 /\ Len(<<>>) = 0
  BY StatsAssumption DEF StatsAssumption
<1>2. StatsTypeInv
  BY StatsEmpty DEF StatsInit, StatsTypeInv, NoReport
<1>3. CountedInv
  BY <1>1, StatsEmpty DEF StatsInit, CountedInv
<1>4. DecidedInv
  <2>1. Deciding = {}
    BY DEF StatsInit, Deciding
  <2> QED BY <2>1, FS_EmptySet DEF StatsInit, DecidedInv, Zero, Counter
<1>5. ReportInv
  BY StatsEmpty DEF StatsInit, ReportInv, NoReport
<1> QED BY <1>2, <1>3, <1>4, <1>5 DEF StatsInv

LEMMA RestartStats ==
    ASSUME StatsRestart
    PROVE  StatsInv'
<1>1. Windows \in Nat /\ Windows >= 1 /\ Len(<<>>) = 0
  BY StatsAssumption DEF StatsAssumption
<1>2. StatsTypeInv'
  BY StatsEmpty DEF StatsRestart, StatsTypeInv, NoReport
<1>3. CountedInv'
  BY <1>1, StatsEmpty DEF StatsRestart, CountedInv
<1>4. DecidedInv'
  <2>1. Deciding' = {}
    BY DEF StatsRestart, Deciding
  <2> QED BY <2>1, FS_EmptySet DEF StatsRestart, DecidedInv, Zero, Counter
<1>5. ReportInv'
  BY StatsEmpty DEF StatsRestart, ReportInv, NoReport
<1> QED BY <1>2, <1>3, <1>4, <1>5 DEF StatsInv

\* A goroutine counts something.
LEMMA CallCounted ==
    ASSUME StatsInv, NEW counters, Add(counters)
    PROVE  /\ current' \in Window /\ CountedInv' /\ ReportInv'
           /\ UNCHANGED <<ring, allTime, report, log>>
           /\ \A c \in Counter : added'[c] = added[c] + (IF c \in counters THEN 1 ELSE 0)
<1>1. /\ current \in Window /\ log \in Seq(Window) /\ allTime \in Window
      /\ report \in [Reporters -> [at : Nat, read : Seq(Window)]]
      /\ allTime = Sums(log)[Len(log)] /\ addStats(current, allTime) = added
  BY DEF StatsInv, StatsTypeInv, CountedInv
<1>2. /\ current' = [c \in Counter |-> IF c \in counters THEN current[c] + 1 ELSE current[c]]
      /\ added' = [c \in Counter |-> IF c \in counters THEN added[c] + 1 ELSE added[c]]
      /\ UNCHANGED <<ring, latestIndex, last5, last15, allTime, report, log>>
  BY DEF Add
<1>3. current' \in Window /\ AtMost(current, current')
  BY <1>1, <1>2 DEF Window, AtMost
<1>4. \A c \in Counter : added[c] = allTime[c] + current[c] /\ allTime[c] \in Nat /\ current[c] \in Nat
  BY <1>1 DEF addStats, Window
<1>5. \A c \in Counter : added'[c] = added[c] + (IF c \in counters THEN 1 ELSE 0)
  BY <1>2, <1>4
<1>6. addStats(current', allTime) = added'
  <2>1. \A c \in Counter : allTime[c] + current'[c] = added'[c]
    BY <1>2, <1>4
  <2> QED BY <1>2, <2>1 DEF addStats
<1>7. CountedInv'
  BY <1>2, <1>6 DEF StatsInv, CountedInv
<1>8. ReportInv'
  <2> SUFFICES ASSUME NEW r \in Reporters
               PROVE  ReadInv(report[r].at, report[r].read, log, current')
    BY <1>2 DEF ReportInv
  <2>1. ReadInv(report[r].at, report[r].read, log, current)
    BY DEF StatsInv, ReportInv
  <2>2. report[r].at \in Nat /\ report[r].read \in Seq(Window)
    BY <1>1
  <2> QED BY <1>1, <1>3, <2>1, <2>2, ReadMore
<1> QED BY <1>2, <1>3, <1>5, <1>7, <1>8

\* The control of a goroutine that feeds the statistics, and what it decides.
LEMMA FeedingStats ==
    ASSUME StatsInv, NEW g \in Demods \cup Remotes, Feeding(g)
    PROVE  StatsInv'
<1> DEFINE Stages == {"free", "scored", "handled", "tracked", "local", "failed"}
<1>1. /\ stage \in [Demods \cup Remotes -> Stages]
      /\ added["preambles"] - added["results"] = Cardinality(Deciding)
      /\ \A c \in Counter : added[c] \in Int
  BY DEF StatsInv, StatsTypeInv, DecidedInv, CountedInv, addStats, Window
<1>2. /\ "preambles" \in Counter /\ "results" \in Counter
      /\ IsFiniteSet(Deciding) /\ Cardinality(Deciding) \in Int
  BY DecidingFinite DEF Counter
<1>3. CASE g \in Demods /\ AddPreamble(g)
  <2>1. /\ stage[g] = "free" /\ stage' = [stage EXCEPT ![g] = "scored"] /\ Add({"preambles"})
    BY <1>3 DEF AddPreamble, At
  <2>2. /\ current' \in Window /\ CountedInv' /\ ReportInv'
        /\ UNCHANGED <<ring, allTime, report, log>>
        /\ \A c \in Counter : added'[c] = added[c] + (IF c \in {"preambles"} THEN 1 ELSE 0)
    BY <2>1, CallCounted
  <2>3. added'["preambles"] = added["preambles"] + 1 /\ added'["results"] = added["results"]
    BY <1>1, <1>2, <2>2
  <2>4. Deciding' = Deciding \cup {g} /\ g \notin Deciding
    BY <1>1, <1>3, <2>1 DEF Deciding
  <2>5. DecidedInv'
    <3>1. Cardinality(Deciding \cup {g}) = Cardinality(Deciding) + 1
      BY <1>2, <2>4, FS_AddElement
    <3>2. Cardinality(Deciding') = Cardinality(Deciding) + 1
      BY <2>4, <3>1
    <3>3. /\ "preambles" \in Counter /\ "results" \in Counter
          /\ added["preambles"] \in Int /\ added["results"] \in Int
      BY <1>1, <1>2
    <3>4. added'["preambles"] - added'["results"] = Cardinality(Deciding')
      BY <1>1, <1>2, <2>3, <3>2, <3>3
    <3> QED BY <3>4 DEF DecidedInv
  <2> QED BY <1>1, <2>1, <2>2, <2>5 DEF StatsInv, StatsTypeInv
<1>4. CASE g \in Demods /\ (Rejected(g) \/ Accepted(g))
  <2>1. /\ stage[g] = "scored" /\ Add({"results"})
        /\ \E to \in {"free", "handled"} : stage' = [stage EXCEPT ![g] = to]
    BY <1>4 DEF Rejected, Accepted, At
  <2>2. /\ current' \in Window /\ CountedInv' /\ ReportInv'
        /\ UNCHANGED <<ring, allTime, report, log>>
        /\ \A c \in Counter : added'[c] = added[c] + (IF c \in {"results"} THEN 1 ELSE 0)
    BY <2>1, CallCounted
  <2>3. added'["preambles"] = added["preambles"] /\ added'["results"] = added["results"] + 1
    BY <1>1, <1>2, <2>2
  <2>4. Deciding' = Deciding \ {g} /\ g \in Deciding
    BY <1>1, <1>4, <2>1 DEF Deciding
  <2>5. DecidedInv'
    <3>1. Cardinality(Deciding \ {g}) = Cardinality(Deciding) - 1
      BY <1>2, <2>4, FS_RemoveElement
    <3>2. Cardinality(Deciding') = Cardinality(Deciding) - 1
      BY <2>4, <3>1
    <3>3. /\ "preambles" \in Counter /\ "results" \in Counter
          /\ added["preambles"] \in Int /\ added["results"] \in Int
      BY <1>1, <1>2
    <3>4. added'["preambles"] - added'["results"] = Cardinality(Deciding')
      BY <1>1, <1>2, <2>3, <3>2, <3>3
    <3> QED BY <3>4 DEF DecidedInv
  <2> QED BY <1>1, <2>1, <2>2, <2>5 DEF StatsInv, StatsTypeInv
<1>5. CASE AddMessage(g) \/ AddCPRResult(g)
  <2>1. /\ g \in Demods => stage[g] # "scored"
        /\ \E to \in {"tracked", "free", "local", "failed"} : stage' = [stage EXCEPT ![g] = to]
        /\ Add({"messages"}) \/ Add({"positions"})
    BY <1>5 DEF AddMessage, AddCPRResult, At
  <2>2. /\ current' \in Window /\ CountedInv' /\ ReportInv'
        /\ UNCHANGED <<ring, allTime, report, log>>
        /\ added'["preambles"] = added["preambles"] /\ added'["results"] = added["results"]
    <3>1. ASSUME NEW k \in {"messages", "positions"}, Add({k})
          PROVE  /\ current' \in Window /\ CountedInv' /\ ReportInv'
                 /\ UNCHANGED <<ring, allTime, report, log>>
                 /\ added'["preambles"] = added["preambles"] /\ added'["results"] = added["results"]
      <4>1. /\ current' \in Window /\ CountedInv' /\ ReportInv'
            /\ UNCHANGED <<ring, allTime, report, log>>
            /\ \A c \in Counter : added'[c] = added[c] + (IF c \in {k} THEN 1 ELSE 0)
        BY <3>1, CallCounted
      <4> QED BY <1>1, <1>2, <4>1
    <3> QED BY <2>1, <3>1
  <2>3. Deciding' = Deciding
    BY <1>1, <2>1 DEF Deciding
  <2> QED BY <1>1, <2>1, <2>2, <2>3 DEF StatsInv, StatsTypeInv, DecidedInv
<1>6. CASE Done(g)
  <2>1. /\ stage[g] = "tracked" /\ stage' = [stage EXCEPT ![g] = "free"]
        /\ UNCHANGED <<current, ring, latestIndex, last5, last15, allTime, report, log, added>>
    BY <1>6 DEF Done, At
  <2>2. Deciding' = Deciding
    BY <1>1, <2>1 DEF Deciding
  <2> QED BY <1>1, <2>1, <2>2
          DEF StatsInv, StatsTypeInv, CountedInv, DecidedInv, ReportInv
<1> QED BY <1>3, <1>4, <1>5, <1>6 DEF Feeding

\* The window is closed.
LEMMA UpdateStats ==
    ASSUME StatsInv, Update
    PROVE  StatsInv'
<1> DEFINE index == (latestIndex + 1) % Windows
           filled == [ring EXCEPT ![index] = current]
           longer == Append(log, current)
<1>1. /\ current \in Window /\ log \in Seq(Window) /\ allTime \in Window
      /\ DOMAIN ring = 0 .. Windows - 1
      /\ report \in [Reporters -> [at : Nat, read : Seq(Window)]]
      /\ RingHolds(ring, latestIndex, log)
      /\ allTime = Sums(log)[Len(log)] /\ addStats(current, allTime) = added
  BY DEF StatsInv, StatsTypeInv, CountedInv
<1>2. /\ InTime /\ latestIndex' = index /\ ring' = filled
      /\ allTime' = addStats(current, allTime)
      /\ last5' = Total(Filled(Recent(index), filled))
      /\ last15' = Total(Filled(All, filled))
      /\ current' = Zero /\ log' = longer /\ UNCHANGED <<stage, report, added>>
  BY DEF Update
<1>3. RingHolds(filled, index, longer)
  BY <1>1, RingNext
<1>4. /\ longer \in Seq(Window) /\ Len(longer) = Len(log) + 1 /\ Zero \in Window
      /\ DOMAIN filled = 0 .. Windows - 1
  BY <1>1 DEF Zero, Window
<1>5. Sums(longer)[Len(longer)] = addStats(current, allTime)
  BY <1>1, <1>4, SumsAppend
<1> HIDE DEF index, filled, longer
<1>6. /\ last5' = Past(longer, Short, Len(longer))
      /\ last15' = Past(longer, Windows, Len(longer))
  BY <1>2, <1>3, <1>4, RecentTotal, AllTotal
<1>7. addStats(Zero, added) = added /\ added \in Window
  <2>1. added \in Window
    BY <1>1 DEF addStats, Window
  <2> QED BY <2>1 DEF addStats, Zero, Window
<1>8. CountedInv'
  BY <1>1, <1>2, <1>3, <1>5, <1>6, <1>7 DEF CountedInv
<1>9. StatsTypeInv'
  BY <1>1, <1>2, <1>4, <1>7 DEF StatsInv, StatsTypeInv
<1>10. DecidedInv'
  BY <1>2 DEF StatsInv, DecidedInv, Deciding
<1>11. ReportInv'
  <2> SUFFICES ASSUME NEW r \in Reporters
               PROVE  ReadInv(report[r].at, report[r].read, Append(log, current), Zero)
    BY <1>2 DEF ReportInv, longer
  <2>1. ReadInv(report[r].at, report[r].read, log, current)
    BY DEF StatsInv, ReportInv
  <2>2. report[r].at \in Nat /\ report[r].read \in Seq(Window)
    BY <1>1
  <2>3. report[r].read # <<>> => Len(log) - report[r].at < Patience
    BY <1>2 DEF InTime
  <2> QED BY <1>1, <2>1, <2>2, <2>3, ReadLater
<1> QED BY <1>8, <1>9, <1>10, <1>11 DEF StatsInv

\* A getter is called, or the report is finished.
LEMMA ReportStats ==
    ASSUME StatsInv, NEW r \in Reporters, Get(r) \/ Reported(r)
    PROVE  StatsInv'
<1>1. /\ current \in Window /\ log \in Seq(Window) /\ allTime \in Window
      /\ report \in [Reporters -> [at : Nat, read : Seq(Window)]]
      /\ allTime = Sums(log)[Len(log)] /\ addStats(current, allTime) = added
      /\ report[r].at \in Nat /\ report[r].read \in Seq(Window)
      /\ \A q \in Reporters : ReadInv(report[q].at, report[q].read, log, current)
  BY DEF StatsInv, StatsTypeInv, CountedInv, ReportInv
<1>2. UNCHANGED <<current, ring, latestIndex, last5, last15, allTime, stage, log, added>>
  BY DEF Get, Reported
<1>3. \E at \in Nat, read \in Seq(Window) :
          /\ report' = [report EXCEPT ![r] = [at |-> at, read |-> read]]
          /\ ReadInv(at, read, log, current)
  <2>1. CASE Get(r)
    <3> DEFINE read == report[r].read
               x == Getter(Len(read) + 1)
    <3>1. /\ Len(read) < AllTime
          /\ report' = [report EXCEPT ![r] = [at |-> IF read = <<>> THEN Len(log) ELSE report[r].at,
                                              read |-> Append(read, x)]]
      BY <1>1, <2>1 DEF Get
    <3>2. x = NextRead(read, log, current)
      BY <1>1, Latest1 DEF Getter, GetAllTime, NextRead, StatsInv, CountedInv
    <3>3. added["preambles"] - added["results"] \in 0 .. Cardinality(Demods)
      BY DecidingFinite DEF StatsInv, DecidedInv
    <3> HIDE DEF x
    <3>4. /\ x \in Window
          /\ ReadInv(IF read = <<>> THEN Len(log) ELSE report[r].at, Append(read, x), log, current)
      BY <1>1, <3>1, <3>2, <3>3, ReadNext
    <3>5. /\ (IF read = <<>> THEN Len(log) ELSE report[r].at) \in Nat
          /\ Append(read, x) \in Seq(Window)
      BY <1>1, <3>4
    <3> QED BY <3>1, <3>4, <3>5
  <2>2. CASE Reported(r)
    <3>1. report' = [report EXCEPT ![r] = [at |-> 0, read |-> <<>>]]
      BY <2>2 DEF Reported, NoReport
    <3>2. 0 \in Nat /\ <<>> \in Seq(Window) /\ ReadInv(0, <<>>, log, current)
      BY StatsEmpty DEF ReadInv, Nests, Latest, Last1, Last5, Last15, AllTime
    <3> QED BY <3>1, <3>2
  <2> QED BY <2>1, <2>2
<1>4. PICK at \in Nat, read \in Seq(Window) :
          /\ report' = [report EXCEPT ![r] = [at |-> at, read |-> read]]
          /\ ReadInv(at, read, log, current)
  BY <1>3
<1>5. report' \in [Reporters -> [at : Nat, read : Seq(Window)]]
  BY <1>1, <1>4
<1>6. \A q \in Reporters : ReadInv(report'[q].at, report'[q].read, log, current)
  <2> SUFFICES ASSUME NEW q \in Reporters PROVE ReadInv(report'[q].at, report'[q].read, log, current)
    OBVIOUS
  <2>1. CASE q = r
    BY <1>1, <1>4, <2>1
  <2>2. CASE q # r
    <3>1. report'[q] = report[q]
      BY <1>1, <1>4, <2>2
    <3> QED BY <1>1, <3>1
  <2> QED BY <2>1, <2>2
<1> QED BY <1>2, <1>5, <1>6
        DEF StatsInv, StatsTypeInv, CountedInv, DecidedInv, Deciding, ReportInv

LEMMA NextStats == StatsInv /\ [Next]_vars => StatsInv'
<1> SUFFICES ASSUME StatsInv, [Next]_vars PROVE StatsInv'
  OBVIOUS
<1>1. CASE UNCHANGED statsVars
  BY <1>1 DEF statsVars, StatsInv, StatsTypeInv, CountedInv, DecidedInv, Deciding, ReportInv
<1>2. CASE \E g \in Demods \cup Remotes : Feed(g)
  BY <1>2, FeedingStats DEF Feed
<1>3. CASE \E r \in Reporters : Report(r)
  BY <1>3, ReportStats DEF Report
<1>4. CASE Tick
  BY <1>1, <1>4, UpdateStats DEF Tick
<1>5. CASE Crash
  BY <1>5, RestartStats DEF Crash
<1>6. CASE Record \/ ToStats \/ Write \/ Outage \/ UNCHANGED vars
  BY <1>1, <1>6 DEF Record, ToStats, Write, Outage, vars
<1> QED BY <1>2, <1>3, <1>4, <1>5, <1>6 DEF Next

\* Every call is in exactly one window and every aggregate covers exactly the windows
\* it names, for all sizes of the ring and any number of goroutines, rotations and
\* restarts (Update, addStats and the getters of stats.go).
THEOREM CountedOnce == Spec => []EachCountedOnce
BY InitStats, NextStats, StatsCounted, PTL DEF Spec

\* The five reads of a report nest however many goroutines add meanwhile and
\* wherever the windows rotate, as long as no more of them rotate than Patience
\* allows; and no more preambles are undecided than there are demodulators
\* (GenerateStatsJSON, AddDemodResult).
THEOREM ReportsNest == Spec => []ReportNests
BY InitStats, NextStats, StatsCounted, PTL DEF Spec
==============================================================================

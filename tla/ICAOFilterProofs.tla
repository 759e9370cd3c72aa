-------------------------- MODULE ICAOFilterProofs --------------------------
(***************************************************************************)
(* Theorems about ICAOFilter, for every table size, hash function, set of  *)
(* addresses and timing.  The argument is about chains: an address is      *)
(* found exactly when some slot holds it and no slot nearer to its hash is *)
(* empty, and an insertion only ever fills slots.                          *)
(***************************************************************************)
EXTENDS ICAOFilter, FiniteSetTheorems, NaturalsInduction, WellFoundedInduction, TLAPS

Values == Addr \cup {Empty}

TableType == [Slots -> Values]

\* A probe for a that starts at its hash meets a before any empty slot.
Chain(t, a) ==
    \E k \in Slots :
        /\ t[k] = a
        /\ \A j \in Slots : Distance(Hash[a], j) < Distance(Hash[a], k) => t[j] # Empty

\* A probe for the partial address p meets an address with these low bits before
\* any empty slot.
LowChain(t, p) ==
    \E k \in Slots :
        /\ t[k] # Empty
        /\ Low(t[k]) = p
        /\ \A j \in Slots : Distance(Hash[p], j) < Distance(Hash[p], k) => t[j] # Empty

\* What the insertions keep true of each table.
Reachable(t) == \A a \in Held(t) : Chain(t, a) /\ LowChain(t, Low(a))

-----------------------------------------------------------------------------
(* Probing. *)

LEMMA LowFacts ==
    /\ Low(Empty) = 0
    /\ \A a \in Addr : Low(a) \in Addr
    /\ \A a \in Values : Low(a) \in Nat
BY FilterAssumption DEF Low, Empty, Values

LEMMA DistanceFacts ==
    ASSUME NEW h \in Slots
    PROVE  /\ \A k \in Slots : Distance(h, k) \in Nat
           /\ \A j, k \in Slots : Distance(h, j) = Distance(h, k) => j = k
BY FilterAssumption DEF Slots, Distance

\* A nonempty set of naturals has a least element.
LEMMA LeastNumber ==
    ASSUME NEW T \in SUBSET Nat, T # {}
    PROVE  \E x \in T : \A y \in T : x <= y
<1>1. ASSUME NEW R, IsWellFoundedOn(R, Nat), R = {ss \in Nat \X Nat : ss[1] < ss[2]}
      PROVE  \E x \in T : \A y \in T : x <= y
  <2>1. PICK x \in T : \A y \in T : ~(<<y, x>> \in R)
    BY <1>1, WFMin
  <2>2. ASSUME NEW y \in T PROVE x <= y
    <3>1. <<y, x>> \in Nat \X Nat
      BY <2>1, <2>2
    <3>2. <<y, x>> \notin R
      BY <2>1, <2>2
    <3>3. ~(<<y, x>>[1] < <<y, x>>[2])
      BY <1>1, <3>1, <3>2
    <3> QED
      BY <3>1, <3>3
  <2> QED
    BY <2>1, <2>2
<1>2. OpToRel(<, Nat) = {ss \in Nat \X Nat : ss[1] < ss[2]}
  BY DEF OpToRel
<1> QED
  BY <1>1, <1>2, NatLessThanWellFounded

\* A probe with somewhere to stop does stop, at the nearest such slot.
LEMMA ProbeStops ==
    ASSUME NEW h \in Slots, NEW S \in SUBSET Slots, S # {}
    PROVE  /\ ProbeStop(h, S) \in S
           /\ \A j \in S : Distance(h, ProbeStop(h, S)) <= Distance(h, j)
<1> DEFINE T == {Distance(h, k) : k \in S}
<1>1. T \subseteq Nat /\ T # {}
  BY DistanceFacts
<1>2. \E x \in T : \A y \in T : x <= y
  <2> HIDE DEF T
  <2> QED
    BY <1>1, LeastNumber
<1>3. \E k \in S : \A j \in S : Distance(h, k) <= Distance(h, j)
  BY <1>2
<1> QED
  BY <1>3 DEF ProbeStop

\* Test finds an address in a table exactly when it has a chain there.
LEMMA TestIsChain ==
    ASSUME NEW t \in TableType, NEW a \in Addr, a # Empty
    PROVE  TestIn(t, a) <=> Chain(t, a)
<1> DEFINE h == Hash[a]
           S == FullStops(t, a)
           k == ProbeStop(h, S)
<1>1. h \in Slots /\ S \in SUBSET Slots
  BY FilterAssumption DEF FullStops
<1>2. ASSUME TestIn(t, a) PROVE Chain(t, a)
  <2>1. S # {} /\ t[k] = a
    BY <1>2 DEF TestIn
  <2>2. k \in S /\ \A j \in S : Distance(h, k) <= Distance(h, j)
    BY <1>1, <2>1, ProbeStops
  <2>3. k \in Slots
    BY <1>1, <2>2
  <2>4. ASSUME NEW j \in Slots, Distance(h, j) < Distance(h, k) PROVE t[j] # Empty
    <3>1. j \notin S
      BY <1>1, <2>2, <2>3, <2>4, DistanceFacts
    <3> QED
      BY <3>1 DEF FullStops
  <2> QED
    BY <2>1, <2>3, <2>4 DEF Chain
<1>3. ASSUME Chain(t, a) PROVE TestIn(t, a)
  <2>1. PICK m \in Slots :
          /\ t[m] = a
          /\ \A j \in Slots : Distance(h, j) < Distance(h, m) => t[j] # Empty
    BY <1>3 DEF Chain
  <2>2. m \in S
    BY <2>1 DEF FullStops
  <2>3. k \in S /\ Distance(h, k) <= Distance(h, m)
    BY <1>1, <2>2, ProbeStops
  <2>4. k \in Slots /\ t[k] # Empty
    <3>1. CASE k = m
      BY <2>1, <3>1
    <3>2. CASE k # m
      BY <1>1, <2>1, <2>3, <3>2, DistanceFacts
    <3> QED
      BY <3>1, <3>2
  <2>5. t[k] = a
    BY <2>3, <2>4 DEF FullStops
  <2> QED
    BY <2>2, <2>5 DEF TestIn
<1> QED
  BY <1>2, <1>3

\* TestFuzzy ends at an address with these low bits exactly when they have a chain.
LEMMA FuzzyIsChain ==
    ASSUME NEW t \in TableType, NEW p \in Addr, p # 0
    PROVE  /\ FuzzyHit(t, p) <=> LowChain(t, p)
           /\ FuzzyHit(t, p) => FuzzyValue(t, p) \in Held(t) /\ Low(FuzzyValue(t, p)) = p
<1> DEFINE h == Hash[p]
           S == LowStops(t, p)
           k == ProbeStop(h, S)
<1>1. h \in Slots /\ S \in SUBSET Slots
  BY FilterAssumption DEF LowStops
<1>2. ASSUME FuzzyHit(t, p)
      PROVE  /\ LowChain(t, p)
             /\ FuzzyValue(t, p) \in Held(t)
             /\ Low(FuzzyValue(t, p)) = p
  <2>1. S # {} /\ Low(t[k]) = p
    BY <1>2 DEF FuzzyHit
  <2>2. k \in S /\ \A j \in S : Distance(h, k) <= Distance(h, j)
    BY <1>1, <2>1, ProbeStops
  <2>3. k \in Slots /\ t[k] # Empty
    BY <1>1, <2>1, <2>2, LowFacts
  <2>4. ASSUME NEW j \in Slots, Distance(h, j) < Distance(h, k) PROVE t[j] # Empty
    <3>1. j \notin S
      BY <1>1, <2>2, <2>3, <2>4, DistanceFacts
    <3> QED
      BY <3>1 DEF LowStops
  <2>5. LowChain(t, p)
    BY <2>1, <2>3, <2>4 DEF LowChain
  <2> QED
    BY <2>1, <2>3, <2>5 DEF FuzzyValue, Held
<1>3. ASSUME LowChain(t, p) PROVE FuzzyHit(t, p)
  <2>1. PICK m \in Slots :
          /\ t[m] # Empty
          /\ Low(t[m]) = p
          /\ \A j \in Slots : Distance(h, j) < Distance(h, m) => t[j] # Empty
    BY <1>3 DEF LowChain
  <2>2. m \in S
    BY <2>1 DEF LowStops
  <2>3. k \in S /\ Distance(h, k) <= Distance(h, m)
    BY <1>1, <2>2, ProbeStops
  <2>4. k \in Slots /\ t[k] # Empty
    <3>1. CASE k = m
      BY <2>1, <3>1
    <3>2. CASE k # m
      BY <1>1, <2>1, <2>3, <3>2, DistanceFacts
    <3> QED
      BY <3>1, <3>2
  <2>5. Low(t[k]) = p
    BY <2>3, <2>4 DEF LowStops
  <2> QED
    BY <2>2, <2>5 DEF FuzzyHit
<1> QED
  BY <1>2, <1>3

-----------------------------------------------------------------------------
(* The insertions of Add. *)

\* Filling an empty slot breaks no chain.
LEMMA FillingKeepsChains ==
    ASSUME NEW t \in TableType, NEW k \in Slots, t[k] = Empty, NEW b \in Values,
           Reachable(t)
    PROVE  LET u == [t EXCEPT ![k] = b]
           IN  /\ u \in TableType
               /\ Held(u) = Held(t) \cup ({b} \ {Empty})
               /\ \A a \in Held(t) : Chain(u, a) /\ LowChain(u, Low(a))
<1> DEFINE u == [t EXCEPT ![k] = b]
<1>1. u \in TableType
  BY DEF TableType
<1>2. \A j \in Slots : u[j] = IF j = k THEN b ELSE t[j]
  BY DEF TableType
<1>3. Held(u) = Held(t) \cup ({b} \ {Empty})
  <2>1. ASSUME NEW v, v \in Held(u) PROVE v \in Held(t) \cup ({b} \ {Empty})
    BY <1>2, <2>1 DEF Held
  <2>2. ASSUME NEW v, v \in Held(t) PROVE v \in Held(u)
    BY <1>2, <2>2 DEF Held
  <2>3. b # Empty => b \in Held(u)
    BY <1>2 DEF Held
  <2> QED
    BY <2>1, <2>2, <2>3
<1>4. ASSUME NEW a \in Held(t) PROVE Chain(u, a) /\ LowChain(u, Low(a))
  <2>1. Chain(t, a) /\ LowChain(t, Low(a)) /\ a # Empty
    BY <1>4 DEF Reachable, Held
  <2>2. Chain(u, a)
    BY <1>2, <2>1 DEF Chain
  <2>3. LowChain(u, Low(a))
    BY <1>2, <2>1 DEF LowChain
  <2> QED
    BY <2>2, <2>3
<1> QED
  BY <1>1, <1>3, <1>4

\* An insertion changes nothing or fills the empty slot its probe ends at.
LEMMA InsertFills ==
    ASSUME NEW t \in TableType, NEW h \in Slots, NEW S \in SUBSET Slots, NEW a \in Values,
           S # {}
    PROVE  LET k == ProbeStop(h, S)
               u == Insert(t, h, S, a)
           IN  /\ k \in S
               /\ \A j \in Slots : Distance(h, j) < Distance(h, k) => j \notin S
               /\ t[k] = Empty => u = [t EXCEPT ![k] = a]
               /\ t[k] # Empty => u = t
<1> DEFINE k == ProbeStop(h, S)
<1>1. k \in S /\ \A j \in S : Distance(h, k) <= Distance(h, j)
  BY ProbeStops
<1>2. \A j \in Slots : Distance(h, j) < Distance(h, k) => j \notin S
  BY <1>1, DistanceFacts
<1> QED
  BY <1>1, <1>2 DEF Insert

\* What one call of Add does to a table: nothing if the table is full, and otherwise
\* it adds the address (0 excepted) and leaves every chain whole.
LEMMA AddKeepsReachable ==
    ASSUME NEW t \in TableType, NEW a \in Addr, Reachable(t)
    PROVE  /\ AfterAdd(t, a) \in TableType
           /\ Reachable(AfterAdd(t, a))
           /\ FullStops(t, a) = {} => AfterAdd(t, a) = t
           /\ FullStops(t, a) # {} => Held(AfterAdd(t, a)) = Held(t) \cup ({a} \ {Empty})
<1>1. CASE FullStops(t, a) = {}
  BY <1>1 DEF AfterAdd
<1>2. CASE FullStops(t, a) # {}
  <2> DEFINE h == Hash[a]
             S == FullStops(t, a)
             k == ProbeStop(h, S)
             u == WithFull(t, a)
             p == Low(a)
             g == Hash[p]
             R == LowStops(u, p)
             m == ProbeStop(g, R)
             w == Insert(u, g, R, a)
  <2>1. /\ h \in Slots /\ S \in SUBSET Slots /\ S # {}
        /\ p \in Addr /\ g \in Slots /\ R \in SUBSET Slots
        /\ a \in Values /\ a \in Nat
    BY <1>2, FilterAssumption, LowFacts DEF FullStops, LowStops, Values
  <2>2. AfterAdd(t, a) = w
    BY <1>2 DEF AfterAdd
  <2>3. /\ k \in S
        /\ \A j \in Slots : Distance(h, j) < Distance(h, k) => j \notin S
        /\ t[k] = Empty => u = [t EXCEPT ![k] = a]
        /\ t[k] # Empty => u = t
    BY <2>1, InsertFills DEF WithFull
  <2>4. k \in Slots /\ u[k] = a
    <3>1. k \in Slots /\ (t[k] = Empty \/ t[k] = a)
      BY <2>3 DEF FullStops
    <3> QED
      BY <2>3, <3>1 DEF TableType
  <2>5. /\ u \in TableType
        /\ Held(u) = Held(t) \cup ({a} \ {Empty})
        /\ \A b \in Held(t) : Chain(u, b) /\ LowChain(u, Low(b))
    <3>1. CASE t[k] = Empty
      BY <2>1, <2>3, <2>4, <3>1, FillingKeepsChains
    <3>2. CASE t[k] # Empty
      <4>1. u = t
        BY <2>3, <3>2
      <4>2. a = Empty \/ a \in Held(t)
        BY <2>4, <4>1 DEF Held
      <4> QED
        BY <4>1, <4>2 DEF Reachable, Held
    <3> QED
      BY <3>1, <3>2
  <2>6. Chain(u, a)
    <3>1. \A j \in Slots : Distance(h, j) < Distance(h, k) => t[j] # Empty
      BY <2>3 DEF FullStops
    <3>2. \A j \in Slots : Distance(h, j) < Distance(h, k) => u[j] # Empty
      BY <2>1, <2>3, <2>4, <3>1, DistanceFacts DEF TableType
    <3> QED
      BY <2>4, <3>2 DEF Chain
  <2>7. R # {}
    BY <2>4 DEF LowStops
  <2>8. /\ m \in R
        /\ \A j \in Slots : Distance(g, j) < Distance(g, m) => j \notin R
        /\ u[m] = Empty => w = [u EXCEPT ![m] = a]
        /\ u[m] # Empty => w = u
    BY <2>1, <2>5, <2>7, InsertFills
  <2>9. m \in Slots /\ (u[m] = Empty \/ Low(u[m]) = p)
    BY <2>8 DEF LowStops
  <2>10. \A j \in Slots : Distance(g, j) < Distance(g, m) => u[j] # Empty
    BY <2>8 DEF LowStops
  <2>11. /\ w \in TableType
         /\ Held(w) = Held(u)
         /\ \A b \in Held(u) : Chain(w, b)
         /\ \A b \in Held(t) : LowChain(w, Low(b))
    <3>1. CASE u[m] # Empty
      BY <2>5, <2>6, <2>8, <3>1 DEF Held
    <3>2. CASE u[m] = Empty
      <4>1. w = [u EXCEPT ![m] = a]
        BY <2>8, <3>2
      <4>2. \A j \in Slots : w[j] = IF j = m THEN a ELSE u[j]
        BY <2>5, <4>1 DEF TableType
      <4>3. w \in TableType
        BY <2>1, <2>5, <4>1 DEF TableType
      <4>4. Held(w) = Held(u)
        <5>1. ASSUME NEW v, v \in Held(w) PROVE v \in Held(u)
          BY <2>4, <4>2, <5>1 DEF Held
        <5>2. ASSUME NEW v, v \in Held(u) PROVE v \in Held(w)
          BY <3>2, <4>2, <5>2 DEF Held
        <5> QED
          BY <5>1, <5>2
      <4>5. ASSUME NEW b \in Held(u) PROVE Chain(w, b)
        <5>1. Chain(u, b) /\ b # Empty
          BY <2>5, <2>6 DEF Held
        <5> QED
          BY <3>2, <4>2, <5>1 DEF Chain
      <4>6. ASSUME NEW b \in Held(t) PROVE LowChain(w, Low(b))
        <5>1. LowChain(u, Low(b))
          BY <2>5
        <5> QED
          BY <3>2, <4>2, <5>1 DEF LowChain
      <4> QED
        BY <4>3, <4>4, <4>5, <4>6
    <3> QED
      BY <3>1, <3>2
  <2>12. a # Empty => LowChain(w, p)
    <3> SUFFICES ASSUME a # Empty PROVE LowChain(w, p)
      OBVIOUS
    <3>1. CASE u[m] = Empty
      <4>1. \A j \in Slots : w[j] = IF j = m THEN a ELSE u[j]
        BY <2>5, <2>8, <3>1 DEF TableType
      <4> QED
        BY <2>9, <2>10, <4>1 DEF LowChain
    <3>2. CASE u[m] # Empty
      BY <2>8, <2>9, <2>10, <3>2 DEF LowChain
    <3> QED
      BY <3>1, <3>2
  <2>13. Reachable(w)
    <3>1. ASSUME NEW b \in Held(w) PROVE Chain(w, b) /\ LowChain(w, Low(b))
      <4>1. b \in Held(t) \/ (b = a /\ a # Empty)
        BY <2>5, <2>11
      <4> QED
        BY <2>11, <2>12, <4>1
    <3> QED
      BY <3>1 DEF Reachable
  <2> QED
    BY <1>2, <2>2, <2>5, <2>11, <2>13
<1> QED
  BY <1>1, <1>2

-----------------------------------------------------------------------------
(* The inductive invariant. *)

TablesReachable == \A x \in Tables : Reachable(filter[x])

\* The time the last flip had read; 0 before the first.
LastFlip == nextFlip - TTL

\* Expire runs when it is due and flips as soon as a TTL has passed.
TimesOrdered ==
    /\ 0 <= LastFlip
    /\ LastFlip <= expired
    /\ expired < nextFlip
    /\ expiring = Never => expired <= clock /\ clock <= expired + Period + MaxLag
    /\ expiring # Never =>
          /\ expired <= expiring /\ expiring <= expired + Period + MaxLag
          /\ expiring <= clock /\ clock <= expiring + MaxLag

\* Where an address can be, given when it was last heard: in the active table; in
\* the other one or forgotten long enough after, if it was heard before the flip.
HeardWhere ==
    \A a \in Addr \ {0} :
        /\ heard[a] <= clock
        /\ heard[a] # Never =>
              \/ a \in Held(filter[active])
              \/ /\ heard[a] <= LastFlip + MaxLag
                 /\ a \in Held(filter[Other(active)]) \/ heard[a] + TTL - MaxLag <= clock
        /\ a \in Held(filter[active]) => heard[a] # Never /\ LastFlip <= heard[a]
        /\ a \in Held(filter[Other(active)]) =>
              heard[a] # Never /\ LastFlip <= heard[a] + TTL + Period + MaxLag

IInv == TypeOK /\ TablesReachable /\ TimesOrdered /\ HeardWhere

LEMMA EmptyTableFacts ==
    EmptyTable \in TableType /\ Held(EmptyTable) = {} /\ Reachable(EmptyTable)
BY DEF EmptyTable, TableType, Held, Reachable, Values

LEMMA OtherFacts ==
    ASSUME NEW x \in Tables
    PROVE  Other(x) \in Tables /\ Other(x) # x /\ Other(Other(x)) = x /\ Tables = {x, Other(x)}
BY DEF Tables, Other

LEMMA InitIInv == Init => IInv
<1> SUFFICES ASSUME Init PROVE IInv
  OBVIOUS
<1>1. filter["A"] = EmptyTable /\ filter["B"] = EmptyTable /\ active = "A"
  BY DEF Init, Tables
<1>2. TypeOK
  BY EmptyTableFacts, FilterAssumption DEF Init, TypeOK, TableType, Values, Tables, Never
<1>3. TablesReachable
  BY <1>1, EmptyTableFacts DEF TablesReachable, Tables
<1>4. TimesOrdered
  BY FilterAssumption DEF Init, TimesOrdered, LastFlip, Never
<1>5. HeardWhere
  <2>1. Held(filter[active]) = {} /\ Held(filter[Other(active)]) = {}
    BY <1>1, EmptyTableFacts DEF Other
  <2>2. \A a \in Addr : heard[a] = Never /\ clock = 0
    BY DEF Init
  <2> QED
    BY <2>1, <2>2 DEF HeardWhere, Never
<1> QED
  BY <1>2, <1>3, <1>4, <1>5 DEF IInv

\* What Add does to the state: at most one address more, in the active table.
LEMMA AddEffect ==
    ASSUME IInv, NEW a \in Addr, Add(a)
    PROVE  /\ filter' \in [Tables -> TableType]
           /\ TablesReachable'
           /\ filter'[Other(active)] = filter[Other(active)]
           /\ \/ filter'[active] = filter[active] /\ heard' = heard
              \/ /\ Held(filter'[active]) = Held(filter[active]) \cup ({a} \ {0})
                 /\ heard' = [heard EXCEPT ![a] = clock]
<1> DEFINE t == filter[active]
<1>1. t \in TableType /\ Reachable(t) /\ active \in Tables
  BY DEF IInv, TypeOK, TablesReachable, TableType, Values
<1>2. /\ AfterAdd(t, a) \in TableType
      /\ Reachable(AfterAdd(t, a))
      /\ FullStops(t, a) = {} => AfterAdd(t, a) = t
      /\ FullStops(t, a) # {} => Held(AfterAdd(t, a)) = Held(t) \cup ({a} \ {0})
  BY <1>1, AddKeepsReachable DEF Empty
<1>3. filter' = [filter EXCEPT ![active] = AfterAdd(t, a)]
  BY DEF Add
<1>4. filter \in [Tables -> TableType]
  BY DEF IInv, TypeOK, TableType, Values
<1>5. filter'[active] = AfterAdd(t, a) /\ \A x \in Tables \ {active} : filter'[x] = filter[x]
  BY <1>1, <1>3, <1>4
<1>6. filter' \in [Tables -> TableType]
  BY <1>2, <1>3, <1>4
<1>7. TablesReachable'
  BY <1>1, <1>2, <1>5 DEF IInv, TablesReachable
<1>8. filter'[Other(active)] = filter[Other(active)]
  BY <1>1, <1>5, OtherFacts
<1>9. \/ filter'[active] = filter[active] /\ heard' = heard
      \/ /\ Held(filter'[active]) = Held(filter[active]) \cup ({a} \ {0})
         /\ heard' = [heard EXCEPT ![a] = clock]
  BY <1>2, <1>5 DEF Add
<1> QED
  BY <1>6, <1>7, <1>8, <1>9

LEMMA NextIInv == IInv /\ [Next]_vars => IInv'
<1> SUFFICES ASSUME IInv, [Next]_vars PROVE IInv'
  OBVIOUS
<1> USE FilterAssumption
<1>1. TypeOK /\ active \in Tables /\ TablesReachable /\ TimesOrdered /\ HeardWhere
  BY DEF IInv, TypeOK
<1>2. ASSUME NEW a \in Addr, Add(a) PROVE IInv'
  <2>1. UNCHANGED <<active, nextFlip, clock, expiring, expired>>
    BY <1>2 DEF Add
  <2>2. /\ filter' \in [Tables -> TableType]
        /\ TablesReachable'
        /\ filter'[Other(active)] = filter[Other(active)]
        /\ \/ filter'[active] = filter[active] /\ heard' = heard
           \/ /\ Held(filter'[active]) = Held(filter[active]) \cup ({a} \ {0})
              /\ heard' = [heard EXCEPT ![a] = clock]
    BY <1>2, AddEffect
  <2>3. heard' \in [Addr -> Nat \cup {Never}]
    BY <1>1, <2>2 DEF TypeOK
  <2>4. TypeOK'
    BY <1>1, <2>1, <2>2, <2>3 DEF TypeOK, TableType, Values
  <2>5. TimesOrdered'
    BY <1>1, <2>1 DEF TimesOrdered, LastFlip
  <2>6. LastFlip \in Nat /\ LastFlip <= clock /\ clock \in Nat /\ LastFlip' = LastFlip
    BY <1>1, <2>1 DEF TimesOrdered, LastFlip, TypeOK, Never
  <2>7. HeardWhere'
    <3> SUFFICES ASSUME NEW b \in Addr \ {0}
                 PROVE  /\ heard'[b] <= clock
                        /\ heard'[b] # Never =>
                              \/ b \in Held(filter'[active])
                              \/ /\ heard'[b] <= LastFlip + MaxLag
                                 /\ \/ b \in Held(filter[Other(active)])
                                    \/ heard'[b] + TTL - MaxLag <= clock
                        /\ b \in Held(filter'[active]) => heard'[b] # Never /\ LastFlip <= heard'[b]
                        /\ b \in Held(filter[Other(active)]) =>
                              heard'[b] # Never /\ LastFlip <= heard'[b] + TTL + Period + MaxLag
      BY <2>1, <2>2, <2>6 DEF HeardWhere
    <3>1. CASE filter'[active] = filter[active] /\ heard' = heard
      BY <1>1, <3>1 DEF HeardWhere
    <3>2. CASE /\ Held(filter'[active]) = Held(filter[active]) \cup ({a} \ {0})
               /\ heard' = [heard EXCEPT ![a] = clock]
      <4>1. CASE b = a
        <5>1. heard'[b] = clock /\ b \in Held(filter'[active])
          BY <1>1, <3>2, <4>1 DEF TypeOK
        <5> QED
          BY <2>6, <5>1 DEF Never
      <4>2. CASE b # a
        <5>1. heard'[b] = heard[b] /\ (b \in Held(filter'[active]) <=> b \in Held(filter[active]))
          BY <1>1, <3>2, <4>2 DEF TypeOK
        <5> QED
          BY <1>1, <5>1 DEF HeardWhere
      <4> QED
        BY <4>1, <4>2
    <3> QED
      BY <2>2, <3>1, <3>2
  <2> QED
    BY <2>2, <2>4, <2>5, <2>7 DEF IInv
<1>3. CASE ExpireCall
  <2>1. TypeOK'
    BY <1>1, <1>3 DEF TypeOK, ExpireCall
  <2>2. TablesReachable'
    BY <1>1, <1>3 DEF TablesReachable, ExpireCall
  <2>3. TimesOrdered'
    BY <1>1, <1>3 DEF TimesOrdered, LastFlip, ExpireCall, TypeOK, Never
  <2>4. HeardWhere'
    BY <1>1, <1>3 DEF HeardWhere, LastFlip, ExpireCall
  <2> QED
    BY <2>1, <2>2, <2>3, <2>4 DEF IInv
<1>4. CASE Expire
  <2>1. /\ expiring \in Nat /\ expired' = expiring /\ expiring' = Never
        /\ clock' = clock /\ heard' = heard
        /\ clock \in Nat /\ expired \in Nat /\ nextFlip \in Nat
        /\ \A b \in Addr : heard[b] \in Nat \cup {Never}
    BY <1>1, <1>4 DEF Expire, TypeOK
  <2>2. CASE expiring >= nextFlip
    <3>1. /\ filter' = [filter EXCEPT ![Other(active)] = EmptyTable]
          /\ active' = Other(active)
          /\ nextFlip' = expiring + TTL
      BY <1>4, <2>2 DEF Expire
    <3>2. /\ filter'[Other(active)] = EmptyTable
          /\ filter'[active] = filter[active]
          /\ Other(active') = active
      BY <1>1, <3>1, OtherFacts DEF TypeOK
    <3>3. TypeOK'
      BY <1>1, <2>1, <3>1, EmptyTableFacts, OtherFacts DEF TypeOK, TableType, Values
    <3>4. TablesReachable'
      BY <1>1, <3>2, EmptyTableFacts, OtherFacts DEF TablesReachable
    <3>5. LastFlip' = expiring
      BY <2>1, <3>1 DEF LastFlip
    <3>6. TimesOrdered'
      BY <1>1, <2>1, <3>1, <3>5 DEF TimesOrdered, Never
    <3>7. HeardWhere'
      <4> SUFFICES ASSUME NEW b \in Addr \ {0}
                   PROVE  /\ heard[b] <= clock
                          /\ heard[b] # Never =>
                                /\ heard[b] <= expiring + MaxLag
                                /\ \/ b \in Held(filter[active])
                                   \/ heard[b] + TTL - MaxLag <= clock
                          /\ b \in Held(filter[active]) =>
                                heard[b] # Never /\ expiring <= heard[b] + TTL + Period + MaxLag
        <5>1. Held(filter'[active']) = {} /\ filter'[Other(active')] = filter[active]
          BY <3>1, <3>2, EmptyTableFacts
        <5> QED
          BY <2>1, <3>5, <5>1 DEF HeardWhere
      <4>1. heard[b] \in Nat \cup {Never} /\ LastFlip \in Int /\ nextFlip = LastFlip + TTL
        BY <2>1 DEF LastFlip
      <4>2. /\ expired < nextFlip /\ expiring <= expired + Period + MaxLag
            /\ expiring <= clock /\ clock <= expiring + MaxLag
        BY <1>1, <2>1 DEF TimesOrdered, Never
      <4>3. heard[b] <= clock
        BY <1>1 DEF HeardWhere
      <4>4. heard[b] # Never =>
              /\ heard[b] <= expiring + MaxLag
              /\ b \in Held(filter[active]) \/ heard[b] + TTL - MaxLag <= clock
        <5>1. heard[b] # Never =>
                \/ b \in Held(filter[active])
                \/ heard[b] <= LastFlip + MaxLag
          BY <1>1 DEF HeardWhere
        <5> QED
          BY <2>1, <2>2, <4>1, <4>2, <4>3, <5>1 DEF Never
      <4>5. b \in Held(filter[active]) =>
              heard[b] # Never /\ expiring <= heard[b] + TTL + Period + MaxLag
        <5>1. b \in Held(filter[active]) => heard[b] # Never /\ LastFlip <= heard[b]
          BY <1>1 DEF HeardWhere
        <5> QED
          BY <2>1, <4>1, <4>2, <5>1 DEF Never
      <4> QED
        BY <4>3, <4>4, <4>5
    <3> QED
      BY <3>3, <3>4, <3>6, <3>7 DEF IInv
  <2>3. CASE ~(expiring >= nextFlip)
    <3>1. UNCHANGED <<filter, active, nextFlip>>
      BY <1>4, <2>3 DEF Expire
    <3>2. TypeOK'
      BY <1>1, <2>1, <3>1 DEF TypeOK
    <3>3. TablesReachable'
      BY <1>1, <3>1 DEF TablesReachable
    <3>4. TimesOrdered'
      BY <1>1, <2>1, <2>3, <3>1 DEF TimesOrdered, LastFlip, Never
    <3>5. HeardWhere'
      BY <1>1, <2>1, <3>1 DEF HeardWhere, LastFlip
    <3> QED
      BY <3>2, <3>3, <3>4, <3>5 DEF IInv
  <2> QED
    BY <2>2, <2>3
<1>5. CASE Tick
  <2>1. clock' = clock + 1 /\ UNCHANGED <<filter, active, nextFlip, expiring, expired, heard>>
    BY <1>5 DEF Tick
  <2>2. TypeOK'
    BY <1>1, <2>1 DEF TypeOK
  <2>3. TablesReachable'
    BY <1>1, <2>1 DEF TablesReachable
  <2>4. TimesOrdered'
    BY <1>1, <1>5, <2>1 DEF TimesOrdered, LastFlip, Tick, TypeOK, Never
  <2>5. HeardWhere'
    BY <1>1, <2>1 DEF HeardWhere, LastFlip, TypeOK, Never
  <2> QED
    BY <2>2, <2>3, <2>4, <2>5 DEF IInv
<1>6. CASE UNCHANGED vars
  BY <1>1, <1>6 DEF vars, IInv, TypeOK, TablesReachable, TimesOrdered, HeardWhere, LastFlip
<1> QED
  BY <1>2, <1>3, <1>4, <1>5, <1>6 DEF Next

-----------------------------------------------------------------------------
(* The theorems. *)

LEMMA SpecIInv == Spec => []IInv
BY InitIInv, NextIInv, PTL DEF Spec

\* Every reachable state has the types the Go declarations give it (track of both
\* tables, the active pointer and the flip time).
THEOREM TypeCorrect == Spec => []TypeOK
<1>1. IInv => TypeOK
  BY DEF IInv
<1> QED
  BY <1>1, SpecIInv, PTL

LEMMA IInvTestExact == IInv => TestExact
<1> SUFFICES ASSUME IInv, NEW a \in Addr \ {0} PROVE Test(a) <=> a \in Stored
  BY DEF TestExact
<1>1. ASSUME NEW x \in Tables PROVE TestIn(filter[x], a) <=> a \in Held(filter[x])
  <2>1. filter[x] \in TableType /\ Reachable(filter[x])
    BY <1>1 DEF IInv, TypeOK, TablesReachable, TableType, Values
  <2>2. TestIn(filter[x], a) <=> Chain(filter[x], a)
    BY <2>1, TestIsChain DEF Empty
  <2>3. Chain(filter[x], a) => a \in Held(filter[x])
    BY DEF Chain, Held, Empty
  <2>4. a \in Held(filter[x]) => Chain(filter[x], a)
    BY <2>1 DEF Reachable
  <2> QED
    BY <2>2, <2>3, <2>4
<1> QED
  BY <1>1 DEF Test, Stored, Tables

\* Test answers yes for exactly the addresses in the tables, whatever the hash
\* function and however full the tables are.
THEOREM TestIsExact == Spec => []TestExact
BY SpecIInv, IInvTestExact, PTL

LEMMA IInvFuzzyComplete == IInv => FuzzyComplete
<1> SUFFICES ASSUME IInv, NEW a \in Stored, Low(a) # 0
             PROVE  TestFuzzy(Low(a)) \in {b \in Stored : Low(b) = Low(a)}
  BY DEF FuzzyComplete
<1> DEFINE p == Low(a)
<1>1. \A x \in Tables : filter[x] \in TableType /\ Reachable(filter[x])
  BY DEF IInv, TypeOK, TablesReachable, TableType, Values
<1>2. a \in Addr
  BY <1>1 DEF Stored, Held, TableType, Tables, Values
<1>3. p \in Addr /\ p # 0
  BY <1>2, LowFacts
<1>4. ASSUME NEW x \in Tables, FuzzyHit(filter[x], p)
      PROVE  FuzzyValue(filter[x], p) \in Held(filter[x]) /\ Low(FuzzyValue(filter[x], p)) = p
  BY <1>1, <1>3, <1>4, FuzzyIsChain
<1>5. ASSUME NEW x \in Tables, a \in Held(filter[x]) PROVE FuzzyHit(filter[x], p)
  <2>1. LowChain(filter[x], p)
    BY <1>1, <1>5 DEF Reachable
  <2> QED
    BY <1>1, <1>3, <2>1, FuzzyIsChain
<1>6. CASE FuzzyHit(filter["A"], p)
  BY <1>4, <1>6 DEF TestFuzzy, Stored, Tables
<1>7. CASE ~FuzzyHit(filter["A"], p)
  <2>1. FuzzyHit(filter["B"], p)
    BY <1>5, <1>7 DEF Stored, Tables
  <2> QED
    BY <1>4, <1>7, <2>1 DEF TestFuzzy, Stored, Tables
<1> QED
  BY <1>6, <1>7

\* TestFuzzy finds an address with the given low 16 bits whenever one is stored,
\* although Add files only the first of several under them.
THEOREM FuzzyIsComplete == Spec => []FuzzyComplete
BY SpecIInv, IInvFuzzyComplete, PTL

LEMMA IInvAges == IInv => Retained /\ Forgotten
<1> SUFFICES ASSUME IInv, NEW a \in Addr \ {0}
             PROVE  /\ heard[a] # Never /\ clock - heard[a] < TTL - MaxLag => Test(a)
                    /\ Test(a) => heard[a] # Never /\ clock - heard[a] <= MaxAge
  BY DEF Retained, Forgotten
<1> USE FilterAssumption
<1>1. Test(a) <=> a \in Held(filter[active]) \cup Held(filter[Other(active)])
  <2>1. Stored = Held(filter[active]) \cup Held(filter[Other(active)])
    BY DEF Stored, Other, IInv, TypeOK, Tables
  <2> QED
    BY <2>1, IInvTestExact DEF TestExact
<1>2. /\ clock \in Nat /\ nextFlip \in Nat /\ expired \in Nat
      /\ expiring \in Nat \cup {Never} /\ heard[a] \in Nat \cup {Never}
      /\ LastFlip \in Int /\ nextFlip = LastFlip + TTL
  BY DEF IInv, TypeOK, LastFlip
<1>3. clock < LastFlip + TTL + Period + 2 * MaxLag
  BY <1>2 DEF IInv, TimesOrdered, Never
<1>4. heard[a] # Never /\ clock - heard[a] < TTL - MaxLag => Test(a)
  <2>1. heard[a] # Never =>
          \/ a \in Held(filter[active])
          \/ a \in Held(filter[Other(active)])
          \/ heard[a] + TTL - MaxLag <= clock
    BY DEF IInv, HeardWhere
  <2> QED
    BY <1>1, <1>2, <2>1 DEF Never
<1>5. Test(a) => heard[a] # Never /\ clock - heard[a] <= MaxAge
  <2>1. Test(a) => heard[a] # Never /\ LastFlip <= heard[a] + TTL + Period + MaxLag
    <3>1. a \in Held(filter[active]) => heard[a] # Never /\ LastFlip <= heard[a]
      BY DEF IInv, HeardWhere
    <3>2. a \in Held(filter[Other(active)]) =>
            heard[a] # Never /\ LastFlip <= heard[a] + TTL + Period + MaxLag
      BY DEF IInv, HeardWhere
    <3> QED
      BY <1>1, <1>2, <3>1, <3>2 DEF Never
  <2> QED
    BY <1>2, <1>3, <2>1 DEF Never, MaxAge
<1> QED
  BY <1>4, <1>5

\* No address is forgotten within a TTL of being heard, but for the wait of Expire.
THEOREM AddressesRetained == Spec => []Retained
BY SpecIInv, IInvAges, PTL

\* Every address is forgotten once it was not heard for MaxAge.
THEOREM AddressesForgotten == Spec => []Forgotten
BY SpecIInv, IInvAges, PTL

-----------------------------------------------------------------------------
(* How much room an address takes. *)

\* No address lies in three slots of a table.
AtMostTwo(t) ==
    \A i, j, k \in Slots :
        t[i] # Empty /\ t[j] = t[i] /\ t[k] = t[i] => i = j \/ j = k \/ i = k

\* Add writes an address that the table has not into two slots at most, and one that
\* it has nowhere: both probes end at a slot that is taken.
LEMMA AddTakesTwo ==
    ASSUME NEW t \in TableType, NEW a \in Addr, Reachable(t), AtMostTwo(t)
    PROVE  AtMostTwo(AfterAdd(t, a))
<1>1. CASE FullStops(t, a) = {}
  BY <1>1 DEF AfterAdd
<1>2. CASE FullStops(t, a) # {}
  <2> DEFINE h == Hash[a]
             S == FullStops(t, a)
             k == ProbeStop(h, S)
             u == WithFull(t, a)
             p == Low(a)
             g == Hash[p]
             R == LowStops(u, p)
             m == ProbeStop(g, R)
             w == Insert(u, g, R, a)
  <2>1. /\ h \in Slots /\ S \in SUBSET Slots /\ S # {}
        /\ p \in Addr /\ g \in Slots /\ R \in SUBSET Slots
        /\ a \in Values
    BY <1>2, FilterAssumption, LowFacts DEF FullStops, LowStops, Values
  <2>2. AfterAdd(t, a) = w
    BY <1>2 DEF AfterAdd
  <2>3. /\ k \in S
        /\ \A j \in Slots : Distance(h, j) < Distance(h, k) => j \notin S
        /\ t[k] = Empty => u = [t EXCEPT ![k] = a]
        /\ t[k] # Empty => u = t
    BY <2>1, InsertFills DEF WithFull
  <2>4. k \in Slots /\ (t[k] = Empty \/ t[k] = a)
    BY <2>3 DEF FullStops
  <2>5. u \in TableType /\ u[k] = a /\ \A j \in Slots : j # k => u[j] = t[j]
    BY <2>1, <2>3, <2>4 DEF TableType
  <2>6. R # {}
    BY <2>4, <2>5 DEF LowStops
  <2>7. /\ m \in R
        /\ \A j \in Slots : Distance(g, j) < Distance(g, m) => j \notin R
        /\ u[m] = Empty => w = [u EXCEPT ![m] = a]
        /\ u[m] # Empty => w = u
    BY <2>1, <2>5, <2>6, InsertFills
  <2>8. m \in Slots /\ \A j \in Slots : j # m => w[j] = u[j]
    BY <2>1, <2>5, <2>7 DEF TableType
  <2>9. \A j \in Slots : w[j] = t[j] \/ (j \in {k, m} /\ w[j] = a)
    <3>1. w[m] = u[m] \/ w[m] = a
      BY <2>5, <2>7, <2>8 DEF TableType
    <3> QED
      BY <2>5, <2>8, <3>1
  <2>10. CASE a \in Held(t)
    <3>1. Chain(t, a) /\ LowChain(t, p) /\ a # Empty
      BY <2>10 DEF Reachable, Held
    <3>2. t[k] # Empty
      <4>1. PICK n \in Slots :
              /\ t[n] = a
              /\ \A j \in Slots : Distance(h, j) < Distance(h, n) => t[j] # Empty
        BY <3>1 DEF Chain
      <4>2. n \in S
        BY <4>1 DEF FullStops
      <4>3. ~(Distance(h, n) < Distance(h, k))
        BY <2>3, <4>2
      <4>4. k = n \/ Distance(h, k) < Distance(h, n)
        BY <2>1, <2>4, <4>3, DistanceFacts
      <4> QED
        BY <2>4, <3>1, <4>1, <4>4
    <3>3. u = t
      BY <2>3, <3>2
    <3>4. u[m] # Empty
      <4>1. PICK n \in Slots :
              /\ t[n] # Empty
              /\ Low(t[n]) = p
              /\ \A j \in Slots : Distance(g, j) < Distance(g, n) => t[j] # Empty
        BY <3>1 DEF LowChain
      <4>2. n \in R
        BY <3>3, <4>1 DEF LowStops
      <4>3. ~(Distance(g, n) < Distance(g, m))
        BY <2>7, <4>2
      <4>4. m = n \/ Distance(g, m) < Distance(g, n)
        BY <2>1, <2>8, <4>3, DistanceFacts
      <4> QED
        BY <2>8, <3>3, <4>1, <4>4
    <3> QED
      BY <2>2, <2>7, <3>3, <3>4
  <2>11. CASE a \notin Held(t)
    <3> SUFFICES ASSUME NEW x \in Slots, NEW y \in Slots, NEW z \in Slots,
                        w[x] # Empty, w[y] = w[x], w[z] = w[x]
                 PROVE  x = y \/ y = z \/ x = z
      BY <2>2 DEF AtMostTwo
    <3>1. CASE w[x] = a
      <4>1. a \notin {t[j] : j \in Slots}
        BY <2>11, <3>1 DEF Held
      <4>2. x \in {k, m} /\ y \in {k, m} /\ z \in {k, m}
        BY <2>9, <3>1, <4>1
      <4> QED
        BY <4>2
    <3>2. CASE w[x] # a
      <4>1. t[x] = w[x] /\ t[y] = w[y] /\ t[z] = w[z]
        BY <2>9, <3>2
      <4> QED
        BY <4>1 DEF AtMostTwo
    <3> QED
      BY <3>1, <3>2
  <2> QED
    BY <2>10, <2>11
<1> QED
  BY <1>1, <1>2

\* A table without an empty slot holds at least half as many addresses as it has slots.
LEMMA FullHoldsHalf ==
    ASSUME NEW t \in TableType, AtMostTwo(t), \A k \in Slots : t[k] # Empty
    PROVE  2 * Cardinality(Held(t)) >= Size
<1> DEFINE First(v) == CHOOSE k \in Slots : t[k] = v
           H == Held(t)
           f == [k \in Slots |-> <<t[k], IF First(t[k]) = k THEN 1 ELSE 2>>]
<1>1. Size \in Nat /\ IsFiniteSet(Slots) /\ Cardinality(Slots) = Size
  <2>1. Size \in Nat \ {0}
    BY FilterAssumption
  <2>2. /\ IsFiniteSet(0 .. Size - 1)
        /\ Cardinality(0 .. Size - 1) = IF 0 > Size - 1 THEN 0 ELSE Size - 1 - 0 + 1
    BY <2>1, FS_Interval
  <2> QED
    BY <2>1, <2>2 DEF Slots
<1>2. IsFiniteSet(H)
  <2> DEFINE e == [k \in Slots |-> t[k]]
  <2>1. e \in Surjection(Slots, H)
    BY DEF Held, Surjection
  <2> HIDE DEF e, H
  <2> QED
    BY <1>1, <2>1, FS_Surjection
<1>3. IsFiniteSet(1 .. 2) /\ Cardinality(1 .. 2) = 2
  <2>1. 1 \in Int /\ 2 \in Int
    OBVIOUS
  <2>2. IsFiniteSet(1 .. 2) /\ Cardinality(1 .. 2) = IF 1 > 2 THEN 0 ELSE 2 - 1 + 1
    BY ONLY <2>1, FS_Interval
  <2> QED
    BY <2>2
<1>4. IsFiniteSet(H \X (1 .. 2)) /\ Cardinality(H \X (1 .. 2)) = Cardinality(H) * 2
  <2> HIDE DEF H
  <2> QED
    BY <1>2, <1>3, FS_Product
<1>5. \A k \in Slots : First(t[k]) \in Slots /\ t[First(t[k])] = t[k]
  OBVIOUS
<1>6. f \in [Slots -> H \X (1 .. 2)]
  BY DEF Held
<1>7. ASSUME NEW i \in Slots, NEW j \in Slots, f[i] = f[j] PROVE i = j
  <2>1. t[i] = t[j] /\ (First(t[i]) = i <=> First(t[j]) = j)
    BY <1>7
  <2>2. First(t[i]) \in Slots /\ t[First(t[i])] = t[i] /\ First(t[j]) = First(t[i])
    BY <1>5, <2>1
  <2> HIDE DEF First
  <2> QED
    BY <2>1, <2>2 DEF AtMostTwo
<1>8. f \in Injection(Slots, H \X (1 .. 2))
  <2> HIDE DEF f, H
  <2> QED
    BY <1>6, <1>7 DEF Injection, IsInjective
<1>9. Cardinality(Slots) <= Cardinality(H \X (1 .. 2))
  <2> HIDE DEF f, H
  <2> QED
    BY <1>4, <1>8, FS_Injection
<1>10. Cardinality(H) \in Nat
  <2> HIDE DEF H
  <2> QED
    BY <1>2, FS_CardinalityType
<1> QED
  BY <1>1, <1>4, <1>9, <1>10

TwoSlotsEach == \A x \in Tables : AtMostTwo(filter[x])

LEMMA SpecTwoSlotsEach == Spec => []TwoSlotsEach
<1>1. Init => TwoSlotsEach
  BY DEF Init, TwoSlotsEach, AtMostTwo, EmptyTable
<1>2. IInv /\ TwoSlotsEach /\ [Next]_vars => TwoSlotsEach'
  <2> SUFFICES ASSUME IInv, TwoSlotsEach, [Next]_vars PROVE TwoSlotsEach'
    OBVIOUS
  <2>1. /\ filter \in [Tables -> TableType]
        /\ active \in Tables
        /\ \A x \in Tables : Reachable(filter[x])
    BY DEF IInv, TypeOK, TablesReachable, TableType, Values
  <2>2. ASSUME NEW a \in Addr, Add(a) PROVE TwoSlotsEach'
    <3>1. filter' = [filter EXCEPT ![active] = AfterAdd(filter[active], a)]
      BY <2>2 DEF Add
    <3>2. AtMostTwo(AfterAdd(filter[active], a))
      BY <2>1, AddTakesTwo DEF TwoSlotsEach
    <3> QED
      BY <2>1, <3>1, <3>2 DEF TwoSlotsEach
  <2>3. CASE Expire
    <3>1. AtMostTwo(EmptyTable)
      BY DEF AtMostTwo, EmptyTable
    <3>2. \/ filter' = [filter EXCEPT ![Other(active)] = EmptyTable]
          \/ filter' = filter
      BY <2>3 DEF Expire
    <3> QED
      BY <2>1, <3>1, <3>2 DEF TwoSlotsEach
  <2>4. CASE ExpireCall \/ Tick \/ UNCHANGED vars
    BY <2>4 DEF ExpireCall, Tick, vars, TwoSlotsEach
  <2> QED
    BY <2>2, <2>3, <2>4 DEF Next
<1> QED
  BY <1>1, <1>2, SpecIInv, PTL DEF Spec

\* Add refuses an address only when the table holds at least half as many others as it
\* has slots, for every size and hash function: nothing is filed three times.
THEOREM RefusedAtHalf == Spec => []RefusedOnlyWhenFull
<1>1. IInv /\ TwoSlotsEach => RefusedOnlyWhenFull
  <2> SUFFICES ASSUME IInv, TwoSlotsEach, NEW a \in Addr \ {0},
                      FullStops(filter[active], a) = {}
               PROVE  2 * Cardinality(Held(filter[active])) >= Size
    BY DEF RefusedOnlyWhenFull
  <2>1. filter[active] \in TableType /\ AtMostTwo(filter[active])
    BY DEF IInv, TypeOK, TableType, Values, TwoSlotsEach
  <2>2. \A k \in Slots : filter[active][k] # Empty
    BY DEF FullStops
  <2> QED
    BY <2>1, <2>2, FullHoldsHalf
<1> QED
  BY <1>1, SpecIInv, SpecTwoSlotsEach, PTL

\* The two hash tables implement the two sets of RecentAddresses.
THEOREM ImplementsRecent == Spec => RecentSpec
<1>1. Init => Recent!Init
  <2> SUFFICES ASSUME Init PROVE Recent!Init
    OBVIOUS
  <2>1. filter[active] = EmptyTable /\ filter[Other(active)] = EmptyTable
    BY DEF Init, Tables, Other
  <2> QED
    BY <2>1, EmptyTableFacts DEF Recent!Init
<1>2. IInv /\ [Next]_vars => [Recent!Next]_(Recent!vars)
  <2> SUFFICES ASSUME IInv, [Next]_vars PROVE [Recent!Next]_(Recent!vars)
    OBVIOUS
  <2>1. ASSUME NEW a \in Addr, Add(a) PROVE [Recent!Next]_(Recent!vars)
    <3>1. /\ active' = active
          /\ filter'[Other(active)] = filter[Other(active)]
          /\ \/ filter'[active] = filter[active]
             \/ Held(filter'[active]) = Held(filter[active]) \cup ({a} \ {0})
      BY <2>1, AddEffect DEF Add
    <3>2. CASE filter'[active] = filter[active]
      BY <3>1, <3>2 DEF Recent!vars
    <3>3. CASE Held(filter'[active]) = Held(filter[active]) \cup ({a} \ {0})
      <4>1. CASE a = 0
        BY <3>1, <3>3, <4>1 DEF Recent!vars
      <4>2. CASE a # 0
        BY <3>1, <3>3, <4>2 DEF Recent!Next, Recent!Hear
      <4> QED
        BY <4>1, <4>2
    <3> QED
      BY <3>1, <3>2, <3>3
  <2>2. CASE Expire
    <3>1. CASE expiring >= nextFlip
      <4>1. /\ filter' = [filter EXCEPT ![Other(active)] = EmptyTable]
            /\ active' = Other(active)
            /\ active \in Tables /\ filter \in [Tables -> TableType]
        BY <2>2, <3>1 DEF Expire, IInv, TypeOK, TableType, Values
      <4>2. filter'[active'] = EmptyTable /\ filter'[Other(active')] = filter[active]
        BY <4>1, OtherFacts
      <4> QED
        BY <4>2, EmptyTableFacts DEF Recent!Next, Recent!Rotate
    <3>2. CASE ~(expiring >= nextFlip)
      BY <2>2, <3>2 DEF Expire, Recent!vars
    <3> QED
      BY <3>1, <3>2
  <2>3. CASE ExpireCall \/ Tick \/ UNCHANGED vars
    BY <2>3 DEF ExpireCall, Tick, vars, Recent!vars
  <2> QED
    BY <2>1, <2>2, <2>3 DEF Next
<1> QED
  BY <1>1, <1>2, SpecIInv, PTL DEF Spec, RecentSpec, Recent!Spec

=============================================================================

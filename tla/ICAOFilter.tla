----------------------------- MODULE ICAOFilter -----------------------------
(***************************************************************************)
(* The filter of recently seen ICAO addresses (modes/icao_filter.go): two  *)
(* open-addressing hash tables with linear probing.  Add writes the active *)
(* one, Test and TestFuzzy read both, and Expire clears the inactive one   *)
(* and makes it the active one once per TTL.  A slot that holds 0 is       *)
(* empty, so 0 is at once an address and the mark of an empty slot.        *)
(*                                                                         *)
(* The demodulator, every network input connection and the periodic task   *)
(* share one filter.  Each method runs under the filter's mutex and is one *)
(* action here, except Expire, which reads the clock before it locks:      *)
(* ExpireCall and Expire are those two steps.                              *)
(***************************************************************************)
EXTENDS Integers, FiniteSets

CONSTANTS
    Addr,      \* addresses that may be added or asked for
    LowRange,  \* 2^16 in the code: TestFuzzy knows an address modulo this
    Size,      \* ICAO_FILTER_SIZE
    Hash,      \* icaoHash, any function into the slots
    TTL,       \* ICAO_FILTER_TTL
    Period,    \* most time between two calls of Expire (the one second tick)
    MaxLag     \* most time Expire waits for the mutex

Empty == 0
Never == -1
Tables == {"A", "B"}
Slots == 0 .. Size - 1

\* The low 16 bits, the part of an address that TestFuzzy is given.
Low(a) == a % LowRange

ASSUME FilterAssumption ==
    /\ Addr \subseteq Nat
    /\ LowRange \in Nat \ {0}
    /\ \A a \in Addr : Low(a) \in Addr
    /\ Size \in Nat \ {0}
    /\ Hash \in [Addr -> Slots]
    /\ TTL \in Nat \ {0} /\ Period \in Nat /\ MaxLag \in Nat

VARIABLES
    filter,    \* filterA and filterB
    active,    \* which of them active points to
    nextFlip,  \* nextFlip
    clock,     \* time.Now().UnixMilli()
    expiring,  \* the time a pending Expire has read, Never if there is none
    expired,   \* the time the last finished Expire had read
    heard      \* history: when each address was last added, Never if it was not

vars == <<filter, active, nextFlip, clock, expiring, expired, heard>>

Other(x) == IF x = "A" THEN "B" ELSE "A"

-----------------------------------------------------------------------------
(* Probing. *)

\* How many steps of h = (h + 1) & (SIZE - 1) lead from slot h to slot k.
Distance(h, k) == IF h <= k THEN k - h ELSE k + Size - h

\* The slot at which a probe that starts at h and stops in S ends; S is not empty.
ProbeStop(h, S) ==
    CHOOSE k \in S : \A j \in S : Distance(h, k) <= Distance(h, j)

\* Slots at which the probe for the whole address a stops.
FullStops(t, a) == {k \in Slots : t[k] = Empty \/ t[k] = a}

\* Mutant: an entry filed already is not recognised by its low bits.
LowStopsOnlyEmpty(t, p) == {k \in Slots : t[k] = Empty}

\* Slots at which the probe for the partial address p stops.
LowStops(t, p) == {k \in Slots : t[k] = Empty \/ Low(t[k]) = p}

\* One of Add's two insertions: nothing is written when the probe wrapped around,
\* nor when it ended at a slot that is taken.
Insert(t, h, S, a) ==
    IF S = {} \/ t[ProbeStop(h, S)] # Empty
    THEN t
    ELSE [t EXCEPT ![ProbeStop(h, S)] = a]

\* The table after the first insertion of Add, that of the whole address.
WithFull(t, a) == Insert(t, Hash[a], FullStops(t, a), a)

\* Mutant: the second insertion is forgotten.
AfterAddFullOnly(t, a) == WithFull(t, a)

\* The table after both; a full table returns before the second.
AfterAdd(t, a) ==
    IF FullStops(t, a) = {}
    THEN t
    ELSE LET u == WithFull(t, a)
         IN  Insert(u, Hash[Low(a)], LowStops(u, Low(a)), a)

\* Mutant: only the first slot is looked at.
TestInNoProbe(t, a) == t[Hash[a]] = a

\* Does the probe for a end at a slot that holds a?  A probe that wrapped ends
\* where it began, at a slot that does not.
TestIn(t, a) ==
    /\ FullStops(t, a) # {}
    /\ t[ProbeStop(Hash[a], FullStops(t, a))] = a

\* The slot TestFuzzy ends at matches p: then it returns what the slot holds.
FuzzyHit(t, p) ==
    /\ LowStops(t, p) # {}
    /\ Low(t[ProbeStop(Hash[p], LowStops(t, p))]) = p

FuzzyValue(t, p) == t[ProbeStop(Hash[p], LowStops(t, p))]

Test(a) == TestIn(filter["A"], a) \/ TestIn(filter["B"], a)

TestFuzzy(p) ==
    IF FuzzyHit(filter["A"], p) THEN FuzzyValue(filter["A"], p)
    ELSE IF FuzzyHit(filter["B"], p) THEN FuzzyValue(filter["B"], p)
    ELSE 0

-----------------------------------------------------------------------------

\* Mutant: one slot too many.
EmptyTableTooLong == [k \in 0 .. Size |-> Empty]

EmptyTable == [k \in Slots |-> Empty]

Init ==
    /\ filter = [x \in Tables |-> EmptyTable]
    /\ active = "A"
    /\ clock = 0
    /\ nextFlip = TTL
    /\ expiring = Never
    /\ expired = 0
    /\ heard = [a \in Addr |-> Never]

Add(a) ==
    /\ filter' = [filter EXCEPT ![active] = AfterAdd(@, a)]
    /\ heard' = IF FullStops(filter[active], a) = {}
                THEN heard
                ELSE [heard EXCEPT ![a] = clock]
    /\ UNCHANGED <<active, nextFlip, clock, expiring, expired>>

\* Expire reads the clock, before it has the mutex.
ExpireCall ==
    /\ expiring = Never
    /\ expiring' = clock
    /\ UNCHANGED <<filter, active, nextFlip, clock, expired, heard>>

\* Mutant: the table that was active is cleared.
ExpireWrongTable ==
    /\ expiring # Never
    /\ IF expiring >= nextFlip
       THEN /\ filter' = [filter EXCEPT ![active] = EmptyTable]
            /\ active' = Other(active)
            /\ nextFlip' = expiring + TTL
       ELSE UNCHANGED <<filter, active, nextFlip>>
    /\ expired' = expiring
    /\ expiring' = Never
    /\ UNCHANGED <<clock, heard>>

\* Mutant: the tables are swapped and neither is cleared.
ExpireNoClear ==
    /\ expiring # Never
    /\ IF expiring >= nextFlip
       THEN active' = Other(active) /\ nextFlip' = expiring + TTL
       ELSE UNCHANGED <<active, nextFlip>>
    /\ expired' = expiring
    /\ expiring' = Never
    /\ UNCHANGED <<filter, clock, heard>>

\* Expire under the mutex.
Expire ==
    /\ expiring # Never
    /\ IF expiring >= nextFlip
       THEN /\ filter' = [filter EXCEPT ![Other(active)] = EmptyTable]
            /\ active' = Other(active)
            /\ nextFlip' = expiring + TTL
       ELSE UNCHANGED <<filter, active, nextFlip>>
    /\ expired' = expiring
    /\ expiring' = Never
    /\ UNCHANGED <<clock, heard>>

\* Time passes, but not past the second in which Expire is due nor past the
\* longest wait for the mutex.
Tick ==
    /\ IF expiring = Never THEN clock < expired + Period ELSE clock < expiring + MaxLag
    /\ clock' = clock + 1
    /\ UNCHANGED <<filter, active, nextFlip, expiring, expired, heard>>

Next ==
    \/ \E a \in Addr : Add(a)
    \/ ExpireCall
    \/ Expire
    \/ Tick

Spec == Init /\ [][Next]_vars

-----------------------------------------------------------------------------
(* Properties.  0 is left out of those about Test: asked for 0, it finds an empty slot, whose *)
(* content is 0, and says yes.                                                              *)

Held(t) == {t[k] : k \in Slots} \ {Empty}

Stored == Held(filter["A"]) \cup Held(filter["B"])

TypeOK ==
    /\ filter \in [Tables -> [Slots -> Addr \cup {Empty}]]
    /\ active \in Tables
    /\ nextFlip \in Nat
    /\ clock \in Nat
    /\ expiring \in Nat \cup {Never}
    /\ expired \in Nat
    /\ heard \in [Addr -> Nat \cup {Never}]

\* However the addresses collide and wrap around, Test finds exactly those that are
\* in one of the tables: no probe stops short of an address or runs past it.
TestExact == \A a \in Addr \ {0} : Test(a) <=> a \in Stored

\* Every stored address can be found again from its low 16 bits, although Add files
\* only the first of several that share them: TestFuzzy answers with one of them.
FuzzyComplete ==
    \A a \in Stored : Low(a) # 0 =>
        TestFuzzy(Low(a)) \in {b \in Stored : Low(b) = Low(a)}

\* An address stays known for at least one TTL after it was last heard, short of the
\* time Expire may have waited for the mutex with a clock reading of before the wait.
Retained ==
    \A a \in Addr \ {0} :
        heard[a] # Never /\ clock - heard[a] < TTL - MaxLag => Test(a)

\* An address that is not heard any more is forgotten: within two TTLs, the two rounds
\* of the periodic task it takes to see that they have passed, and the waits for the
\* mutex.
MaxAge == 2 * TTL + 2 * Period + 3 * MaxLag
Forgotten == \A a \in Addr \ {0} : Test(a) => heard[a] # Never /\ clock - heard[a] <= MaxAge

\* Add gives up only when it has to.  An address takes up to two slots (it is filed
\* under its hash and under that of its low bits), so a table that would refuse one
\* holds at least Size \div 2 others: repetitions do not fill it.
RefusedOnlyWhenFull ==
    \A a \in Addr \ {0} :
        FullStops(filter[active], a) = {} => 2 * Cardinality(Held(filter[active])) >= Size

\* The filter implements the two sets of RecentAddresses, 0 being never a member.
Recent == INSTANCE RecentAddresses WITH
    Addr <- Addr \ {0},
    young <- Held(filter[active]),
    old <- Held(filter[Other(active)])

RecentSpec == Recent!Spec

=============================================================================

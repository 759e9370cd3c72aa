------------------------------ MODULE Tracker ------------------------------
(***************************************************************************)
(* The aircraft tracker of modes/track.go.  Every goroutine that decodes   *)
(* messages (the receiver and one for each input connection) calls         *)
(* UpdateFromMessage or UpdateFromModeAC, and one periodic task calls      *)
(* PeriodicUpdate once per second.  All three read the clock before they   *)
(* lock the tracker, so each is two actions here: one that takes the time  *)
(* and one, the handler, that does all the rest under the lock.            *)
(*                                                                         *)
(* Fields that UpdateFromMessage treats alike (callsign, speeds, headings, *)
(* vertical rate, category, air/ground) are the members of Plain.  Left    *)
(* out are signal levels, the NUC of a position and statistics of CPR      *)
(* decoding; where Lat and Lon are is left out too, only which frames they *)
(* were decoded from is kept, and the arithmetic of cpr.go and speedCheck  *)
(* shows as a choice of the result.                                        *)
(***************************************************************************)
EXTENDS DataValidity, FiniteSets

CONSTANTS
    Handlers,        \* goroutines that handle messages
    Plain,           \* the fields that are accepted and stored, no more
    Message,         \* Mode S messages
    Reply,           \* Mode A/C replies
    TTL,             \* TRACK_AIRCRAFT_TTL, 300 s
    OneHitTTL,       \* TRACK_AIRCRAFT_ONEHIT_TTL, 60 s
    ReferenceAge,    \* 50 s: how old a position may be to decode relative to it
    MaxElapsed,      \* 10, 25, 50 s: most time between two frames decoded together
    ReceiverLatLon,  \* is the receiver's location known,
    RangeUsable,     \* and maxRange such that frames can be decoded relative to it
    WordSize,        \* 2^64
    Period,          \* most time between two calls of PeriodicUpdate
    MaxLag           \* most time a caller waits for the lock after it read the clock

Scalars == Plain \cup {"altitude", "squawk", "altitudeGNSS", "gnssDelta"}
Frames == {"cprEven", "cprOdd"}
Fields == Scalars \cup Frames \cup {"position"}

CPRTypes == {"surface", "airborne", "coarse"}
AddrTypes == 0 .. 8

Flags == {"flag", "modesHit", "modeAHit", "modeCHit", "modeAOnly", "modeCOld"}
HitFlags == {"modesHit", "modeAHit", "modeCHit"}

Never == -1

ASSUME TrackerAssumption ==
    /\ Plain \cap {"altitude", "squawk", "altitudeGNSS", "gnssDelta", "cprEven", "cprOdd",
                   "position"} = {}
    /\ \A m \in Message :
          /\ m.addrType \in AddrTypes /\ m.source \in DataSource \ {SourceInvalid}
          /\ DOMAIN m.value \subseteq Scalars /\ \A f \in DOMAIN m.value : m.value[f] \in Int
          /\ m.CPRValid \in BOOLEAN /\ m.CPROdd \in BOOLEAN
          /\ m.CPRType \in CPRTypes /\ m.slow \in BOOLEAN
    /\ \A r \in Reply :
          /\ {"squawk"} \subseteq DOMAIN r.value
          /\ DOMAIN r.value \subseteq {"squawk", "altitude"}
          /\ \A f \in DOMAIN r.value : r.value[f] \in Int
    \* The address of a reply is its code without the ident bit, which the squawk leaves out
    \* too; with that bit set the reply has no altitude.
    /\ \A q, r \in Reply : q.addr = r.addr =>
          \A f \in DOMAIN q.value \cap DOMAIN r.value : q.value[f] = r.value[f]
    /\ TTL \in Nat \ {0} /\ OneHitTTL \in Nat \ {0} /\ ReferenceAge \in Nat
    /\ MaxElapsed \in [CPRTypes \cup {"slow"} -> Nat]
    /\ ReceiverLatLon \in BOOLEAN /\ RangeUsable \in BOOLEAN
    /\ Period \in Nat /\ MaxLag \in Nat
    \* The wait for the lock is short against the period, and that against the limits.
    /\ MaxLag <= Period /\ MaxLag < ExpireAfter /\ MaxLag <= OneHitTTL /\ MaxLag <= TTL
    /\ WordSize \in Nat /\ TTL + Period + MaxLag < WordSize

VARIABLES
    aircraft,  \* the map from addresses to aircraft
    unique,    \* stats.uniqueAircraft
    single,    \* stats.singleMessageAircraft
    clock,     \* time.Now().UnixMilli()
    reading,   \* what each handler that is about to lock has read from the clock
    sweep,     \* what PeriodicUpdate has read, likewise
    swept      \* what the last finished PeriodicUpdate had read

vars == <<aircraft, unique, single, clock, reading, sweep, swept>>

Addresses == {m.addr : m \in Message} \cup {r.addr : r \in Reply}

Aircraft == [
    addrType : AddrTypes,
    seen : Nat,
    messages : Nat,
    flags : SUBSET Flags,             \* ModeACFlags
    modeACount : Nat,
    modeCCount : Nat,
    altitudeModeC : Int,
    valid : [Fields -> Validity],
    value : [Scalars -> Int],
    cprType : [Frames -> CPRTypes],
    position : DataSource,            \* the source of the frames Lat and Lon come from
    born : [Fields -> Nat]            \* history: when the oldest part of the value came
]

createAircraft(addrType) == [
    addrType |-> addrType, seen |-> 0, messages |-> 0, flags |-> {},
    modeACount |-> 0, modeCCount |-> 0, altitudeModeC |-> 0,
    valid |-> [f \in Fields |-> NoData],
    value |-> [f \in Scalars |-> 0],
    cprType |-> [f \in Frames |-> "surface"],
    position |-> SourceInvalid,
    born |-> [f \in Fields |-> 0]]

With(ac, addr, a) == [x \in DOMAIN ac \cup {addr} |-> IF x = addr THEN a ELSE ac[x]]

-----------------------------------------------------------------------------
(* Storing what a message carries. *)

\* (altitude + 49) / 100, which rounds towards zero.
ModeCOf(altitude) ==
    IF altitude + 49 >= 0 THEN (altitude + 49) \div 100 ELSE -((-(altitude + 49)) \div 100)

FrameField(m) == IF m.CPROdd THEN "cprOdd" ELSE "cprEven"

Carried(m) == DOMAIN m.value \cup (IF m.CPRValid THEN {FrameField(m)} ELSE {})

\* The fields of a that acceptData lets m write.
Accepted(a, m, now) == {f \in Carried(m) : ~Rejects(a.valid[f], m.source, now)}

\* Seen, Messages and AddrType, then every field in turn.  The Mode C value is taken from
\* the altitude before the new one is stored.
Store(a, m, now) ==
    LET new == Accepted(a, m, now)
        modeC == ModeCOf(a.value["altitude"])
        otherModeC == "altitude" \in new /\ modeC # a.altitudeModeC
        otherModeA == "squawk" \in new /\ m.value["squawk"] # a.value["squawk"]
    IN [a EXCEPT
          !.seen = now,
          !.messages = @ + 1,
          !.addrType = IF m.addrType < @ THEN m.addrType ELSE @,
          !.flags = (@ \ IF otherModeC THEN {"modeCHit"} ELSE {})
                       \ IF otherModeA THEN {"modeAHit"} ELSE {},
          !.modeCCount = IF otherModeC THEN 0 ELSE @,
          !.modeACount = IF otherModeA THEN 0 ELSE @,
          !.altitudeModeC = IF "altitude" \in new THEN modeC ELSE @,
          !.valid = [f \in Fields |-> IF f \in new THEN AcceptedFrom(m.source, now) ELSE @[f]],
          !.value = [f \in Scalars |-> IF f \in new THEN m.value[f] ELSE @[f]],
          !.cprType = [f \in Frames |-> IF f \in new THEN m.CPRType ELSE @[f]],
          !.born = [f \in Fields |-> IF f \in new THEN now ELSE @[f]]]

\* Derive GNSS altitude from baro + delta if more recent.
DeriveGNSS(a, now) ==
    IF /\ Better(a.valid["altitude"], a.valid["altitudeGNSS"], now)
       /\ Better(a.valid["gnssDelta"], a.valid["altitudeGNSS"], now)
    THEN [a EXCEPT
            !.value["altitudeGNSS"] = a.value["altitude"] + a.value["gnssDelta"],
            !.valid["altitudeGNSS"] =
                CombineValidity(a.valid["altitude"], a.valid["gnssDelta"]),
            !.born["altitudeGNSS"] = Lesser(a.born["altitude"], a.born["gnssDelta"])]
    ELSE a

-----------------------------------------------------------------------------
(* Decoding positions. *)

ElapsedLimit(m) == MaxElapsed[IF m.CPRType = "surface" /\ m.slow
                              THEN "slow" ELSE m.CPRType]

Between(s, t) == IF s >= t THEN s - t ELSE t - s

\* Both frames are there and may be decoded together.
GlobalPossible(a, m) ==
    LET odd == a.valid["cprOdd"]
        even == a.valid["cprEven"]
    IN  /\ DataValid(odd) /\ DataValid(even)
        /\ odd.source = even.source
        /\ a.cprType["cprOdd"] = a.cprType["cprEven"]
        /\ Between(odd.updated, even.updated) <= ElapsedLimit(m)

OwnReference(a, now) == YoungerThan(a.valid["position"], now, ReferenceAge)

\* doGlobalCPR: 0 success, -1 cannot decode yet, -2 bad data (or too far, or too fast).
doGlobalCPR(a, m, now) ==
    IF m.CPRType = "surface" /\ ~OwnReference(a, now) /\ ~ReceiverLatLon
    THEN {-1}
    ELSE {0, -1, -2}

\* doLocalCPR: 0 success, -1 no reference, or out of range, or too fast.
doLocalCPR(a, m, now) ==
    IF OwnReference(a, now) \/ (m.CPRType # "surface" /\ ReceiverLatLon /\ RangeUsable)
    THEN {0, -1}
    ELSE {-1}

FromBothFrames(a) == [a EXCEPT
    !.valid["position"] = CombineValidity(a.valid["cprEven"], a.valid["cprOdd"]),
    !.position = Lesser(a.valid["cprEven"].source, a.valid["cprOdd"].source),
    !.born["position"] = Lesser(a.born["cprEven"], a.born["cprOdd"])]

\* Mutant: the position stays.
WithoutFramesOnly(a) == [a EXCEPT
    !.valid = [f \in Fields |-> IF f \in Frames THEN Invalidated(@[f]) ELSE @[f]]]

WithoutFrames(a) == [a EXCEPT
    !.valid = [f \in Fields |-> IF f \in Frames \cup {"position"} THEN Invalidated(@[f])
                                ELSE @[f]]]

\* The frame just received is decoded, be it stored or not; the validity is that of
\* the frame that is stored.
FromThisFrame(a, m, now) == [a EXCEPT
    !.valid["position"] = a.valid[FrameField(m)],
    !.position = m.source,
    !.born["position"] = now]

\* updatePosition: what may become of a.
updatePosition(a, m, now) ==
    LET global == IF GlobalPossible(a, m) THEN doGlobalCPR(a, m, now) ELSE {-1}
    IN  {b \in {FromBothFrames(a)} : 0 \in global}
        \cup {b \in {WithoutFrames(a)} : -2 \in global}
        \cup {b \in {FromThisFrame(a, m, now)} : -1 \in global /\ 0 \in doLocalCPR(a, m, now)}
        \cup {b \in {a} : -1 \in global /\ -1 \in doLocalCPR(a, m, now)}

-----------------------------------------------------------------------------
(* Matching Mode A/C replies with Mode S aircraft. *)

\* The records that are taken for Mode S aircraft.
ModeS(ac) == {s \in DOMAIN ac : "flag" \notin ac[s].flags}

Synthetic(ac) == DOMAIN ac \ ModeS(ac)

MatchesA(a, s) ==
    /\ DataValid(a.valid["squawk"]) /\ DataValid(s.valid["squawk"])
    /\ a.value["squawk"] = s.value["squawk"]

MatchesC(a, s) ==
    /\ DataValid(a.valid["altitude"]) /\ DataValid(s.valid["altitude"])
    /\ Between(a.altitudeModeC, s.altitudeModeC) <= 1

\* Orders in which the loop over a map may meet the members of X.
Rankings(X) == {rank \in [X -> 1 .. Cardinality(X)] :
                   \A x, y \in X : rank[x] = rank[y] => x = y}

\* A count that each member of Y in turn overwrites with its own message count.
Overwritten(count, ac, Y, rank) ==
    IF Y = {} THEN count
    ELSE ac[CHOOSE y \in Y : \A z \in Y : rank[z] <= rank[y]].messages

\* The members of X that the Mode S aircraft s is found to match.
HitsA(ac, X, s) == {x \in X : s \in ModeS(ac) /\ MatchesA(ac[x], ac[s])}
HitsC(ac, X, s) == {x \in X : s \in ModeS(ac) /\ MatchesC(ac[x], ac[s])}

\* The counts of s when x has been compared with its squawk, and not yet its altitude.
CountA(ac, X, rank, x, s) ==
    Overwritten(ac[s].modeACount, ac, {y \in HitsA(ac, X, s) : rank[y] <= rank[x]}, rank)
CountC(ac, X, rank, x, s) ==
    Overwritten(ac[s].modeCCount, ac, {y \in HitsC(ac, X, s) : rank[y] < rank[x]}, rank)

\* The squawks of x and s agree, and s was seen to match in altitude (or x has none).
SquawkPair(ac, X, rank, x, s) ==
    /\ x \in HitsA(ac, X, s) /\ ac[x].messages > 0
    /\ CountC(ac, X, rank, x, s) > 1 \/ "modeAOnly" \in ac[x].flags

\* The altitudes of x and s agree, and s was seen to match in squawk.
AltitudePair(ac, X, rank, x, s) ==
    x \in HitsC(ac, X, s) /\ CountA(ac, X, rank, x, s) > 0 /\ ac[x].messages > 1

\* The flags that z gains, as a Mode S aircraft or as a member of X.
Gained(ac, X, rank, z) ==
    {f \in Flags : \E s \in ModeS(ac) :
        \/ f = "modeAHit" /\ (z \in HitsA(ac, X, s) \/ (z = s /\ HitsA(ac, X, s) # {}))
        \/ f = "modeCHit" /\ (z \in HitsC(ac, X, s) \/ (z = s /\ HitsC(ac, X, s) # {}))
        \/ f = "modesHit" /\ SquawkPair(ac, X, rank, z, s)
        \/ f \in {"modesHit", "modeCOld"} /\ AltitudePair(ac, X, rank, z, s)}

\* matchModeACWithModeS for each member of X, in the order of rank.
matchModeACWithModeS(ac, X, rank) ==
    [z \in DOMAIN ac |-> [ac[z] EXCEPT
        !.flags = @ \cup Gained(ac, X, rank, z),
        !.modeACount = Overwritten(@, ac, HitsA(ac, X, z), rank),
        !.modeCCount = Overwritten(@, ac, HitsC(ac, X, z), rank)]]

-----------------------------------------------------------------------------
(* The handlers. *)

Init ==
    /\ aircraft = [x \in {} |-> createAircraft(0)]
    /\ unique = 0 /\ single = 0
    /\ clock = 0
    /\ reading = [h \in Handlers |-> Never]
    /\ sweep = Never
    /\ swept = 0

\* A handler with a message reads the clock; it has yet to lock the tracker.
TakeTime(h) ==
    /\ reading[h] = Never
    /\ reading' = [reading EXCEPT ![h] = clock]
    /\ UNCHANGED <<aircraft, unique, single, clock, sweep, swept>>

UpdateFromMessage(h, m) ==
    LET now == reading[h]
        old == IF m.addr \in DOMAIN aircraft THEN aircraft[m.addr]
               ELSE createAircraft(m.addrType)
        new == DeriveGNSS(Store(old, m, now), now)
    IN  /\ now # Never
        /\ \E a \in IF m.CPRValid THEN updatePosition(new, m, now) ELSE {new} :
              aircraft' = With(aircraft, m.addr, a)
        /\ unique' = IF m.addr \in DOMAIN aircraft THEN unique ELSE unique + 1
        /\ reading' = [reading EXCEPT ![h] = Never]
        /\ UNCHANGED <<single, clock, sweep, swept>>

\* The fields of a that acceptData lets r write, whose source is SOURCE_INVALID; a field
\* of r that is left with that source is promoted at the end.
Answered(a, r, now) == {f \in DOMAIN r.value : ~Rejects(a.valid[f], SourceInvalid, now)}

Promoted(v) == IF v.source = SourceInvalid THEN [v EXCEPT !.source = SourceModeS] ELSE v

\* The record of a reply before it is matched.
Replied(a, r, now) ==
    LET new == Answered(a, r, now)
    IN [a EXCEPT
          !.seen = now,
          !.messages = @ + 1,
          !.flags = (@ \cup IF "altitude" \in DOMAIN r.value THEN {} ELSE {"modeAOnly"})
                       \ HitFlags,
          !.altitudeModeC = IF "altitude" \in new THEN ModeCOf(r.value["altitude"]) ELSE @,
          !.valid = [f \in Fields |->
              IF f \in new THEN Promoted(AcceptedFrom(SourceInvalid, now))
              ELSE IF f \in DOMAIN r.value THEN Promoted(@[f]) ELSE @[f]],
          !.value = [f \in Scalars |-> IF f \in new THEN r.value[f] ELSE @[f]],
          !.born = [f \in Fields |-> IF f \in new THEN now ELSE @[f]]]

\* A reply that used to match an altitude and does not any more starts afresh.
Restarted(a) ==
    IF "modeCOld" \in a.flags /\ "modeCHit" \notin a.flags
    THEN [a EXCEPT !.flags = @ \ {"modeCOld"}, !.messages = 1]
    ELSE a

UpdateFromModeAC(h, r) ==
    LET now == reading[h]
        old == IF r.addr \in DOMAIN aircraft THEN aircraft[r.addr]
               ELSE [createAircraft(0) EXCEPT !.flags = {"flag"}]
        matched == matchModeACWithModeS(
                       With(aircraft, r.addr, Replied(old, r, now)),
                       {r.addr}, [x \in {r.addr} |-> 1])
    IN  /\ now # Never
        /\ aircraft' = [matched EXCEPT ![r.addr] = Restarted(@)]
        /\ reading' = [reading EXCEPT ![h] = Never]
        /\ UNCHANGED <<unique, single, clock, sweep, swept>>

\* PeriodicUpdate reads the clock; it has yet to lock the tracker.
SweepCall ==
    /\ sweep = Never
    /\ sweep' = clock
    /\ UNCHANGED <<aircraft, unique, single, clock, reading, swept>>

\* now - a.Seen, in unsigned arithmetic
Age(a, now) == (now - a.seen) % WordSize

\* Mutant: one message is as good as many.
GoneByTTL(ac, now) == {x \in DOMAIN ac : Age(ac[x], now) > TTL}

\* The records that PeriodicUpdate deletes.
Gone(ac, now) ==
    {x \in DOMAIN ac :
        \/ Age(ac[x], now) > TTL
        \/ ac[x].messages = 1 /\ Age(ac[x], now) > OneHitTTL}

\* Mutants: a field is forgotten; the hit flags are not cleared.
ExpiredButDelta(a, now) == [a EXCEPT
    !.valid = [f \in Fields |-> IF f = "gnssDelta" THEN @[f] ELSE ExpireField(@[f], now)],
    !.flags = @ \ HitFlags]

ExpiredKeepingHits(a, now) == [a EXCEPT
    !.valid = [f \in Fields |-> ExpireField(@[f], now)]]

\* What the sweep leaves of a record, before it matches replies again.
Expired(a, now) == [a EXCEPT
    !.valid = [f \in Fields |-> ExpireField(@[f], now)],
    !.flags = @ \ HitFlags]

PeriodicUpdate ==
    LET gone == Gone(aircraft, sweep)
        kept == [x \in DOMAIN aircraft \ gone |-> Expired(aircraft[x], sweep)]
    IN  /\ sweep # Never
        /\ \E rank \in Rankings(Synthetic(kept)) :
              aircraft' = matchModeACWithModeS(kept, Synthetic(kept), rank)
        /\ single' = single + Cardinality({x \in gone : aircraft[x].messages = 1})
        /\ swept' = sweep
        /\ sweep' = Never
        /\ UNCHANGED <<unique, clock, reading>>

\* Time passes, but not past the second in which the sweep is due nor past the longest
\* wait for the lock.
Tick ==
    /\ \A h \in Handlers : reading[h] # Never => clock < reading[h] + MaxLag
    /\ IF sweep = Never THEN clock < swept + Period ELSE clock < sweep + MaxLag
    /\ clock' = clock + 1
    /\ UNCHANGED <<aircraft, unique, single, reading, sweep, swept>>

Next ==
    \/ \E h \in Handlers : TakeTime(h)
    \/ \E h \in Handlers, m \in Message : UpdateFromMessage(h, m)
    \/ \E h \in Handlers, r \in Reply : UpdateFromModeAC(h, r)
    \/ SweepCall
    \/ PeriodicUpdate
    \/ Tick

Spec == Init /\ [][Next]_vars

-----------------------------------------------------------------------------
(* Properties. *)

TypeOK ==
    /\ DOMAIN aircraft \subseteq Addresses
    /\ aircraft \in [DOMAIN aircraft -> Aircraft]
    /\ unique \in Nat /\ single \in Nat
    /\ clock \in Nat
    /\ reading \in [Handlers -> Nat \cup {Never}]
    /\ sweep \in Nat \cup {Never}
    /\ swept \in Nat

\* No datum is reported as valid long after it came: an answer given now rests on
\* nothing older than the expiry time, one period of the sweep, and the waits for the
\* lock.  Not so the GNSS altitude that is derived from two others: compareValidity does not
\* ask whether the barometric one has expired.
MaxDataAge == ExpireAfter + Period + 2 * MaxLag
Fresh(f) ==
    \A x \in DOMAIN aircraft :
        DataValid(aircraft[x].valid[f]) => clock - aircraft[x].born[f] < MaxDataAge
DataFresh == \A f \in Fields \ {"altitudeGNSS"} : Fresh(f)

\* No aircraft stays on the list long after the last message from it, and one that
\* was heard only once leaves earlier.
HeardRecently ==
    \A x \in DOMAIN aircraft :
        clock - aircraft[x].seen <=
            Period + MaxLag + (IF aircraft[x].messages = 1 THEN Lesser(OneHitTTL, TTL) ELSE TTL)

\* Whoever is about to write (a direct report, a derived altitude, a reply, the sweep),
\* a datum that is not stale yet gives way only to one from as good a source.  Only
\* frames that contradict each other are dropped, both, and the position with them.
GivesWay(x, f) ==
    LET v == aircraft[x].valid[f]
        after == aircraft'[x].valid
    IN  after[f] # v /\ clock < v.stale =>
            \/ after[f].source >= v.source
            \/ f \in Frames /\ \A g \in Frames \cup {"position"} : ~DataValid(after[g])
NoDowngrade ==
    [][\A x \in DOMAIN aircraft \cap DOMAIN aircraft' :
         \A f \in Fields \ {"position"} : GivesWay(x, f)]_vars

\* A valid position rests on a frame that is valid itself, so that what ends the frames
\* (expiry, contradiction) ends the position with them; readings of the clock that were
\* overtaken can part them by no more than MaxLag.
PositionBacked ==
    \A x \in DOMAIN aircraft :
        LET v == aircraft[x].valid
        IN  DataValid(v["position"]) =>
              \/ \E f \in Frames : DataValid(v[f])
              \/ clock >= v["position"].expires - MaxLag

\* The hit flags an aircraft shows are never left over: a reply with that squawk, or
\* within 100 ft of that altitude, is on the list now.  They outlive neither the reply
\* nor a change of squawk or altitude nor their expiry.
HitsAreCurrent ==
    \A s \in ModeS(aircraft) :
        /\ "modeAHit" \in aircraft[s].flags =>
              \E x \in Synthetic(aircraft) : MatchesA(aircraft[x], aircraft[s])
        /\ "modeCHit" \in aircraft[s].flags =>
              \E x \in Synthetic(aircraft) : MatchesC(aircraft[x], aircraft[s])

\* The comment in PeriodicUpdate (track.go:464): a record goes if it is too old, or if
\* it had one message only and aged out.  It also goes when it was heard after the sweep
\* read the clock, its age being negative and so enormous.
RemovedOnlyWhenOld ==
    [][\A x \in DOMAIN aircraft \ DOMAIN aircraft' :
          clock - aircraft[x].seen > Lesser(OneHitTTL, TTL)]_vars

=============================================================================

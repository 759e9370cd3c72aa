--------------------------- MODULE TrackerProofs ---------------------------
(***************************************************************************)
(* Theorems about Tracker, and about FATSV, which extends it, for every    *)
(* set of messages, replies, handlers and plain fields and for every       *)
(* timing.  A record is timely when it and its valid fields would have     *)
(* survived the last sweep; every handler keeps records timely, however    *)
(* old its reading of the clock.  The tracker's steps within FATSV are     *)
(* steps of Tracker, so that its invariant holds there too.                *)
(***************************************************************************)
EXTENDS FATSV, FiniteSetTheorems, NaturalsInduction, WellFoundedInduction, TLAPS

-----------------------------------------------------------------------------
(* The invariant. *)

\* The limit on how long a record may stay unheard.
Allowed(a) == IF a.messages = 1 THEN Lesser(OneHitTTL, TTL) ELSE TTL

SeenTimely(a, time, last) == a.seen <= time /\ last <= a.seen + Allowed(a)

\* Valid fields would have survived the last sweep, and do not expire later than they
\* should.  A frame's expiry counts from its arrival; a position may have that of a frame
\* which a later reading of the clock than its own has dated.
FieldTimely(a, f, time, last) ==
    DataValid(a.valid[f]) =>
        /\ a.valid[f].stale <= a.valid[f].expires
        /\ last < a.valid[f].expires
        /\ f # "altitudeGNSS" =>
              a.born[f] <= time /\ a.valid[f].expires <= a.born[f] + ExpireAfter + MaxLag
        /\ f \in Frames => a.valid[f].expires <= a.born[f] + ExpireAfter

FieldsTimely(a, time, last) == \A f \in Fields : FieldTimely(a, f, time, last)

Timely(ac, time, last) ==
    \A x \in DOMAIN ac : SeenTimely(ac[x], time, last) /\ FieldsTimely(ac[x], time, last)

\* Readings of the clock are not older than the wait for the lock allows.
ReadingsRecent ==
    /\ \A h \in Handlers :
          reading[h] # Never => reading[h] <= clock /\ clock <= reading[h] + MaxLag
    /\ swept <= clock
    /\ sweep = Never => clock <= swept + Period
    /\ sweep # Never =>
          /\ swept <= sweep /\ sweep <= swept + Period
          /\ sweep <= clock /\ clock <= sweep + MaxLag

IInv ==
    /\ TypeOK
    /\ IsFiniteSet(DOMAIN aircraft)
    /\ ReadingsRecent
    /\ Timely(aircraft, clock, swept)

-----------------------------------------------------------------------------
(* The functions on DataValidity. *)

LEMMA FieldFacts ==
    /\ "altitude" \in Scalars /\ "squawk" \in Scalars
    /\ "altitudeGNSS" \in Scalars /\ "gnssDelta" \in Scalars
    /\ "cprEven" \in Frames /\ "cprOdd" \in Frames /\ "position" \in Fields
    /\ Scalars \subseteq Fields /\ Frames \subseteq Fields
    /\ Frames \cap Scalars = {} /\ "position" \notin Scalars /\ "position" \notin Frames
BY TrackerAssumption DEF Scalars, Frames, Fields, TrackerAssumption

LEMMA NoDataType == NoData \in Validity
BY DEF NoData, Validity, DataSource, SourceInvalid, SourceADSB

LEMMA AcceptedType ==
    ASSUME NEW source \in DataSource, NEW now \in Nat
    PROVE  /\ AcceptedFrom(source, now) \in Validity
           /\ AcceptedFrom(source, now).source = source
           /\ AcceptedFrom(source, now).expires = now + ExpireAfter
           /\ AcceptedFrom(source, now).stale = now + StaleAfter
           /\ now + StaleAfter <= now + ExpireAfter
BY ValidityAssumption DEF AcceptedFrom, Validity, ValidityAssumption

LEMMA InvalidatedType ==
    ASSUME NEW v \in Validity
    PROVE  Invalidated(v) \in Validity /\ ~DataValid(Invalidated(v))
BY DEF Invalidated, Validity, DataValid, DataSource, SourceInvalid, SourceADSB

\* A combination is valid only if one of the two is, and expires no later than either
\* that is.
LEMMA CombinedType ==
    ASSUME NEW v \in Validity, NEW w \in Validity
    PROVE  /\ CombineValidity(v, w) \in Validity
           /\ DataValid(CombineValidity(v, w)) =>
                 \/ DataValid(v) /\ CombineValidity(v, w).expires = v.expires
                 \/ DataValid(w) /\ CombineValidity(v, w).expires = w.expires
           /\ CombineValidity(v, w).source >= Lesser(v.source, w.source)
           /\ DataValid(v) => CombineValidity(v, w).expires <= v.expires
           /\ DataValid(w) => CombineValidity(v, w).expires <= w.expires
           /\ /\ DataValid(v) => v.stale <= v.expires
              /\ DataValid(w) => w.stale <= w.expires
              /\ DataValid(CombineValidity(v, w))
              => CombineValidity(v, w).stale <= CombineValidity(v, w).expires
BY DEF CombineValidity, Validity, Lesser, Greater, DataValid, DataSource, SourceInvalid, SourceADSB

LEMMA ExpireFieldType ==
    ASSUME NEW v \in Validity, NEW now \in Nat
    PROVE  /\ ExpireField(v, now) \in Validity
           /\ DataValid(ExpireField(v, now)) =>
                 ExpireField(v, now) = v /\ DataValid(v) /\ now < v.expires
BY InvalidatedType DEF ExpireField, DataValid, Validity

-----------------------------------------------------------------------------
(* What each step of a handler makes of a record. *)

LEMMA CreatedType ==
    ASSUME NEW t \in AddrTypes
    PROVE  /\ createAircraft(t) \in Aircraft
           /\ createAircraft(t).messages = 0
           /\ \A time, last : FieldsTimely(createAircraft(t), time, last)
<1>1. createAircraft(t) \in Aircraft
  BY NoDataType, FieldFacts
     DEF createAircraft, Aircraft, CPRTypes, DataSource, SourceInvalid, SourceADSB, Flags
<1>2. \A f \in Fields : createAircraft(t).valid[f] = NoData
  BY DEF createAircraft
<1>3. ~DataValid(NoData)
  BY DEF DataValid, NoData
<1> QED
  BY <1>1, <1>2, <1>3 DEF FieldsTimely, FieldTimely, createAircraft

LEMMA MessageFacts ==
    ASSUME NEW m \in Message
    PROVE  /\ m.addr \in Addresses /\ m.addrType \in AddrTypes /\ m.source \in DataSource
           /\ m.source # SourceInvalid
           /\ m.CPRType \in CPRTypes
           /\ FrameField(m) \in Frames
           /\ Carried(m) \subseteq Fields
           /\ Carried(m) \cap Scalars \subseteq DOMAIN m.value
           /\ \A f \in DOMAIN m.value : m.value[f] \in Int
           /\ "position" \notin Carried(m)
BY TrackerAssumption, FieldFacts DEF TrackerAssumption, Addresses, FrameField, Carried, Frames

LEMMA ModeCInt == ASSUME NEW n \in Int PROVE ModeCOf(n) \in Int
BY DEF ModeCOf

\* Storing writes the clock reading to Seen and to what it accepts, and nothing else
\* that a later sweep looks at.
LEMMA StoreEffect ==
    ASSUME NEW a \in Aircraft, NEW m \in Message, NEW now \in Nat
    PROVE  /\ Store(a, m, now) \in Aircraft
           /\ Store(a, m, now).seen = now
           /\ Store(a, m, now).messages = a.messages + 1
           /\ \A f \in Fields :
                 /\ Store(a, m, now).valid[f] =
                       IF f \in Accepted(a, m, now) THEN AcceptedFrom(m.source, now) ELSE a.valid[f]
                 /\ Store(a, m, now).born[f] =
                       IF f \in Accepted(a, m, now) THEN now ELSE a.born[f]
<1> DEFINE b == Store(a, m, now)
           new == Accepted(a, m, now)
<1>1. new \subseteq Carried(m)
  BY DEF Accepted
<1>2. /\ b.seen = now /\ b.messages = a.messages + 1
      /\ b.position = a.position
      /\ b.valid = [f \in Fields |-> IF f \in new THEN AcceptedFrom(m.source, now) ELSE a.valid[f]]
      /\ b.value = [f \in Scalars |-> IF f \in new THEN m.value[f] ELSE a.value[f]]
      /\ b.cprType = [f \in Frames |-> IF f \in new THEN m.CPRType ELSE a.cprType[f]]
      /\ b.born = [f \in Fields |-> IF f \in new THEN now ELSE a.born[f]]
  BY DEF Store, Aircraft
<1>9. b.addrType = IF m.addrType < a.addrType THEN m.addrType ELSE a.addrType
  BY DEF Store, Aircraft
<1>10. b.flags \subseteq a.flags
  BY DEF Store, Aircraft
<1>11. b.modeCCount \in {0, a.modeCCount} /\ b.modeACount \in {0, a.modeACount}
  BY DEF Store, Aircraft
<1>12. b.altitudeModeC \in {a.altitudeModeC, ModeCOf(a.value["altitude"])}
  BY DEF Store, Aircraft
<1>3. b.valid \in [Fields -> Validity]
  BY <1>2, MessageFacts, AcceptedType DEF Aircraft
<1>4. b.value \in [Scalars -> Int]
  BY <1>1, <1>2, MessageFacts DEF Aircraft
<1>5. b.cprType \in [Frames -> CPRTypes] /\ b.born \in [Fields -> Nat]
  BY <1>2, MessageFacts DEF Aircraft
<1>6. b.altitudeModeC \in Int
  BY <1>12, ModeCInt, FieldFacts DEF Aircraft
<1>7. b.addrType \in AddrTypes /\ b.flags \in SUBSET Flags /\ b.modeCCount \in Nat
      /\ b.modeACount \in Nat /\ b.messages \in Nat /\ b.position \in DataSource
  BY <1>2, <1>9, <1>10, <1>11, MessageFacts DEF Aircraft
<1>8. b \in Aircraft
  BY <1>2, <1>3, <1>4, <1>5, <1>6, <1>7, ZenonT(60) DEF Store, Aircraft
<1> QED
  BY <1>2, <1>8

\* Deriving the GNSS altitude changes only that field.
LEMMA DeriveEffect ==
    ASSUME NEW a \in Aircraft, NEW now \in Nat
    PROVE  /\ DeriveGNSS(a, now) \in Aircraft
           /\ DeriveGNSS(a, now).seen = a.seen
           /\ DeriveGNSS(a, now).messages = a.messages
           /\ \A f \in Fields \ {"altitudeGNSS"} :
                 /\ DeriveGNSS(a, now).valid[f] = a.valid[f]
                 /\ DeriveGNSS(a, now).born[f] = a.born[f]
           /\ \/ DeriveGNSS(a, now).valid["altitudeGNSS"] = a.valid["altitudeGNSS"]
              \/ /\ DeriveGNSS(a, now).valid["altitudeGNSS"] =
                       CombineValidity(a.valid["altitude"], a.valid["gnssDelta"])
                 /\ Better(a.valid["altitude"], a.valid["altitudeGNSS"], now)
                 /\ Better(a.valid["gnssDelta"], a.valid["altitudeGNSS"], now)
<1> DEFINE v == CombineValidity(a.valid["altitude"], a.valid["gnssDelta"])
           n == a.value["altitude"] + a.value["gnssDelta"]
           t == Lesser(a.born["altitude"], a.born["gnssDelta"])
           b == [a EXCEPT !.value["altitudeGNSS"] = n, !.valid["altitudeGNSS"] = v,
                          !.born["altitudeGNSS"] = t]
<1>1. v \in Validity
  BY FieldFacts, CombinedType DEF Aircraft
<1>2. n \in Int /\ t \in Nat
  BY FieldFacts DEF Aircraft, Lesser
<1>3. /\ b \in Aircraft
      /\ b.seen = a.seen /\ b.messages = a.messages
      /\ \A f \in Fields \ {"altitudeGNSS"} : b.valid[f] = a.valid[f] /\ b.born[f] = a.born[f]
      /\ b.valid["altitudeGNSS"] = v
  <2> HIDE DEF v, n, t
  <2>1. "altitudeGNSS" \in Fields /\ "altitudeGNSS" \in Scalars
    BY FieldFacts
  <2>2. b.value \in [Scalars -> Int]
    BY <1>2, <2>1 DEF Aircraft
  <2>3. b.valid \in [Fields -> Validity] /\ b.born \in [Fields -> Nat]
    BY <1>1, <1>2, <2>1 DEF Aircraft
  <2>4. b \in Aircraft
    BY <2>2, <2>3 DEF Aircraft
  <2> QED
    BY <2>1, <2>4 DEF Aircraft
<1>4. \/ DeriveGNSS(a, now) = a
      \/ /\ DeriveGNSS(a, now) = b
         /\ Better(a.valid["altitude"], a.valid["altitudeGNSS"], now)
         /\ Better(a.valid["gnssDelta"], a.valid["altitudeGNSS"], now)
  BY DEF DeriveGNSS
<1> QED
  BY <1>3, <1>4

\* Decoding a position leaves the scalar fields alone; a frame keeps its validity or loses
\* it, and the position takes that of both frames or of one.
LEMMA PositionEffect ==
    ASSUME NEW a \in Aircraft, NEW m \in Message, NEW now \in Nat,
           NEW b \in updatePosition(a, m, now)
    PROVE  /\ b \in Aircraft
           /\ b.seen = a.seen /\ b.messages = a.messages
           /\ \A f \in Scalars : b.valid[f] = a.valid[f]
           /\ \A f \in Fields \ {"position"} : b.born[f] = a.born[f]
           /\ \/ \A f \in Frames : b.valid[f] = a.valid[f]
              \/ \A f \in Frames \cup {"position"} : ~DataValid(b.valid[f])
           /\ \/ ~DataValid(b.valid["position"])
              \/ /\ b.valid["position"] = a.valid["position"]
                 /\ b.born["position"] = a.born["position"]
              \/ /\ DataValid(a.valid["cprEven"]) /\ DataValid(a.valid["cprOdd"])
                 /\ b.valid["position"] = CombineValidity(a.valid["cprEven"], a.valid["cprOdd"])
                 /\ b.born["position"] = Lesser(a.born["cprEven"], a.born["cprOdd"])
              \/ /\ b.valid["position"] = a.valid[FrameField(m)]
                 /\ b.born["position"] = now
<1>1. /\ "cprEven" \in Frames /\ "cprOdd" \in Frames /\ FrameField(m) \in Frames
      /\ Frames \subseteq Fields /\ Scalars \subseteq Fields /\ "position" \in Fields
      /\ "position" \notin Scalars /\ "position" \notin Frames /\ Frames \cap Scalars = {}
      /\ m.source \in DataSource
  BY FieldFacts, MessageFacts
<1>2. b \in {FromBothFrames(a), WithoutFrames(a), FromThisFrame(a, m, now), a}
  BY DEF updatePosition
<1>3. ASSUME b = FromBothFrames(a), DataValid(a.valid["cprEven"]), DataValid(a.valid["cprOdd"])
      PROVE  b \in Aircraft /\ b.seen = a.seen /\ b.messages = a.messages
             /\ (\A f \in Fields \ {"position"} : b.valid[f] = a.valid[f] /\ b.born[f] = a.born[f])
             /\ b.valid["position"] = CombineValidity(a.valid["cprEven"], a.valid["cprOdd"])
             /\ b.born["position"] = Lesser(a.born["cprEven"], a.born["cprOdd"])
  <2>1. CombineValidity(a.valid["cprEven"], a.valid["cprOdd"]) \in Validity
    BY <1>1, CombinedType DEF Aircraft
  <2>2. Lesser(a.born["cprEven"], a.born["cprOdd"]) \in Nat
    BY <1>1 DEF Aircraft, Lesser
  <2>3. Lesser(a.valid["cprEven"].source, a.valid["cprOdd"].source) \in DataSource
    BY <1>1 DEF Aircraft, Lesser, Validity
  <2>4. b.valid \in [Fields -> Validity] /\ b.born \in [Fields -> Nat]
    BY <1>1, <1>3, <2>1, <2>2 DEF FromBothFrames, Aircraft
  <2>5. b \in Aircraft
    BY <1>3, <2>3, <2>4 DEF FromBothFrames, Aircraft
  <2> QED
    <3>1. b.seen = a.seen /\ b.messages = a.messages
      BY <1>3 DEF FromBothFrames, Aircraft
    <3>2. b.valid = [a.valid EXCEPT !["position"] = CombineValidity(a.valid["cprEven"], a.valid["cprOdd"])]
      BY <1>3 DEF FromBothFrames, Aircraft
    <3>3. b.born = [a.born EXCEPT !["position"] = Lesser(a.born["cprEven"], a.born["cprOdd"])]
      BY <1>3 DEF FromBothFrames, Aircraft
    <3>4. a.valid \in [Fields -> Validity] /\ a.born \in [Fields -> Nat]
      BY DEF Aircraft
    <3> QED
      BY <1>1, <2>5, <3>1, <3>2, <3>3, <3>4
<1>4. ASSUME b = WithoutFrames(a)
      PROVE  b \in Aircraft /\ b.seen = a.seen /\ b.messages = a.messages
             /\ (\A f \in Scalars : b.valid[f] = a.valid[f])
             /\ (\A f \in Frames \cup {"position"} : ~DataValid(b.valid[f]))
             /\ b.born = a.born
  <2>1. b.valid = [f \in Fields |-> IF f \in Frames \cup {"position"}
                                    THEN Invalidated(a.valid[f]) ELSE a.valid[f]]
    BY <1>4 DEF WithoutFrames, Aircraft
  <2>2. b.valid \in [Fields -> Validity]
    BY <2>1, InvalidatedType DEF Aircraft
  <2>3. b \in Aircraft
    BY <1>4, <2>2 DEF WithoutFrames, Aircraft
  <2>4. \A f \in Frames \cup {"position"} : ~DataValid(b.valid[f])
    BY <1>1, <2>1, InvalidatedType DEF Aircraft
  <2>5. \A f \in Scalars : b.valid[f] = a.valid[f]
    BY <1>1, <2>1
  <2> QED
    BY <1>4, <2>3, <2>4, <2>5 DEF WithoutFrames, Aircraft
<1>5. ASSUME b = FromThisFrame(a, m, now)
      PROVE  b \in Aircraft /\ b.seen = a.seen /\ b.messages = a.messages
             /\ (\A f \in Fields \ {"position"} : b.valid[f] = a.valid[f] /\ b.born[f] = a.born[f])
             /\ b.valid["position"] = a.valid[FrameField(m)]
             /\ b.born["position"] = now
  <2>1. b.valid \in [Fields -> Validity] /\ b.born \in [Fields -> Nat]
    BY <1>1, <1>5 DEF FromThisFrame, Aircraft
  <2>2. b \in Aircraft
    BY <1>1, <1>5, <2>1 DEF FromThisFrame, Aircraft
  <2> QED
    BY <1>1, <1>5, <2>2 DEF FromThisFrame, Aircraft
<1>6. b = FromBothFrames(a) =>
         \/ DataValid(a.valid["cprEven"]) /\ DataValid(a.valid["cprOdd"])
         \/ b \in {WithoutFrames(a), FromThisFrame(a, m, now), a}
  BY DEF updatePosition, GlobalPossible
<1>7. CASE b = FromBothFrames(a) /\ DataValid(a.valid["cprEven"]) /\ DataValid(a.valid["cprOdd"])
  BY <1>1, <1>3, <1>7
<1>8. CASE b = WithoutFrames(a)
  BY <1>1, <1>4, <1>8
<1>9. CASE b = FromThisFrame(a, m, now)
  BY <1>1, <1>5, <1>9
<1>10. CASE b = a
  BY <1>10
<1> QED
  BY <1>2, <1>6, <1>7, <1>8, <1>9, <1>10

LEMMA ReplyFacts ==
    ASSUME NEW r \in Reply
    PROVE  /\ r.addr \in Addresses
           /\ DOMAIN r.value \subseteq Scalars
           /\ \A f \in DOMAIN r.value : r.value[f] \in Int
           /\ "altitudeGNSS" \notin DOMAIN r.value
BY TrackerAssumption, FieldFacts DEF TrackerAssumption, Addresses

\* A reply makes valid only what it writes: what acceptData rejects is valid already.
LEMMA ReplyEffect ==
    ASSUME NEW a \in Aircraft, NEW r \in Reply, NEW now \in Nat
    PROVE  /\ Replied(a, r, now) \in Aircraft
           /\ Replied(a, r, now).seen = now
           /\ Replied(a, r, now).messages = a.messages + 1
           /\ \A f \in Fields :
                 \/ /\ Replied(a, r, now).valid[f] = a.valid[f]
                    /\ Replied(a, r, now).born[f] = a.born[f]
                 \/ /\ f \in Scalars
                    /\ Replied(a, r, now).valid[f].expires = now + ExpireAfter
                    /\ Replied(a, r, now).valid[f].stale = now + StaleAfter
                    /\ Replied(a, r, now).born[f] = now
<1> DEFINE b == Replied(a, r, now)
           new == Answered(a, r, now)
           fresh == AcceptedFrom(SourceInvalid, now)
<1>1. /\ fresh \in Validity
      /\ fresh.expires = now + ExpireAfter /\ fresh.stale = now + StaleAfter
  BY AcceptedType DEF DataSource, SourceInvalid, SourceADSB
<1>2. ASSUME NEW v \in Validity
      PROVE  /\ Promoted(v) \in Validity
             /\ Promoted(v).expires = v.expires /\ Promoted(v).stale = v.stale
  BY DEF Promoted, Validity, DataSource, SourceModeS, SourceInvalid, SourceADSB
<1>3. new \subseteq DOMAIN r.value
  BY DEF Answered
<1>4. b.seen = now /\ b.messages = a.messages + 1
  BY DEF Replied, Aircraft
<1>5. b.value = [f \in Scalars |-> IF f \in new THEN r.value[f] ELSE a.value[f]]
  BY DEF Replied, Aircraft
<1>6. b.born = [f \in Fields |-> IF f \in new THEN now ELSE a.born[f]]
  BY DEF Replied, Aircraft
<1>7. b.valid = [f \in Fields |-> IF f \in new THEN Promoted(fresh)
                                    ELSE IF f \in DOMAIN r.value THEN Promoted(a.valid[f])
                                    ELSE a.valid[f]]
  BY DEF Replied, Aircraft
<1>8. b.flags \in SUBSET Flags
  BY DEF Replied, Aircraft, Flags
<1>9. b.altitudeModeC \in Int
  <2>1. "altitude" \in DOMAIN r.value => ModeCOf(r.value["altitude"]) \in Int
    BY ReplyFacts, ModeCInt
  <2>2. b.altitudeModeC \in {a.altitudeModeC, ModeCOf(r.value["altitude"])}
        /\ (b.altitudeModeC = a.altitudeModeC \/ "altitude" \in new)
    BY DEF Replied, Aircraft
  <2> QED
    BY <1>3, <2>1, <2>2 DEF Aircraft
<1>10. b.valid \in [Fields -> Validity]
  BY <1>1, <1>2, <1>7 DEF Aircraft
<1>11. b.value \in [Scalars -> Int] /\ b.born \in [Fields -> Nat]
  BY <1>3, <1>5, <1>6, ReplyFacts DEF Aircraft
<1>12. b \in Aircraft
  <2> DEFINE flags == (a.flags \cup IF "altitude" \in DOMAIN r.value THEN {} ELSE {"modeAOnly"})
                         \ HitFlags
             modeC == IF "altitude" \in new THEN ModeCOf(r.value["altitude"]) ELSE a.altitudeModeC
             valid == [f \in Fields |-> IF f \in new THEN Promoted(fresh)
                                        ELSE IF f \in DOMAIN r.value THEN Promoted(a.valid[f])
                                        ELSE a.valid[f]]
             value == [f \in Scalars |-> IF f \in new THEN r.value[f] ELSE a.value[f]]
             born == [f \in Fields |-> IF f \in new THEN now ELSE a.born[f]]
             messages == a.messages + 1
  <2>1. b = [a EXCEPT !.seen = now, !.messages = messages, !.flags = flags, !.altitudeModeC = modeC,
                      !.valid = valid, !.value = value, !.born = born]
    BY DEF Replied
  <2>2. flags \in SUBSET Flags /\ modeC \in Int
    <3>1. b.flags = flags /\ b.altitudeModeC = modeC
      BY DEF Replied, Aircraft
    <3> QED
      BY <1>8, <1>9, <3>1
  <2>3. valid \in [Fields -> Validity] /\ value \in [Scalars -> Int] /\ born \in [Fields -> Nat]
    BY <1>5, <1>6, <1>7, <1>10, <1>11
  <2>4. messages \in Nat
    BY DEF Aircraft
  <2> HIDE DEF flags, modeC, valid, value, born, messages, b
  <2> QED
    BY <2>1, <2>2, <2>3, <2>4 DEF Aircraft
<1>13. ASSUME NEW f \in Fields
       PROVE  \/ b.valid[f] = a.valid[f] /\ b.born[f] = a.born[f]
              \/ /\ f \in Scalars /\ b.valid[f].expires = now + ExpireAfter
                 /\ b.valid[f].stale = now + StaleAfter /\ b.born[f] = now
  <2>1. CASE f \in new
    BY <1>1, <1>2, <1>3, <1>6, <1>7, <2>1, ReplyFacts
  <2>2. CASE f \notin new
    <3>1. f \in DOMAIN r.value => a.valid[f].source # SourceInvalid
      <4>1. a.valid[f].source \in DataSource
        BY DEF Aircraft, Validity
      <4> QED
        BY <2>2, <4>1 DEF Answered, Rejects, SourceInvalid, DataSource
    <3>2. f \in DOMAIN r.value => Promoted(a.valid[f]) = a.valid[f]
      BY <3>1 DEF Promoted
    <3> QED
      BY <1>6, <1>7, <2>2, <3>2
  <2> QED
    BY <2>1, <2>2
<1> QED
  BY <1>4, <1>12, <1>13

LEMMA RestartedEffect ==
    ASSUME NEW a \in Aircraft
    PROVE  /\ Restarted(a) \in Aircraft
           /\ Restarted(a).seen = a.seen /\ Restarted(a).valid = a.valid
           /\ Restarted(a).born = a.born
BY DEF Restarted, Aircraft

\* A nonempty set with ranks up to n has a member of the highest rank.
LEMMA HighestRank ==
    ASSUME NEW Y, Y # {}, NEW n \in Nat, NEW rank, \A y \in Y : rank[y] \in 1 .. n
    PROVE  \E y \in Y : \A z \in Y : rank[z] <= rank[y]
<1> DEFINE T == {n - rank[y] : y \in Y}
<1>1. T \in SUBSET Nat /\ T # {}
  OBVIOUS
<1>2. PICK t \in T : \A u \in T : t <= u
  <2> HIDE DEF T
  <2>1. ASSUME NEW R, IsWellFoundedOn(R, Nat), R = {ss \in Nat \X Nat : ss[1] < ss[2]}
        PROVE  \E t \in T : \A u \in T : t <= u
    <3>1. PICK t \in T : \A u \in T : ~(<<u, t>> \in R)
      BY <1>1, <2>1, WFMin
    <3>2. ASSUME NEW u \in T PROVE t <= u
      <4>1. <<u, t>> \in Nat \X Nat
        BY <1>1, <3>1, <3>2
      <4>2. ~(<<u, t>>[1] < <<u, t>>[2])
        BY <2>1, <3>1, <3>2, <4>1
      <4> QED
        BY <4>1, <4>2
    <3> QED
      BY <3>1, <3>2
  <2>2. OpToRel(<, Nat) = {ss \in Nat \X Nat : ss[1] < ss[2]}
    BY DEF OpToRel
  <2> QED
    BY <2>1, <2>2, NatLessThanWellFounded
<1>3. PICK y \in Y : t = n - rank[y]
  BY <1>2
<1>4. ASSUME NEW z \in Y PROVE rank[z] <= rank[y]
  <2>1. n - rank[y] <= n - rank[z]
    BY <1>2, <1>3
  <2> QED
    BY <2>1
<1> QED
  BY <1>4

\* Matching changes flags and counts only.
LEMMA MatchEffect ==
    ASSUME NEW D, NEW ac \in [D -> Aircraft], NEW X \in SUBSET D, NEW n \in Nat,
           NEW rank \in [X -> 1 .. n], NEW z \in D
    PROVE  LET new == matchModeACWithModeS(ac, X, rank)
           IN  /\ new[z] \in Aircraft
               /\ new[z].seen = ac[z].seen /\ new[z].messages = ac[z].messages
               /\ new[z].valid = ac[z].valid /\ new[z].born = ac[z].born
<1>1. ASSUME NEW Y \in SUBSET X, NEW count \in Nat
      PROVE  Overwritten(count, ac, Y, rank) \in Nat
  <2>1. CASE Y = {}
    BY <2>1 DEF Overwritten
  <2>2. CASE Y # {}
    <3>1. \E y \in Y : \A w \in Y : rank[w] <= rank[y]
      BY <2>2, HighestRank
    <3> DEFINE top == CHOOSE y \in Y : \A w \in Y : rank[w] <= rank[y]
    <3>2. top \in Y
      BY <3>1
    <3>3. ac[top].messages \in Nat
      BY <3>2 DEF Aircraft
    <3> QED
      BY <2>2, <3>3 DEF Overwritten
  <2> QED
    BY <2>1, <2>2
<1> DEFINE new == matchModeACWithModeS(ac, X, rank)
           F == Gained(ac, X, rank, z)
           YA == HitsA(ac, X, z)
           YC == HitsC(ac, X, z)
<1>2. F \in SUBSET Flags /\ YA \in SUBSET X /\ YC \in SUBSET X
  BY DEF Gained, HitsA, HitsC
<1>3. new[z] = [ac[z] EXCEPT !.flags = @ \cup F,
                             !.modeACount = Overwritten(@, ac, YA, rank),
                             !.modeCCount = Overwritten(@, ac, YC, rank)]
  BY DEF matchModeACWithModeS
<1>4. ac[z] \in Aircraft
  OBVIOUS
<1>5. ac[z].modeACount \in Nat /\ ac[z].modeCCount \in Nat
  BY <1>4 DEF Aircraft
<1>6. /\ Overwritten(ac[z].modeACount, ac, YA, rank) \in Nat
      /\ Overwritten(ac[z].modeCCount, ac, YC, rank) \in Nat
  BY <1>1, <1>2, <1>5
<1>7. ac[z].flags \cup F \in SUBSET Flags
  BY <1>2, <1>4 DEF Aircraft
<1> HIDE DEF F, YA, YC, new
<1>8. /\ new[z] \in Aircraft
      /\ new[z].seen = ac[z].seen /\ new[z].messages = ac[z].messages
      /\ new[z].valid = ac[z].valid /\ new[z].born = ac[z].born
  BY <1>3, <1>4, <1>6, <1>7 DEF Aircraft
<1> QED
  BY <1>8 DEF new

\* What the sweep leaves of a record is as it was, or invalid.
LEMMA ExpiredEffect ==
    ASSUME NEW a \in Aircraft, NEW now \in Nat
    PROVE  /\ Expired(a, now) \in Aircraft
           /\ Expired(a, now).seen = a.seen /\ Expired(a, now).messages = a.messages
           /\ Expired(a, now).born = a.born
           /\ \A f \in Fields : Expired(a, now).valid[f] = ExpireField(a.valid[f], now)
<1>1. Expired(a, now).valid = [f \in Fields |-> ExpireField(a.valid[f], now)]
  BY DEF Expired, Aircraft
<1>2. Expired(a, now).valid \in [Fields -> Validity]
  BY <1>1, ExpireFieldType DEF Aircraft
<1>3. Expired(a, now) \in Aircraft
  BY <1>2 DEF Expired, Aircraft
<1> QED
  BY <1>1, <1>3 DEF Expired, Aircraft

-----------------------------------------------------------------------------
(* Every handler keeps records timely. *)

\* A reading of the clock that is not too old.
RecentReading(now, time, last) ==
    now <= time /\ time <= now + MaxLag /\ last <= time

LEMMA FreshlySeen ==
    ASSUME NEW a \in Aircraft, NEW time \in Nat, NEW last \in Nat,
           RecentReading(a.seen, time, last)
    PROVE  SeenTimely(a, time, last)
BY TrackerAssumption DEF TrackerAssumption, RecentReading, SeenTimely, Allowed, Lesser, Aircraft

\* A message's fields count from now, and a derived altitude lasts as long as one of
\* the two that it comes from.
LEMMA StoreTimely ==
    ASSUME NEW a \in Aircraft, NEW m \in Message, NEW now \in Nat, NEW time \in Nat,
           NEW last \in Nat, RecentReading(now, time, last), FieldsTimely(a, time, last)
    PROVE  FieldsTimely(DeriveGNSS(Store(a, m, now), now), time, last)
<1> DEFINE b == Store(a, m, now)
           c == DeriveGNSS(b, now)
<1>1. b \in Aircraft
  BY StoreEffect
<1>2. ASSUME NEW f \in Fields
      PROVE  FieldTimely(b, f, time, last)
  <2>1. FieldTimely(a, f, time, last)
    BY DEF FieldsTimely
  <2>2. CASE f \in Accepted(a, m, now)
    <3>1. /\ b.valid[f].expires = now + ExpireAfter /\ b.valid[f].stale = now + StaleAfter
          /\ now + StaleAfter <= now + ExpireAfter /\ b.born[f] = now
      BY <2>2, StoreEffect, MessageFacts, AcceptedType
    <3> HIDE DEF b
    <3> QED
      BY <3>1, TrackerAssumption, ValidityAssumption
         DEF FieldTimely, RecentReading, TrackerAssumption, ValidityAssumption
  <2>3. CASE f \notin Accepted(a, m, now)
    <3>1. b.valid[f] = a.valid[f] /\ b.born[f] = a.born[f]
      BY <2>3, StoreEffect
    <3> HIDE DEF b
    <3> QED
      BY <2>1, <3>1 DEF FieldTimely
  <2> QED
    BY <2>2, <2>3
<1> HIDE DEF b
<1>3. \A f \in Fields \ {"altitudeGNSS"} : FieldTimely(c, f, time, last)
  <2>1. ASSUME NEW f \in Fields \ {"altitudeGNSS"}
        PROVE  c.valid[f] = b.valid[f] /\ c.born[f] = b.born[f]
    BY <1>1, DeriveEffect
  <2> HIDE DEF c
  <2> QED
    BY <1>2, <2>1 DEF FieldTimely
<1>4. FieldTimely(c, "altitudeGNSS", time, last)
  <2> DEFINE v == b.valid["altitude"]
             w == b.valid["gnssDelta"]
             u == CombineValidity(v, w)
  <2>1. c.valid["altitudeGNSS"] = b.valid["altitudeGNSS"] \/ c.valid["altitudeGNSS"] = u
    BY <1>1, DeriveEffect
  <2>2. v \in Validity /\ w \in Validity
    BY <1>1, FieldFacts DEF Aircraft
  <2>3. /\ DataValid(v) => last < v.expires /\ v.stale <= v.expires
        /\ DataValid(w) => last < w.expires /\ w.stale <= w.expires
    BY <1>2, FieldFacts DEF FieldTimely
  <2>4. DataValid(u) => last < u.expires /\ u.stale <= u.expires
    BY <2>2, <2>3, CombinedType
  <2>5. FieldTimely(b, "altitudeGNSS", time, last)
    BY <1>2, FieldFacts
  <2> HIDE DEF c, u
  <2> QED
    BY <2>1, <2>4, <2>5, FieldFacts DEF FieldTimely
<1> HIDE DEF c
<1> QED
  BY <1>3, <1>4 DEF FieldsTimely, b, c

\* Both frames of a position have to be alive; with one of them, the position may have
\* its expiry from a frame that was dated up to MaxLag later.
LEMMA PositionTimely ==
    ASSUME NEW a \in Aircraft, NEW m \in Message, NEW now \in Nat, NEW time \in Nat,
           NEW last \in Nat, RecentReading(now, time, last), FieldsTimely(a, time, last),
           NEW b \in updatePosition(a, m, now)
    PROVE  FieldsTimely(b, time, last)
<1>1. /\ b \in Aircraft
      /\ \A f \in Scalars : b.valid[f] = a.valid[f]
      /\ \A f \in Fields \ {"position"} : b.born[f] = a.born[f]
      /\ \A f \in Frames : b.valid[f] = a.valid[f] \/ ~DataValid(b.valid[f])
  BY PositionEffect
<1>2. ASSUME NEW f \in Fields PROVE FieldTimely(a, f, time, last)
  BY DEF FieldsTimely
<1>3. ASSUME NEW f \in Scalars \cup Frames
      PROVE  FieldTimely(b, f, time, last)
  <2>1. f \in Fields \ {"position"}
    BY FieldFacts
  <2> QED
    BY <1>1, <1>2, <2>1 DEF FieldTimely
<1>4. FieldTimely(b, "position", time, last)
  <2> DEFINE v == a.valid["cprEven"]
             w == a.valid["cprOdd"]
             u == CombineValidity(v, w)
  <2>1. /\ FrameField(m) \in Frames /\ FrameField(m) \in Fields /\ FrameField(m) # "altitudeGNSS"
        /\ "cprEven" \in Frames /\ "cprOdd" \in Frames
        /\ "cprEven" \in Fields /\ "cprOdd" \in Fields /\ "position" \in Fields
    BY FieldFacts, MessageFacts
  <2>2. CASE b.valid["position"] = a.valid["position"] /\ b.born["position"] = a.born["position"]
    BY <1>2, <2>1, <2>2 DEF FieldTimely
  <2>3. CASE /\ DataValid(v) /\ DataValid(w)
             /\ b.valid["position"] = u
             /\ b.born["position"] = Lesser(a.born["cprEven"], a.born["cprOdd"])
    <3>1. /\ v \in Validity /\ w \in Validity
          /\ a.born["cprEven"] \in Nat /\ a.born["cprOdd"] \in Nat
      BY <2>1 DEF Aircraft
    <3>2. /\ v.stale <= v.expires /\ last < v.expires
          /\ a.born["cprEven"] <= time /\ v.expires <= a.born["cprEven"] + ExpireAfter
      BY <1>2, <2>1, <2>3 DEF FieldTimely
    <3>3. /\ w.stale <= w.expires /\ last < w.expires
          /\ a.born["cprOdd"] <= time /\ w.expires <= a.born["cprOdd"] + ExpireAfter
      BY <1>2, <2>1, <2>3 DEF FieldTimely
    <3>4. /\ u \in Validity
          /\ u.expires <= v.expires /\ u.expires <= w.expires
          /\ DataValid(u) => last < u.expires /\ u.stale <= u.expires
      BY <2>3, <3>1, <3>2, <3>3, CombinedType
    <3>5. u.expires \in Nat /\ v.expires \in Nat /\ w.expires \in Nat
      BY <3>1, <3>4 DEF Validity
    <3> HIDE DEF u, v, w
    <3>6. /\ b.born["position"] <= time
          /\ u.expires <= b.born["position"] + ExpireAfter + MaxLag
      BY <2>3, <3>1, <3>2, <3>3, <3>4, <3>5, TrackerAssumption, ValidityAssumption
         DEF Lesser, TrackerAssumption, ValidityAssumption
    <3> QED
      BY <2>3, <3>4, <3>6, FieldFacts DEF FieldTimely
  <2>4. CASE b.valid["position"] = a.valid[FrameField(m)] /\ b.born["position"] = now
    <3> DEFINE g == FrameField(m)
    <3>1. a.valid[g] \in Validity /\ a.born[g] \in Nat /\ a.valid[g].expires \in Nat
      BY <2>1 DEF Aircraft, Validity
    <3>2. DataValid(a.valid[g]) =>
             /\ a.valid[g].stale <= a.valid[g].expires /\ last < a.valid[g].expires
             /\ a.born[g] <= time /\ a.valid[g].expires <= a.born[g] + ExpireAfter
      BY <1>2, <2>1 DEF FieldTimely
    <3>3. DataValid(a.valid[g]) =>
             now <= time /\ a.valid[g].expires <= now + ExpireAfter + MaxLag
      <4> HIDE DEF g
      <4> QED
        BY <3>1, <3>2, TrackerAssumption, ValidityAssumption
           DEF RecentReading, TrackerAssumption, ValidityAssumption
    <3> QED
      BY <2>4, <3>2, <3>3, FieldFacts DEF FieldTimely
  <2>5. CASE ~DataValid(b.valid["position"])
    BY <2>5 DEF FieldTimely
  <2> QED
    BY <2>2, <2>3, <2>4, <2>5, PositionEffect
<1> QED
  BY <1>3, <1>4 DEF FieldsTimely, Fields

LEMMA ReplyTimely ==
    ASSUME NEW a \in Aircraft, NEW r \in Reply, NEW now \in Nat, NEW time \in Nat,
           NEW last \in Nat, RecentReading(now, time, last), FieldsTimely(a, time, last)
    PROVE  FieldsTimely(Replied(a, r, now), time, last)
<1> DEFINE b == Replied(a, r, now)
<1>1. ASSUME NEW f \in Fields PROVE FieldTimely(b, f, time, last)
  <2>1. FieldTimely(a, f, time, last)
    BY DEF FieldsTimely
  <2>2. \/ b.valid[f] = a.valid[f] /\ b.born[f] = a.born[f]
        \/ /\ f \in Scalars
           /\ b.valid[f].expires = now + ExpireAfter /\ b.valid[f].stale = now + StaleAfter
           /\ b.born[f] = now
    BY ReplyEffect
  <2> HIDE DEF b
  <2> QED
    BY <2>1, <2>2, FieldFacts, TrackerAssumption, ValidityAssumption
       DEF FieldTimely, RecentReading, TrackerAssumption, ValidityAssumption
<1> QED
  BY <1>1 DEF FieldsTimely

\* What matching does to a map of records.
LEMMA MatchTimely ==
    ASSUME NEW D, NEW ac \in [D -> Aircraft], NEW X \in SUBSET D, NEW n \in Nat,
           NEW rank \in [X -> 1 .. n], NEW x \in D, NEW time, NEW last
    PROVE  LET new == matchModeACWithModeS(ac, X, rank)
           IN  /\ SeenTimely(ac[x], time, last) => SeenTimely(new[x], time, last)
               /\ FieldsTimely(ac[x], time, last) => FieldsTimely(new[x], time, last)
<1> DEFINE new == matchModeACWithModeS(ac, X, rank)
<1>1. /\ new[x].seen = ac[x].seen /\ new[x].messages = ac[x].messages
      /\ new[x].valid = ac[x].valid /\ new[x].born = ac[x].born
  BY MatchEffect
<1> HIDE DEF new
<1> QED
  BY <1>1 DEF new, SeenTimely, Allowed, FieldsTimely, FieldTimely

-----------------------------------------------------------------------------
(* The invariant is inductive. *)

LEMMA InitIInv ==
    ASSUME Init
    PROVE  IInv
<1>1. DOMAIN aircraft = {}
  BY DEF Init
<1>2. aircraft \in [DOMAIN aircraft -> Aircraft]
  BY <1>1 DEF Init
<1>3. TypeOK
  BY <1>1, <1>2 DEF Init, TypeOK
<1>4. ReadingsRecent
  BY TrackerAssumption DEF Init, ReadingsRecent, Never, TrackerAssumption
<1>5. IsFiniteSet(DOMAIN aircraft)
  BY <1>1, FS_EmptySet
<1> QED
  BY <1>1, <1>3, <1>4, <1>5 DEF IInv, Timely

\* A handler's reading of the clock, whatever has happened since.
LEMMA HandlerReading ==
    ASSUME IInv, NEW h \in Handlers, reading[h] # Never
    PROVE  reading[h] \in Nat /\ RecentReading(reading[h], clock, swept)
BY DEF IInv, TypeOK, ReadingsRecent, RecentReading

\* When a handler is done nothing but its own reading has gone.
LEMMA ReadingDone ==
    ASSUME IInv, NEW h \in Handlers, reading' = [reading EXCEPT ![h] = Never],
           UNCHANGED <<clock, sweep, swept>>
    PROVE  ReadingsRecent' /\ reading' \in [Handlers -> Nat \cup {Never}]
BY DEF IInv, TypeOK, ReadingsRecent

LEMMA MessageStep ==
    ASSUME IInv, NEW h \in Handlers, NEW m \in Message, UpdateFromMessage(h, m)
    PROVE  IInv'
<1> DEFINE now == reading[h]
           old == IF m.addr \in DOMAIN aircraft THEN aircraft[m.addr]
                  ELSE createAircraft(m.addrType)
           stored == Store(old, m, now)
           new == DeriveGNSS(stored, now)
<1>1. now \in Nat /\ RecentReading(now, clock, swept) /\ clock \in Nat /\ swept \in Nat
  BY HandlerReading DEF UpdateFromMessage, IInv, TypeOK
<1>2. old \in Aircraft /\ FieldsTimely(old, clock, swept)
  BY CreatedType, MessageFacts DEF IInv, TypeOK, Timely
<1>3. PICK a \in IF m.CPRValid THEN updatePosition(new, m, now) ELSE {new} :
         aircraft' = With(aircraft, m.addr, a)
  BY DEF UpdateFromMessage
<1>4. /\ UNCHANGED <<single, clock, sweep, swept>>
      /\ unique' = IF m.addr \in DOMAIN aircraft THEN unique ELSE unique + 1
      /\ reading' = [reading EXCEPT ![h] = Never]
  BY DEF UpdateFromMessage
<1> HIDE DEF now, old
<1>5. stored \in Aircraft /\ stored.seen = now
  BY <1>1, <1>2, StoreEffect
<1>6. new \in Aircraft /\ new.seen = now
  <2> HIDE DEF stored
  <2> QED
    BY <1>1, <1>5, DeriveEffect
<1>7. FieldsTimely(new, clock, swept)
  BY <1>1, <1>2, StoreTimely
<1> HIDE DEF stored, new
<1>8. a \in Aircraft /\ a.seen = now /\ FieldsTimely(a, clock, swept)
  <2>1. CASE m.CPRValid
    <3>1. a \in updatePosition(new, m, now)
      BY <1>3, <2>1
    <3> QED
      BY <1>1, <1>6, <1>7, <3>1, PositionEffect, PositionTimely
  <2>2. CASE ~m.CPRValid
    BY <1>3, <1>6, <1>7, <2>2
  <2> QED
    BY <2>1, <2>2
<1>9. SeenTimely(a, clock, swept)
  BY <1>1, <1>8, FreshlySeen
<1>10. /\ DOMAIN aircraft' = DOMAIN aircraft \cup {m.addr}
       /\ aircraft' \in [DOMAIN aircraft' -> Aircraft] /\ DOMAIN aircraft' \subseteq Addresses
       /\ IsFiniteSet(DOMAIN aircraft')
       /\ aircraft'[m.addr] = a
       /\ \A x \in DOMAIN aircraft \ {m.addr} : aircraft'[x] = aircraft[x]
  <2>1. /\ aircraft \in [DOMAIN aircraft -> Aircraft] /\ DOMAIN aircraft \subseteq Addresses
        /\ IsFiniteSet(DOMAIN aircraft) /\ m.addr \in Addresses
    BY MessageFacts DEF IInv, TypeOK
  <2>2. /\ aircraft' \in [DOMAIN aircraft \cup {m.addr} -> Aircraft]
        /\ DOMAIN aircraft \cup {m.addr} \subseteq Addresses
        /\ IsFiniteSet(DOMAIN aircraft \cup {m.addr})
        /\ aircraft'[m.addr] = a
        /\ \A x \in DOMAIN aircraft \ {m.addr} : aircraft'[x] = aircraft[x]
    BY <1>3, <1>8, <2>1, FS_AddElement DEF With
  <2> QED
    BY <2>2
<1>11. TypeOK'
  BY <1>4, <1>10, ReadingDone DEF IInv, TypeOK
<1>12. Timely(aircraft, clock, swept)'
  BY <1>4, <1>8, <1>9, <1>10 DEF IInv, Timely
<1> QED
  BY <1>4, <1>10, <1>11, <1>12, ReadingDone DEF IInv

LEMMA ReplyStep ==
    ASSUME IInv, NEW h \in Handlers, NEW r \in Reply, UpdateFromModeAC(h, r)
    PROVE  IInv'
<1> DEFINE now == reading[h]
           old == IF r.addr \in DOMAIN aircraft THEN aircraft[r.addr]
                  ELSE [createAircraft(0) EXCEPT !.flags = {"flag"}]
           replied == Replied(old, r, now)
           all == With(aircraft, r.addr, replied)
           rank == [x \in {r.addr} |-> 1]
           matched == matchModeACWithModeS(all, {r.addr}, rank)
<1>1. now \in Nat /\ RecentReading(now, clock, swept) /\ clock \in Nat /\ swept \in Nat
  BY HandlerReading DEF UpdateFromModeAC, IInv, TypeOK
<1>2. old \in Aircraft /\ FieldsTimely(old, clock, swept)
  <2>1. createAircraft(0) \in Aircraft /\ FieldsTimely(createAircraft(0), clock, swept)
    BY CreatedType DEF AddrTypes
  <2>2. [createAircraft(0) EXCEPT !.flags = {"flag"}] \in Aircraft
    BY <2>1 DEF Aircraft, Flags
  <2>3. FieldsTimely([createAircraft(0) EXCEPT !.flags = {"flag"}], clock, swept)
    BY <2>1 DEF FieldsTimely, FieldTimely, createAircraft
  <2> QED
    BY <2>2, <2>3 DEF IInv, TypeOK, Timely
<1>3. /\ aircraft' = [matched EXCEPT ![r.addr] = Restarted(@)]
      /\ reading' = [reading EXCEPT ![h] = Never]
      /\ UNCHANGED <<unique, single, clock, sweep, swept>>
  BY DEF UpdateFromModeAC
<1> HIDE DEF now, old
<1>4. replied \in Aircraft /\ replied.seen = now
  BY <1>1, <1>2, ReplyEffect
<1>5. FieldsTimely(replied, clock, swept)
  BY <1>1, <1>2, ReplyTimely
<1> HIDE DEF replied
<1>6. /\ DOMAIN all = DOMAIN aircraft \cup {r.addr}
      /\ all \in [DOMAIN all -> Aircraft] /\ DOMAIN all \subseteq Addresses
      /\ IsFiniteSet(DOMAIN all)
      /\ all[r.addr] = replied
      /\ \A x \in DOMAIN aircraft \ {r.addr} : all[x] = aircraft[x]
  <2>1. /\ aircraft \in [DOMAIN aircraft -> Aircraft] /\ DOMAIN aircraft \subseteq Addresses
        /\ IsFiniteSet(DOMAIN aircraft) /\ r.addr \in Addresses
    BY ReplyFacts DEF IInv, TypeOK
  <2>2. /\ all \in [DOMAIN aircraft \cup {r.addr} -> Aircraft]
        /\ DOMAIN aircraft \cup {r.addr} \subseteq Addresses
        /\ IsFiniteSet(DOMAIN aircraft \cup {r.addr})
        /\ all[r.addr] = replied
        /\ \A x \in DOMAIN aircraft \ {r.addr} : all[x] = aircraft[x]
    BY <1>4, <2>1, FS_AddElement DEF With
  <2> HIDE DEF all
  <2> QED
    BY <2>2
<1>7. /\ {r.addr} \in SUBSET DOMAIN all /\ rank \in [{r.addr} -> 1 .. 1] /\ 1 \in Nat
  BY <1>6
<1> HIDE DEF all, rank
<1>8. /\ matched \in [DOMAIN all -> Aircraft]
      /\ \A z \in DOMAIN all : matched[z].seen = all[z].seen
  <2>1. ASSUME NEW z \in DOMAIN all
        PROVE  matched[z] \in Aircraft /\ matched[z].seen = all[z].seen
    BY <1>6, <1>7, MatchEffect
  <2>2. matched = [z \in DOMAIN all |-> matched[z]]
    BY DEF matchModeACWithModeS
  <2> HIDE DEF matched
  <2> QED
    BY <2>1, <2>2
<1>9. ASSUME NEW x \in DOMAIN all
      PROVE  FieldsTimely(matched[x], clock, swept)
  <2>1. FieldsTimely(all[x], clock, swept)
    BY <1>5, <1>6 DEF IInv, Timely
  <2> QED
    BY <1>6, <1>7, <2>1, MatchTimely
<1>10. ASSUME NEW x \in DOMAIN all, x # r.addr
       PROVE  SeenTimely(matched[x], clock, swept)
  <2>1. SeenTimely(all[x], clock, swept)
    BY <1>6, <1>10 DEF IInv, Timely
  <2> QED
    BY <1>6, <1>7, <2>1, MatchTimely
<1> HIDE DEF matched
<1> DEFINE a == Restarted(matched[r.addr])
<1>11. /\ a \in Aircraft /\ a.seen = now
       /\ SeenTimely(a, clock, swept) /\ FieldsTimely(a, clock, swept)
  <2>1. matched[r.addr] \in Aircraft /\ matched[r.addr].seen = now
    BY <1>4, <1>6, <1>8
  <2>2. a \in Aircraft /\ a.seen = now
    BY <2>1, RestartedEffect
  <2>3. a.valid = matched[r.addr].valid /\ a.born = matched[r.addr].born
    BY <2>1, RestartedEffect
  <2>4. FieldsTimely(matched[r.addr], clock, swept)
    BY <1>6, <1>9
  <2> HIDE DEF a
  <2>5. FieldsTimely(a, clock, swept)
    BY <2>3, <2>4 DEF FieldsTimely, FieldTimely
  <2> QED
    BY <1>1, <2>2, <2>5, FreshlySeen
<1>12. aircraft' = [matched EXCEPT ![r.addr] = a]
  BY <1>3
<1> HIDE DEF a
<1>13. /\ DOMAIN aircraft' = DOMAIN all
       /\ aircraft' \in [DOMAIN all -> Aircraft]
       /\ aircraft'[r.addr] = a
       /\ \A x \in DOMAIN all \ {r.addr} : aircraft'[x] = matched[x]
  BY <1>6, <1>8, <1>11, <1>12
<1>14. TypeOK'
  BY <1>3, <1>6, <1>13, ReadingDone DEF IInv, TypeOK
<1>15. Timely(aircraft, clock, swept)'
  BY <1>3, <1>9, <1>10, <1>11, <1>13 DEF Timely
<1> QED
  BY <1>3, <1>6, <1>13, <1>14, <1>15, ReadingDone DEF IInv

\* A record that the sweep keeps was heard recently enough for the sweep, even if it was
\* heard after the sweep read the clock: its age does not wrap around to less than TTL.
LEMMA KeptSeenTimely ==
    ASSUME IInv, sweep # Never, NEW x \in DOMAIN aircraft \ Gone(aircraft, sweep)
    PROVE  SeenTimely(aircraft[x], clock, sweep)
<1> DEFINE a == aircraft[x]
<1>1. /\ a.seen \in Nat /\ clock \in Nat /\ sweep \in Nat /\ swept \in Nat
      /\ a.seen <= clock /\ swept <= a.seen + Allowed(a)
      /\ swept <= sweep /\ sweep <= swept + Period
  BY DEF IInv, TypeOK, Timely, SeenTimely, ReadingsRecent, Aircraft
<1>2. /\ ~(Age(a, sweep) > TTL)
      /\ ~(a.messages = 1 /\ Age(a, sweep) > OneHitTTL)
  BY DEF Gone
<1>3. Allowed(a) \in Nat /\ Allowed(a) <= TTL
  BY TrackerAssumption DEF Allowed, Lesser, TrackerAssumption
<1> HIDE DEF a
<1>4. CASE a.seen <= sweep
  <2>1. sweep - a.seen \in 0 .. WordSize - 1
    BY <1>1, <1>3, <1>4, TrackerAssumption DEF TrackerAssumption
  <2>2. Age(a, sweep) = sweep - a.seen
    BY <2>1, TrackerAssumption DEF Age, TrackerAssumption
  <2> QED
    BY <1>1, <1>2, <2>1, <2>2, TrackerAssumption
       DEF SeenTimely, Allowed, Lesser, TrackerAssumption, a
<1>5. CASE sweep < a.seen
  BY <1>1, <1>3, <1>5 DEF SeenTimely, a
<1> QED
  BY <1>1, <1>4, <1>5

LEMMA ExpiredTimely ==
    ASSUME NEW a \in Aircraft, NEW time, NEW last, NEW now \in Nat,
           FieldsTimely(a, time, last)
    PROVE  FieldsTimely(Expired(a, now), time, now)
<1> DEFINE b == Expired(a, now)
<1>1. ASSUME NEW f \in Fields PROVE FieldTimely(b, f, time, now)
  <2>1. FieldTimely(a, f, time, last)
    BY DEF FieldsTimely
  <2>2. DataValid(b.valid[f]) =>
           b.valid[f] = a.valid[f] /\ DataValid(a.valid[f]) /\ now < a.valid[f].expires
    <3>1. b.valid[f] = ExpireField(a.valid[f], now) /\ a.valid[f] \in Validity
      BY ExpiredEffect DEF Aircraft
    <3> HIDE DEF b
    <3> QED
      BY <3>1, ExpireFieldType
  <2>3. b.born = a.born
    BY ExpiredEffect
  <2> HIDE DEF b
  <2> QED
    BY <2>1, <2>2, <2>3 DEF FieldTimely
<1> QED
  BY <1>1 DEF FieldsTimely

LEMMA SweepStep ==
    ASSUME IInv, PeriodicUpdate
    PROVE  IInv'
<1> DEFINE gone == Gone(aircraft, sweep)
           D == DOMAIN aircraft \ gone
           kept == [x \in D |-> Expired(aircraft[x], sweep)]
           X == Synthetic(kept)
           n == Cardinality(X)
<1>1. /\ sweep # Never /\ swept' = sweep /\ sweep' = Never
      /\ single' = single + Cardinality({x \in gone : aircraft[x].messages = 1})
      /\ UNCHANGED <<unique, clock, reading>>
  BY DEF PeriodicUpdate
<1>2. /\ IsFiniteSet(DOMAIN aircraft) /\ DOMAIN aircraft \subseteq Addresses
      /\ sweep \in Nat /\ clock \in Nat /\ swept \in Nat /\ single \in Nat
  BY <1>1 DEF IInv, TypeOK, Never
<1>3. PICK rank \in Rankings(X) : aircraft' = matchModeACWithModeS(kept, X, rank)
  BY DEF PeriodicUpdate
<1>4. IsFiniteSet(D) /\ D \subseteq Addresses
  BY <1>2, FS_Subset
<1>5. Cardinality({x \in gone : aircraft[x].messages = 1}) \in Nat
  <2>1. {x \in gone : aircraft[x].messages = 1} \subseteq DOMAIN aircraft
    BY DEF Gone
  <2> QED
    BY <1>2, <2>1, FS_Subset, FS_CardinalityType
<1>6. ASSUME NEW x \in D
      PROVE  /\ kept[x] \in Aircraft
             /\ SeenTimely(kept[x], clock, sweep) /\ FieldsTimely(kept[x], clock, sweep)
  <2> DEFINE a == aircraft[x]
             b == Expired(a, sweep)
  <2>1. a \in Aircraft /\ FieldsTimely(a, clock, swept)
    BY DEF IInv, TypeOK, Timely
  <2>2. SeenTimely(a, clock, sweep)
    BY <1>1, KeptSeenTimely
  <2> HIDE DEF a
  <2>3. b \in Aircraft /\ b.seen = a.seen /\ b.messages = a.messages
    BY <1>2, <2>1, ExpiredEffect
  <2>4. FieldsTimely(b, clock, sweep)
    BY <1>2, <2>1, ExpiredTimely
  <2>5. kept[x] = b
    BY DEF a
  <2> HIDE DEF b, kept
  <2> QED
    BY <2>2, <2>3, <2>4, <2>5 DEF SeenTimely, Allowed
<1>7. kept \in [D -> Aircraft]
  BY <1>6
<1>8. X \in SUBSET D /\ n \in Nat /\ rank \in [X -> 1 .. n]
  <2>1. X \subseteq D
    BY DEF Synthetic
  <2>2. n \in Nat
    BY <1>4, <2>1, FS_Subset, FS_CardinalityType
  <2> QED
    BY <2>1, <2>2 DEF Rankings
<1>9. aircraft' = [z \in D |-> aircraft'[z]]
  BY <1>3 DEF matchModeACWithModeS
<1> HIDE DEF kept, X, n
<1>10. ASSUME NEW z \in D
       PROVE  /\ aircraft'[z] \in Aircraft
              /\ SeenTimely(aircraft'[z], clock, sweep) /\ FieldsTimely(aircraft'[z], clock, sweep)
  BY <1>3, <1>6, <1>7, <1>8, MatchEffect, MatchTimely
<1> HIDE DEF D
<1>11. TypeOK'
  <2>1. DOMAIN aircraft' = D /\ aircraft' \in [D -> Aircraft]
    BY <1>9, <1>10
  <2>2. /\ single' \in Nat /\ unique' \in Nat /\ clock' \in Nat
        /\ reading' \in [Handlers -> Nat \cup {Never}]
        /\ sweep' \in Nat \cup {Never} /\ swept' \in Nat
    BY <1>1, <1>2, <1>5 DEF IInv, TypeOK
  <2> QED
    BY <1>4, <2>1, <2>2 DEF TypeOK
<1>12. ReadingsRecent'
  BY <1>1, <1>2, TrackerAssumption DEF IInv, ReadingsRecent, TrackerAssumption
<1>13. IsFiniteSet(DOMAIN aircraft')
  BY <1>4, <1>9
<1>14. Timely(aircraft, clock, swept)'
  BY <1>1, <1>9, <1>10 DEF Timely
<1> QED
  BY <1>11, <1>12, <1>13, <1>14 DEF IInv

\* Reading the clock.
LEMMA ReadingStep ==
    ASSUME IInv, (\E h \in Handlers : TakeTime(h)) \/ SweepCall
    PROVE  IInv'
<1>1. CASE \E h \in Handlers : TakeTime(h)
  <2>1. PICK h \in Handlers : TakeTime(h)
    BY <1>1
  <2>2. TypeOK'
    BY <2>1 DEF TakeTime, IInv, TypeOK
  <2>3. ReadingsRecent'
    BY <2>1, TrackerAssumption DEF TakeTime, IInv, TypeOK, ReadingsRecent, TrackerAssumption
  <2> QED
    BY <2>1, <2>2, <2>3 DEF TakeTime, IInv, Timely
<1>2. CASE SweepCall
  <2>1. TypeOK'
    BY <1>2 DEF SweepCall, IInv, TypeOK
  <2>2. ReadingsRecent'
    BY <1>2, TrackerAssumption DEF SweepCall, IInv, TypeOK, ReadingsRecent, TrackerAssumption
  <2> QED
    BY <1>2, <2>1, <2>2 DEF SweepCall, IInv, Timely
<1> QED
  BY <1>1, <1>2

LEMMA TickStep ==
    ASSUME IInv, Tick
    PROVE  IInv'
<1>1. /\ clock \in Nat /\ clock' = clock + 1
      /\ UNCHANGED <<aircraft, unique, single, reading, sweep, swept>>
  BY DEF Tick, IInv, TypeOK
<1>2. TypeOK'
  BY <1>1 DEF IInv, TypeOK
<1>3. ReadingsRecent'
  <2>1. /\ swept \in Nat /\ sweep \in Nat \cup {Never}
        /\ reading \in [Handlers -> Nat \cup {Never}]
    BY DEF IInv, TypeOK
  <2> QED
    BY <1>1, <2>1, TrackerAssumption DEF Tick, IInv, ReadingsRecent, TrackerAssumption
<1>4. Timely(aircraft, clock, swept)'
  <2>1. ASSUME NEW x \in DOMAIN aircraft
        PROVE  SeenTimely(aircraft[x], clock + 1, swept)
    BY <1>1, <2>1 DEF IInv, TypeOK, Timely, SeenTimely, Aircraft
  <2>2. ASSUME NEW x \in DOMAIN aircraft, NEW f \in Fields
        PROVE  FieldTimely(aircraft[x], f, clock + 1, swept)
    <3>1. FieldTimely(aircraft[x], f, clock, swept) /\ aircraft[x].born[f] \in Nat
      BY DEF IInv, TypeOK, Timely, FieldsTimely, Aircraft
    <3> QED
      BY <1>1, <3>1 DEF FieldTimely
  <2> QED
    BY <1>1, <2>1, <2>2 DEF Timely, FieldsTimely
<1> QED
  BY <1>1, <1>2, <1>3, <1>4 DEF IInv

LEMMA NextIInv ==
    ASSUME IInv, [Next]_vars
    PROVE  IInv'
<1>1. CASE \E h \in Handlers : TakeTime(h)
  BY <1>1, ReadingStep
<1>2. CASE \E h \in Handlers, m \in Message : UpdateFromMessage(h, m)
  BY <1>2, MessageStep
<1>3. CASE \E h \in Handlers, r \in Reply : UpdateFromModeAC(h, r)
  BY <1>3, ReplyStep
<1>4. CASE SweepCall
  BY <1>4, ReadingStep
<1>5. CASE PeriodicUpdate
  BY <1>5, SweepStep
<1>6. CASE Tick
  BY <1>6, TickStep
<1>7. CASE UNCHANGED vars
  BY <1>7 DEF vars, IInv, TypeOK, ReadingsRecent, Timely
<1> QED
  BY <1>1, <1>2, <1>3, <1>4, <1>5, <1>6, <1>7 DEF Next

\* The invariant holds throughout.
THEOREM Invariance == Spec => []IInv
<1>1. Init => IInv
  BY InitIInv
<1>2. IInv /\ [Next]_vars => IInv'
  BY NextIInv
<1> QED
  BY <1>1, <1>2, PTL DEF Spec

-----------------------------------------------------------------------------
(* What follows from it. *)

\* Every record of the map is one the program can hold, and no counter runs below zero.
THEOREM TypeCorrect == Spec => []TypeOK
<1>1. IInv => TypeOK
  BY DEF IInv
<1> QED
  BY <1>1, Invariance, PTL

\* A valid datum would have survived the last sweep, and that sweep was not long ago: so
\* no datum but a derived altitude stays valid for longer than DataFresh says, whatever
\* the handlers were doing when the sweep ran.
THEOREM DataStaysFresh == Spec => []DataFresh
<1>1. IInv => DataFresh
  <2> SUFFICES ASSUME IInv, NEW f \in Fields \ {"altitudeGNSS"}, NEW x \in DOMAIN aircraft,
                      DataValid(aircraft[x].valid[f])
               PROVE  clock - aircraft[x].born[f] < MaxDataAge
    BY DEF DataFresh, Fresh
  <2>1. FieldTimely(aircraft[x], f, clock, swept) /\ aircraft[x] \in Aircraft
    BY DEF IInv, Timely, FieldsTimely, TypeOK
  <2>2. /\ aircraft[x].born[f] \in Nat /\ aircraft[x].valid[f].expires \in Nat
        /\ clock \in Nat /\ swept \in Nat /\ sweep \in Nat \cup {Never}
    BY <2>1 DEF Aircraft, Validity, IInv, TypeOK
  <2>3. /\ swept < aircraft[x].valid[f].expires
        /\ aircraft[x].valid[f].expires <= aircraft[x].born[f] + ExpireAfter + MaxLag
    BY <2>1 DEF FieldTimely
  <2>4. clock <= swept + Period + MaxLag
    BY <2>2, TrackerAssumption DEF IInv, ReadingsRecent, TrackerAssumption, Never
  <2> QED
    BY <2>2, <2>3, <2>4, TrackerAssumption, ValidityAssumption
       DEF MaxDataAge, TrackerAssumption, ValidityAssumption
<1> QED
  BY <1>1, Invariance, PTL

\* No aircraft stays on the list for longer after its last message than HeardRecently
\* says: the unsigned age of a record never wraps around to a small number.
THEOREM SilentAircraftLeave == Spec => []HeardRecently
<1>1. IInv => HeardRecently
  <2> SUFFICES ASSUME IInv, NEW x \in DOMAIN aircraft
               PROVE  clock - aircraft[x].seen <= Period + MaxLag + Allowed(aircraft[x])
    BY DEF HeardRecently, Allowed
  <2>1. SeenTimely(aircraft[x], clock, swept) /\ aircraft[x] \in Aircraft
    BY DEF IInv, Timely, TypeOK
  <2>2. /\ aircraft[x].seen \in Nat /\ clock \in Nat /\ swept \in Nat
        /\ sweep \in Nat \cup {Never} /\ Allowed(aircraft[x]) \in Nat
    BY <2>1, TrackerAssumption DEF Aircraft, IInv, TypeOK, Allowed, Lesser, TrackerAssumption
  <2>3. clock <= swept + Period + MaxLag
    BY <2>2, TrackerAssumption DEF IInv, ReadingsRecent, TrackerAssumption, Never
  <2> QED
    BY <2>1, <2>2, <2>3, TrackerAssumption DEF SeenTimely, TrackerAssumption
<1> QED
  BY <1>1, Invariance, PTL

-----------------------------------------------------------------------------
(* Trusted data give way to no less trusted data. *)

\* If v was not stale at time, u is as good and not stale at now.
AsGood(v, u, time, now) == time < v.stale => u.source >= v.source /\ now < u.stale

LEMMA AcceptedAsGood ==
    ASSUME NEW v \in Validity, NEW source \in DataSource, NEW now \in Nat, NEW time \in Nat,
           now <= time, ~Rejects(v, source, now)
    PROVE  AsGood(v, AcceptedFrom(source, now), time, now)
BY ValidityAssumption DEF AsGood, Rejects, AcceptedFrom, ValidityAssumption, Validity, DataSource,
                          SourceInvalid, SourceADSB

LEMMA StoreAsGood ==
    ASSUME NEW a \in Aircraft, NEW m \in Message, NEW now \in Nat, NEW time \in Nat,
           now <= time, NEW f \in Fields, time < a.valid[f].stale
    PROVE  DeriveGNSS(Store(a, m, now), now).valid[f].source >= a.valid[f].source
<1> DEFINE b == Store(a, m, now)
           c == DeriveGNSS(b, now)
<1>1. b \in Aircraft
  BY StoreEffect
<1>2. a.valid[f] \in Validity /\ b.valid[f] \in Validity /\ m.source \in DataSource
  BY <1>1, MessageFacts DEF Aircraft
<1>3. AsGood(a.valid[f], b.valid[f], time, now)
  <2>1. CASE f \in Accepted(a, m, now)
    <3>1. b.valid[f] = AcceptedFrom(m.source, now) /\ ~Rejects(a.valid[f], m.source, now)
      BY <2>1, StoreEffect DEF Accepted
    <3> HIDE DEF b
    <3> QED
      BY <1>2, <3>1, AcceptedAsGood
  <2>2. CASE f \notin Accepted(a, m, now)
    <3>1. b.valid[f] = a.valid[f]
      BY <2>2, StoreEffect
    <3> HIDE DEF b
    <3> QED
      BY <1>2, <3>1 DEF AsGood, Validity, DataSource, SourceInvalid, SourceADSB
  <2> QED
    BY <2>1, <2>2
<1> HIDE DEF b
<1>4. CASE f # "altitudeGNSS"
  <2>1. c.valid[f] = b.valid[f]
    BY <1>1, <1>4, DeriveEffect
  <2> HIDE DEF c
  <2> QED
    BY <1>2, <1>3, <2>1 DEF AsGood, Validity, b, c
<1>5. CASE f = "altitudeGNSS"
  <2> DEFINE v == b.valid["altitude"]
             w == b.valid["gnssDelta"]
             u == CombineValidity(v, w)
  <2>1. \/ c.valid[f] = b.valid[f]
        \/ c.valid[f] = u /\ Better(v, b.valid[f], now) /\ Better(w, b.valid[f], now)
    BY <1>1, <1>5, DeriveEffect
  <2>2. v \in Validity /\ w \in Validity
    BY <1>1, FieldFacts DEF Aircraft
  <2>3. u \in Validity /\ u.source >= Lesser(v.source, w.source)
    BY <2>2, CombinedType
  <2> HIDE DEF c, u, v, w
  <2>4. c.valid[f] = u /\ now < b.valid[f].stale => u.source >= b.valid[f].source
    <3>1. ASSUME Better(v, b.valid[f], now), Better(w, b.valid[f], now), now < b.valid[f].stale
          PROVE  u.source >= b.valid[f].source
      BY <1>2, <2>2, <2>3, <3>1
         DEF Better, Lesser, Validity, DataSource, SourceInvalid, SourceADSB
    <3> QED
      BY <1>2, <2>1, <3>1 DEF Validity, DataSource, SourceInvalid, SourceADSB
  <2>5. c.valid[f].source >= a.valid[f].source
    BY <1>2, <1>3, <2>1, <2>3, <2>4
       DEF AsGood, Validity, DataSource, SourceInvalid, SourceADSB
  <2> QED
    BY <2>5 DEF b, c
<1> QED
  BY <1>4, <1>5

LEMMA ReplyAsGood ==
    ASSUME NEW a \in Aircraft, NEW r \in Reply, NEW now \in Nat, NEW time \in Nat,
           now <= time, NEW f \in Fields, time < a.valid[f].stale
    PROVE  Replied(a, r, now).valid[f].source >= a.valid[f].source
<1>1. a.valid[f] \in Validity
  BY DEF Aircraft
<1>2. Replied(a, r, now).valid[f] =
         IF f \in Answered(a, r, now) THEN Promoted(AcceptedFrom(SourceInvalid, now))
         ELSE IF f \in DOMAIN r.value THEN Promoted(a.valid[f]) ELSE a.valid[f]
  BY DEF Replied, Aircraft
<1>3. ASSUME f \in Answered(a, r, now)
      PROVE  a.valid[f].source = SourceInvalid
  BY <1>1, <1>3 DEF Answered, Rejects, Validity, DataSource, SourceInvalid, SourceADSB
<1>4. ASSUME NEW v \in Validity
      PROVE  Promoted(v).source >= v.source /\ Promoted(v).source >= 0
  BY DEF Promoted, Validity, DataSource, SourceInvalid, SourceModeS, SourceADSB
<1>5. AcceptedFrom(SourceInvalid, now) \in Validity
  BY AcceptedType DEF DataSource, SourceInvalid, SourceADSB
<1> QED
  BY <1>1, <1>2, <1>3, <1>4, <1>5 DEF SourceInvalid, Validity, DataSource, SourceADSB

\* Matching leaves what is valid alone.
LEMMA MatchedValid ==
    ASSUME NEW ac, NEW X, NEW rank, NEW x \in DOMAIN ac, ac[x] \in Aircraft
    PROVE  LET new == matchModeACWithModeS(ac, X, rank)
           IN  /\ DOMAIN new = DOMAIN ac
               /\ new[x].valid = ac[x].valid /\ Restarted(new[x]).valid = ac[x].valid
<1> DEFINE new == matchModeACWithModeS(ac, X, rank)
           F == ac[x].flags \cup Gained(ac, X, rank, x)
           nA == Overwritten(ac[x].modeACount, ac, HitsA(ac, X, x), rank)
           nC == Overwritten(ac[x].modeCCount, ac, HitsC(ac, X, x), rank)
<1>1. /\ DOMAIN new = DOMAIN ac
      /\ new[x] = [ac[x] EXCEPT !.flags = F, !.modeACount = nA, !.modeCCount = nC]
  BY DEF matchModeACWithModeS
<1> HIDE DEF new, F, nA, nC
<1> QED
  BY <1>1 DEF Restarted, Aircraft, new

\* A sweep expires nothing that has not gone stale.
LEMMA ExpiredAsGood ==
    ASSUME NEW a \in Aircraft, NEW time \in Nat, NEW last \in Nat, NEW now \in Nat,
           now <= time, FieldsTimely(a, time, last), NEW f \in Fields, time < a.valid[f].stale
    PROVE  Expired(a, now).valid[f] = a.valid[f]
<1>1. a.valid[f] \in Validity /\ FieldTimely(a, f, time, last)
  BY DEF Aircraft, FieldsTimely
<1>2. Expired(a, now).valid[f] = ExpireField(a.valid[f], now)
  BY ExpiredEffect
<1> QED
  BY <1>1, <1>2 DEF ExpireField, FieldTimely, Validity, DataValid

\* Whoever writes, a datum that is not stale gives way only to one from as good a source,
\* or to two frames that contradict each other.
THEOREM TrustIsKept == Spec => NoDowngrade
<1> DEFINE Yields == \A x \in DOMAIN aircraft \cap DOMAIN aircraft' :
                        \A f \in Fields \ {"position"} : GivesWay(x, f)
<1>1. ASSUME IInv, NEW h \in Handlers, NEW m \in Message, UpdateFromMessage(h, m)
      PROVE  Yields
  <2> SUFFICES ASSUME NEW x \in DOMAIN aircraft \cap DOMAIN aircraft',
                      NEW f \in Fields \ {"position"},
                      aircraft'[x].valid[f] # aircraft[x].valid[f],
                      clock < aircraft[x].valid[f].stale
               PROVE  \/ aircraft'[x].valid[f].source >= aircraft[x].valid[f].source
                      \/ /\ f \in Frames
                         /\ \A g \in Frames \cup {"position"} : ~DataValid(aircraft'[x].valid[g])
    BY DEF GivesWay
  <2> DEFINE now == reading[h]
             a == aircraft[x]
             new == DeriveGNSS(Store(a, m, now), now)
  <2>1. now \in Nat /\ now <= clock /\ clock \in Nat
    BY <1>1, HandlerReading DEF UpdateFromMessage, IInv, TypeOK, RecentReading
  <2>2. a \in Aircraft
    BY <1>1 DEF IInv, TypeOK
  <2>3. x = m.addr
    BY <1>1 DEF UpdateFromMessage, With
  <2>4. PICK b \in IF m.CPRValid THEN updatePosition(new, m, now) ELSE {new} :
           aircraft' = With(aircraft, m.addr, b)
    BY <1>1, <2>3 DEF UpdateFromMessage
  <2>5. aircraft'[x] = b
    BY <2>3, <2>4 DEF With
  <2> HIDE DEF now, a
  <2>6. new \in Aircraft
    BY <2>1, <2>2, StoreEffect, DeriveEffect
  <2>7. new.valid[f].source >= a.valid[f].source
    BY <2>1, <2>2, StoreAsGood DEF a
  <2> HIDE DEF new
  <2>8. CASE m.CPRValid
    <3>1. b \in updatePosition(new, m, now)
      BY <2>4, <2>8
    <3>2. /\ f \in Scalars => b.valid[f] = new.valid[f]
          /\ \/ \A g \in Frames : b.valid[g] = new.valid[g]
             \/ \A g \in Frames \cup {"position"} : ~DataValid(b.valid[g])
      BY <2>1, <2>6, <3>1, PositionEffect
    <3>3. f \in Scalars \cup Frames
      BY DEF Fields
    <3> QED
      BY <2>5, <2>7, <3>2, <3>3 DEF a
  <2>9. CASE ~m.CPRValid
    BY <2>4, <2>5, <2>7, <2>9 DEF a
  <2> QED
    BY <2>8, <2>9
<1>2. ASSUME IInv, NEW h \in Handlers, NEW r \in Reply, UpdateFromModeAC(h, r)
      PROVE  Yields
  <2> SUFFICES ASSUME NEW x \in DOMAIN aircraft, NEW f \in Fields,
                      clock < aircraft[x].valid[f].stale
               PROVE  aircraft'[x].valid[f].source >= aircraft[x].valid[f].source
    BY DEF GivesWay
  <2> DEFINE now == reading[h]
             a == aircraft[x]
             old == IF r.addr \in DOMAIN aircraft THEN aircraft[r.addr]
                    ELSE [createAircraft(0) EXCEPT !.flags = {"flag"}]
             all == With(aircraft, r.addr, Replied(old, r, now))
             rank == [y \in {r.addr} |-> 1]
             matched == matchModeACWithModeS(all, {r.addr}, rank)
  <2>1. now \in Nat /\ now <= clock /\ clock \in Nat
    BY <1>2, HandlerReading DEF UpdateFromModeAC, IInv, TypeOK, RecentReading
  <2>2. a \in Aircraft /\ a.valid[f] \in Validity
    BY <1>2 DEF IInv, TypeOK, Aircraft
  <2>3. aircraft' = [matched EXCEPT ![r.addr] = Restarted(@)]
    BY <1>2 DEF UpdateFromModeAC
  <2>4. all[x] = IF x = r.addr THEN Replied(a, r, now) ELSE a
    BY DEF With
  <2>5. x \in DOMAIN all /\ all[x] \in Aircraft
    <3>1. x \in DOMAIN all
      BY DEF With
    <3> HIDE DEF all, a, now
    <3> QED
      BY <2>1, <2>2, <2>4, <3>1, ReplyEffect
  <2>6. aircraft'[x].valid = all[x].valid
    <3> HIDE DEF all, rank
    <3>1. DOMAIN matched = DOMAIN all /\ matched[x].valid = all[x].valid
          /\ Restarted(matched[x]).valid = all[x].valid
      BY <2>5, MatchedValid
    <3> HIDE DEF matched
    <3> QED
      BY <2>3, <2>5, <3>1
  <2> HIDE DEF now, a, all
  <2>7. CASE x = r.addr
    <3>1. Replied(a, r, now).valid[f].source >= a.valid[f].source
      BY <2>1, <2>2, ReplyAsGood DEF a
    <3> QED
      BY <2>4, <2>6, <2>7, <3>1 DEF a
  <2>8. CASE x # r.addr
    BY <2>2, <2>4, <2>6, <2>8 DEF a, Validity, DataSource, SourceInvalid, SourceADSB
  <2> QED
    BY <2>7, <2>8
<1>3. ASSUME IInv, PeriodicUpdate
      PROVE  Yields
  <2> SUFFICES ASSUME NEW x \in DOMAIN aircraft \cap DOMAIN aircraft', NEW f \in Fields,
                      clock < aircraft[x].valid[f].stale
               PROVE  aircraft'[x].valid[f] = aircraft[x].valid[f]
    BY DEF GivesWay
  <2> DEFINE D == DOMAIN aircraft \ Gone(aircraft, sweep)
             kept == [y \in D |-> Expired(aircraft[y], sweep)]
  <2>1. PICK rank : aircraft' = matchModeACWithModeS(kept, Synthetic(kept), rank)
    BY <1>3 DEF PeriodicUpdate
  <2>2. x \in D
    BY <2>1 DEF matchModeACWithModeS
  <2>3. aircraft'[x].valid = Expired(aircraft[x], sweep).valid
    <3>1. /\ kept[x] = Expired(aircraft[x], sweep)
          /\ x \in DOMAIN kept
      BY <2>2
    <3>2. kept[x] \in Aircraft
      BY <1>3, <3>1, ExpiredEffect DEF PeriodicUpdate, IInv, TypeOK, Never
    <3> HIDE DEF kept
    <3> QED
      BY <2>1, <3>1, <3>2, MatchedValid
  <2>4. /\ aircraft[x] \in Aircraft /\ FieldsTimely(aircraft[x], clock, swept)
        /\ sweep \in Nat /\ sweep <= clock /\ clock \in Nat /\ swept \in Nat
    BY <1>3 DEF PeriodicUpdate, IInv, TypeOK, Timely, ReadingsRecent
  <2> QED
    BY <2>3, <2>4, ExpiredAsGood
<1>4. ASSUME UNCHANGED aircraft
      PROVE  Yields
  BY <1>4 DEF GivesWay
<1>5. IInv /\ [Next]_vars => [Yields]_vars
  BY <1>1, <1>2, <1>3, <1>4 DEF Next, TakeTime, SweepCall, Tick, vars
<1> QED
  BY <1>5, Invariance, PTL DEF Spec, NoDowngrade

-----------------------------------------------------------------------------
(* A position rests on a valid frame.  What makes this inductive is that the position *)
(* expires no later than such a frame, but for the lag of the reading that dated it.  *)

ExpiresBy(a, time) ==
    \A f \in Fields : DataValid(a.valid[f]) => a.valid[f].expires <= time + ExpireAfter

Backed(a, time) ==
    LET v == a.valid
    IN  DataValid(v["position"]) =>
          \/ \E f \in Frames : DataValid(v[f]) /\ v["position"].expires <= v[f].expires + MaxLag
          \/ v["position"].expires <= time + MaxLag

BackedBy(ac, time) == \A x \in DOMAIN ac : ExpiresBy(ac[x], time) /\ Backed(ac[x], time)

LEMMA StoreBacked ==
    ASSUME NEW a \in Aircraft, NEW m \in Message, NEW now \in Nat, NEW time \in Nat,
           now <= time, time <= now + MaxLag, ExpiresBy(a, time), Backed(a, time)
    PROVE  LET b == DeriveGNSS(Store(a, m, now), now)
           IN  b \in Aircraft /\ ExpiresBy(b, time) /\ Backed(b, time)
<1> DEFINE s == Store(a, m, now)
           b == DeriveGNSS(s, now)
<1>1. s \in Aircraft
  BY StoreEffect
<1>2. ASSUME NEW f \in Fields
      PROVE  \/ /\ DataValid(s.valid[f]) /\ s.valid[f].expires = now + ExpireAfter
                /\ f # "position"
             \/ s.valid[f] = a.valid[f]
  <2>1. CASE f \in Accepted(a, m, now)
    <3>1. s.valid[f] = AcceptedFrom(m.source, now) /\ f \in Carried(m)
      BY <2>1, StoreEffect DEF Accepted
    <3>2. AcceptedFrom(m.source, now).source # SourceInvalid
          /\ AcceptedFrom(m.source, now).expires = now + ExpireAfter
      BY MessageFacts, AcceptedType
    <3> HIDE DEF s
    <3> QED
      BY <3>1, <3>2, MessageFacts DEF DataValid
  <2>2. CASE f \notin Accepted(a, m, now)
    BY <2>2, StoreEffect
  <2> QED
    BY <2>1, <2>2
<1> HIDE DEF s
<1>3. ASSUME NEW f \in Fields, DataValid(s.valid[f])
      PROVE  s.valid[f].expires <= time + ExpireAfter
  BY <1>2, <1>3, ValidityAssumption DEF ExpiresBy, ValidityAssumption
<1>4. /\ b \in Aircraft
      /\ \A f \in Fields \ {"altitudeGNSS"} : b.valid[f] = s.valid[f]
  BY <1>1, DeriveEffect
<1>5. ASSUME DataValid(b.valid["altitudeGNSS"])
      PROVE  b.valid["altitudeGNSS"].expires <= time + ExpireAfter
  <2> DEFINE v == s.valid["altitude"]
             w == s.valid["gnssDelta"]
             u == CombineValidity(v, w)
  <2>1. b.valid["altitudeGNSS"] = s.valid["altitudeGNSS"] \/ b.valid["altitudeGNSS"] = u
    BY <1>1, DeriveEffect
  <2>2. v \in Validity /\ w \in Validity
    BY <1>1, FieldFacts DEF Aircraft
  <2>3. DataValid(u) => \/ DataValid(v) /\ u.expires = v.expires
                        \/ DataValid(w) /\ u.expires = w.expires
    BY <2>2, CombinedType
  <2>4. DataValid(u) => u.expires <= time + ExpireAfter
    BY <1>3, <2>3, FieldFacts
  <2> HIDE DEF u, b
  <2> QED
    BY <1>3, <1>5, <2>1, <2>4, FieldFacts
<1> HIDE DEF b
<1>6. ExpiresBy(b, time)
  BY <1>3, <1>4, <1>5 DEF ExpiresBy
<1>7. Backed(b, time)
  <2> SUFFICES ASSUME DataValid(b.valid["position"]),
                      ~(b.valid["position"].expires <= time + MaxLag)
               PROVE  \E f \in Frames : /\ DataValid(b.valid[f])
                                        /\ b.valid["position"].expires <= b.valid[f].expires + MaxLag
    BY DEF Backed
  <2>1. b.valid["position"] = a.valid["position"] /\ \A f \in Frames : b.valid[f] = s.valid[f]
    BY <1>2, <1>4, FieldFacts
  <2>2. PICK f \in Frames : /\ DataValid(a.valid[f])
                            /\ a.valid["position"].expires <= a.valid[f].expires + MaxLag
    BY <2>1 DEF Backed
  <2>3. f \in Fields /\ "position" \in Fields
    BY FieldFacts
  <2>4. /\ a.valid["position"].expires \in Nat /\ a.valid["position"].expires <= time + ExpireAfter
        /\ MaxLag \in Nat /\ ExpireAfter \in Nat
    BY <2>1, <2>3, TrackerAssumption, ValidityAssumption
       DEF ExpiresBy, Aircraft, Validity, TrackerAssumption, ValidityAssumption
  <2>5. CASE s.valid[f] = a.valid[f]
    BY <2>1, <2>2, <2>5
  <2>6. CASE DataValid(s.valid[f]) /\ s.valid[f].expires = now + ExpireAfter
    BY <2>1, <2>4, <2>6
  <2> QED
    BY <1>2, <2>3, <2>5, <2>6
<1> QED
  BY <1>4, <1>6, <1>7 DEF b, s

LEMMA PositionStaysBacked ==
    ASSUME NEW a \in Aircraft, NEW m \in Message, NEW now \in Nat, NEW time \in Nat,
           ExpiresBy(a, time), Backed(a, time), NEW b \in updatePosition(a, m, now)
    PROVE  ExpiresBy(b, time) /\ Backed(b, time)
<1>1. /\ b \in Aircraft
      /\ \A f \in Scalars : b.valid[f] = a.valid[f]
      /\ \/ \A f \in Frames : b.valid[f] = a.valid[f]
         \/ \A f \in Frames \cup {"position"} : ~DataValid(b.valid[f])
  BY PositionEffect
<1>2. /\ "cprEven" \in Frames /\ "cprOdd" \in Frames /\ "position" \in Fields
      /\ FrameField(m) \in Frames /\ Frames \subseteq Fields
      /\ MaxLag \in Nat
  BY FieldFacts, MessageFacts, TrackerAssumption DEF TrackerAssumption
<1>3. ASSUME \A f \in Frames \cup {"position"} : ~DataValid(b.valid[f])
      PROVE  ExpiresBy(b, time) /\ Backed(b, time)
  BY <1>1, <1>3 DEF ExpiresBy, Backed, Fields
<1>4. ASSUME \A f \in Frames : b.valid[f] = a.valid[f],
             NEW g \in Frames, DataValid(a.valid[g]),
             b.valid["position"].expires <= a.valid[g].expires
      PROVE  ExpiresBy(b, time) /\ Backed(b, time)
  <2>1. /\ b.valid["position"].expires \in Nat /\ a.valid[g].expires \in Nat
        /\ a.valid[g].expires <= time + ExpireAfter
        /\ ExpireAfter \in Nat
    BY <1>1, <1>2, <1>4, ValidityAssumption DEF Aircraft, Validity, ExpiresBy, ValidityAssumption
  <2>2. Backed(b, time)
    BY <1>2, <1>4, <2>1 DEF Backed
  <2>3. ExpiresBy(b, time)
    <3>1. ASSUME NEW f \in Fields, DataValid(b.valid[f])
          PROVE  b.valid[f].expires <= time + ExpireAfter
      <4>1. CASE f = "position"
        BY <1>4, <2>1, <4>1
      <4>2. CASE f # "position"
        BY <1>1, <1>4, <3>1, <4>2 DEF Fields, ExpiresBy
      <4> QED
        BY <4>1, <4>2
    <3> QED
      BY <3>1 DEF ExpiresBy
  <2> QED
    BY <2>2, <2>3
<1>5. ASSUME \A f \in Frames : b.valid[f] = a.valid[f], b.valid["position"] = a.valid["position"]
      PROVE  ExpiresBy(b, time) /\ Backed(b, time)
  BY <1>1, <1>5 DEF ExpiresBy, Backed, Fields
<1>6. CASE \A f \in Frames : b.valid[f] = a.valid[f]
  <2>1. CASE ~DataValid(b.valid["position"])
    BY <1>1, <1>6, <2>1 DEF ExpiresBy, Backed, Fields
  <2>2. CASE b.valid["position"] = a.valid["position"]
    BY <1>5, <1>6, <2>2
  <2>3. CASE /\ DataValid(a.valid["cprEven"]) /\ DataValid(a.valid["cprOdd"])
             /\ b.valid["position"] = CombineValidity(a.valid["cprEven"], a.valid["cprOdd"])
    <3>1. b.valid["position"].expires <= a.valid["cprEven"].expires
      BY <1>2, <2>3, CombinedType DEF Aircraft
    <3> QED
      BY <1>2, <1>4, <1>6, <2>3, <3>1
  <2>4. CASE b.valid["position"] = a.valid[FrameField(m)] /\ DataValid(b.valid["position"])
    <3>1. b.valid["position"].expires <= a.valid[FrameField(m)].expires
      BY <1>2, <2>4 DEF Aircraft, Validity
    <3> QED
      BY <1>2, <1>4, <1>6, <2>4, <3>1
  <2> QED
    BY <2>1, <2>2, <2>3, <2>4, PositionEffect
<1> QED
  BY <1>1, <1>3, <1>6

\* A reply touches neither frames nor positions.
LEMMA ReplyBacked ==
    ASSUME NEW a \in Aircraft, NEW r \in Reply, NEW now \in Nat, NEW time \in Nat,
           now <= time, ExpiresBy(a, time), Backed(a, time)
    PROVE  ExpiresBy(Replied(a, r, now), time) /\ Backed(Replied(a, r, now), time)
<1> DEFINE b == Replied(a, r, now)
<1>1. ASSUME NEW f \in Fields
      PROVE  \/ b.valid[f] = a.valid[f]
             \/ f \in Scalars /\ b.valid[f].expires = now + ExpireAfter
  BY ReplyEffect
<1> HIDE DEF b
<1>2. ExpiresBy(b, time)
  BY <1>1, ValidityAssumption DEF ExpiresBy, ValidityAssumption
<1>3. \A f \in Frames \cup {"position"} : b.valid[f] = a.valid[f]
  BY <1>1, FieldFacts
<1>4. Backed(b, time)
  BY <1>3 DEF Backed
<1> QED
  BY <1>2, <1>4 DEF b

\* When the sweep expires the frame, the position is about to expire as well.
LEMMA ExpiredBacked ==
    ASSUME NEW a \in Aircraft, NEW now \in Nat, NEW time \in Nat, now <= time,
           ExpiresBy(a, time), Backed(a, time)
    PROVE  ExpiresBy(Expired(a, now), time) /\ Backed(Expired(a, now), time)
<1> DEFINE b == Expired(a, now)
<1>1. ASSUME NEW f \in Fields
      PROVE  /\ DataValid(b.valid[f]) =>
                   b.valid[f] = a.valid[f] /\ DataValid(a.valid[f]) /\ now < a.valid[f].expires
             /\ DataValid(a.valid[f]) /\ ~DataValid(b.valid[f]) => a.valid[f].expires <= now
  <2>1. b.valid[f] = ExpireField(a.valid[f], now) /\ a.valid[f] \in Validity
    BY ExpiredEffect DEF Aircraft
  <2> HIDE DEF b
  <2>2. DataValid(b.valid[f]) =>
           b.valid[f] = a.valid[f] /\ DataValid(a.valid[f]) /\ now < a.valid[f].expires
    BY <2>1, ExpireFieldType
  <2>3. DataValid(a.valid[f]) /\ ~DataValid(b.valid[f]) => a.valid[f].expires <= now
    BY <2>1 DEF ExpireField, DataValid, Validity
  <2> QED
    BY <2>2, <2>3
<1> HIDE DEF b
<1>2. ExpiresBy(b, time)
  BY <1>1 DEF ExpiresBy
<1>3. Backed(b, time)
  <2> SUFFICES ASSUME DataValid(b.valid["position"]),
                      ~(b.valid["position"].expires <= time + MaxLag)
               PROVE  \E f \in Frames : /\ DataValid(b.valid[f])
                                        /\ b.valid["position"].expires <= b.valid[f].expires + MaxLag
    BY DEF Backed
  <2>1. b.valid["position"] = a.valid["position"] /\ DataValid(a.valid["position"])
    BY <1>1, FieldFacts
  <2>2. PICK f \in Frames : /\ DataValid(a.valid[f])
                            /\ a.valid["position"].expires <= a.valid[f].expires + MaxLag
    BY <2>1 DEF Backed
  <2>3. /\ f \in Fields /\ a.valid[f].expires \in Nat /\ MaxLag \in Nat
        /\ a.valid["position"].expires \in Nat
    BY FieldFacts, TrackerAssumption DEF Aircraft, Validity, TrackerAssumption
  <2>4. DataValid(b.valid[f])
    BY <1>1, <2>1, <2>2, <2>3
  <2> QED
    BY <1>1, <2>1, <2>2, <2>3, <2>4
<1> QED
  BY <1>2, <1>3 DEF b

\* What is said of validities alone holds of a record that has the same.
LEMMA SameValidity ==
    ASSUME NEW a, NEW b, b.valid = a.valid, NEW time
    PROVE  ExpiresBy(a, time) /\ Backed(a, time) => ExpiresBy(b, time) /\ Backed(b, time)
BY DEF ExpiresBy, Backed

LEMMA BackedLater ==
    ASSUME NEW a \in Aircraft, NEW time \in Nat, ExpiresBy(a, time), Backed(a, time)
    PROVE  ExpiresBy(a, time + 1) /\ Backed(a, time + 1)
<1>1. ASSUME NEW f \in Fields PROVE a.valid[f].expires \in Nat
  BY DEF Aircraft, Validity
<1>2. ExpireAfter \in Nat /\ MaxLag \in Nat /\ "position" \in Fields
  BY FieldFacts, TrackerAssumption, ValidityAssumption DEF TrackerAssumption, ValidityAssumption
<1>3. ExpiresBy(a, time + 1)
  BY <1>1, <1>2 DEF ExpiresBy
<1>4. a.valid["position"].expires <= time + MaxLag => a.valid["position"].expires <= time + 1 + MaxLag
  BY <1>1, <1>2
<1>5. Backed(a, time + 1)
  BY <1>4 DEF Backed
<1> QED
  BY <1>3, <1>5

\* What the three steps that change records make of them.  The record of a message, with
\* what it was before:
OldOf(m) == IF m.addr \in DOMAIN aircraft THEN aircraft[m.addr] ELSE createAircraft(m.addrType)

LEMMA MessageChanges ==
    ASSUME IInv, NEW h \in Handlers, NEW m \in Message, UpdateFromMessage(h, m)
    PROVE  /\ reading[h] \in Nat /\ reading[h] <= clock /\ clock <= reading[h] + MaxLag
           /\ UNCHANGED clock /\ clock \in Nat
           /\ OldOf(m) \in Aircraft
           /\ DOMAIN aircraft' = DOMAIN aircraft \cup {m.addr}
           /\ LET new == DeriveGNSS(Store(OldOf(m), m, reading[h]), reading[h])
              IN  /\ new \in Aircraft
                  /\ aircraft'[m.addr] \in {new} \cup updatePosition(new, m, reading[h])
           /\ \A x \in DOMAIN aircraft \ {m.addr} : aircraft'[x] = aircraft[x]
<1>1. /\ reading[h] \in Nat /\ reading[h] <= clock /\ clock <= reading[h] + MaxLag
      /\ UNCHANGED clock /\ clock \in Nat
  BY HandlerReading DEF UpdateFromMessage, IInv, TypeOK, RecentReading
<1>2. OldOf(m) \in Aircraft
  BY CreatedType, MessageFacts DEF OldOf, IInv, TypeOK
<1> DEFINE new == DeriveGNSS(Store(OldOf(m), m, reading[h]), reading[h])
<1>3. new \in Aircraft
  BY <1>1, <1>2, StoreEffect, DeriveEffect
<1>4. PICK b \in {new} \cup updatePosition(new, m, reading[h]) :
         aircraft' = With(aircraft, m.addr, b)
  BY DEF UpdateFromMessage, OldOf
<1> HIDE DEF new
<1>5. /\ DOMAIN aircraft' = DOMAIN aircraft \cup {m.addr}
      /\ aircraft'[m.addr] = b
      /\ \A x \in DOMAIN aircraft \ {m.addr} : aircraft'[x] = aircraft[x]
  BY <1>4 DEF With
<1> QED
  BY <1>1, <1>2, <1>3, <1>4, <1>5 DEF new

\* Before a reply is matched, all records with that of the reply:
OldAnswer(r) ==
    IF r.addr \in DOMAIN aircraft THEN aircraft[r.addr]
    ELSE [createAircraft(0) EXCEPT !.flags = {"flag"}]
WithReply(r, now) == With(aircraft, r.addr, Replied(OldAnswer(r), r, now))
MatchedReply(r, now) ==
    matchModeACWithModeS(WithReply(r, now), {r.addr}, [x \in {r.addr} |-> 1])

LEMMA AnswerChanges ==
    ASSUME IInv, NEW h \in Handlers, NEW r \in Reply, UpdateFromModeAC(h, r)
    PROVE  LET all == WithReply(r, reading[h])
           IN  /\ reading[h] \in Nat /\ reading[h] <= clock /\ UNCHANGED clock /\ clock \in Nat
               /\ OldAnswer(r) \in Aircraft
               /\ DOMAIN all = DOMAIN aircraft \cup {r.addr}
               /\ all \in [DOMAIN all -> Aircraft]
               /\ all[r.addr] = Replied(OldAnswer(r), r, reading[h])
               /\ \A x \in DOMAIN aircraft \ {r.addr} : all[x] = aircraft[x]
               /\ DOMAIN MatchedReply(r, reading[h]) = DOMAIN all
               /\ DOMAIN aircraft' = DOMAIN all
               /\ \A x \in DOMAIN all :
                     /\ MatchedReply(r, reading[h])[x] \in Aircraft
                     /\ aircraft'[x] = IF x = r.addr THEN Restarted(MatchedReply(r, reading[h])[x])
                                       ELSE MatchedReply(r, reading[h])[x]
                     /\ aircraft'[x].valid = all[x].valid
<1> DEFINE now == reading[h]
           all == WithReply(r, now)
           rank == [x \in {r.addr} |-> 1]
           matched == MatchedReply(r, now)
<1>1. now \in Nat /\ now <= clock /\ UNCHANGED clock /\ clock \in Nat
  BY HandlerReading DEF UpdateFromModeAC, IInv, TypeOK, RecentReading
<1>2. OldAnswer(r) \in Aircraft
  <2>1. createAircraft(0) \in Aircraft
    BY CreatedType DEF AddrTypes
  <2>2. [createAircraft(0) EXCEPT !.flags = {"flag"}] \in Aircraft
    BY <2>1 DEF Aircraft, Flags
  <2> QED
    BY <2>2 DEF OldAnswer, IInv, TypeOK
<1>3. aircraft' = [matched EXCEPT ![r.addr] = Restarted(@)]
  BY DEF UpdateFromModeAC, MatchedReply, WithReply, OldAnswer
<1> HIDE DEF now
<1>4. Replied(OldAnswer(r), r, now) \in Aircraft
  BY <1>1, <1>2, ReplyEffect
<1>5. /\ DOMAIN all = DOMAIN aircraft \cup {r.addr}
      /\ all \in [DOMAIN all -> Aircraft]
      /\ all[r.addr] = Replied(OldAnswer(r), r, now)
      /\ \A x \in DOMAIN aircraft \ {r.addr} : all[x] = aircraft[x]
  <2>1. aircraft \in [DOMAIN aircraft -> Aircraft]
    BY DEF IInv, TypeOK
  <2> DEFINE reply == Replied(OldAnswer(r), r, now)
  <2>2. reply \in Aircraft
    BY <1>4
  <2>3. all = [x \in DOMAIN aircraft \cup {r.addr} |-> IF x = r.addr THEN reply ELSE aircraft[x]]
    BY DEF WithReply, With
  <2> HIDE DEF reply, all
  <2>4. /\ all \in [DOMAIN aircraft \cup {r.addr} -> Aircraft]
        /\ all[r.addr] = reply
        /\ \A x \in DOMAIN aircraft \ {r.addr} : all[x] = aircraft[x]
    BY <2>1, <2>2, <2>3
  <2> QED
    BY <2>4 DEF reply
<1>6. {r.addr} \in SUBSET DOMAIN all /\ rank \in [{r.addr} -> 1 .. 1] /\ 1 \in Nat
  BY <1>5
<1>7. matched = matchModeACWithModeS(all, {r.addr}, rank)
  BY DEF MatchedReply
<1>8. DOMAIN matched = DOMAIN all
  BY DEF MatchedReply, matchModeACWithModeS
<1> HIDE DEF all, rank, matched
<1>9. ASSUME NEW x \in DOMAIN all
      PROVE  matched[x] \in Aircraft /\ matched[x].valid = all[x].valid
  BY <1>5, <1>6, <1>7, MatchEffect
<1>10. ASSUME NEW x \in DOMAIN all
       PROVE  Restarted(matched[x]).valid = all[x].valid
  BY <1>9, RestartedEffect
<1>11. /\ DOMAIN aircraft' = DOMAIN all
       /\ \A x \in DOMAIN all :
             aircraft'[x] = IF x = r.addr THEN Restarted(matched[x]) ELSE matched[x]
  BY <1>3, <1>8
<1> QED
  BY <1>1, <1>2, <1>5, <1>8, <1>9, <1>10, <1>11 DEF now, all, matched

\* What the sweep keeps, before it matches replies again:
KeptBySweep == [x \in DOMAIN aircraft \ Gone(aircraft, sweep) |-> Expired(aircraft[x], sweep)]

LEMMA SweepChanges ==
    ASSUME IInv, PeriodicUpdate
    PROVE  /\ sweep \in Nat /\ sweep <= clock /\ UNCHANGED clock /\ clock \in Nat
           /\ DOMAIN KeptBySweep \subseteq DOMAIN aircraft
           /\ KeptBySweep \in [DOMAIN KeptBySweep -> Aircraft]
           /\ \A x \in DOMAIN KeptBySweep : KeptBySweep[x] = Expired(aircraft[x], sweep)
           /\ DOMAIN aircraft' = DOMAIN KeptBySweep
           /\ \E rank : \E n \in Nat :
                 /\ Synthetic(KeptBySweep) \in SUBSET DOMAIN KeptBySweep
                 /\ rank \in [Synthetic(KeptBySweep) -> 1 .. n]
                 /\ aircraft' = matchModeACWithModeS(KeptBySweep, Synthetic(KeptBySweep), rank)
           /\ \A x \in DOMAIN KeptBySweep : aircraft'[x].valid = KeptBySweep[x].valid
<1> DEFINE D == DOMAIN aircraft \ Gone(aircraft, sweep)
           kept == KeptBySweep
           X == Synthetic(kept)
           n == Cardinality(X)
<1>1. sweep \in Nat /\ sweep <= clock /\ UNCHANGED clock /\ clock \in Nat
  BY DEF PeriodicUpdate, IInv, TypeOK, ReadingsRecent
<1>2. DOMAIN kept = D /\ \A x \in D : kept[x] = Expired(aircraft[x], sweep)
  BY DEF KeptBySweep
<1>3. kept = [x \in D |-> kept[x]]
  BY DEF KeptBySweep
<1>4. ASSUME NEW x \in D PROVE kept[x] \in Aircraft
  <2>1. aircraft[x] \in Aircraft
    BY DEF IInv, TypeOK
  <2> QED
    BY <1>1, <1>2, <2>1, ExpiredEffect
<1>5. PICK rank \in Rankings(X) : aircraft' = matchModeACWithModeS(kept, X, rank)
  BY DEF PeriodicUpdate, KeptBySweep
<1> HIDE DEF kept, D
<1>6. kept \in [D -> Aircraft]
  BY <1>3, <1>4
<1>7. X \in SUBSET D /\ n \in Nat /\ rank \in [X -> 1 .. n]
  <2>1. X \subseteq D
    BY <1>2 DEF Synthetic
  <2>2. IsFiniteSet(D)
    BY FS_Subset DEF IInv, D
  <2>3. n \in Nat
    BY <2>1, <2>2, FS_Subset, FS_CardinalityType
  <2> QED
    BY <2>1, <2>3 DEF Rankings
<1>8. DOMAIN aircraft' = D
  BY <1>2, <1>5 DEF matchModeACWithModeS
<1> HIDE DEF X, n
<1>9. ASSUME NEW x \in D PROVE aircraft'[x].valid = kept[x].valid
  BY <1>5, <1>6, <1>7, MatchEffect
<1>10. D \subseteq DOMAIN aircraft
  BY DEF D
<1> QED
  BY <1>1, <1>2, <1>5, <1>6, <1>7, <1>8, <1>9, <1>10 DEF kept, X

LEMMA NextBacked ==
    ASSUME IInv, BackedBy(aircraft, clock), [Next]_vars
    PROVE  BackedBy(aircraft', clock')
<1>1. ASSUME NEW h \in Handlers, NEW m \in Message, UpdateFromMessage(h, m)
      PROVE  BackedBy(aircraft', clock')
  <2> DEFINE now == reading[h]
             new == DeriveGNSS(Store(OldOf(m), m, now), now)
  <2>1. /\ now \in Nat /\ now <= clock /\ clock <= now + MaxLag
        /\ clock' = clock /\ clock \in Nat
        /\ OldOf(m) \in Aircraft /\ new \in Aircraft
        /\ DOMAIN aircraft' = DOMAIN aircraft \cup {m.addr}
        /\ aircraft'[m.addr] \in {new} \cup updatePosition(new, m, now)
        /\ \A x \in DOMAIN aircraft \ {m.addr} : aircraft'[x] = aircraft[x]
    BY <1>1, MessageChanges
  <2>2. ExpiresBy(OldOf(m), clock) /\ Backed(OldOf(m), clock)
    <3>1. ExpiresBy(createAircraft(m.addrType), clock) /\ Backed(createAircraft(m.addrType), clock)
      BY FieldFacts DEF ExpiresBy, Backed, createAircraft, NoData, DataValid
    <3> QED
      BY <3>1 DEF OldOf, BackedBy
  <2> HIDE DEF now
  <2>3. ExpiresBy(new, clock) /\ Backed(new, clock)
    BY <2>1, <2>2, StoreBacked
  <2> HIDE DEF new
  <2>4. ExpiresBy(aircraft'[m.addr], clock) /\ Backed(aircraft'[m.addr], clock)
    BY <2>1, <2>3, PositionStaysBacked
  <2> QED
    BY <2>1, <2>4 DEF BackedBy
<1>2. ASSUME NEW h \in Handlers, NEW r \in Reply, UpdateFromModeAC(h, r)
      PROVE  BackedBy(aircraft', clock')
  <2> DEFINE now == reading[h]
             all == WithReply(r, now)
  <2>1. /\ now \in Nat /\ now <= clock /\ clock' = clock /\ clock \in Nat
        /\ OldAnswer(r) \in Aircraft
        /\ DOMAIN all = DOMAIN aircraft \cup {r.addr}
        /\ all[r.addr] = Replied(OldAnswer(r), r, now)
        /\ \A x \in DOMAIN aircraft \ {r.addr} : all[x] = aircraft[x]
        /\ DOMAIN aircraft' = DOMAIN all
        /\ \A x \in DOMAIN all : aircraft'[x].valid = all[x].valid
    BY <1>2, AnswerChanges
  <2>2. ExpiresBy(OldAnswer(r), clock) /\ Backed(OldAnswer(r), clock)
    <3>1. /\ ExpiresBy([createAircraft(0) EXCEPT !.flags = {"flag"}], clock)
          /\ Backed([createAircraft(0) EXCEPT !.flags = {"flag"}], clock)
      BY FieldFacts DEF ExpiresBy, Backed, createAircraft, NoData, DataValid
    <3> QED
      BY <3>1 DEF OldAnswer, BackedBy
  <2> HIDE DEF now, all
  <2>3. ExpiresBy(all[r.addr], clock) /\ Backed(all[r.addr], clock)
    BY <2>1, <2>2, ReplyBacked
  <2>4. ASSUME NEW x \in DOMAIN all PROVE ExpiresBy(all[x], clock) /\ Backed(all[x], clock)
    BY <2>1, <2>3 DEF BackedBy
  <2>5. ASSUME NEW x \in DOMAIN all
        PROVE  ExpiresBy(aircraft'[x], clock) /\ Backed(aircraft'[x], clock)
    BY <2>1, <2>4, SameValidity
  <2> QED
    BY <2>1, <2>5 DEF BackedBy
<1>3. ASSUME PeriodicUpdate
      PROVE  BackedBy(aircraft', clock')
  <2>1. /\ sweep \in Nat /\ sweep <= clock /\ clock' = clock /\ clock \in Nat
        /\ DOMAIN KeptBySweep \subseteq DOMAIN aircraft
        /\ \A x \in DOMAIN KeptBySweep : KeptBySweep[x] = Expired(aircraft[x], sweep)
        /\ DOMAIN aircraft' = DOMAIN KeptBySweep
        /\ \A x \in DOMAIN KeptBySweep : aircraft'[x].valid = KeptBySweep[x].valid
    BY <1>3, SweepChanges
  <2>2. ASSUME NEW x \in DOMAIN KeptBySweep
        PROVE  ExpiresBy(KeptBySweep[x], clock) /\ Backed(KeptBySweep[x], clock)
    <3>1. /\ aircraft[x] \in Aircraft
          /\ ExpiresBy(aircraft[x], clock) /\ Backed(aircraft[x], clock)
      BY <2>1 DEF IInv, TypeOK, BackedBy
    <3> QED
      BY <2>1, <3>1, ExpiredBacked
  <2>3. ASSUME NEW x \in DOMAIN KeptBySweep
        PROVE  ExpiresBy(aircraft'[x], clock) /\ Backed(aircraft'[x], clock)
    BY <2>1, <2>2, SameValidity
  <2> QED
    BY <2>1, <2>3 DEF BackedBy
<1>4. ASSUME Tick
      PROVE  BackedBy(aircraft', clock')
  <2>1. aircraft' = aircraft /\ clock' = clock + 1 /\ clock \in Nat
    BY <1>4 DEF Tick, IInv, TypeOK
  <2>2. ASSUME NEW x \in DOMAIN aircraft
        PROVE  ExpiresBy(aircraft[x], clock + 1) /\ Backed(aircraft[x], clock + 1)
    BY <2>1, BackedLater DEF IInv, TypeOK, BackedBy
  <2> QED
    BY <2>1, <2>2 DEF BackedBy
<1>5. ASSUME UNCHANGED <<aircraft, clock>>
      PROVE  BackedBy(aircraft', clock')
  BY <1>5
<1> QED
  BY <1>1, <1>2, <1>3, <1>4, <1>5 DEF Next, TakeTime, SweepCall, vars

\* A position counts as valid only while one of the frames does, or until it expires.
THEOREM PositionsRestOnFrames == Spec => []PositionBacked
<1>1. Init => IInv /\ BackedBy(aircraft, clock)
  BY InitIInv DEF Init, BackedBy
<1>2. (IInv /\ BackedBy(aircraft, clock)) /\ [Next]_vars => (IInv /\ BackedBy(aircraft, clock))'
  BY NextIInv, NextBacked
<1>3. IInv /\ BackedBy(aircraft, clock) => PositionBacked
  <2> SUFFICES ASSUME IInv, BackedBy(aircraft, clock), NEW x \in DOMAIN aircraft,
                      DataValid(aircraft[x].valid["position"])
               PROVE  \/ \E f \in Frames : DataValid(aircraft[x].valid[f])
                      \/ clock >= aircraft[x].valid["position"].expires - MaxLag
    BY DEF PositionBacked
  <2>1. /\ aircraft[x].valid["position"].expires \in Nat /\ clock \in Nat /\ MaxLag \in Nat
    <3>1. aircraft[x] \in Aircraft
      BY DEF IInv, TypeOK
    <3>2. aircraft[x].valid["position"] \in Validity
      BY <3>1, FieldFacts DEF Aircraft
    <3> QED
      BY <3>2, TrackerAssumption DEF IInv, TypeOK, Validity, TrackerAssumption
  <2>2. Backed(aircraft[x], clock)
    BY DEF BackedBy
  <2> QED
    BY <2>1, <2>2 DEF Backed
<1> QED
  BY <1>1, <1>2, <1>3, PTL DEF Spec

-----------------------------------------------------------------------------
(* Hit flags are backed by replies on the list.  This needs that no message comes from the *)
(* address of a reply, which TIS-B track files of certain numbers could break: such a      *)
(* message would change the squawk of a record that others were matched with.              *)

AddressesApart == \A m \in Message, r \in Reply : m.addr # r.addr

ReplyAddresses == {r.addr : r \in Reply}

\* The record of a reply has its codes, which come with its address.
CodesOf(a, x) ==
    \A r \in Reply : r.addr = x =>
        /\ DataValid(a.valid["squawk"]) => a.value["squawk"] = r.value["squawk"]
        /\ DataValid(a.valid["altitude"]) /\ "altitude" \in DOMAIN r.value =>
              a.altitudeModeC = ModeCOf(r.value["altitude"])

\* The records of replies are the synthetic ones.
RepliesSynthetic(ac) ==
    \A x \in DOMAIN ac :
        /\ "flag" \in ac[x].flags <=> x \in ReplyAddresses
        /\ CodesOf(ac[x], x)

HitsBacked(ac) ==
    \A s \in ModeS(ac) :
        /\ "modeAHit" \in ac[s].flags => \E x \in Synthetic(ac) : MatchesA(ac[x], ac[s])
        /\ "modeCHit" \in ac[s].flags => \E x \in Synthetic(ac) : MatchesC(ac[x], ac[s])

HitInv(ac) == RepliesSynthetic(ac) /\ HitsBacked(ac)

\* Where a has a valid squawk or altitude, b has the same.
SameSquawk(a, b) ==
    DataValid(a.valid["squawk"]) =>
        DataValid(b.valid["squawk"]) /\ b.value["squawk"] = a.value["squawk"]
SameAltitude(a, b) ==
    DataValid(a.valid["altitude"]) =>
        DataValid(b.valid["altitude"]) /\ b.altitudeModeC = a.altitudeModeC

LEMMA StillMatches ==
    ASSUME NEW a, NEW b, NEW s, NEW t
    PROVE  /\ MatchesA(a, s) /\ SameSquawk(a, b) /\ SameSquawk(s, t) => MatchesA(b, t)
           /\ MatchesC(a, s) /\ SameAltitude(a, b) /\ SameAltitude(s, t) => MatchesC(b, t)
BY DEF MatchesA, MatchesC, SameSquawk, SameAltitude

\* A message clears a hit flag with the code it was for.
LEMMA StoreHits ==
    ASSUME NEW a \in Aircraft, NEW m \in Message, NEW now \in Nat
    PROVE  LET b == DeriveGNSS(Store(a, m, now), now)
           IN  /\ b.flags \subseteq a.flags /\ ("flag" \in b.flags <=> "flag" \in a.flags)
               /\ "modeAHit" \in b.flags => SameSquawk(a, b)
               /\ "modeCHit" \in b.flags => SameAltitude(a, b)
<1> DEFINE s == Store(a, m, now)
           b == DeriveGNSS(s, now)
           new == Accepted(a, m, now)
           modeC == ModeCOf(a.value["altitude"])
<1>1. s.flags = (a.flags \ IF "altitude" \in new /\ modeC # a.altitudeModeC THEN {"modeCHit"} ELSE {})
                   \ IF "squawk" \in new /\ m.value["squawk"] # a.value["squawk"]
                     THEN {"modeAHit"} ELSE {}
  BY DEF Store, Aircraft
<1>2. /\ s.value["squawk"] = IF "squawk" \in new THEN m.value["squawk"] ELSE a.value["squawk"]
      /\ s.altitudeModeC = IF "altitude" \in new THEN modeC ELSE a.altitudeModeC
  BY FieldFacts DEF Store, Aircraft
<1>3. ASSUME NEW f \in Fields, DataValid(a.valid[f]) PROVE DataValid(s.valid[f])
  <2>1. s.valid[f] = AcceptedFrom(m.source, now) \/ s.valid[f] = a.valid[f]
    BY StoreEffect
  <2>2. DataValid(AcceptedFrom(m.source, now))
    BY MessageFacts DEF AcceptedFrom, DataValid
  <2> QED
    BY <1>3, <2>1, <2>2
<1>4. s \in Aircraft
  BY StoreEffect
<1> HIDE DEF s, modeC, new
<1>5. /\ b.flags = s.flags /\ b.altitudeModeC = s.altitudeModeC
      /\ b.value["squawk"] = s.value["squawk"]
  BY <1>4, FieldFacts DEF DeriveGNSS, Aircraft
<1>6. \A f \in Fields \ {"altitudeGNSS"} : b.valid[f] = s.valid[f]
  BY <1>4, DeriveEffect
<1> HIDE DEF b
<1>7. "modeAHit" \in b.flags => SameSquawk(a, b)
  BY <1>1, <1>2, <1>3, <1>5, <1>6, FieldFacts DEF SameSquawk
<1>8. "modeCHit" \in b.flags => SameAltitude(a, b)
  BY <1>1, <1>2, <1>3, <1>5, <1>6, FieldFacts DEF SameAltitude
<1> QED
  BY <1>1, <1>5, <1>7, <1>8 DEF b, s

LEMMA PositionHits ==
    ASSUME NEW a \in Aircraft, NEW m \in Message, NEW now \in Nat,
           NEW b \in updatePosition(a, m, now)
    PROVE  b.flags = a.flags /\ SameSquawk(a, b) /\ SameAltitude(a, b)
<1>1. b \in {FromBothFrames(a), WithoutFrames(a), FromThisFrame(a, m, now), a}
  BY DEF updatePosition
<1>2. b.flags = a.flags /\ b.altitudeModeC = a.altitudeModeC /\ b.value = a.value
  BY <1>1 DEF FromBothFrames, WithoutFrames, FromThisFrame, Aircraft
<1>3. \A f \in Scalars : b.valid[f] = a.valid[f]
  BY PositionEffect
<1> QED
  BY <1>2, <1>3, FieldFacts DEF SameSquawk, SameAltitude

\* A reply leaves its record with its codes, which it had before if it had any.
LEMMA ReplyHits ==
    ASSUME NEW a \in Aircraft, NEW r \in Reply, NEW now \in Nat, CodesOf(a, r.addr)
    PROVE  LET b == Replied(a, r, now)
           IN  /\ CodesOf(b, r.addr)
               /\ "flag" \in b.flags <=> "flag" \in a.flags
               /\ SameSquawk(a, b) /\ SameAltitude(a, b)
<1> DEFINE b == Replied(a, r, now)
           new == Answered(a, r, now)
<1>1. new \subseteq DOMAIN r.value
  BY DEF Answered
<1>2. /\ "flag" \in b.flags <=> "flag" \in a.flags
      /\ b.altitudeModeC = IF "altitude" \in new THEN ModeCOf(r.value["altitude"])
                           ELSE a.altitudeModeC
      /\ b.value["squawk"] = IF "squawk" \in new THEN r.value["squawk"] ELSE a.value["squawk"]
  BY FieldFacts DEF Replied, Aircraft, HitFlags
<1>3. ASSUME NEW f \in Fields
      PROVE  /\ f \notin new => b.valid[f] = a.valid[f]
             /\ f \in new => DataValid(b.valid[f])
  <2>1. a.valid[f] \in Validity
    BY DEF Aircraft
  <2>2. b.valid[f] = IF f \in new THEN Promoted(AcceptedFrom(SourceInvalid, now))
                     ELSE IF f \in DOMAIN r.value THEN Promoted(a.valid[f]) ELSE a.valid[f]
    BY DEF Replied, Aircraft
  <2>3. DataValid(Promoted(AcceptedFrom(SourceInvalid, now)))
    BY DEF Promoted, AcceptedFrom, DataValid, SourceInvalid, SourceModeS
  <2>4. f \in DOMAIN r.value /\ f \notin new => a.valid[f].source # SourceInvalid
    BY <2>1 DEF Answered, Rejects, SourceInvalid, DataSource, Validity
  <2>5. f \in DOMAIN r.value /\ f \notin new => Promoted(a.valid[f]) = a.valid[f]
    BY <2>4 DEF Promoted
  <2> HIDE DEF b, new
  <2> QED
    BY <2>2, <2>3, <2>5
<1> HIDE DEF b
<1>4. "squawk" \in Fields /\ "altitude" \in Fields /\ "squawk" \in DOMAIN r.value
  BY FieldFacts, TrackerAssumption DEF TrackerAssumption
<1>5. ASSUME NEW q \in Reply, q.addr = r.addr
      PROVE  /\ DataValid(b.valid["squawk"]) => b.value["squawk"] = q.value["squawk"]
             /\ DataValid(b.valid["altitude"]) /\ "altitude" \in DOMAIN q.value =>
                   b.altitudeModeC = ModeCOf(q.value["altitude"])
  <2>1. /\ "squawk" \in DOMAIN q.value
        /\ \A f \in DOMAIN q.value \cap DOMAIN r.value : q.value[f] = r.value[f]
    BY <1>5, TrackerAssumption DEF TrackerAssumption
  <2>2. /\ DataValid(a.valid["squawk"]) => a.value["squawk"] = q.value["squawk"]
        /\ DataValid(a.valid["altitude"]) /\ "altitude" \in DOMAIN q.value =>
              a.altitudeModeC = ModeCOf(q.value["altitude"])
    BY <1>5 DEF CodesOf
  <2>3. q.value["squawk"] = r.value["squawk"]
    BY <1>4, <2>1
  <2>4. "altitude" \in DOMAIN q.value /\ "altitude" \in new =>
           q.value["altitude"] = r.value["altitude"]
    BY <1>1, <2>1
  <2> HIDE DEF new
  <2> QED
    BY <1>2, <1>3, <1>4, <2>2, <2>3, <2>4
<1>6. CodesOf(b, r.addr)
  BY <1>5 DEF CodesOf
<1>7. SameSquawk(a, b)
  BY <1>2, <1>3, <1>4 DEF SameSquawk, CodesOf
<1>8. SameAltitude(a, b)
  BY <1>1, <1>2, <1>3, <1>4 DEF SameAltitude, CodesOf
<1> QED
  BY <1>2, <1>6, <1>7, <1>8 DEF b

\* Matching gives a Mode S aircraft a hit flag only for a reply that it matches.
LEMMA MatchHits ==
    ASSUME NEW D, NEW ac \in [D -> Aircraft], NEW X \in SUBSET D, X \cap ModeS(ac) = {},
           NEW rank, NEW z \in D
    PROVE  LET new == matchModeACWithModeS(ac, X, rank)
           IN  /\ SameSquawk(ac[z], new[z]) /\ SameAltitude(ac[z], new[z])
               /\ SameSquawk(new[z], ac[z]) /\ SameAltitude(new[z], ac[z])
               /\ "flag" \in new[z].flags <=> "flag" \in ac[z].flags
               /\ z \in ModeS(ac) /\ "modeAHit" \in new[z].flags =>
                     "modeAHit" \in ac[z].flags \/ \E x \in X : MatchesA(ac[x], ac[z])
               /\ z \in ModeS(ac) /\ "modeCHit" \in new[z].flags =>
                     "modeCHit" \in ac[z].flags \/ \E x \in X : MatchesC(ac[x], ac[z])
<1> DEFINE new == matchModeACWithModeS(ac, X, rank)
           F == Gained(ac, X, rank, z)
<1>1. /\ new[z].flags = ac[z].flags \cup F
      /\ new[z].valid = ac[z].valid /\ new[z].value = ac[z].value
      /\ new[z].altitudeModeC = ac[z].altitudeModeC
  BY DEF matchModeACWithModeS, Aircraft
<1>2. "flag" \notin F
  BY DEF Gained
<1>3. ASSUME z \in ModeS(ac), "modeAHit" \in F PROVE \E x \in X : MatchesA(ac[x], ac[z])
  BY <1>3 DEF Gained, HitsA
<1>4. ASSUME z \in ModeS(ac), "modeCHit" \in F PROVE \E x \in X : MatchesC(ac[x], ac[z])
  BY <1>4 DEF Gained, HitsC
<1> HIDE DEF new, F
<1> QED
  BY <1>1, <1>2, <1>3, <1>4 DEF SameSquawk, SameAltitude, new

LEMMA RestartedHits ==
    ASSUME NEW a \in Aircraft
    PROVE  /\ SameSquawk(a, Restarted(a)) /\ SameAltitude(a, Restarted(a))
           /\ SameSquawk(Restarted(a), a) /\ SameAltitude(Restarted(a), a)
           /\ "flag" \in Restarted(a).flags <=> "flag" \in a.flags
<1>1. /\ Restarted(a).valid = a.valid /\ Restarted(a).value = a.value
      /\ Restarted(a).altitudeModeC = a.altitudeModeC
  BY DEF Restarted, Aircraft
<1>2. "flag" \in Restarted(a).flags <=> "flag" \in a.flags
  BY DEF Restarted, Aircraft
<1> QED
  BY <1>1, <1>2 DEF SameSquawk, SameAltitude

\* Records with the codes of a record of a reply are such records.
LEMMA SameCodes ==
    ASSUME NEW a, NEW b, NEW x, CodesOf(a, x), SameSquawk(b, a), SameAltitude(b, a)
    PROVE  CodesOf(b, x)
BY DEF CodesOf, SameSquawk, SameAltitude

\* Hit flags of ac stay backed in bc when the replies and the codes matched are still there.
LEMMA HitsTransfer ==
    ASSUME NEW ac, NEW bc, HitsBacked(ac),
           \A x \in Synthetic(ac) :
              x \in Synthetic(bc) /\ SameSquawk(ac[x], bc[x]) /\ SameAltitude(ac[x], bc[x]),
           \A s \in ModeS(bc) :
              /\ "modeAHit" \in bc[s].flags =>
                    \/ s \in ModeS(ac) /\ "modeAHit" \in ac[s].flags /\ SameSquawk(ac[s], bc[s])
                    \/ \E x \in Synthetic(bc) : MatchesA(bc[x], bc[s])
              /\ "modeCHit" \in bc[s].flags =>
                    \/ s \in ModeS(ac) /\ "modeCHit" \in ac[s].flags /\ SameAltitude(ac[s], bc[s])
                    \/ \E x \in Synthetic(bc) : MatchesC(bc[x], bc[s])
    PROVE  HitsBacked(bc)
<1> SUFFICES ASSUME NEW s \in ModeS(bc)
             PROVE  /\ "modeAHit" \in bc[s].flags => \E x \in Synthetic(bc) : MatchesA(bc[x], bc[s])
                    /\ "modeCHit" \in bc[s].flags => \E x \in Synthetic(bc) : MatchesC(bc[x], bc[s])
  BY DEF HitsBacked
<1>1. ASSUME s \in ModeS(ac), "modeAHit" \in ac[s].flags, SameSquawk(ac[s], bc[s])
      PROVE  \E x \in Synthetic(bc) : MatchesA(bc[x], bc[s])
  <2>1. PICK x \in Synthetic(ac) : MatchesA(ac[x], ac[s])
    BY <1>1 DEF HitsBacked
  <2> QED
    BY <1>1, <2>1, StillMatches
<1>2. ASSUME s \in ModeS(ac), "modeCHit" \in ac[s].flags, SameAltitude(ac[s], bc[s])
      PROVE  \E x \in Synthetic(bc) : MatchesC(bc[x], bc[s])
  <2>1. PICK x \in Synthetic(ac) : MatchesC(ac[x], ac[s])
    BY <1>2 DEF HitsBacked
  <2> QED
    BY <1>2, <2>1, StillMatches
<1> QED
  BY <1>1, <1>2

LEMMA MessageHits ==
    ASSUME AddressesApart, IInv, HitInv(aircraft),
           NEW h \in Handlers, NEW m \in Message, UpdateFromMessage(h, m)
    PROVE  HitInv(aircraft')
<1> DEFINE now == reading[h]
           old == OldOf(m)
           new == DeriveGNSS(Store(old, m, now), now)
           b == aircraft'[m.addr]
<1>1. /\ now \in Nat
      /\ old \in Aircraft /\ new \in Aircraft
      /\ DOMAIN aircraft' = DOMAIN aircraft \cup {m.addr}
      /\ b \in {new} \cup updatePosition(new, m, now)
      /\ \A x \in DOMAIN aircraft \ {m.addr} : aircraft'[x] = aircraft[x]
  BY MessageChanges
<1>2. m.addr \notin ReplyAddresses
  BY DEF AddressesApart, ReplyAddresses
<1>3. /\ "flag" \notin old.flags
      /\ m.addr \in DOMAIN aircraft => old = aircraft[m.addr]
      /\ m.addr \notin DOMAIN aircraft => old.flags = {}
  BY <1>2 DEF OldOf, HitInv, RepliesSynthetic, createAircraft
<1> HIDE DEF now, old
<1>4. /\ new.flags \subseteq old.flags /\ ("flag" \in new.flags <=> "flag" \in old.flags)
      /\ "modeAHit" \in new.flags => SameSquawk(old, new)
      /\ "modeCHit" \in new.flags => SameAltitude(old, new)
  BY <1>1, StoreHits
<1> HIDE DEF new, b
<1>5. b = new \/ (b.flags = new.flags /\ SameSquawk(new, b) /\ SameAltitude(new, b))
  BY <1>1, PositionHits
<1>6. /\ b.flags \subseteq old.flags /\ "flag" \notin b.flags
      /\ "modeAHit" \in b.flags => SameSquawk(old, b)
      /\ "modeCHit" \in b.flags => SameAltitude(old, b)
  BY <1>3, <1>4, <1>5 DEF SameSquawk, SameAltitude
<1>7. RepliesSynthetic(aircraft')
  <2>1. ASSUME NEW x \in DOMAIN aircraft'
        PROVE  ("flag" \in aircraft'[x].flags <=> x \in ReplyAddresses) /\ CodesOf(aircraft'[x], x)
    <3>1. CASE x = m.addr
      BY <1>2, <1>6, <3>1 DEF CodesOf, ReplyAddresses, b
    <3>2. CASE x # m.addr
      BY <1>1, <3>2 DEF HitInv, RepliesSynthetic
    <3> QED
      BY <3>1, <3>2
  <2> QED
    BY <2>1 DEF RepliesSynthetic
<1>8. \A x \in Synthetic(aircraft) :
         /\ x \in Synthetic(aircraft')
         /\ SameSquawk(aircraft[x], aircraft'[x]) /\ SameAltitude(aircraft[x], aircraft'[x])
  <2> SUFFICES ASSUME NEW x \in Synthetic(aircraft)
               PROVE  /\ x \in Synthetic(aircraft')
                      /\ SameSquawk(aircraft[x], aircraft'[x])
                      /\ SameAltitude(aircraft[x], aircraft'[x])
    OBVIOUS
  <2>1. x \in DOMAIN aircraft /\ "flag" \in aircraft[x].flags
    BY DEF Synthetic, ModeS
  <2>2. x # m.addr
    BY <1>2, <2>1 DEF HitInv, RepliesSynthetic
  <2>3. aircraft'[x] = aircraft[x]
    BY <1>1, <2>1, <2>2
  <2> QED
    BY <1>1, <2>1, <2>3 DEF Synthetic, ModeS, SameSquawk, SameAltitude
<1>9. ASSUME NEW s \in ModeS(aircraft'),
             "modeAHit" \in aircraft'[s].flags \/ "modeCHit" \in aircraft'[s].flags
      PROVE  /\ s \in ModeS(aircraft) /\ aircraft'[s].flags \subseteq aircraft[s].flags
             /\ "modeAHit" \in aircraft'[s].flags => SameSquawk(aircraft[s], aircraft'[s])
             /\ "modeCHit" \in aircraft'[s].flags => SameAltitude(aircraft[s], aircraft'[s])
  <2>1. CASE s = m.addr
    <3>1. aircraft'[s] = b
      BY <2>1 DEF b
    <3>2. m.addr \in DOMAIN aircraft /\ old = aircraft[s]
      BY <1>3, <1>6, <1>9, <2>1, <3>1
    <3> QED
      BY <1>3, <1>6, <2>1, <3>1, <3>2 DEF ModeS
  <2>2. CASE s # m.addr
    <3>1. s \in DOMAIN aircraft /\ aircraft'[s] = aircraft[s]
      BY <1>1, <2>2 DEF ModeS
    <3> QED
      BY <3>1 DEF ModeS, SameSquawk, SameAltitude
  <2> QED
    BY <2>1, <2>2
<1>10. HitsBacked(aircraft')
  <2>1. HitsBacked(aircraft)
    BY DEF HitInv
  <2> QED
    BY <1>8, <1>9, <2>1, HitsTransfer
<1> QED
  BY <1>7, <1>10 DEF HitInv

LEMMA AnswerHits ==
    ASSUME IInv, HitInv(aircraft), NEW h \in Handlers, NEW r \in Reply, UpdateFromModeAC(h, r)
    PROVE  HitInv(aircraft')
<1> DEFINE now == reading[h]
           old == OldAnswer(r)
           all == WithReply(r, now)
           rank == [x \in {r.addr} |-> 1]
           matched == MatchedReply(r, now)
<1>1. /\ now \in Nat
      /\ old \in Aircraft
      /\ DOMAIN all = DOMAIN aircraft \cup {r.addr}
      /\ all \in [DOMAIN all -> Aircraft]
      /\ all[r.addr] = Replied(old, r, now)
      /\ \A x \in DOMAIN aircraft \ {r.addr} : all[x] = aircraft[x]
      /\ DOMAIN aircraft' = DOMAIN all
      /\ \A x \in DOMAIN all :
            /\ matched[x] \in Aircraft
            /\ aircraft'[x] = IF x = r.addr THEN Restarted(matched[x]) ELSE matched[x]
  BY AnswerChanges
<1>2. r.addr \in ReplyAddresses
  BY DEF ReplyAddresses
<1>3. /\ CodesOf(old, r.addr) /\ "flag" \in old.flags
      /\ r.addr \in DOMAIN aircraft => old = aircraft[r.addr]
  <2>1. CodesOf([createAircraft(0) EXCEPT !.flags = {"flag"}], r.addr)
    BY FieldFacts DEF CodesOf, createAircraft, NoData, DataValid
  <2>2. "flag" \in [createAircraft(0) EXCEPT !.flags = {"flag"}].flags
    BY DEF createAircraft
  <2> QED
    BY <1>2, <2>1, <2>2 DEF OldAnswer, HitInv, RepliesSynthetic
<1>4. matched = matchModeACWithModeS(all, {r.addr}, rank)
  BY DEF MatchedReply
<1> HIDE DEF now, old, all, matched, rank
<1>5. /\ CodesOf(all[r.addr], r.addr) /\ "flag" \in all[r.addr].flags
      /\ SameSquawk(old, all[r.addr]) /\ SameAltitude(old, all[r.addr])
  BY <1>1, <1>3, ReplyHits
<1>6. ASSUME NEW x \in DOMAIN all
      PROVE  ("flag" \in all[x].flags <=> x \in ReplyAddresses) /\ CodesOf(all[x], x)
  BY <1>1, <1>2, <1>5 DEF HitInv, RepliesSynthetic
<1>7. ASSUME NEW x \in DOMAIN aircraft
      PROVE  SameSquawk(aircraft[x], all[x]) /\ SameAltitude(aircraft[x], all[x])
  <2>1. CASE x = r.addr
    BY <1>3, <1>5, <2>1
  <2>2. CASE x # r.addr
    BY <1>1, <2>2 DEF SameSquawk, SameAltitude
  <2> QED
    BY <2>1, <2>2
<1>8. {r.addr} \in SUBSET DOMAIN all /\ {r.addr} \cap ModeS(all) = {}
  BY <1>1, <1>5 DEF ModeS
<1>9. ASSUME NEW x \in DOMAIN all
      PROVE  /\ SameSquawk(all[x], matched[x]) /\ SameAltitude(all[x], matched[x])
             /\ SameSquawk(matched[x], all[x]) /\ SameAltitude(matched[x], all[x])
             /\ "flag" \in matched[x].flags <=> "flag" \in all[x].flags
             /\ x \in ModeS(all) /\ "modeAHit" \in matched[x].flags =>
                   "modeAHit" \in all[x].flags \/ \E y \in {r.addr} : MatchesA(all[y], all[x])
             /\ x \in ModeS(all) /\ "modeCHit" \in matched[x].flags =>
                   "modeCHit" \in all[x].flags \/ \E y \in {r.addr} : MatchesC(all[y], all[x])
  BY <1>1, <1>4, <1>8, MatchHits
<1>10. ASSUME NEW x \in DOMAIN all
       PROVE  /\ SameSquawk(all[x], aircraft'[x]) /\ SameAltitude(all[x], aircraft'[x])
              /\ SameSquawk(aircraft'[x], all[x]) /\ SameAltitude(aircraft'[x], all[x])
              /\ "flag" \in aircraft'[x].flags <=> "flag" \in all[x].flags
  <2>1. CASE x = r.addr
    <3>1. matched[x] \in Aircraft /\ aircraft'[x] = Restarted(matched[x])
      BY <1>1, <2>1
    <3>2. /\ SameSquawk(matched[x], aircraft'[x]) /\ SameAltitude(matched[x], aircraft'[x])
          /\ SameSquawk(aircraft'[x], matched[x]) /\ SameAltitude(aircraft'[x], matched[x])
          /\ "flag" \in aircraft'[x].flags <=> "flag" \in matched[x].flags
      BY <3>1, RestartedHits
    <3> QED
      BY <1>9, <3>2 DEF SameSquawk, SameAltitude
  <2>2. CASE x # r.addr
    BY <1>1, <1>9, <2>2
  <2> QED
    BY <2>1, <2>2
<1>11. RepliesSynthetic(aircraft')
  BY <1>1, <1>6, <1>10, SameCodes DEF RepliesSynthetic
<1>12. \A x \in Synthetic(aircraft) :
          /\ x \in Synthetic(aircraft')
          /\ SameSquawk(aircraft[x], aircraft'[x]) /\ SameAltitude(aircraft[x], aircraft'[x])
  <2> SUFFICES ASSUME NEW x \in Synthetic(aircraft)
               PROVE  /\ x \in Synthetic(aircraft')
                      /\ SameSquawk(aircraft[x], aircraft'[x])
                      /\ SameAltitude(aircraft[x], aircraft'[x])
    OBVIOUS
  <2>1. x \in DOMAIN aircraft /\ "flag" \in aircraft[x].flags /\ x \in DOMAIN all
    BY <1>1 DEF Synthetic, ModeS
  <2>2. x \in ReplyAddresses
    BY <2>1 DEF HitInv, RepliesSynthetic
  <2>3. "flag" \in aircraft'[x].flags
    BY <1>6, <1>10, <2>1, <2>2
  <2>4. x \in Synthetic(aircraft')
    BY <1>1, <2>1, <2>3 DEF Synthetic, ModeS
  <2> QED
    BY <1>7, <1>10, <2>1, <2>4 DEF SameSquawk, SameAltitude
<1>13. r.addr \in Synthetic(aircraft')
  BY <1>1, <1>5, <1>8, <1>10 DEF Synthetic, ModeS
<1>14. ASSUME NEW s \in ModeS(aircraft')
       PROVE  /\ "modeAHit" \in aircraft'[s].flags =>
                    \/ /\ s \in ModeS(aircraft) /\ "modeAHit" \in aircraft[s].flags
                       /\ SameSquawk(aircraft[s], aircraft'[s])
                    \/ \E x \in Synthetic(aircraft') : MatchesA(aircraft'[x], aircraft'[s])
              /\ "modeCHit" \in aircraft'[s].flags =>
                    \/ /\ s \in ModeS(aircraft) /\ "modeCHit" \in aircraft[s].flags
                       /\ SameAltitude(aircraft[s], aircraft'[s])
                    \/ \E x \in Synthetic(aircraft') : MatchesC(aircraft'[x], aircraft'[s])
  <2>1. s \in DOMAIN all /\ s # r.addr /\ s \in ModeS(all)
    BY <1>1, <1>10, <1>13 DEF ModeS, Synthetic
  <2>2. s \in DOMAIN aircraft /\ all[s] = aircraft[s] /\ s \in ModeS(aircraft)
    BY <1>1, <2>1 DEF ModeS
  <2>3. aircraft'[s] = matched[s]
    BY <1>1, <2>1
  <2>4. SameSquawk(aircraft[s], aircraft'[s]) /\ SameAltitude(aircraft[s], aircraft'[s])
    BY <1>10, <2>1, <2>2
  <2>5. MatchesA(all[r.addr], all[s]) => MatchesA(aircraft'[r.addr], aircraft'[s])
    BY <1>8, <1>10, <2>1, StillMatches
  <2>6. MatchesC(all[r.addr], all[s]) => MatchesC(aircraft'[r.addr], aircraft'[s])
    BY <1>8, <1>10, <2>1, StillMatches
  <2> QED
    BY <1>9, <1>13, <2>1, <2>2, <2>3, <2>4, <2>5, <2>6
<1>15. HitsBacked(aircraft')
  <2>1. HitsBacked(aircraft)
    BY DEF HitInv
  <2> QED
    BY <1>12, <1>14, <2>1, HitsTransfer
<1> QED
  BY <1>11, <1>15 DEF HitInv

\* The sweep leaves no hit flags but those that it sets anew.
LEMMA SweepHits ==
    ASSUME IInv, HitInv(aircraft), PeriodicUpdate
    PROVE  HitInv(aircraft')
<1> DEFINE kept == KeptBySweep
           D == DOMAIN kept
           X == Synthetic(kept)
<1>1. /\ sweep \in Nat
      /\ D \subseteq DOMAIN aircraft
      /\ kept \in [D -> Aircraft]
      /\ \A x \in D : kept[x] = Expired(aircraft[x], sweep)
      /\ DOMAIN aircraft' = D
  BY SweepChanges
<1>2. PICK rank : X \in SUBSET D /\ aircraft' = matchModeACWithModeS(kept, X, rank)
  BY SweepChanges
<1> HIDE DEF kept
<1>3. ASSUME NEW x \in D
      PROVE  /\ "flag" \in kept[x].flags <=> x \in ReplyAddresses
             /\ CodesOf(kept[x], x)
             /\ kept[x].flags \cap HitFlags = {}
  <2> DEFINE a == aircraft[x]
  <2>1. a \in Aircraft /\ CodesOf(a, x) /\ ("flag" \in a.flags <=> x \in ReplyAddresses)
    BY <1>1 DEF IInv, TypeOK, HitInv, RepliesSynthetic
  <2>2. kept[x] = Expired(a, sweep)
    BY <1>1
  <2> HIDE DEF a
  <2>3. /\ kept[x].flags = a.flags \ HitFlags /\ kept[x].value = a.value
        /\ kept[x].altitudeModeC = a.altitudeModeC
    BY <2>1, <2>2 DEF Expired, Aircraft
  <2>4. ASSUME NEW f \in Fields, DataValid(kept[x].valid[f]) PROVE DataValid(a.valid[f])
    <3>1. kept[x].valid[f] = ExpireField(a.valid[f], sweep) /\ a.valid[f] \in Validity
      BY <1>1, <2>1, <2>2, ExpiredEffect DEF Aircraft
    <3> QED
      BY <1>1, <2>4, <3>1, ExpireFieldType
  <2>5. SameSquawk(kept[x], a) => CodesOf(kept[x], x) \/ ~SameAltitude(kept[x], a)
    BY <2>1, SameCodes
  <2>6. /\ DataValid(kept[x].valid["squawk"]) => DataValid(a.valid["squawk"])
        /\ DataValid(kept[x].valid["altitude"]) => DataValid(a.valid["altitude"])
    BY <2>4, FieldFacts
  <2>7. SameSquawk(kept[x], a) /\ SameAltitude(kept[x], a)
    BY <2>3, <2>6 DEF SameSquawk, SameAltitude
  <2>8. "flag" \notin HitFlags
    BY DEF HitFlags
  <2> QED
    BY <2>1, <2>3, <2>5, <2>7, <2>8
<1>4. X \cap ModeS(kept) = {}
  BY DEF Synthetic
<1> HIDE DEF D, X
<1>5. ASSUME NEW x \in D
      PROVE  /\ SameSquawk(kept[x], aircraft'[x]) /\ SameAltitude(kept[x], aircraft'[x])
             /\ SameSquawk(aircraft'[x], kept[x]) /\ SameAltitude(aircraft'[x], kept[x])
             /\ "flag" \in aircraft'[x].flags <=> "flag" \in kept[x].flags
             /\ x \in ModeS(kept) /\ "modeAHit" \in aircraft'[x].flags =>
                   "modeAHit" \in kept[x].flags \/ \E y \in X : MatchesA(kept[y], kept[x])
             /\ x \in ModeS(kept) /\ "modeCHit" \in aircraft'[x].flags =>
                   "modeCHit" \in kept[x].flags \/ \E y \in X : MatchesC(kept[y], kept[x])
  BY <1>1, <1>2, <1>4, MatchHits
<1>6. RepliesSynthetic(aircraft')
  BY <1>1, <1>3, <1>5, SameCodes DEF RepliesSynthetic
<1>7. ASSUME NEW x \in X PROVE x \in Synthetic(aircraft')
  BY <1>1, <1>2, <1>5 DEF X, D, Synthetic, ModeS
<1>8. HitsBacked(aircraft')
  <2> SUFFICES ASSUME NEW s \in ModeS(aircraft')
               PROVE  /\ "modeAHit" \in aircraft'[s].flags =>
                            \E x \in Synthetic(aircraft') : MatchesA(aircraft'[x], aircraft'[s])
                      /\ "modeCHit" \in aircraft'[s].flags =>
                            \E x \in Synthetic(aircraft') : MatchesC(aircraft'[x], aircraft'[s])
    BY DEF HitsBacked
  <2>1. s \in D /\ s \in ModeS(kept)
    BY <1>1, <1>5 DEF ModeS, D
  <2>2. "modeAHit" \notin kept[s].flags /\ "modeCHit" \notin kept[s].flags
    BY <1>3, <2>1 DEF HitFlags
  <2>3. ASSUME NEW x \in X, MatchesA(kept[x], kept[s])
        PROVE  MatchesA(aircraft'[x], aircraft'[s])
    <3>1. x \in D
      BY <1>2
    <3> QED
      BY <1>5, <2>1, <2>3, <3>1, StillMatches
  <2>4. ASSUME NEW x \in X, MatchesC(kept[x], kept[s])
        PROVE  MatchesC(aircraft'[x], aircraft'[s])
    <3>1. x \in D
      BY <1>2
    <3> QED
      BY <1>5, <2>1, <2>4, <3>1, StillMatches
  <2> QED
    BY <1>5, <1>7, <2>1, <2>2, <2>3, <2>4
<1> QED
  BY <1>6, <1>8 DEF HitInv

\* A hit flag that an aircraft shows is backed by a reply on the list that matches it now.
THEOREM HitsStayCurrent == AddressesApart => (Spec => []HitsAreCurrent)
<1> SUFFICES ASSUME AddressesApart PROVE Spec => []HitsAreCurrent
  OBVIOUS
<1>1. Init => IInv /\ HitInv(aircraft)
  BY InitIInv DEF Init, HitInv, RepliesSynthetic, HitsBacked, ModeS
<1>2. (IInv /\ HitInv(aircraft)) /\ [Next]_vars => (IInv /\ HitInv(aircraft))'
  <2>1. ASSUME IInv, HitInv(aircraft), Next PROVE HitInv(aircraft')
    <3>1. CASE UNCHANGED aircraft
      BY <2>1, <3>1
    <3> QED
      BY <2>1, <3>1, MessageHits, AnswerHits, SweepHits DEF Next, TakeTime, SweepCall, Tick
  <2>2. ASSUME HitInv(aircraft), UNCHANGED vars PROVE HitInv(aircraft')
    BY <2>2 DEF vars
  <2> QED
    BY <2>1, <2>2, NextIInv
<1>3. IInv /\ HitInv(aircraft) => HitsAreCurrent
  BY DEF HitInv, HitsBacked, HitsAreCurrent
<1> QED
  BY <1>1, <1>2, <1>3, PTL DEF Spec

-----------------------------------------------------------------------------
(* The output of FATSV: when data are dated, never later than now, and     *)
(* when they change, not much earlier.                                     *)

\* No datum of a is dated later than time.
DatedBy(a, time) == \A f \in Fields : a.valid[f].updated <= time
Dated == \A x \in DOMAIN aircraft : DatedBy(aircraft[x], clock)

FATSVPart == [last : Int, value : [Kept -> Int]]

FATSVTypeOK ==
    /\ emitted \in [DOMAIN aircraft -> FATSVPart]
    /\ copies \in [DOMAIN aircraft -> [Columns -> Nat]]
    /\ shown \in [DOMAIN aircraft -> [Kept -> Int]]
    /\ pending \in [DOMAIN pending -> FATSVPart]
    /\ stage \in {"sweep", "read", "copy", "mark"}
    /\ round \in Nat

\* The tracker is not swept in the middle of a round, so what is to be marked is still there.
StageInv ==
    /\ sweep # Never => stage = "sweep"
    /\ stage # "mark" => DOMAIN pending = {}
    /\ DOMAIN pending \subseteq DOMAIN aircraft
    /\ round <= clock

DatesInv ==
    /\ Dated
    /\ \A x \in DOMAIN aircraft : emitted[x].last <= round
    /\ \A x \in DOMAIN pending : pending[x].last = round

ShownInv ==
    /\ \A x \in DOMAIN pending : pending[x].value = shown[x]
    /\ DetectsChanges

\* When the last line with x was written, be its record marked or not.
LastLine(x) == IF x \in DOMAIN pending THEN pending[x].last ELSE emitted[x].last

\* What was written twice was written by the last line, and not before its date the second time.
TwiceInv ==
    \A x \in DOMAIN aircraft, f \in Columns :
        LET v == aircraft[x].valid[f]
        IN  /\ copies[x][f] <= 2
            /\ copies[x][f] = 2 => v.updated <= LastLine(x)
            /\ copies[x][f] >= 1 /\ stage = "copy" => v.updated <= round

\* A datum to report that the lines of this round do not have came after the copies were taken.
LateInv ==
    \A x \in DOMAIN pending, f \in Direct :
        LET v == aircraft[x].valid[f]
        IN  /\ copies[x][f] = 0 /\ v.updated > emitted[x].last
            /\ Fresh15(aircraft[x], f, clock) /\ v.source >= SourceModeSChecked
            => v.updated >= round - MaxLag

FATSVInv ==
    /\ FATSVTypeOK
    /\ StageInv
    /\ DatesInv
    /\ ShownInv
    /\ TwiceInv
    /\ LateInv

-----------------------------------------------------------------------------
(* When data are dated. *)

LEMMA ColumnFacts ==
    /\ Columns \subseteq Fields /\ Kept \subseteq Scalars /\ Kept \subseteq Columns
    /\ Direct \subseteq Columns /\ Direct \subseteq Scalars \ {"altitudeGNSS"}
BY FieldFacts DEF Columns, Kept, Direct

LEMMA CombinedDate ==
    ASSUME NEW v \in Validity, NEW w \in Validity
    PROVE  CombineValidity(v, w).updated \in {v.updated, w.updated}
BY DEF CombineValidity, Greater, Validity

\* What f of b is, when a handler with that reading of the clock, or the sweep, has made b of a.
KeptOrNew(a, b, f, now) ==
    \/ b.valid[f] = a.valid[f] /\ b.born[f] = a.born[f]
    \/ b.valid[f].updated = now
    \/ b.valid[f].source = SourceInvalid

LEMMA StoreDates ==
    ASSUME NEW a \in Aircraft, NEW m \in Message, NEW now \in Nat, NEW time \in Nat,
           now <= time, DatedBy(a, time)
    PROVE  LET b == DeriveGNSS(Store(a, m, now), now)
           IN  /\ b \in Aircraft
               /\ DatedBy(b, time)
               /\ \A f \in Fields \ {"altitudeGNSS"} : KeptOrNew(a, b, f, now)
<1> DEFINE s == Store(a, m, now)
           b == DeriveGNSS(s, now)
<1>1. s \in Aircraft
  BY StoreEffect
<1>2. ASSUME NEW f \in Fields
      PROVE  KeptOrNew(a, s, f, now) /\ s.valid[f].updated <= time
  <2>1. a.valid[f] \in Validity /\ a.valid[f].updated <= time
    BY DEF Aircraft, DatedBy
  <2>2. \/ s.valid[f] = AcceptedFrom(m.source, now)
        \/ s.valid[f] = a.valid[f] /\ s.born[f] = a.born[f]
    BY StoreEffect
  <2>3. AcceptedFrom(m.source, now).updated = now
    BY DEF AcceptedFrom
  <2> HIDE DEF s
  <2> QED
    BY <2>1, <2>2, <2>3 DEF KeptOrNew
<1> HIDE DEF s
<1>3. b \in Aircraft
  BY <1>1, DeriveEffect
<1>4. ASSUME NEW f \in Fields \ {"altitudeGNSS"}
      PROVE  b.valid[f] = s.valid[f] /\ b.born[f] = s.born[f]
  BY <1>1, DeriveEffect
<1>5. b.valid["altitudeGNSS"].updated <= time
  <2>1. \/ b.valid["altitudeGNSS"] = s.valid["altitudeGNSS"]
        \/ b.valid["altitudeGNSS"] = CombineValidity(s.valid["altitude"], s.valid["gnssDelta"])
    BY <1>1, DeriveEffect
  <2>2. s.valid["altitude"] \in Validity /\ s.valid["gnssDelta"] \in Validity
    BY <1>1, FieldFacts DEF Aircraft
  <2>3. CombineValidity(s.valid["altitude"], s.valid["gnssDelta"]).updated
           \in {s.valid["altitude"].updated, s.valid["gnssDelta"].updated}
    BY <2>2, CombinedDate
  <2> HIDE DEF b
  <2> QED
    BY <1>2, <2>1, <2>3, FieldFacts
<1> HIDE DEF b
<1>6. DatedBy(b, time)
  BY <1>2, <1>4, <1>5 DEF DatedBy
<1>7. \A f \in Fields \ {"altitudeGNSS"} : KeptOrNew(a, b, f, now)
  BY <1>2, <1>4 DEF KeptOrNew
<1> QED
  BY <1>3, <1>6, <1>7 DEF b, s

LEMMA InvalidatedDate ==
    ASSUME NEW v \in Validity
    PROVE  Invalidated(v).updated = v.updated /\ Invalidated(v).source = SourceInvalid
BY DEF Invalidated, Validity

LEMMA PositionDates ==
    ASSUME NEW a \in Aircraft, NEW m \in Message, NEW now \in Nat, NEW time \in Nat,
           DatedBy(a, time), NEW b \in updatePosition(a, m, now)
    PROVE  /\ b \in Aircraft
           /\ DatedBy(b, time)
           /\ \A f \in Scalars : b.valid[f] = a.valid[f] /\ b.born[f] = a.born[f]
<1>1. /\ b \in Aircraft
      /\ \A f \in Scalars : b.valid[f] = a.valid[f]
      /\ \A f \in Fields \ {"position"} : b.born[f] = a.born[f]
  BY PositionEffect
<1>2. /\ "cprEven" \in Fields /\ "cprOdd" \in Fields /\ "position" \in Fields
      /\ FrameField(m) \in Fields
  BY FieldFacts, MessageFacts
<1>3. ASSUME NEW f \in Fields PROVE b.valid[f].updated <= time
  <2>1. b \in {FromBothFrames(a), WithoutFrames(a), FromThisFrame(a, m, now), a}
    BY DEF updatePosition
  <2>2. \/ b.valid[f] = a.valid[f]
        \/ b.valid[f] = Invalidated(a.valid[f])
        \/ b.valid[f] = a.valid[FrameField(m)]
        \/ b.valid[f] = CombineValidity(a.valid["cprEven"], a.valid["cprOdd"])
    <3>1. CASE b = FromBothFrames(a)
      BY <1>2, <3>1 DEF FromBothFrames, Aircraft
    <3>2. CASE b = WithoutFrames(a)
      BY <1>2, <3>2 DEF WithoutFrames, Aircraft
    <3>3. CASE b = FromThisFrame(a, m, now)
      BY <1>2, <3>3 DEF FromThisFrame, Aircraft
    <3> QED
      BY <2>1, <3>1, <3>2, <3>3
  <2>3. Invalidated(a.valid[f]).updated = a.valid[f].updated
    BY InvalidatedDate DEF Aircraft
  <2>4. CombineValidity(a.valid["cprEven"], a.valid["cprOdd"]).updated
           \in {a.valid["cprEven"].updated, a.valid["cprOdd"].updated}
    BY <1>2, CombinedDate DEF Aircraft
  <2> QED
    BY <1>2, <2>2, <2>3, <2>4 DEF DatedBy
<1>4. Scalars \subseteq Fields \ {"position"}
  BY FieldFacts
<1>5. \A f \in Scalars : b.valid[f] = a.valid[f] /\ b.born[f] = a.born[f]
  BY <1>1, <1>4
<1>6. DatedBy(b, time)
  BY <1>3 DEF DatedBy
<1> QED
  BY <1>1, <1>5, <1>6

LEMMA ReplyDates ==
    ASSUME NEW a \in Aircraft, NEW r \in Reply, NEW now \in Nat, NEW time \in Nat,
           now <= time, DatedBy(a, time)
    PROVE  /\ Replied(a, r, now) \in Aircraft
           /\ DatedBy(Replied(a, r, now), time)
           /\ \A f \in Fields : KeptOrNew(a, Replied(a, r, now), f, now)
<1> DEFINE b == Replied(a, r, now)
<1>1. ASSUME NEW f \in Fields
      PROVE  KeptOrNew(a, b, f, now) /\ b.valid[f].updated <= time
  <2>1. a.valid[f] \in Validity /\ a.valid[f].updated <= time
    BY DEF Aircraft, DatedBy
  <2>2. b.valid[f] = IF f \in Answered(a, r, now) THEN Promoted(AcceptedFrom(SourceInvalid, now))
                     ELSE IF f \in DOMAIN r.value THEN Promoted(a.valid[f]) ELSE a.valid[f]
    BY DEF Replied, Aircraft
  <2>3. CASE f \in Answered(a, r, now)
    <3>1. Promoted(AcceptedFrom(SourceInvalid, now)).updated = now
      BY DEF Promoted, AcceptedFrom
    <3> HIDE DEF b
    <3> QED
      BY <2>2, <2>3, <3>1 DEF KeptOrNew
  <2>4. CASE f \notin Answered(a, r, now)
    <3>1. b.born[f] = a.born[f]
      BY <2>4 DEF Replied, Aircraft
    <3>2. f \in DOMAIN r.value => a.valid[f].source # SourceInvalid
      BY <2>1, <2>4 DEF Answered, Rejects, SourceInvalid, DataSource, Validity
    <3>3. f \in DOMAIN r.value => Promoted(a.valid[f]) = a.valid[f]
      BY <3>2 DEF Promoted
    <3> HIDE DEF b
    <3> QED
      BY <2>1, <2>2, <2>4, <3>1, <3>3 DEF KeptOrNew
  <2> QED
    BY <2>3, <2>4
<1>2. b \in Aircraft
  BY ReplyEffect
<1> QED
  BY <1>1, <1>2 DEF DatedBy

LEMMA ExpiredDates ==
    ASSUME NEW a \in Aircraft, NEW time \in Nat, NEW now \in Nat, DatedBy(a, time)
    PROVE  /\ Expired(a, now) \in Aircraft
           /\ DatedBy(Expired(a, now), time)
           /\ \A f \in Fields : KeptOrNew(a, Expired(a, now), f, now)
<1> DEFINE b == Expired(a, now)
<1>1. b \in Aircraft /\ b.born = a.born
  BY ExpiredEffect
<1>2. ASSUME NEW f \in Fields
      PROVE  KeptOrNew(a, b, f, now) /\ b.valid[f].updated <= time
  <2>1. a.valid[f] \in Validity /\ a.valid[f].updated <= time
    BY DEF Aircraft, DatedBy
  <2>2. b.valid[f] = a.valid[f] \/ b.valid[f] = Invalidated(a.valid[f])
    BY ExpiredEffect DEF ExpireField
  <2>3. /\ Invalidated(a.valid[f]).updated = a.valid[f].updated
        /\ Invalidated(a.valid[f]).source = SourceInvalid
    BY <2>1, InvalidatedDate
  <2> HIDE DEF b
  <2> QED
    BY <1>1, <2>1, <2>2, <2>3 DEF KeptOrNew
<1> QED
  BY <1>1, <1>2 DEF DatedBy

\* Matching dates nothing.
LEMMA MatchDates ==
    ASSUME NEW D, NEW ac \in [D -> Aircraft], NEW X \in SUBSET D, NEW n \in Nat,
           NEW rank \in [X -> 1 .. n], NEW z \in D
    PROVE  LET new == matchModeACWithModeS(ac, X, rank)
           IN  /\ new[z] \in Aircraft /\ Restarted(new[z]) \in Aircraft
               /\ new[z].valid = ac[z].valid /\ new[z].born = ac[z].born
               /\ Restarted(new[z]).valid = ac[z].valid /\ Restarted(new[z]).born = ac[z].born
<1> DEFINE new == matchModeACWithModeS(ac, X, rank)
<1>1. new[z] \in Aircraft /\ new[z].valid = ac[z].valid /\ new[z].born = ac[z].born
  BY MatchEffect
<1> HIDE DEF new
<1> QED
  BY <1>1, RestartedEffect DEF new

\* What a step of the tracker may do to the dates.  A reading of the clock that is used now
\* is not older than the wait for the lock.
KeptOrRecent(a, b, f, time) ==
    \/ b.valid[f] = a.valid[f] /\ b.born[f] = a.born[f]
    \/ b.valid[f].updated >= time - MaxLag
    \/ b.valid[f].source = SourceInvalid

LEMMA MessageDates ==
    ASSUME IInv, Dated, NEW h \in Handlers, NEW m \in Message, UpdateFromMessage(h, m)
    PROVE  /\ Dated'
           /\ DOMAIN aircraft \subseteq DOMAIN aircraft'
           /\ \A x \in DOMAIN aircraft, f \in Scalars \ {"altitudeGNSS"} :
                 KeptOrRecent(aircraft[x], aircraft'[x], f, clock)
<1> DEFINE now == reading[h]
           old == IF m.addr \in DOMAIN aircraft THEN aircraft[m.addr]
                  ELSE createAircraft(m.addrType)
           new == DeriveGNSS(Store(old, m, now), now)
<1>1. /\ now \in Nat /\ now <= clock /\ clock <= now + MaxLag /\ clock \in Nat
      /\ UNCHANGED clock
  BY HandlerReading DEF UpdateFromMessage, IInv, TypeOK, RecentReading
<1>2. old \in Aircraft /\ DatedBy(old, clock)
  <2>1. createAircraft(m.addrType) \in Aircraft
    BY CreatedType, MessageFacts
  <2>2. DatedBy(createAircraft(m.addrType), clock)
    BY <1>1 DEF DatedBy, createAircraft, NoData
  <2> QED
    BY <2>1, <2>2 DEF IInv, TypeOK, Dated
<1>3. PICK b \in IF m.CPRValid THEN updatePosition(new, m, now) ELSE {new} :
         aircraft' = With(aircraft, m.addr, b)
  BY DEF UpdateFromMessage
<1>4. m.addr \in DOMAIN aircraft => old = aircraft[m.addr]
  OBVIOUS
<1> HIDE DEF old, now
<1>5. /\ new \in Aircraft /\ DatedBy(new, clock)
      /\ \A f \in Fields \ {"altitudeGNSS"} : KeptOrNew(old, new, f, now)
  BY <1>1, <1>2, StoreDates
<1> HIDE DEF new
<1>6. /\ DatedBy(b, clock)
      /\ \A f \in Scalars : b.valid[f] = new.valid[f] /\ b.born[f] = new.born[f]
  <2>1. CASE m.CPRValid
    <3>1. b \in updatePosition(new, m, now)
      BY <1>3, <2>1
    <3> QED
      BY <1>1, <1>5, <3>1, PositionDates
  <2>2. CASE ~m.CPRValid
    BY <1>3, <1>5, <2>2
  <2> QED
    BY <2>1, <2>2
<1>7. ASSUME NEW f \in Scalars \ {"altitudeGNSS"}
      PROVE  KeptOrRecent(old, b, f, clock)
  <2>1. KeptOrNew(old, new, f, now)
    BY <1>5, FieldFacts
  <2>2. b.valid[f] = new.valid[f] /\ b.born[f] = new.born[f]
    BY <1>6
  <2>3. now >= clock - MaxLag
    BY <1>1, TrackerAssumption DEF TrackerAssumption
  <2> QED
    BY <2>1, <2>2, <2>3 DEF KeptOrNew, KeptOrRecent
<1>8. /\ DOMAIN aircraft' = DOMAIN aircraft \cup {m.addr}
      /\ aircraft'[m.addr] = b
      /\ \A x \in DOMAIN aircraft \ {m.addr} : aircraft'[x] = aircraft[x]
  BY <1>3 DEF With
<1>9. Dated'
  BY <1>1, <1>6, <1>8 DEF Dated
<1>10. \A x \in DOMAIN aircraft, f \in Scalars \ {"altitudeGNSS"} :
          KeptOrRecent(aircraft[x], aircraft'[x], f, clock)
  BY <1>4, <1>7, <1>8 DEF KeptOrRecent
<1> QED
  BY <1>8, <1>9, <1>10

LEMMA AnswerDates ==
    ASSUME IInv, Dated, NEW h \in Handlers, NEW r \in Reply, UpdateFromModeAC(h, r)
    PROVE  /\ Dated'
           /\ DOMAIN aircraft \subseteq DOMAIN aircraft'
           /\ \A x \in DOMAIN aircraft, f \in Scalars \ {"altitudeGNSS"} :
                 KeptOrRecent(aircraft[x], aircraft'[x], f, clock)
<1> DEFINE now == reading[h]
           old == IF r.addr \in DOMAIN aircraft THEN aircraft[r.addr]
                  ELSE [createAircraft(0) EXCEPT !.flags = {"flag"}]
           replied == Replied(old, r, now)
           all == With(aircraft, r.addr, replied)
           rank == [x \in {r.addr} |-> 1]
           matched == matchModeACWithModeS(all, {r.addr}, rank)
<1>1. /\ now \in Nat /\ now <= clock /\ clock <= now + MaxLag /\ clock \in Nat
      /\ UNCHANGED clock
  BY HandlerReading DEF UpdateFromModeAC, IInv, TypeOK, RecentReading
<1>2. old \in Aircraft /\ DatedBy(old, clock)
  <2>1. createAircraft(0) \in Aircraft
    BY CreatedType DEF AddrTypes
  <2>2. [createAircraft(0) EXCEPT !.flags = {"flag"}] \in Aircraft
    BY <2>1 DEF Aircraft, Flags
  <2>3. DatedBy([createAircraft(0) EXCEPT !.flags = {"flag"}], clock)
    BY <1>1 DEF DatedBy, createAircraft, NoData
  <2> QED
    BY <2>2, <2>3 DEF IInv, TypeOK, Dated
<1>3. aircraft' = [matched EXCEPT ![r.addr] = Restarted(@)]
  BY DEF UpdateFromModeAC
<1>4. r.addr \in DOMAIN aircraft => old = aircraft[r.addr]
  OBVIOUS
<1> HIDE DEF old, now
<1>5. /\ replied \in Aircraft /\ DatedBy(replied, clock)
      /\ \A f \in Fields : KeptOrNew(old, replied, f, now)
  BY <1>1, <1>2, ReplyDates
<1> HIDE DEF replied
<1>6. /\ DOMAIN all = DOMAIN aircraft \cup {r.addr}
      /\ all \in [DOMAIN all -> Aircraft]
      /\ all[r.addr] = replied
      /\ \A x \in DOMAIN aircraft \ {r.addr} : all[x] = aircraft[x]
  <2>1. aircraft \in [DOMAIN aircraft -> Aircraft]
    BY DEF IInv, TypeOK
  <2>2. /\ all \in [DOMAIN aircraft \cup {r.addr} -> Aircraft]
        /\ all[r.addr] = replied
        /\ \A x \in DOMAIN aircraft \ {r.addr} : all[x] = aircraft[x]
    BY <1>5, <2>1 DEF With
  <2> HIDE DEF all
  <2> QED
    BY <2>2
<1>7. {r.addr} \in SUBSET DOMAIN all /\ rank \in [{r.addr} -> 1 .. 1] /\ 1 \in Nat
  BY <1>6
<1> HIDE DEF all, rank
<1>8. ASSUME NEW x \in DOMAIN all
      PROVE  /\ matched[x].valid = all[x].valid /\ matched[x].born = all[x].born
             /\ Restarted(matched[x]).valid = all[x].valid
             /\ Restarted(matched[x]).born = all[x].born
  BY <1>6, <1>7, MatchDates
<1>9. DOMAIN matched = DOMAIN all
  BY DEF matchModeACWithModeS
<1> HIDE DEF matched
<1>10. /\ DOMAIN aircraft' = DOMAIN all
       /\ \A x \in DOMAIN all :
             aircraft'[x].valid = all[x].valid /\ aircraft'[x].born = all[x].born
  BY <1>3, <1>6, <1>8, <1>9
<1>11. ASSUME NEW f \in Fields PROVE KeptOrRecent(old, replied, f, clock)
  <2>1. now >= clock - MaxLag
    BY <1>1, TrackerAssumption DEF TrackerAssumption
  <2> QED
    BY <1>5, <2>1 DEF KeptOrNew, KeptOrRecent
<1>12. Dated'
  BY <1>1, <1>5, <1>6, <1>10 DEF Dated, DatedBy
<1>13. ASSUME NEW x \in DOMAIN aircraft, NEW f \in Scalars \ {"altitudeGNSS"}
       PROVE  KeptOrRecent(aircraft[x], aircraft'[x], f, clock)
  <2>1. f \in Fields
    BY FieldFacts
  <2> QED
    BY <1>4, <1>6, <1>10, <1>11, <2>1 DEF KeptOrRecent
<1> QED
  BY <1>6, <1>10, <1>12, <1>13

LEMMA SweepDates ==
    ASSUME IInv, Dated, PeriodicUpdate
    PROVE  /\ Dated'
           /\ \A x \in DOMAIN aircraft \cap DOMAIN aircraft', f \in Scalars \ {"altitudeGNSS"} :
                 KeptOrRecent(aircraft[x], aircraft'[x], f, clock)
<1> DEFINE D == DOMAIN aircraft \ Gone(aircraft, sweep)
           kept == [x \in D |-> Expired(aircraft[x], sweep)]
           X == Synthetic(kept)
           n == Cardinality(X)
<1>1. /\ sweep \in Nat /\ clock \in Nat /\ sweep <= clock /\ clock <= sweep + MaxLag
      /\ UNCHANGED clock
  BY DEF PeriodicUpdate, IInv, TypeOK, ReadingsRecent
<1>2. PICK rank \in Rankings(X) : aircraft' = matchModeACWithModeS(kept, X, rank)
  BY DEF PeriodicUpdate
<1>3. ASSUME NEW x \in D
      PROVE  /\ kept[x] \in Aircraft /\ DatedBy(kept[x], clock)
             /\ \A f \in Fields : KeptOrNew(aircraft[x], kept[x], f, sweep)
  <2>1. aircraft[x] \in Aircraft /\ DatedBy(aircraft[x], clock)
    BY DEF IInv, TypeOK, Dated
  <2>2. kept[x] = Expired(aircraft[x], sweep)
    OBVIOUS
  <2> HIDE DEF kept
  <2> QED
    BY <1>1, <2>1, <2>2, ExpiredDates
<1>4. kept \in [D -> Aircraft]
  BY <1>3
<1>5. X \in SUBSET D /\ n \in Nat /\ rank \in [X -> 1 .. n]
  <2>1. X \subseteq D
    BY DEF Synthetic
  <2>2. IsFiniteSet(D)
    BY FS_Subset DEF IInv
  <2>3. n \in Nat
    BY <2>1, <2>2, FS_Subset, FS_CardinalityType
  <2> QED
    BY <2>1, <2>3 DEF Rankings
<1>6. DOMAIN aircraft' = D
  BY <1>2 DEF matchModeACWithModeS
<1> HIDE DEF kept, X, n
<1>7. ASSUME NEW x \in D
      PROVE  aircraft'[x].valid = kept[x].valid /\ aircraft'[x].born = kept[x].born
  BY <1>2, <1>4, <1>5, MatchDates
<1> HIDE DEF D
<1>8. Dated'
  BY <1>1, <1>3, <1>6, <1>7 DEF Dated, DatedBy
<1>9. ASSUME NEW x \in D, NEW f \in Scalars \ {"altitudeGNSS"}
      PROVE  KeptOrRecent(aircraft[x], aircraft'[x], f, clock)
  <2>1. KeptOrNew(aircraft[x], kept[x], f, sweep)
    BY <1>3, FieldFacts
  <2>2. sweep >= clock - MaxLag
    BY <1>1, TrackerAssumption DEF TrackerAssumption
  <2> QED
    BY <1>7, <2>1, <2>2 DEF KeptOrNew, KeptOrRecent
<1> QED
  BY <1>6, <1>8, <1>9

-----------------------------------------------------------------------------
(* The invariant is inductive. *)

LEMMA FATSVIsTracker == FATSVNext => [Next]_vars
BY DEF FATSVNext, Handle, SweepStart, SweepEnd, ReadClock, Format, Mark, Pass, Next, vars

LEMMA NotEmittedType ==
    /\ NotEmitted \in FATSVPart /\ NotEmitted.value \in [Kept -> Int]
    /\ NotEmitted.last <= 0
BY FATSVAssumption DEF NotEmitted, FATSVPart, LongAgo, FATSVAssumption

\* What the steps that records come, go or change with have in common.
LEMMA Following ==
    ASSUME IInv, FATSVInv, Handle \/ SweepEnd
    PROVE  /\ Follow
           /\ UNCHANGED <<clock, round, pending>>
           /\ Dated' /\ StageInv'
           /\ stage' = stage \/ (stage' = "read" /\ DOMAIN pending = {})
           /\ stage' \in {"sweep", "read", "copy", "mark"}
           /\ \A x \in DOMAIN aircraft \cap DOMAIN aircraft', f \in Direct :
                 KeptOrRecent(aircraft[x], aircraft'[x], f, clock)
<1>1. Dated /\ Direct \subseteq Scalars \ {"altitudeGNSS"}
  BY ColumnFacts DEF FATSVInv, DatesInv
<1>2. CASE Handle
  <2>1. /\ Follow /\ UNCHANGED <<stage, round, pending>>
        /\ UNCHANGED <<clock, sweep>>
    BY <1>2 DEF Handle, TakeTime, UpdateFromMessage, UpdateFromModeAC
  <2>2. /\ Dated' /\ DOMAIN aircraft \subseteq DOMAIN aircraft'
        /\ \A x \in DOMAIN aircraft, f \in Scalars \ {"altitudeGNSS"} :
              KeptOrRecent(aircraft[x], aircraft'[x], f, clock)
    <3>1. CASE \E h \in Handlers : TakeTime(h)
      BY <1>1, <3>1 DEF TakeTime, Dated, KeptOrRecent
    <3>2. CASE \E h \in Handlers, m \in Message : UpdateFromMessage(h, m)
      BY <1>1, <3>2, MessageDates
    <3>3. CASE \E h \in Handlers, r \in Reply : UpdateFromModeAC(h, r)
      BY <1>1, <3>3, AnswerDates
    <3> QED
      BY <1>2, <3>1, <3>2, <3>3 DEF Handle
  <2>3. StageInv'
    BY <2>1, <2>2 DEF FATSVInv, StageInv
  <2> QED
    BY <1>1, <2>1, <2>2, <2>3 DEF FATSVInv, FATSVTypeOK
<1>3. CASE SweepEnd
  <2>1. /\ Follow /\ UNCHANGED <<round, pending>> /\ stage' = "read"
        /\ UNCHANGED clock /\ sweep # Never /\ sweep' = Never
    BY <1>3 DEF SweepEnd, PeriodicUpdate
  <2>2. /\ Dated'
        /\ \A x \in DOMAIN aircraft \cap DOMAIN aircraft', f \in Scalars \ {"altitudeGNSS"} :
              KeptOrRecent(aircraft[x], aircraft'[x], f, clock)
    BY <1>1, <1>3, SweepDates DEF SweepEnd
  <2>3. StageInv' /\ DOMAIN pending = {}
    BY <2>1 DEF FATSVInv, StageInv
  <2> QED
    BY <1>1, <2>1, <2>2, <2>3
<1> QED
  BY <1>2, <1>3

\* A datum that a step did not renew is what it was, and was written as often.
LEMMA NotRenewed ==
    ASSUME FATSVTypeOK, Follow, NEW x \in DOMAIN aircraft', NEW f \in Columns
    PROVE  \/ copies'[x][f] = 0
           \/ /\ x \in DOMAIN aircraft /\ copies'[x][f] = copies[x][f]
              /\ aircraft'[x].valid[f] = aircraft[x].valid[f]
BY DEF Follow, Renewed

LEMMA FollowStep ==
    ASSUME IInv, FATSVInv, Handle \/ SweepEnd
    PROVE  FATSVInv'
<1>1. /\ Follow
      /\ UNCHANGED <<clock, round, pending>>
      /\ Dated' /\ StageInv'
      /\ stage' = stage \/ (stage' = "read" /\ DOMAIN pending = {})
      /\ stage' \in {"sweep", "read", "copy", "mark"}
      /\ \A x \in DOMAIN aircraft \cap DOMAIN aircraft', f \in Direct :
            KeptOrRecent(aircraft[x], aircraft'[x], f, clock)
  BY Following
<1>2. /\ FATSVTypeOK /\ StageInv /\ DatesInv /\ ShownInv /\ TwiceInv /\ LateInv
  BY DEF FATSVInv
<1>3. /\ emitted' = [x \in DOMAIN aircraft' |->
                        IF x \in DOMAIN aircraft THEN emitted[x] ELSE NotEmitted]
      /\ shown' = [x \in DOMAIN aircraft' |->
                      IF x \in DOMAIN aircraft THEN shown[x] ELSE NotEmitted.value]
      /\ copies' = [x \in DOMAIN aircraft' |-> [f \in Columns |->
                       IF Renewed(x, f) THEN 0 ELSE copies[x][f]]]
  BY <1>1 DEF Follow
<1>4. FATSVTypeOK'
  <2>1. emitted' \in [DOMAIN aircraft' -> FATSVPart] /\ shown' \in [DOMAIN aircraft' -> [Kept -> Int]]
    BY <1>2, <1>3, NotEmittedType DEF FATSVTypeOK
  <2>2. ASSUME NEW x \in DOMAIN aircraft', NEW f \in Columns
        PROVE  (IF Renewed(x, f) THEN 0 ELSE copies[x][f]) \in Nat
    BY <1>2 DEF FATSVTypeOK, Renewed
  <2>3. copies' \in [DOMAIN aircraft' -> [Columns -> Nat]]
    BY <1>3, <2>2
  <2> QED
    BY <1>1, <1>2, <2>1, <2>3 DEF FATSVTypeOK
<1>5. DatesInv'
  <2>1. round \in Nat /\ NotEmitted.last \in Int
    BY <1>2, NotEmittedType DEF FATSVTypeOK, FATSVPart
  <2>2. \A x \in DOMAIN aircraft' : emitted'[x].last <= round
    BY <1>2, <1>3, <2>1, NotEmittedType DEF DatesInv
  <2> QED
    BY <1>1, <1>2, <2>2 DEF DatesInv
<1>6. ShownInv'
  <2>1. DOMAIN pending \subseteq DOMAIN aircraft /\ DOMAIN pending \subseteq DOMAIN aircraft'
    BY <1>1, <1>2 DEF StageInv
  <2>2. \A x \in DOMAIN pending : pending[x].value = shown'[x]
    BY <1>2, <1>3, <2>1 DEF ShownInv
  <2>3. \A x \in DOMAIN aircraft' \ DOMAIN pending : emitted'[x].value = shown'[x]
    BY <1>2, <1>3 DEF ShownInv, DetectsChanges
  <2> QED
    BY <1>1, <2>2, <2>3 DEF ShownInv, DetectsChanges
<1>7. TwiceInv'
  <2> SUFFICES ASSUME NEW x \in DOMAIN aircraft', NEW f \in Columns
               PROVE  /\ copies'[x][f] <= 2
                      /\ copies'[x][f] = 2 => aircraft'[x].valid[f].updated <= LastLine(x)'
                      /\ copies'[x][f] >= 1 /\ stage' = "copy" =>
                            aircraft'[x].valid[f].updated <= round'
    BY DEF TwiceInv
  <2>1. CASE copies'[x][f] = 0
    BY <2>1
  <2>2. CASE /\ x \in DOMAIN aircraft /\ copies'[x][f] = copies[x][f]
             /\ aircraft'[x].valid[f] = aircraft[x].valid[f]
    <3>1. LastLine(x)' = LastLine(x)
      BY <1>1, <1>3, <2>2 DEF LastLine
    <3> QED
      BY <1>1, <1>2, <2>2, <3>1 DEF TwiceInv
  <2> QED
    BY <1>1, <1>2, <2>1, <2>2, NotRenewed
<1>8. LateInv'
  <2> SUFFICES ASSUME NEW x \in DOMAIN pending, NEW f \in Direct,
                      copies'[x][f] = 0,
                      aircraft'[x].valid[f].updated > emitted'[x].last,
                      Fresh15(aircraft'[x], f, clock),
                      aircraft'[x].valid[f].source >= SourceModeSChecked
               PROVE  aircraft'[x].valid[f].updated >= round - MaxLag
    BY <1>1 DEF LateInv
  <2>1. /\ x \in DOMAIN aircraft /\ x \in DOMAIN aircraft' /\ f \in Columns
        /\ round <= clock
    BY <1>1, <1>2, ColumnFacts DEF StageInv
  <2>2. KeptOrRecent(aircraft[x], aircraft'[x], f, clock)
    BY <1>1, <2>1
  <2>3. CASE aircraft'[x].valid[f] = aircraft[x].valid[f] /\ aircraft'[x].born[f] = aircraft[x].born[f]
    <3>1. copies[x][f] = 0 /\ emitted'[x] = emitted[x]
      BY <1>3, <2>1, <2>3 DEF Renewed
    <3>2. Fresh15(aircraft[x], f, clock)
      BY <2>3 DEF Fresh15
    <3> QED
      BY <1>2, <2>3, <3>1, <3>2 DEF LateInv
  <2>4. CASE aircraft'[x].valid[f].updated >= clock - MaxLag
    <3>1. /\ round \in Nat /\ clock \in Nat /\ MaxLag \in Nat
          /\ aircraft'[x].valid[f].updated \in Nat
      <4>1. IInv'
        BY NextIInv, FATSVIsTracker DEF FATSVNext
      <4>2. aircraft'[x] \in Aircraft /\ f \in Fields
        BY <2>1, <4>1, ColumnFacts DEF IInv, TypeOK
      <4>3. aircraft'[x].valid[f] \in Validity
        BY <4>2 DEF Aircraft
      <4> QED
        BY <1>2, <4>3, TrackerAssumption DEF IInv, TypeOK, FATSVTypeOK, Validity, TrackerAssumption
    <3> QED
      BY <2>1, <2>4, <3>1
  <2>5. CASE aircraft'[x].valid[f].source = SourceInvalid
    BY <2>5 DEF SourceInvalid, SourceModeSChecked
  <2> QED
    BY <2>2, <2>3, <2>4, <2>5 DEF KeptOrRecent
<1> QED
  BY <1>1, <1>4, <1>5, <1>6, <1>7, <1>8 DEF FATSVInv

\* What the lines of a round are made of, and what they leave to be written.
LEMMA LineFacts ==
    ASSUME NEW a, NEW e, NEW now
    PROVE  /\ \A f \in Written(a, e, now) : f \in Columns /\ a.valid[f].updated > e.last
           /\ Written(a, e, now) # {} =>
                 Written(a, e, now) = {f \in Columns : /\ Usable(a, f, now)
                                                       /\ a.valid[f].updated > e.last
                                                       /\ Worth(a, f)}
BY DEF Written, Line

\* What is fresh stays so when the clock is set back, and what is trusted may always be written.
LEMMA DirectUsable ==
    ASSUME NEW a \in Aircraft, NEW f \in Direct, NEW now \in Nat, NEW time \in Nat, now <= time,
           Fresh15(a, f, time), a.valid[f].source >= SourceModeSChecked
    PROVE  Usable(a, f, now) /\ Worth(a, f)
<1>1. a.valid[f].updated \in Nat /\ FreshFor \in Nat
  BY ColumnFacts, FATSVAssumption DEF Aircraft, Validity, FATSVAssumption
<1>2. Fresh15(a, f, now)
  BY <1>1 DEF Fresh15
<1>3. Worth(a, f)
  BY DEF Worth, Direct
<1> QED
  BY <1>2, <1>3 DEF Usable

LEMMA FormatStep ==
    ASSUME IInv, FATSVInv, Format
    PROVE  FATSVInv'
<1> DEFINE line == [x \in DOMAIN aircraft |-> Written(aircraft[x], emitted[x], round)]
           lines == MarkedLines(line)
<1>1. /\ stage = "copy"
      /\ pending' = [x \in lines |-> State(aircraft[x], emitted[x], line[x], round)]
      /\ copies' = [x \in DOMAIN aircraft |-> [f \in Columns |->
                       copies[x][f] + IF f \in line[x] THEN 1 ELSE 0]]
      /\ shown' = [x \in DOMAIN aircraft |-> [f \in Kept |->
                      IF f \in line[x] THEN aircraft[x].value[f] ELSE shown[x][f]]]
      /\ stage' = IF lines = {} THEN "sweep" ELSE "mark"
      /\ UNCHANGED <<aircraft, clock, sweep, emitted, round>>
  BY DEF Format, vars
<1>2. /\ FATSVTypeOK /\ StageInv /\ DatesInv /\ ShownInv /\ TwiceInv /\ LateInv
      /\ DOMAIN pending = {} /\ round \in Nat /\ clock \in Nat /\ round <= clock
  BY <1>1 DEF FATSVInv, FATSVTypeOK, StageInv, IInv, TypeOK
<1>3. lines = {x \in DOMAIN aircraft : line[x] # {}} /\ lines \subseteq DOMAIN aircraft
  BY DEF MarkedLines
<1>4. ASSUME NEW x \in DOMAIN aircraft
      PROVE  /\ \A f \in line[x] : f \in Columns /\ aircraft[x].valid[f].updated > emitted[x].last
             /\ line[x] # {} =>
                   line[x] = {f \in Columns : /\ Usable(aircraft[x], f, round)
                                              /\ aircraft[x].valid[f].updated > emitted[x].last
                                              /\ Worth(aircraft[x], f)}
  BY LineFacts
<1>5. ASSUME NEW x \in DOMAIN aircraft
      PROVE  /\ aircraft[x] \in Aircraft /\ emitted[x] \in FATSVPart
             /\ emitted[x].value = shown[x]
             /\ copies[x] \in [Columns -> Nat] /\ shown[x] \in [Kept -> Int]
  BY <1>2 DEF FATSVTypeOK, ShownInv, DetectsChanges, IInv, TypeOK
<1> HIDE DEF line, lines
<1>6. FATSVTypeOK'
  <2>1. ASSUME NEW x \in DOMAIN aircraft
        PROVE  /\ State(aircraft[x], emitted[x], line[x], round) \in FATSVPart
               /\ [f \in Kept |-> IF f \in line[x] THEN aircraft[x].value[f] ELSE shown[x][f]]
                     \in [Kept -> Int]
    <3>1. \A f \in Kept : /\ aircraft[x].value[f] \in Int /\ shown[x][f] \in Int
                          /\ emitted[x].value[f] \in Int
      BY <1>5, ColumnFacts DEF Aircraft
    <3> QED
      BY <1>2, <3>1 DEF State, FATSVPart
  <2>2. copies' \in [DOMAIN aircraft -> [Columns -> Nat]]
    BY <1>1, <1>5
  <2>3. pending' \in [lines -> FATSVPart] /\ shown' \in [DOMAIN aircraft -> [Kept -> Int]]
    BY <1>1, <1>3, <2>1
  <2> QED
    BY <1>1, <1>2, <2>2, <2>3 DEF FATSVTypeOK
<1>7. StageInv'
  BY <1>1, <1>2, <1>3 DEF StageInv
<1>8. DatesInv'
  BY <1>1, <1>2 DEF DatesInv, Dated, State
<1>9. ShownInv'
  <2>1. ASSUME NEW x \in lines PROVE pending'[x].value = shown'[x]
    BY <1>1, <1>3, <1>5 DEF State
  <2>2. ASSUME NEW x \in DOMAIN aircraft \ lines PROVE emitted[x].value = shown'[x]
    <3>1. line[x] = {}
      BY <1>3
    <3>2. shown'[x] = [f \in Kept |-> shown[x][f]]
      BY <1>1, <3>1
    <3> QED
      BY <1>5, <3>2
  <2> QED
    BY <1>1, <2>1, <2>2 DEF ShownInv, DetectsChanges
<1>10. TwiceInv'
  <2> SUFFICES ASSUME NEW x \in DOMAIN aircraft, NEW f \in Columns
               PROVE  /\ copies'[x][f] <= 2
                      /\ copies'[x][f] = 2 => aircraft[x].valid[f].updated <= LastLine(x)'
    BY <1>1 DEF TwiceInv
  <2>1. /\ copies[x][f] \in Nat /\ copies[x][f] <= 2
        /\ copies[x][f] = 2 => aircraft[x].valid[f].updated <= emitted[x].last
        /\ copies[x][f] >= 1 => aircraft[x].valid[f].updated <= round
    BY <1>1, <1>2, <1>5 DEF TwiceInv, LastLine
  <2>2. copies'[x][f] = copies[x][f] + IF f \in line[x] THEN 1 ELSE 0
    BY <1>1
  <2>3. LastLine(x)' = IF x \in lines THEN round ELSE emitted[x].last
    BY <1>1 DEF LastLine, State
  <2>4. aircraft[x].valid[f].updated \in Nat /\ emitted[x].last \in Int
    BY <1>5, ColumnFacts DEF Aircraft, Validity, FATSVPart
  <2>5. CASE f \in line[x]
    <3>1. aircraft[x].valid[f].updated > emitted[x].last /\ x \in lines
      BY <1>3, <1>4, <2>5
    <3>2. copies[x][f] # 2
      BY <2>1, <2>4, <3>1
    <3> QED
      BY <2>1, <2>2, <2>3, <2>5, <3>1, <3>2
  <2>6. CASE f \notin line[x]
    <3>1. copies'[x][f] = copies[x][f]
      BY <2>1, <2>2, <2>6
    <3> QED
      BY <2>1, <2>3, <3>1
  <2> QED
    BY <2>5, <2>6
<1>11. LateInv'
  <2> SUFFICES ASSUME NEW x \in lines, NEW f \in Direct,
                      copies'[x][f] = 0, aircraft[x].valid[f].updated > emitted[x].last,
                      Fresh15(aircraft[x], f, clock),
                      aircraft[x].valid[f].source >= SourceModeSChecked
               PROVE  FALSE
    BY <1>1 DEF LateInv
  <2>1. x \in DOMAIN aircraft /\ line[x] # {} /\ f \in Columns
    BY <1>3, ColumnFacts
  <2>2. Usable(aircraft[x], f, round) /\ Worth(aircraft[x], f)
    BY <1>2, <1>5, <2>1, DirectUsable
  <2>3. f \in line[x]
    BY <1>4, <2>1, <2>2
  <2>4. copies'[x][f] = copies[x][f] + 1 /\ copies[x][f] \in Nat
    BY <1>1, <1>5, <2>1, <2>3
  <2> QED
    BY <2>4
<1> QED
  BY <1>6, <1>7, <1>8, <1>9, <1>10, <1>11 DEF FATSVInv

LEMMA MarkStep ==
    ASSUME IInv, FATSVInv, NEW x \in DOMAIN pending, Mark(x)
    PROVE  FATSVInv'
<1>1. /\ stage = "mark"
      /\ pending' = [y \in DOMAIN pending \ {x} |-> pending[y]]
      /\ stage' = IF DOMAIN pending = {x} THEN "sweep" ELSE "mark"
      /\ UNCHANGED <<aircraft, clock, sweep, round, copies, shown>>
  BY DEF Mark, vars
<1>2. /\ FATSVTypeOK /\ StageInv /\ DatesInv /\ ShownInv /\ TwiceInv /\ LateInv
  BY DEF FATSVInv
<1>3. x \in DOMAIN aircraft /\ emitted' = [emitted EXCEPT ![x] = pending[x]]
  BY <1>2 DEF Mark, Marked, StageInv
<1>4. /\ emitted' \in [DOMAIN aircraft -> FATSVPart]
      /\ emitted'[x] = pending[x]
      /\ \A y \in DOMAIN aircraft \ {x} : emitted'[y] = emitted[y]
  BY <1>2, <1>3 DEF FATSVTypeOK
<1>5. FATSVTypeOK'
  BY <1>1, <1>2, <1>4 DEF FATSVTypeOK
<1>6. StageInv'
  BY <1>1, <1>2 DEF StageInv
<1>7. DatesInv'
  <2>1. round \in Nat
    BY <1>2 DEF FATSVTypeOK
  <2> QED
    BY <1>1, <1>2, <1>3, <1>4, <2>1 DEF DatesInv, Dated
<1>8. ShownInv'
  BY <1>1, <1>2, <1>3, <1>4 DEF ShownInv, DetectsChanges
<1>9. TwiceInv'
  <2>1. ASSUME NEW y \in DOMAIN aircraft PROVE LastLine(y)' = LastLine(y)
    BY <1>1, <1>3, <1>4 DEF LastLine
  <2> QED
    BY <1>1, <1>2, <2>1 DEF TwiceInv
<1>10. LateInv'
  BY <1>1, <1>2, <1>4 DEF LateInv, StageInv
<1> QED
  BY <1>5, <1>6, <1>7, <1>8, <1>9, <1>10 DEF FATSVInv

\* The steps that only read the clock or let time pass.
LEMMA ClockStep ==
    ASSUME IInv, FATSVInv, SweepStart \/ ReadClock \/ Pass
    PROVE  FATSVInv'
<1>1. /\ UNCHANGED <<aircraft, emitted, pending, copies, shown>>
      /\ FATSVTypeOK /\ StageInv /\ DatesInv /\ ShownInv /\ TwiceInv /\ LateInv
      /\ clock \in Nat /\ round \in Nat /\ round <= clock
  BY DEF SweepStart, ReadClock, Pass, SweepCall, Tick, vars, fatsvVars, FATSVInv, FATSVTypeOK,
         StageInv, IInv, TypeOK
<1>2. ASSUME NEW x \in DOMAIN aircraft, NEW f \in Fields
      PROVE  aircraft[x].valid[f].updated \in Nat /\ aircraft[x].valid[f].updated <= clock
  BY <1>1 DEF IInv, TypeOK, Aircraft, Validity, DatesInv, Dated, DatedBy
<1>3. ASSUME NEW x \in DOMAIN aircraft
      PROVE  emitted[x].last \in Int /\ emitted[x].last <= round
  BY <1>1 DEF FATSVTypeOK, FATSVPart, DatesInv
<1>4. ShownInv' /\ (FATSVTypeOK /\ ShownInv)
  BY <1>1 DEF ShownInv, DetectsChanges
<1>5. CASE SweepStart
  <2>1. stage = "sweep" /\ UNCHANGED <<clock, stage, round>>
    BY <1>5 DEF SweepStart, SweepCall, fatsvVars
  <2>2. FATSVTypeOK' /\ StageInv' /\ DatesInv' /\ TwiceInv' /\ LateInv'
    BY <1>1, <2>1 DEF FATSVTypeOK, StageInv, DatesInv, Dated, TwiceInv, LastLine, LateInv
  <2> QED
    BY <1>4, <2>2 DEF FATSVInv
<1>6. CASE ReadClock
  <2>1. stage = "read" /\ stage' = "copy" /\ round' = clock /\ UNCHANGED <<clock, sweep>>
    BY <1>6 DEF ReadClock, vars
  <2>2. DOMAIN pending = {}
    BY <1>1, <2>1 DEF StageInv
  <2>3. FATSVTypeOK' /\ StageInv' /\ LateInv'
    BY <1>1, <2>1, <2>2 DEF FATSVTypeOK, StageInv, LateInv
  <2>4. DatesInv'
    BY <1>1, <1>3, <2>1, <2>2 DEF DatesInv, Dated
  <2>5. TwiceInv'
    BY <1>1, <1>2, <2>1, ColumnFacts DEF TwiceInv, LastLine
  <2> QED
    BY <1>4, <2>3, <2>4, <2>5 DEF FATSVInv
<1>7. CASE Pass
  <2>1. clock' = clock + 1 /\ UNCHANGED <<sweep, stage, round>>
    BY <1>7 DEF Pass, Tick, fatsvVars
  <2>2. FATSVTypeOK' /\ StageInv' /\ TwiceInv'
    BY <1>1, <2>1 DEF FATSVTypeOK, StageInv, TwiceInv, LastLine
  <2>3. DatesInv'
    BY <1>1, <1>2, <2>1 DEF DatesInv, Dated, DatedBy
  <2>4. ASSUME NEW x \in DOMAIN aircraft, NEW f \in Direct, Fresh15(aircraft[x], f, clock + 1)
        PROVE  Fresh15(aircraft[x], f, clock)
    BY <1>1, <1>2, <2>4, ColumnFacts, FATSVAssumption DEF Fresh15, FATSVAssumption
  <2>5. LateInv'
    BY <1>1, <2>1, <2>4 DEF LateInv, StageInv
  <2> QED
    BY <1>4, <2>2, <2>3, <2>5 DEF FATSVInv
<1> QED
  BY <1>5, <1>6, <1>7

LEMMA FATSVNextInv ==
    ASSUME IInv, FATSVInv, [FATSVNext]_allVars
    PROVE  IInv' /\ FATSVInv'
<1>1. IInv'
  BY NextIInv, FATSVIsTracker DEF allVars
<1>2. CASE Handle \/ SweepEnd
  BY <1>1, <1>2, FollowStep
<1>3. CASE Format
  BY <1>1, <1>3, FormatStep
<1>4. CASE \E x \in DOMAIN pending : Mark(x)
  BY <1>1, <1>4, MarkStep
<1>5. CASE SweepStart \/ ReadClock \/ Pass
  BY <1>1, <1>5, ClockStep
<1>6. CASE UNCHANGED allVars
  BY <1>1, <1>6 DEF allVars, fatsvVars, vars, FATSVInv, FATSVTypeOK, StageInv, DatesInv, Dated, ShownInv,
              DetectsChanges, TwiceInv, LastLine, LateInv
<1> QED
  BY <1>1, <1>2, <1>3, <1>4, <1>5, <1>6 DEF FATSVNext

LEMMA InitFATSVInv ==
    ASSUME FATSVInit
    PROVE  IInv /\ FATSVInv
<1>1. IInv
  BY InitIInv DEF FATSVInit
<1>2. /\ DOMAIN aircraft = {} /\ DOMAIN emitted = {} /\ DOMAIN copies = {} /\ DOMAIN shown = {}
      /\ DOMAIN pending = {} /\ round = 0 /\ clock = 0 /\ stage = "sweep"
  BY DEF FATSVInit, Init
<1>3. FATSVTypeOK
  <2>1. /\ emitted \in [DOMAIN aircraft -> FATSVPart]
        /\ copies \in [DOMAIN aircraft -> [Columns -> Nat]]
        /\ shown \in [DOMAIN aircraft -> [Kept -> Int]]
        /\ pending \in [DOMAIN pending -> FATSVPart]
    BY <1>2 DEF FATSVInit
  <2> QED
    BY <1>2, <2>1 DEF FATSVTypeOK
<1>4. StageInv /\ DatesInv /\ ShownInv /\ TwiceInv /\ LateInv
  BY <1>2 DEF StageInv, DatesInv, Dated, ShownInv, DetectsChanges, TwiceInv, LateInv
<1> QED
  BY <1>1, <1>3, <1>4 DEF FATSVInv

LEMMA FATSVInvariance == FATSVSpec => [](IInv /\ FATSVInv)
<1>1. FATSVInit => IInv /\ FATSVInv
  BY InitFATSVInv
<1>2. (IInv /\ FATSVInv) /\ [FATSVNext]_allVars => (IInv /\ FATSVInv)'
  BY FATSVNextInv
<1> QED
  BY <1>1, <1>2, PTL DEF FATSVSpec

-----------------------------------------------------------------------------
(* The theorems. *)

\* The tracker under the periodic output is the tracker: whatever is proved of it holds with
\* the output as well.
THEOREM OutputRefinesTracker == FATSVSpec => Spec
<1>1. FATSVInit => Init
  BY DEF FATSVInit
<1>2. [FATSVNext]_allVars => [Next]_vars
  BY FATSVIsTracker DEF allVars
<1> QED
  BY <1>1, <1>2, PTL DEF FATSVSpec, Spec

\* What change detection compares with is what was written, unless the mark is still to come.
THEOREM ChangesDetected == FATSVSpec => []DetectsChanges
<1>1. IInv /\ FATSVInv => DetectsChanges
  BY DEF FATSVInv, ShownInv
<1> QED
  BY <1>1, FATSVInvariance, PTL

\* A datum is written a second time only if it came between the clock and the copy of its
\* first line, and never a third time.
THEOREM TwiceAtMost == FATSVSpec => []WrittenTwiceAtMost
<1>1. IInv /\ FATSVInv => WrittenTwiceAtMost
  BY DEF FATSVInv, TwiceInv, WrittenTwiceAtMost
<1> QED
  BY <1>1, FATSVInvariance, PTL

\* A fresh value that a message brought is passed over only by a round that was being written
\* when it came, whether the mark comes after it or before it is stored.
THEOREM PassingOverIsBounded == FATSVSpec => PassedOverOnlyInRound
<1> DEFINE Bounded ==
               \A x \in DOMAIN aircraft', f \in Direct :
                 LET v == aircraft'[x].valid[f]
                 IN  /\ PassedOver(x, f)' /\ (Renewed(x, f) \/ ~PassedOver(x, f))
                     /\ Fresh15(aircraft'[x], f, clock') /\ v.source >= SourceModeSChecked
                     => v.updated >= emitted'[x].last - MaxLag
<1>1. ASSUME IInv, FATSVInv, Handle \/ SweepEnd PROVE Bounded
  <2> SUFFICES ASSUME NEW x \in DOMAIN aircraft', NEW f \in Direct,
                      PassedOver(x, f)', Renewed(x, f) \/ ~PassedOver(x, f),
                      aircraft'[x].valid[f].source >= SourceModeSChecked
               PROVE  aircraft'[x].valid[f].updated >= emitted'[x].last - MaxLag
    OBVIOUS
  <2>1. Follow /\ f \in Columns
    BY <1>1, Following, ColumnFacts
  <2>2. /\ IInv' /\ aircraft'[x].valid[f].updated \in Nat
    <3>1. IInv'
      BY <1>1, NextIInv, FATSVIsTracker DEF FATSVNext
    <3>2. aircraft'[x] \in Aircraft /\ f \in Fields
      BY <2>1, <3>1, ColumnFacts DEF IInv, TypeOK
    <3>3. aircraft'[x].valid[f] \in Validity
      BY <3>2 DEF Aircraft
    <3> QED
      BY <3>1, <3>3 DEF Validity
  <2>3. CASE x \notin DOMAIN aircraft
    <3>1. emitted'[x].last = -Age30
      BY <2>1, <2>3 DEF Follow, NotEmitted, LongAgo
    <3> QED
      BY <2>2, <3>1, TrackerAssumption, FATSVAssumption DEF TrackerAssumption, FATSVAssumption
  <2>4. CASE x \in DOMAIN aircraft
    <3>1. KeptOrRecent(aircraft[x], aircraft'[x], f, clock) /\ emitted'[x] = emitted[x]
      BY <1>1, <2>1, <2>4, Following DEF Follow
    <3>2. CASE /\ aircraft'[x].valid[f] = aircraft[x].valid[f]
               /\ aircraft'[x].born[f] = aircraft[x].born[f]
      <4>1. ~Renewed(x, f) /\ copies'[x][f] = copies[x][f]
        BY <2>1, <2>4, <3>2 DEF Follow, Renewed
      <4> QED
        BY <3>1, <3>2, <4>1 DEF PassedOver
    <3>3. CASE aircraft'[x].valid[f].updated >= clock - MaxLag
      <4>1. /\ emitted[x].last \in Int /\ emitted[x].last <= round /\ round <= clock
            /\ round \in Nat /\ clock \in Nat
        BY <1>1, <2>4 DEF FATSVInv, FATSVTypeOK, FATSVPart, DatesInv, StageInv, IInv, TypeOK
      <4> QED
        BY <2>2, <3>1, <3>3, <4>1, TrackerAssumption DEF TrackerAssumption
    <3>4. CASE aircraft'[x].valid[f].source = SourceInvalid
      BY <3>4 DEF SourceInvalid, SourceModeSChecked
    <3> QED
      BY <3>1, <3>2, <3>3, <3>4 DEF KeptOrRecent
  <2> QED
    BY <2>3, <2>4
<1>2. ASSUME IInv, FATSVInv, Format PROVE Bounded
  <2> SUFFICES ASSUME NEW x \in DOMAIN aircraft, NEW f \in Direct,
                      PassedOver(x, f)', Renewed(x, f) \/ ~PassedOver(x, f)
               PROVE  FALSE
    BY <1>2 DEF Format, vars
  <2>1. /\ f \in Columns /\ copies[x][f] \in Nat /\ UNCHANGED <<aircraft, emitted>>
        /\ copies'[x][f] \in {copies[x][f], copies[x][f] + 1}
    BY <1>2, ColumnFacts DEF Format, vars, FATSVInv, FATSVTypeOK
  <2>2. PICK n \in Nat : n = copies[x][f]
    BY <2>1
  <2>3. copies'[x][f] \in {n, n + 1} /\ copies'[x][f] = 0
    BY <2>1, <2>2 DEF PassedOver
  <2>4. copies[x][f] = 0
    BY <2>2, <2>3
  <2>5. ~Renewed(x, f)
    BY <2>1 DEF Renewed
  <2> QED
    BY <2>1, <2>4, <2>5 DEF PassedOver
<1>3. ASSUME IInv, FATSVInv, NEW y \in DOMAIN pending, Mark(y) PROVE Bounded
  <2> SUFFICES ASSUME NEW x \in DOMAIN aircraft, NEW f \in Direct,
                      PassedOver(x, f)', Renewed(x, f) \/ ~PassedOver(x, f),
                      Fresh15(aircraft[x], f, clock),
                      aircraft[x].valid[f].source >= SourceModeSChecked
               PROVE  aircraft[x].valid[f].updated >= emitted'[x].last - MaxLag
    BY <1>3 DEF Mark, vars
  <2>1. /\ UNCHANGED <<aircraft, copies>> /\ copies[x][f] \in Nat
        /\ emitted'[x] = IF x = y THEN pending[x] ELSE emitted[x]
    BY <1>3, ColumnFacts DEF Mark, Marked, vars, FATSVInv, FATSVTypeOK, StageInv
  <2>2. ~PassedOver(x, f) /\ copies[x][f] = 0
    BY <2>1 DEF PassedOver, Renewed
  <2>3. aircraft[x].valid[f].updated \in Nat /\ emitted[x].last \in Int
    <3>1. aircraft[x] \in Aircraft /\ f \in Fields /\ emitted[x] \in FATSVPart
      BY <1>3, ColumnFacts DEF IInv, TypeOK, FATSVInv, FATSVTypeOK
    <3>2. aircraft[x].valid[f] \in Validity
      BY <3>1 DEF Aircraft
    <3> QED
      BY <3>1, <3>2 DEF Validity, FATSVPart
  <2>4. x = y /\ aircraft[x].valid[f].updated > emitted[x].last
    BY <2>1, <2>2, <2>3 DEF PassedOver
  <2>5. emitted'[x].last = round
    BY <1>3, <2>1, <2>4 DEF FATSVInv, DatesInv
  <2>6. aircraft[x].valid[f].updated >= round - MaxLag
    BY <1>3, <2>2, <2>4 DEF FATSVInv, LateInv
  <2> QED
    BY <2>5, <2>6
<1>4. ASSUME SweepStart \/ ReadClock \/ Pass \/ UNCHANGED allVars PROVE Bounded
  <2>1. UNCHANGED <<aircraft, emitted, copies>>
    BY <1>4 DEF SweepStart, ReadClock, Pass, SweepCall, Tick, vars, fatsvVars, allVars
  <2> QED
    BY <2>1 DEF PassedOver, Renewed
<1>5. IInv /\ FATSVInv /\ [FATSVNext]_allVars => [Bounded]_allVars
  BY <1>1, <1>2, <1>3, <1>4 DEF FATSVNext
<1> QED
  BY <1>5, FATSVInvariance, PTL DEF FATSVSpec, PassedOverOnlyInRound

=============================================================================

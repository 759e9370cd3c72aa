--------------------------- MODULE ReceiverProofs ---------------------------
(***************************************************************************)
(* What is trusted, and which samples are scanned, for all streams,        *)
(* lengths of buffers, transmissions and readings of them.                 *)
(***************************************************************************)
EXTENDS Receiver, TLAPS

------------------------------------------------------------------------------
(***************************************************************************)
(* The score and the decoder.                                              *)
(***************************************************************************)

\* A frame announces its address or holds it in its parity.
LEMMA FrameClasses ==
    ASSUME NEW f \in Frame
    PROVE  \/ /\ f \in Announced /\ f \notin Replies
              /\ f.df \in {"AllCall", "Squitter"} /\ f.errors \in 0 .. Bad
           \/ f \in Replies /\ f \notin Announced /\ f.df \in {"AP", "CommB"}
BY DEF Frame, Replies, Announced

\* A score is a number, whatever is known.
LEMMA ScoreIsInt ==
    ASSUME NEW f \in Frame, NEW known
    PROVE  Score(f, known) \in Int
BY FrameClasses DEF Score, PerError, Bad, Unknown, Rejected

\* The best reading is one of the readings, and no other has a higher score.
LEMMA BestIsBest ==
    ASSUME NEW r \in Readings, NEW known
    PROVE  \E i \in DOMAIN r :
               /\ Best(r, known) = r[i] /\ r[i] \in Frame
               /\ \A k \in DOMAIN r : Score(r[k], known) <= Score(r[i], known)
<1> DEFINE score == [i \in DOMAIN r |-> Score(r[i], known)]
           Wins(i) == \A k \in DOMAIN r :
                          score[k] < score[i] \/ (score[k] = score[i] /\ i <= k)
<1>1. DOMAIN r \in {1 .. 1, 1 .. 2} /\ \A i \in DOMAIN r : r[i] \in Frame
  BY DEF Readings, Misread, CleanSquitters, Frame
<1>2. \A i \in DOMAIN r : score[i] \in Int /\ score[i] = Score(r[i], known)
  BY <1>1, ScoreIsInt
<1>3. \E i \in DOMAIN r : Wins(i)
  <2> HIDE DEF score
  <2>1. CASE DOMAIN r = 1 .. 1
    <3>1. Wins(1)
      BY <2>1, <1>2
    <3> QED BY <3>1, <2>1
  <2>2. CASE DOMAIN r = 1 .. 2
    <3>1. score[1] \in Int /\ score[2] \in Int
      BY <2>2, <1>2
    <3>2. Wins(1) \/ Wins(2)
      BY <2>2, <3>1
    <3> QED BY <3>2, <2>2
  <2> QED BY <1>1, <2>1, <2>2
<1>4. PICK i \in DOMAIN r : Best(r, known) = r[i] /\ Wins(i)
  BY <1>3 DEF Best
<1> HIDE DEF score
<1>5. i \in Int /\ \A k \in DOMAIN r : Score(r[k], known) <= Score(r[i], known)
  BY <1>1, <1>2, <1>4
<1> QED BY <1>1, <1>4, <1>5

\* A message is handled only for an address it announces itself, one that is known, or 0.
LEMMA DecisionIsBacked ==
    ASSUME NEW r \in Readings, NEW known
    PROVE  LET d == Decision(r, known)
           IN  /\ d.heard \subseteq d.spoken /\ d.believed \subseteq known \cup {ICAO(Zero)}
               /\ d.heard = {} \/ \E a \in Address : d.heard = {a}
<1> DEFINE f == Best(r, known)
           d == Decision(r, known)
<1>1. PICK i \in DOMAIN r : f = r[i] /\ f \in Frame
  BY BestIsBest
<1>2. Spoken(f) \subseteq d.spoken
  BY <1>1 DEF Decision
<1>3. Heard(f) \subseteq Spoken(f)
  BY <1>1, FrameClasses DEF Heard, Spoken, Announces
<1>4. Heard(f) = {} \/ \E a \in Address : Heard(f) = {a}
  <2>1. f \in Announced => AddressOf(f) \in Address
    <3>1. Others \subseteq BOOLEAN
      BY DEF Others
    <3> QED BY <3>1 DEF Announced, AddressOf, Address, ICAO
  <2> QED BY <2>1, <1>1, FrameClasses DEF Heard, Announces
<1>5. ASSUME Trusted(f, known), Score(f, known) >= 0, Unsigned(f)
      PROVE  ICAO(AddressOf(f).addr) \in known \cup {ICAO(Zero)}
  BY <1>5, <1>1, FrameClasses DEF Trusted, Test, Unsigned, AddressOf, ICAO, Announced, Bad
<1> QED BY <1>2, <1>3, <1>4, <1>5 DEF Decision

\* A clean squitter among the readings is the best of them, and trusted.
LEMMA CleanIsBest ==
    ASSUME NEW kind \in {"long", "short"}, NEW r \in ReadingsOf[kind], NEW known
    PROVE  ~Decision(r, known).outvoted
<1> SUFFICES ASSUME NEW c \in DOMAIN r, r[c] \in CleanSquitters
             PROVE  LET f == Best(r, known)
                    IN  Score(f, known) >= 0 /\ Trusted(f, known) /\ f = r[c]
  BY DEF Decision
<1>1. r \in Readings /\ \A i \in DOMAIN r : r[i].df \in OfLength(kind)
  BY DEF ReadingsOf
<1>2. Score(r[c], known) >= 1400 /\ Trusted(r[c], known)
  BY DEF CleanSquitters, Announced, Score, PerError, Trusted, Bad
<1>3. kind = "long"
  BY <1>1 DEF OfLength, CleanSquitters
<1>4. PICK i \in DOMAIN r : Best(r, known) = r[i] /\ r[i] \in Frame
                            /\ \A k \in DOMAIN r : Score(r[k], known) <= Score(r[i], known)
  BY <1>1, BestIsBest
<1>5. ASSUME NEW m \in Misread, m.df \in OfLength("long")
      PROVE  Score(m, known) <= 1000
  <2>1. m \in Frame /\ (m \in Announced => m.errors \in 1 .. 3) /\ m.df # "AllCall"
    BY <1>5 DEF Misread, OfLength, Announced, Bad
  <2>2. \A e \in {1, 2} : 1800 \div (e + 1) <= 1000 /\ 1400 \div (e + 1) <= 1000
    OBVIOUS
  <2> QED BY <2>1, <2>2, FrameClasses DEF Score, PerError, Bad, Unknown, Rejected
<1>6. i = c
  <2>1. CASE r \in {<<g>> : g \in Frame}
    BY <2>1
  <2>2. CASE r \in Misread \X CleanSquitters
    <3>1. r[1] \in Misread /\ r[1].df \in OfLength("long") /\ DOMAIN r = 1 .. 2
      BY <2>2, <1>1, <1>3
    <3>2. Score(r[1], known) <= 1000 /\ Score(r[1], known) \in Int
      BY <3>1, <1>5, ScoreIsInt DEF Misread
    <3>3. Score(r[2], known) \in Int
      BY <2>2, ScoreIsInt DEF CleanSquitters, Frame
    <3>4. c = 2 /\ i # 1
      BY <3>1, <3>2, <3>3, <1>2, <1>4
    <3> QED BY <3>1, <3>4
  <2> QED BY <1>1, <2>1, <2>2 DEF Readings
<1>7. Score(r[c], known) \in Int
  BY ScoreIsInt DEF CleanSquitters, Frame
<1> QED BY <1>2, <1>4, <1>6, <1>7

------------------------------------------------------------------------------
(***************************************************************************)
(* Trust.                                                                  *)
(***************************************************************************)

\* What was transmitted stays what it is, whoever is known or believed has
\* spoken, but for 0, and no clean squitter has lost.
TrustInv ==
    /\ sent \in Transmissions
    /\ young \subseteq spoken /\ old \subseteq spoken
    /\ believed \subseteq spoken \cup {ICAO(Zero)}
    /\ outvoted = FALSE

LEMMA InitTrustInv == Init => TrustInv
BY DEF Init, TrustInv, Filter!Init, bufferVars, filterVars, trustVars

\* Adding an address adds no other.
LEMMA AddAdds ==
    ASSUME NEW h, h = {} \/ \E a \in Address : h = {a}, AddKnownICAO(h)
    PROVE  young' \subseteq young \cup h /\ old' = old
BY DEF AddKnownICAO, filterVars, Filter!Hear

LEMMA CandidateTrust ==
    ASSUME TrustInv, Candidate
    PROVE  TrustInv'
<1> DEFINE known == Filter!Known
<1>1. PICK t \in Sent : /\ sent[t].kind # "ac"
                        /\ \E d \in Decisions(sent[t].kind, known) :
                              /\ AddKnownICAO(d.heard)
                              /\ spoken' = spoken \cup d.spoken
                              /\ believed' = believed \cup d.believed
                              /\ outvoted' = (outvoted \/ d.outvoted)
  BY DEF Candidate
<1>2. sent[t].kind \in {"long", "short"}
  BY <1>1, ReceiverAssumption DEF TrustInv, Transmissions, ReceiverAssumption
<1>3. PICK r \in ReadingsOf[sent[t].kind] :
          LET d == Decision(r, known)
          IN  /\ AddKnownICAO(d.heard)
              /\ spoken' = spoken \cup d.spoken
              /\ believed' = believed \cup d.believed
              /\ outvoted' = (outvoted \/ d.outvoted)
  BY <1>1 DEF Decisions
<1> DEFINE d == Decision(r, known)
<1>4. r \in Readings
  BY <1>2 DEF ReadingsOf
<1>5. /\ d.heard \subseteq d.spoken /\ d.believed \subseteq known \cup {ICAO(Zero)}
      /\ d.heard = {} \/ \E a \in Address : d.heard = {a}
  BY <1>4, DecisionIsBacked
<1>6. ~d.outvoted
  BY <1>2, CleanIsBest
<1>7. sent' = sent
  BY DEF Candidate, bufferVars
<1> HIDE DEF d, known
<1>8. /\ AddKnownICAO(d.heard) /\ spoken' = spoken \cup d.spoken
      /\ believed' = believed \cup d.believed /\ outvoted' = (outvoted \/ d.outvoted)
  BY <1>3 DEF d
<1>9. young' \subseteq young \cup d.heard /\ old' = old
  BY <1>5, <1>8, AddAdds
<1>10. known \subseteq spoken
  BY DEF known, Filter!Known, TrustInv
<1>11. outvoted' = FALSE
  BY <1>6, <1>8 DEF TrustInv
<1> QED BY <1>5, <1>7, <1>8, <1>9, <1>10, <1>11 DEF TrustInv

LEMMA NetworkTrust ==
    ASSUME TrustInv, Network
    PROVE  TrustInv'
<1>1. PICK f \in Unfiltered : spoken' = spoken \cup Spoken(f) /\ AddKnownICAO(Heard(f))
  BY DEF Network
<1>2. f \in Announced
  BY DEF Unfiltered
<1>3. Heard(f) \subseteq Spoken(f)
  BY <1>2 DEF Heard, Spoken, Announces
<1>4. Heard(f) = {} \/ \E a \in Address : Heard(f) = {a}
  <2>1. Others \subseteq BOOLEAN
    BY DEF Others
  <2>2. AddressOf(f) \in Address
    BY <1>2, <2>1 DEF Announced, AddressOf, Address, ICAO
  <2> QED BY <2>2 DEF Heard
<1>5. young' \subseteq young \cup Heard(f) /\ old' = old
  BY <1>1, <1>4, AddAdds
<1>6. UNCHANGED <<sent, believed, outvoted>>
  BY DEF Network, bufferVars
<1> QED BY <1>1, <1>3, <1>5, <1>6 DEF TrustInv

LEMMA NextTrust == TrustInv /\ [Next]_vars => TrustInv'
<1> SUFFICES ASSUME TrustInv, [Next]_vars PROVE TrustInv'
  OBVIOUS
<1>1. CASE Candidate
  BY <1>1, CandidateTrust
<1>2. CASE Network
  BY <1>2, NetworkTrust
<1>3. CASE Expire
  BY <1>3 DEF Expire, Filter!Rotate, TrustInv, bufferVars, trustVars
<1>4. CASE (\E n \in Reads \cup {Full} : Read(n)) \/ ScanEnds \/ Reply \/ BufferEnds
           \/ UNCHANGED vars
  BY <1>4 DEF Read, ScanEnds, Reply, BufferEnds, TrustInv, vars, bufferVars, filterVars, trustVars
<1> QED BY <1>1, <1>2, <1>3, <1>4 DEF Next

\* Nothing is believed of an address that nobody announced, but of 0: neither a
\* repair nor a misreading makes an address known, and no reply is handled for an
\* address that is not (scoreModesMessage, DecodeModesMessageWithFilter, AddKnownICAO).
THEOREM AnnouncedOnly == Spec => []OnlyHeard
<1>1. TrustInv => OnlyHeard
  BY DEF TrustInv, OnlyHeard, Filter!Known
<1> QED BY <1>1, InitTrustInv, NextTrust, PTL DEF Spec

\* A squitter that one phase reads without an error is handled as sent: whatever
\* the addresses known, scoreModesMessage ranks it above each misreading of the
\* same length.
THEOREM CleanWins == Spec => []CleanSquitterWins
<1>1. TrustInv => CleanSquitterWins
  BY DEF TrustInv, CleanSquitterWins
<1> QED BY <1>1, InitTrustInv, NextTrust, PTL DEF Spec

------------------------------------------------------------------------------
(***************************************************************************)
(* Seams.                                                                  *)
(***************************************************************************)

Start(t) == sent[t].start

\* The sample before the first of the buffer, while it is scanned.
Base == read - length - Overlap

\* What a buffer holds at a position of the stream, which may lie before its start.
At(p) == IF p >= 1 THEN p ELSE Silence

TypeInv ==
    /\ device \in BOOLEAN /\ short \in BOOLEAN
    /\ sent \in Transmissions /\ Apart(sent)
    /\ read \in Nat /\ length \in 0 .. Full /\ j \in 0 .. length
    /\ scan \in {"read", "S", "AC"} /\ (scan = "AC" => j >= 1)
    /\ scan # "read" => length >= 1 /\ (~short => length >= Overlap)
    /\ looked \in [Sent -> Nat]

\* The buffer holds the samples of the stream in their order.
DataInv ==
    /\ DOMAIN data = 0 .. Full + Overlap - 1
    /\ ~short /\ scan = "read" =>
           \A k \in 0 .. Overlap - 1 : data[k] = At(read - Overlap + 1 + k)
    /\ ~short /\ scan # "read" =>
           \A k \in 0 .. Overlap + length - 1 : data[k] = At(Base + 1 + k)

\* Up to here transmissions like t are behind the scan.
Frontier(t) ==
    CASE scan = "read" -> read - Overlap
      [] scan = "S" /\ sent[t].kind # "ac" -> Base + j
      [] scan = "S" /\ sent[t].kind = "ac" -> Base
      [] scan = "AC" /\ sent[t].kind # "ac" -> Base + length
      [] scan = "AC" /\ sent[t].kind = "ac" -> Base + j

\* Only what is behind the scan was a candidate.
OnceInv ==
    ~short => \A t \in Sent : /\ looked[t] <= 1
                              /\ looked[t] = 1 => Start(t) <= Frontier(t)

\* Up to here the scan has come across all transmissions like t.
Covered(t) ==
    IF scan = "AC" /\ sent[t].kind # "ac" THEN Base + length - Window ELSE Frontier(t)

\* What is behind the scan was a candidate or began just before a seam.
CoverInv ==
    /\ seams \subseteq Int
    /\ scan = "read" => read = 0 \/ read - Overlap + 1 \in seams
    /\ scan # "read" => Base = -Overlap \/ Base + 1 \in seams
    /\ ~short => \A t \in Sent : Start(t) <= Covered(t) => looked[t] >= 1 \/ AtSeam(t)

ScanInv == TypeInv /\ DataInv /\ OnceInv /\ CoverInv

\* The lengths are as the receiver needs them.
LEMMA LengthsFit ==
    ASSUME TypeInv, NEW t \in Sent
    PROVE  /\ {Overlap, Window, ACWindow, Full, Start(t), Span(t)} \subseteq Nat
           /\ Start(t) >= 1 /\ Span(t) >= 1
           /\ Window <= Overlap /\ Overlap <= Full /\ Overlap >= 1
           /\ sent[t].kind # "ac" => Span(t) <= Window
           /\ sent[t].kind = "ac" => Span(t) <= ACWindow
<1>1. sent[t].start \in 1 .. StreamLength /\ sent[t].kind \in {"long", "short", "ac"}
  BY ReceiverAssumption DEF TypeInv, Transmissions, ReceiverAssumption
<1>2. Spans[sent[t].kind] \in Nat /\ Spans[sent[t].kind] >= 1
  BY <1>1, ReceiverAssumption DEF ReceiverAssumption
<1> QED BY <1>1, <1>2, ReceiverAssumption DEF ReceiverAssumption, Start, Span

\* A transmission can be made out where it lies, and nowhere else.
LEMMA Located ==
    ASSUME TypeInv, DataInv, ~short, scan # "read",
           NEW t \in Sent, NEW k \in Nat, k + Span(t) <= Overlap + length
    PROVE  Intact(t, k) <=> Start(t) = Base + 1 + k
<1>1. {Overlap, Start(t), Span(t), length, read} \subseteq Nat /\ Start(t) >= 1 /\ Span(t) >= 1
  BY LengthsFit DEF TypeInv
<1>2. \A i \in 0 .. Span(t) - 1 : data[k + i] = At(Base + 1 + k + i)
  <2>1. \A k2 \in 0 .. Overlap + length - 1 : data[k2] = At(Base + 1 + k2)
    BY DEF DataInv
  <2>2. Base \in Int
    BY <1>1 DEF Base
  <2> SUFFICES ASSUME NEW i \in 0 .. Span(t) - 1
               PROVE  data[k + i] = At(Base + 1 + k + i)
    OBVIOUS
  <2>3. k + i \in 0 .. Overlap + length - 1 /\ Base + 1 + (k + i) = Base + 1 + k + i
    BY <1>1, <2>2
  <2> QED BY <2>1, <2>3
<1>3. ASSUME Intact(t, k) PROVE Start(t) = Base + 1 + k
  <2>1. data[k] = Start(t) /\ data[k] = At(Base + 1 + k)
    <3>1. 0 \in 0 .. Span(t) - 1 /\ k + 0 = k /\ Base + 1 + k + 0 = Base + 1 + k
      BY <1>1 DEF Base
    <3> QED BY <1>1, <1>2, <1>3, <3>1 DEF Intact, Start
  <2> QED BY <1>1, <2>1 DEF At, Silence, Base
<1>4. ASSUME Start(t) = Base + 1 + k PROVE Intact(t, k)
  BY <1>1, <1>2, <1>4 DEF Intact, At, Start, Base
<1> QED BY <1>3, <1>4

LEMMA InitScanInv == Init => ScanInv
<1> SUFFICES ASSUME Init PROVE ScanInv
  OBVIOUS
<1>1. {Overlap, Window, ACWindow, Full} \subseteq Nat /\ Overlap >= 1
  BY ReceiverAssumption DEF ReceiverAssumption
<1>2. TypeInv
  <2>1. sent \in Transmissions /\ Apart(sent)
    BY DEF Init
  <2>2. looked \in [Sent -> Nat]
    BY DEF Init
  <2>3. /\ device \in BOOLEAN /\ short \in BOOLEAN
        /\ scan = "read" /\ read = 0 /\ length = 0 /\ j = 0
    BY DEF Init
  <2>4. length \in 0 .. Full /\ j \in 0 .. length
    BY <1>1, <2>3
  <2> QED BY <2>1, <2>2, <2>3, <2>4 DEF TypeInv
<1>3. DataInv
  BY <1>1 DEF Init, DataInv, At, Silence
<1>4. OnceInv
  BY DEF Init, OnceInv
<1>5. CoverInv
  BY <1>1, <1>2, LengthsFit DEF Init, CoverInv, Covered, Frontier
<1> QED BY <1>2, <1>3, <1>4, <1>5 DEF ScanInv

\* The next buffer goes on where the scan of the one before ended.
LEMMA ReadScan ==
    ASSUME ScanInv, NEW n \in Reads \cup {Full}, Read(n)
    PROVE  ScanInv'
<1>1. /\ {Overlap, Full, read, length} \subseteq Nat /\ Overlap >= 1 /\ Overlap <= Full
      /\ n \in 1 .. Full /\ TypeInv
  BY ReceiverAssumption DEF ReceiverAssumption, ScanInv, TypeInv
<1>2. /\ scan = "read" /\ scan' = "S" /\ j' = 0 /\ read' = read + n /\ length' = n
      /\ UNCHANGED <<device, sent, seams, looked>> /\ short' = (short \/ n < Overlap)
  BY DEF Read
<1>3. Base' = read - Overlap
  BY <1>1, <1>2 DEF Base
<1>9. ~short' => ~short /\ ~(n < Overlap)
  BY <1>2, Zenon
<1>4. TypeInv'
  <2>1. short' \in BOOLEAN
    BY <1>2, Zenon
  <2>2. Apart(sent)'
    BY <1>1, <1>2 DEF TypeInv, Apart
  <2>3. ~short' => n >= Overlap
    BY <1>1, <1>9
  <2> QED BY <1>1, <1>2, <2>1, <2>2, <2>3 DEF TypeInv
<1>5. DataInv'
  <2>1. data' = [k \in DOMAIN data |->
                    IF k \in Overlap .. Overlap + n - 1 THEN read + 1 + k - Overlap
                                                        ELSE data[k]]
    BY DEF Read
  <2>2. DOMAIN data = 0 .. Full + Overlap - 1
    BY DEF ScanInv, DataInv
  <2>3. ASSUME ~short', NEW k \in 0 .. Overlap + n - 1
        PROVE  data'[k] = At(read - Overlap + 1 + k)
    <3>1. k \in DOMAIN data
      BY <1>1, <2>2
    <3>2. CASE k >= Overlap
      BY <1>1, <2>1, <3>1, <3>2 DEF At
    <3>3. CASE k < Overlap
      <4>1. data[k] = At(read - Overlap + 1 + k)
        BY <1>1, <1>2, <1>9, <2>3, <3>3 DEF ScanInv, DataInv
      <4> QED BY <1>1, <2>1, <3>1, <3>3, <4>1
    <3> QED BY <1>1, <3>2, <3>3
  <2>4. DOMAIN data' = 0 .. Full + Overlap - 1
    BY <2>1, <2>2
  <2> QED BY <1>2, <1>3, <2>3, <2>4 DEF DataInv
<1>6. \A t \in Sent : Frontier(t)' = Frontier(t)
  BY <1>1, <1>2, <1>3 DEF Frontier
<1>7. OnceInv'
  BY <1>2, <1>6 DEF ScanInv, OnceInv, Start
<1>8. CoverInv'
  <2>1. \A t \in Sent : Covered(t)' = Covered(t) /\ AtSeam(t)' = AtSeam(t)
    BY <1>2, <1>6 DEF Covered, AtSeam
  <2>2. Base' = -Overlap \/ Base' + 1 \in seams
    BY <1>1, <1>2, <1>3 DEF ScanInv, CoverInv
  <2> QED BY <1>2, <2>1, <2>2 DEF ScanInv, CoverInv, Start
<1> QED BY <1>4, <1>5, <1>7, <1>8 DEF ScanInv

\* A scan that has come to the transmission t at index k: nothing lies in between,
\* t was not there before, and is not met again.
LEMMA MeetScan ==
    ASSUME ScanInv, scan \in {"S", "AC"}, NEW t \in Sent, NEW k \in Nat,
           Intact(t, k), k >= j, scan = "AC" <=> sent[t].kind = "ac",
           k < length, k + Span(t) <= length,
           \A u \in Sent, i \in Nat :
               (sent[u].kind = "ac" <=> sent[t].kind = "ac") /\ j <= i /\ i < k
                   => ~Intact(u, i),
           looked' = [looked EXCEPT ![t] = @ + 1],
           j' \in {k + 1, k + Span(t)},
           UNCHANGED <<bufferVars, scan>>
    PROVE  ScanInv'
<1>1. /\ {Overlap, Full, read, length, Start(t), Span(t), j, Window} \subseteq Nat
      /\ Overlap >= 1 /\ Span(t) >= 1 /\ TypeInv /\ looked \in [Sent -> Nat]
  BY LengthsFit DEF ScanInv, TypeInv
<1>2. UNCHANGED <<device, sent, read, data, length, seams, short, scan>>
  BY DEF bufferVars
<1>3. TypeInv'
  <2>1. Apart(sent)'
    BY <1>1, <1>2 DEF TypeInv, Apart
  <2>2. j' \in 1 .. length /\ looked' \in [Sent -> Nat]
    BY <1>1
  <2> QED BY <1>1, <1>2, <2>1, <2>2 DEF TypeInv
<1>4. DataInv'
  BY <1>2 DEF ScanInv, DataInv, Base, At
<1>5. Base' = Base /\ Base \in Int
  BY <1>1, <1>2 DEF Base
<1>6. \A u \in Sent : looked'[u] = IF u = t THEN looked[t] + 1 ELSE looked[u]
  BY <1>1
<1>7. ASSUME ~short PROVE Start(t) = Base + 1 + k
  BY <1>1, <1>7, Located DEF ScanInv
<1>8. Frontier(t) = Base + j /\ Frontier(t)' = Base + j'
  BY <1>2, <1>5 DEF Frontier
<1>12. PICK m \in Nat : m = j' /\ m >= k + 1
  BY <1>1
<1>9. \A u \in Sent : /\ Frontier(u) \in Int /\ Frontier(u)' \in Int
                      /\ Frontier(u)' >= Frontier(u)
  BY <1>1, <1>2, <1>5, <1>12 DEF Frontier
<1>10. OnceInv'
  <2> SUFFICES ASSUME ~short, NEW u \in Sent
               PROVE  looked'[u] <= 1 /\ (looked'[u] = 1 => Start(u) <= Frontier(u)')
    BY <1>2 DEF OnceInv, Start
  <2>1. looked[u] \in Nat /\ looked[u] <= 1 /\ (looked[u] = 1 => Start(u) <= Frontier(u))
    BY <1>1 DEF ScanInv, OnceInv
  <2>2. CASE u = t
    <3>1. looked[t] # 1
      BY <1>1, <1>5, <1>7, <1>8, <2>1, <2>2
    <3>2. looked[t] \in Nat /\ looked[t] <= 1
      BY <2>1, <2>2
    <3>3. looked'[u] = 1
      BY <1>6, <2>2, <3>1, <3>2
    <3>4. Start(t) <= Frontier(t)'
      <4>1. Start(t) = Base + 1 + k
        BY <1>7
      <4>2. Frontier(t)' = Base + m
        BY <1>8, <1>12
      <4> QED BY <1>5, <1>12, <4>1, <4>2
    <3> QED BY <2>2, <3>3, <3>4
  <2>3. CASE u # t
    <3>1. Start(u) \in Nat
      BY <1>1, LengthsFit
    <3>2. looked'[u] = looked[u]
      BY <1>6, <2>3
    <3>3. Start(u) <= Frontier(u) => Start(u) <= Frontier(u)'
      BY <1>9, <3>1
    <3> QED BY <2>1, <3>2, <3>3
  <2> QED BY <2>2, <2>3
<1>11. CoverInv'
  <2>1. \A u \in Sent : AtSeam(u)' = AtSeam(u) /\ Start(u)' = Start(u)
    BY <1>2 DEF AtSeam, Start
  <2>2. ASSUME ~short, NEW u \in Sent, Start(u) <= Covered(u)'
        PROVE  looked'[u] >= 1 \/ AtSeam(u)
    <3>1. looked[u] \in Nat /\ (Start(u) <= Covered(u) => looked[u] >= 1 \/ AtSeam(u))
      BY <1>1, <2>2 DEF ScanInv, CoverInv
    <3>2. CASE u = t
      BY <1>1, <1>6, <3>2
    <3>3. CASE u # t /\ Covered(u)' = Covered(u)
      BY <1>6, <2>2, <3>1, <3>3
    <3>4. CASE u # t /\ Covered(u)' # Covered(u)
      <4>1. /\ sent[u].kind = "ac" <=> sent[t].kind = "ac"
            /\ Covered(u) = Base + j /\ Covered(u)' = Base + j'
        BY <1>2, <1>5, <3>4 DEF Covered, Frontier
      <4>2. {Start(u), Span(u)} \subseteq Nat /\ Span(u) >= 1
        BY <1>1, LengthsFit
      <4>3. Start(t) + Span(t) <= Start(u) \/ Start(u) + Span(u) <= Start(t)
        BY <1>1, <3>4 DEF TypeInv, Apart, Start, Span
      <4>4. ASSUME Start(u) > Base + j PROVE FALSE
        <5> DEFINE i == Start(u) - Base - 1
        <5>1. i \in Nat /\ j <= i /\ i < k /\ i + Span(u) <= k
          BY <1>1, <1>5, <1>7, <2>2, <4>1, <4>2, <4>3, <4>4
        <5>2. Intact(u, i)
          <6>1. i + Span(u) <= Overlap + length /\ Start(u) = Base + 1 + i
            BY <1>1, <1>5, <4>2, <5>1
          <6> HIDE DEF i
          <6> QED BY <2>2, <5>1, <6>1, Located DEF ScanInv
        <5> HIDE DEF i
        <5> QED BY <4>1, <5>1, <5>2
      <4> QED BY <1>1, <1>5, <1>6, <3>1, <3>4, <4>1, <4>2, <4>4
    <3> QED BY <3>2, <3>3, <3>4
  <2> QED BY <1>2, <1>5, <2>1, <2>2 DEF ScanInv, CoverInv
<1> QED BY <1>3, <1>4, <1>10, <1>11 DEF ScanInv

LEMMA CandidateScan ==
    ASSUME ScanInv, Candidate
    PROVE  ScanInv'
<1>1. PICK k \in Candidates, t \in Sent :
          /\ \A i \in Candidates : k <= i
          /\ sent[t].kind # "ac" /\ Intact(t, k)
          /\ looked' = [looked EXCEPT ![t] = @ + 1]
          /\ j' \in {k + 1, k + Span(t)}
  BY DEF Candidate
<1>2. scan = "S" /\ UNCHANGED <<bufferVars, scan>>
  BY DEF Candidate
<1>3. /\ {Window, Span(t), length, j} \subseteq Nat /\ Span(t) <= Window /\ Span(t) >= 1
      /\ sent[t].kind # "ac"
  BY <1>1, LengthsFit DEF ScanInv, TypeInv
<1>4. k \in Nat /\ k <= length - Window - 1 /\ k >= j
  BY <1>3 DEF Candidates, Scanned
<1>5. ASSUME NEW u \in Sent, NEW i \in Nat, sent[u].kind # "ac", j <= i, i < k, Intact(u, i)
      PROVE  FALSE
  <2>1. i \in Candidates
    BY <1>3, <1>4, <1>5 DEF Candidates, Scanned
  <2> QED BY <1>1, <1>4, <1>5, <2>1
<1>6. k < length /\ k + Span(t) <= length
  BY <1>3, <1>4
<1> QED BY <1>1, <1>2, <1>3, <1>4, <1>5, <1>6, MeetScan

LEMMA ReplyScan ==
    ASSUME ScanInv, Reply
    PROVE  ScanInv'
<1>1. PICK k \in Replied, t \in Sent :
          /\ \A i \in Replied : k <= i
          /\ sent[t].kind = "ac" /\ Intact(t, k)
          /\ looked' = [looked EXCEPT ![t] = @ + 1]
          /\ j' \in {k + 1, k + Span(t)}
  BY DEF Reply
<1>2. scan = "AC" /\ UNCHANGED <<bufferVars, scan>>
  BY DEF Reply
<1>3. /\ {ACWindow, Span(t), length, j} \subseteq Nat /\ Span(t) <= ACWindow /\ Span(t) >= 1
      /\ j >= 1
  BY <1>1, <1>2, LengthsFit DEF ScanInv, TypeInv
<1>4. k \in Nat /\ k <= length - ACWindow - 1 /\ k >= j
  BY <1>3 DEF Replied, ScannedAC
<1>5. ASSUME NEW u \in Sent, NEW i \in Nat, sent[u].kind = "ac", j <= i, i < k, Intact(u, i)
      PROVE  FALSE
  <2>1. i \in Replied
    BY <1>3, <1>4, <1>5 DEF Replied, ScannedAC
  <2> QED BY <1>1, <1>4, <1>5, <2>1
<1>6. k < length /\ k + Span(t) <= length
  BY <1>3, <1>4
<1> QED BY <1>1, <1>2, <1>3, <1>4, <1>5, <1>6, MeetScan

\* No candidate is left: all the positions scanned have been passed.
LEMMA ScanEndsScan ==
    ASSUME ScanInv, ScanEnds
    PROVE  ScanInv'
<1>1. /\ scan = "S" /\ Candidates = {} /\ scan' = "AC" /\ j' = 1
      /\ UNCHANGED <<device, sent, read, data, length, seams, short, looked>>
  BY DEF ScanEnds, bufferVars
<1>2. {Overlap, Full, read, length, j, Window} \subseteq Nat /\ TypeInv /\ Window <= Overlap
      /\ Overlap >= 1
  BY ReceiverAssumption DEF ReceiverAssumption, ScanInv, TypeInv
<1>3. Base' = Base /\ Base \in Int
  BY <1>1, <1>2 DEF Base
<1>4. TypeInv'
  <2>1. Apart(sent)'
    BY <1>1, <1>2 DEF TypeInv, Apart
  <2>2. length >= 1
    BY <1>1, <1>2 DEF TypeInv
  <2> QED BY <1>1, <1>2, <2>1, <2>2 DEF TypeInv
<1>5. DataInv'
  BY <1>1 DEF ScanInv, DataInv, Base, At
<1>6. \A t \in Sent : Start(t)' = Start(t) /\ AtSeam(t)' = AtSeam(t) /\ Start(t) \in Nat
                      /\ Start(t) >= 1
  BY <1>1, <1>2, LengthsFit DEF Start, AtSeam
<1>7. \A t \in Sent : /\ sent[t].kind = "ac" => Frontier(t) = Base /\ Frontier(t)' = Base + 1
                      /\ sent[t].kind # "ac" => Frontier(t) = Base + j
                                                /\ Frontier(t)' = Base + length
  BY <1>1, <1>3 DEF Frontier
<1>8. OnceInv'
  <2>1. \A t \in Sent : Start(t) <= Frontier(t) => Start(t) <= Frontier(t)'
    BY <1>2, <1>3, <1>6, <1>7 DEF TypeInv
  <2> QED BY <1>1, <1>6, <2>1 DEF ScanInv, OnceInv
<1>9. ASSUME ~short, NEW t \in Sent, Start(t) <= Covered(t)'
      PROVE  looked[t] >= 1 \/ AtSeam(t)
  <2>1. Start(t) <= Covered(t) => looked[t] >= 1 \/ AtSeam(t)
    BY <1>9 DEF ScanInv, CoverInv
  <2>2. CASE sent[t].kind = "ac"
    <3>1. Covered(t) = Base /\ Covered(t)' = Base + 1
      BY <1>1, <1>7, <2>2 DEF Covered
    <3>2. CASE Base + 1 \in seams
      <4>1. Start(t) = Base + 1 => AtSeam(t)
        <5>1. (Base + 1) - (Base + 1) \in 0 .. ACWindow
          BY <1>3, ReceiverAssumption DEF ReceiverAssumption
        <5> QED BY <2>2, <3>2, <5>1 DEF AtSeam, Start
      <4> QED BY <1>3, <1>6, <1>9, <2>1, <3>1, <4>1
    <3>3. CASE Base = -Overlap
      BY <1>2, <1>6, <1>9, <3>1, <3>3
    <3> QED BY <1>1, <3>2, <3>3 DEF ScanInv, CoverInv
  <2>3. CASE sent[t].kind # "ac"
    <3>1. Covered(t) = Base + j /\ Covered(t)' = Base + length - Window
      BY <1>1, <1>3, <1>7, <2>3 DEF Covered
    <3>2. Span(t) \in Nat /\ Span(t) >= 1 /\ Span(t) <= Window
      BY <1>2, <2>3, LengthsFit
    <3>3. ASSUME Start(t) > Base + j PROVE FALSE
      <4> DEFINE i == Start(t) - Base - 1
      <4>1. i \in Nat /\ i >= j /\ i <= length - Window - 1 /\ Start(t) = Base + 1 + i
            /\ i + Span(t) <= Overlap + length
        BY <1>2, <1>3, <1>6, <1>9, <3>1, <3>2, <3>3
      <4> HIDE DEF i
      <4>2. Intact(t, i)
        BY <1>1, <1>9, <4>1, Located DEF ScanInv
      <4> QED BY <1>1, <1>2, <2>3, <4>1, <4>2 DEF Candidates, Scanned
    <3> QED BY <1>2, <1>3, <1>6, <2>1, <3>1, <3>3
  <2> QED BY <2>2, <2>3
<1>10. CoverInv'
  BY <1>1, <1>3, <1>6, <1>9 DEF ScanInv, CoverInv
<1> QED BY <1>4, <1>5, <1>8, <1>10 DEF ScanInv

\* What was not scanned begins just before the new seam.
LEMMA BufferEndsScan ==
    ASSUME ScanInv, BufferEnds
    PROVE  ScanInv'
<1>1. /\ scan = "AC" /\ Replied = {} /\ scan' = "read" /\ j' = 0
      /\ seams' = seams \cup {read - Overlap + 1}
      /\ UNCHANGED <<device, sent, read, length, short, looked>>
  BY DEF BufferEnds
<1>2. /\ {Overlap, Full, read, length, j, Window, ACWindow} \subseteq Nat /\ TypeInv
      /\ Window <= Overlap /\ Overlap >= 1 /\ j >= 1 /\ Overlap <= Full /\ length <= Full
  BY <1>1, ReceiverAssumption DEF ReceiverAssumption, ScanInv, TypeInv
<1>3. Base \in Int /\ read - Overlap = Base + length
  BY <1>2 DEF Base
<1>4. TypeInv'
  <2>1. Apart(sent)'
    BY <1>1, <1>2 DEF TypeInv, Apart
  <2> QED BY <1>1, <1>2, <2>1 DEF TypeInv
<1>5. DataInv'
  <2>1. DOMAIN data' = 0 .. Full + Overlap - 1
    BY DEF BufferEnds, ScanInv, DataInv
  <2>2. ASSUME ~short, NEW k \in 0 .. Overlap - 1
        PROVE  data'[k] = At(read - Overlap + 1 + k)
    <3>1. length >= Overlap
      BY <1>1, <1>2, <2>2 DEF TypeInv
    <3>2. data' = [i \in DOMAIN data |-> IF i < Overlap THEN Tail(i) ELSE data[i]]
      BY <3>1 DEF BufferEnds
    <3>3. k \in DOMAIN data /\ k < Overlap /\ k + length \in 0 .. Overlap + length - 1
      BY <1>2 DEF ScanInv, DataInv
    <3>4. data[k + length] = At(Base + 1 + (k + length))
      BY <1>1, <2>2, <3>3 DEF ScanInv, DataInv
    <3>5. Base + 1 + (k + length) = read - Overlap + 1 + k
      BY <1>2, <1>3
    <3> QED BY <3>2, <3>3, <3>4, <3>5 DEF Tail
  <2> QED BY <1>1, <2>1, <2>2 DEF DataInv, At
<1>6. \A t \in Sent : Start(t)' = Start(t) /\ Start(t) \in Nat /\ Start(t) >= 1
  BY <1>1, <1>2, LengthsFit DEF Start
<1>7. \A t \in Sent : Frontier(t)' = Base + length /\ Covered(t)' = Base + length
  BY <1>1, <1>3 DEF Frontier, Covered
<1>8. \A t \in Sent : /\ sent[t].kind = "ac" => Frontier(t) = Base + j
                      /\ sent[t].kind # "ac" => Frontier(t) = Base + length
  BY <1>1 DEF Frontier
<1>9. OnceInv'
  <2>1. \A t \in Sent : Start(t) <= Frontier(t) => Start(t) <= Frontier(t)'
    BY <1>2, <1>3, <1>6, <1>7, <1>8 DEF TypeInv
  <2> QED BY <1>1, <1>6, <2>1 DEF ScanInv, OnceInv
<1>10. \A t \in Sent : AtSeam(t) => AtSeam(t)'
  BY <1>1 DEF AtSeam
<1>11. \A t \in Sent :
           /\ sent[t].kind = "ac" /\ (Base + length + 1) - Start(t) \in 0 .. ACWindow => AtSeam(t)'
           /\ sent[t].kind # "ac" /\ (Base + length + 1) - Start(t) \in 1 .. Window => AtSeam(t)'
  <2> DEFINE s == Base + length + 1
  <2>1. s \in seams'
    BY <1>1, <1>2, <1>3
  <2> HIDE DEF s
  <2>2. ASSUME NEW t \in Sent, sent[t].kind = "ac", s - Start(t) \in 0 .. ACWindow
        PROVE  AtSeam(t)'
    BY <1>1, <2>1, <2>2 DEF AtSeam, Start
  <2>3. ASSUME NEW t \in Sent, sent[t].kind # "ac", s - Start(t) \in 1 .. Window
        PROVE  AtSeam(t)'
    BY <1>1, <2>1, <2>3 DEF AtSeam, Start
  <2> QED BY <2>2, <2>3 DEF s
<1>12. ASSUME ~short, NEW t \in Sent, Start(t) <= Base + length
       PROVE  looked[t] >= 1 \/ AtSeam(t)'
  <2>1. Start(t) <= Covered(t) => looked[t] >= 1 \/ AtSeam(t)
    BY <1>12 DEF ScanInv, CoverInv
  <2>2. CASE sent[t].kind # "ac"
    <3>1. Covered(t) = Base + length - Window
      BY <1>1, <2>2 DEF Covered
    <3>2. Start(t) > Base + length - Window => AtSeam(t)'
      BY <1>2, <1>3, <1>6, <1>11, <1>12, <2>2
    <3> QED BY <1>2, <1>3, <1>6, <1>10, <2>1, <3>1, <3>2
  <2>3. CASE sent[t].kind = "ac"
    <3>1. Covered(t) = Base + j
      BY <1>1, <1>8, <2>3 DEF Covered
    <3>2. Span(t) \in Nat /\ Span(t) >= 1 /\ Span(t) <= ACWindow
      BY <1>2, <2>3, LengthsFit
    <3>3. CASE Start(t) > Base + length - ACWindow
      BY <1>2, <1>3, <1>6, <1>11, <1>12, <2>3, <3>3
    <3>4. ASSUME Start(t) > Base + j, Start(t) <= Base + length - ACWindow PROVE FALSE
      <4> DEFINE i == Start(t) - Base - 1
      <4>1. i \in Nat /\ i >= j /\ i <= length - ACWindow - 1 /\ Start(t) = Base + 1 + i
            /\ i + Span(t) <= Overlap + length
        BY <1>2, <1>3, <1>6, <3>2, <3>4
      <4> HIDE DEF i
      <4>2. Intact(t, i)
        BY <1>1, <1>12, <4>1, Located DEF ScanInv
      <4> QED BY <1>1, <1>2, <2>3, <4>1, <4>2 DEF Replied, ScannedAC
    <3> QED BY <1>2, <1>3, <1>6, <1>10, <2>1, <3>1, <3>3, <3>4
  <2> QED BY <2>2, <2>3
<1>13. CoverInv'
  <2>1. seams' \subseteq Int
    <3>1. seams \subseteq Int /\ read - Overlap + 1 \in Int
      BY <1>2 DEF ScanInv, CoverInv
    <3> QED BY <1>1, <3>1
  <2>2. read' - Overlap + 1 \in seams'
    BY <1>1
  <2> QED BY <1>1, <1>6, <1>7, <1>12, <2>1, <2>2 DEF CoverInv
<1> QED BY <1>4, <1>5, <1>9, <1>13 DEF ScanInv

LEMMA NextScan == ScanInv /\ [Next]_vars => ScanInv'
<1> SUFFICES ASSUME ScanInv, [Next]_vars PROVE ScanInv'
  OBVIOUS
<1>1. CASE \E n \in Reads \cup {Full} : Read(n)
  BY <1>1, ReadScan
<1>2. CASE Candidate \/ Reply \/ ScanEnds \/ BufferEnds
  BY <1>2, CandidateScan, ReplyScan, ScanEndsScan, BufferEndsScan
<1>3. CASE Network \/ Expire \/ UNCHANGED vars
  <2>1. UNCHANGED <<bufferVars, scan, j, looked>>
    BY <1>3 DEF Network, Expire, vars
  <2> QED BY <2>1 DEF bufferVars, ScanInv, TypeInv, Apart, DataInv, Base, At, OnceInv, Frontier,
                      Start, CoverInv, Covered, AtSeam
<1> QED BY <1>1, <1>2, <1>3 DEF Next

\* No transmission is demodulated twice, however long the overlap that puts it
\* into two buffers and wherever reads end, unless one is shorter than the overlap.
THEOREM DemodulatedOnce == Spec => []HeardOnce
<1>1. ScanInv => HeardOnce
  BY DEF ScanInv, OnceInv, HeardOnce
<1> QED BY <1>1, InitScanInv, NextScan, PTL DEF Spec

\* What the scan has passed was a candidate, but for the Window of positions
\* before each seam: the reach of the gap is exactly what the scan leaves out.
THEOREM LostOnlyAtSeams == Spec => []HeardUnlessAtSeam
<1>1. ScanInv => HeardUnlessAtSeam
  BY DEF ScanInv, CoverInv, Covered, Frontier, Start, HeardUnlessAtSeam
<1> QED BY <1>1, InitScanInv, NextScan, PTL DEF Spec
==============================================================================

------------------------------- MODULE Beast -------------------------------
(***************************************************************************)
(* Receiving a Beast stream: DecodeBeastWithConfig of                      *)
(* modes/protocol_beast.go in the loop that handleBeastInputConnection of  *)
(* the server and connectAndProcess of view1090 and faup1090 share.  A     *)
(* frame is an escape byte, a type byte and a body of fixed length in      *)
(* which escape bytes are doubled.  TCP keeps the order of the bytes but   *)
(* not where one write ends and the next begins, so a read may end         *)
(* anywhere.  A message is its type and its unescaped body: timestamp,      *)
(* signal level and the bytes of the message.  Of DecodeModesMessage, here *)
(* without a filter of addresses, there is whether it accepts a message.   *)
(***************************************************************************)
EXTENDS Integers, SequencesExt

CONSTANTS
    Frame,       \* what a peer may send
    Valid,       \* what has a parity that tells of no error beyond repair
    MinLen,      \* 11: the least that is looked at, and the length of a heartbeat
    Header,      \* 7: the bytes of a body before the message
    BodyLen,     \* 7 + 2, 7 + 7, 7 + 14: length of a body of each type
    ReadSize,    \* 4096: most bytes of a read
    BufferLimit, \* 4096: a longer rest is cut
    BufferKept,  \* 2048: what is kept of it
    MaxFrames    \* bound: frames sent over one connection

Byte == 0 .. 255
Escape == 26
TypeModeAC == 49
TypeShort == 50
TypeLong == 51
TypeStatus == 52

\* The downlink format, in the first bits of a message.
Format(f) == f.body[Header + 1] \div 8

\* The checksum of a message that is shorter than its format says is an index out of range.
Panics(f) == f.type = TypeShort /\ Format(f) >= 16

ASSUME BeastAssumption ==
    /\ BodyLen \in [{TypeModeAC, TypeShort, TypeLong} -> Nat \ {0}]
    /\ \A t \in DOMAIN BodyLen : BodyLen[TypeModeAC] <= BodyLen[t] /\ 2 + BodyLen[t] <= BufferLimit
    /\ MinLen = 2 + BodyLen[TypeModeAC]
    /\ Frame \subseteq [type : DOMAIN BodyLen \cup {TypeStatus}, body : Seq(Byte)]
    /\ \A f \in Frame : f.type # TypeStatus => Len(f.body) = BodyLen[f.type] /\ ~Panics(f)
    /\ ReadSize \in Nat \ {0} /\ MaxFrames \in Nat
    /\ BufferLimit \in Nat /\ BufferKept \in 0 .. BufferLimit

VARIABLES
    modeAC,  \* config.ModeAC
    wire,    \* bytes sent and not read yet
    buffer,  \* buffer, or data
    stage,   \* whether the loop is about to read or to parse, or the program has crashed
    sent,    \* history: the frames sent over this connection
    got,     \* history: the messages given to handleMessage
    cut      \* history: the frames (by their numbers) in which a read ended

vars == <<modeAC, wire, buffer, stage, sent, got, cut>>

From(s, i) == SubSeq(s, i, Len(s))

-----------------------------------------------------------------------------
(* Encoding: EncodeBeast. *)

appendBeastByte(b) == IF b = Escape THEN <<b, b>> ELSE <<b>>

EncodeBeast(f) ==
    <<Escape, f.type>> \o FlattenSeq([i \in DOMAIN f.body |-> appendBeastByte(f.body[i])])

(* Decoding: DecodeBeastWithConfig. *)

\* The first i bytes of the data taken, until there are want of them; pair is TRUE after
\* an escape byte that may have a duplicate.
unescapeBeastPayload(data, want) ==
    LET taken[i \in 0 .. Len(data)] ==
          IF i = 0 THEN [raw |-> <<>>, pos |-> 0, pair |-> FALSE]
          ELSE LET s == taken[i - 1]
                   b == data[i]
               IN  IF s.pair /\ b = Escape THEN [s EXCEPT !.pos = i, !.pair = FALSE]
                   ELSE IF Len(s.raw) = want THEN [s EXCEPT !.pair = FALSE]
                   ELSE [raw |-> Append(s.raw, b), pos |-> i, pair |-> b = Escape]
    IN  taken[Len(data)]

\* The data from the first escape byte on.
Aligned(data) ==
    LET i == SelectInSeq(data, LAMBDA b : b = Escape) IN IF i = 0 THEN <<>> ELSE From(data, i)

Readable(d) == Len(d) >= MinLen /\ d[2] \in DOMAIN BodyLen

\* A heartbeat is recognised before escapes are.
Heartbeat(d) == Readable(d) /\ d[2] = TypeModeAC /\ \A i \in 3 .. MinLen : d[i] = 0

Payload(d) == unescapeBeastPayload(From(d, 3), BodyLen[d[2]])

Message(d) == [type |-> d[2], body |-> Payload(d).raw]

\* Parity tells of errors where it carries no address; elsewhere any parity is an address.
Accepted(f) ==
    /\ \E i \in Header + 1 .. BodyLen[TypeShort] : f.body[i] # 0
    /\ \/ Format(f) \in {0, 4, 5, 16} \cup 24 .. 31
       \/ Format(f) \in {11, 17, 18} /\ f \in Valid

Decodes(f) == f.type # TypeModeAC => Accepted(f)

\* The decoder consumes bytes and has no message: also if they are incomplete.
Skipped(d) == Readable(d) /\ (Heartbeat(d) \/ (d[2] = TypeModeAC /\ ~modeAC))

Complete(d) == Len(Payload(d).raw) = BodyLen[d[2]]

\* The decoder has a message.
Decoded(d) ==
    Readable(d) /\ ~Skipped(d) /\ Complete(d) /\ Decodes(Message(d)) /\ ~Panics(Message(d))

\* It panics.
Crashes(d) == Readable(d) /\ ~Skipped(d) /\ Complete(d) /\ Panics(Message(d))

Remaining(d) == From(d, 3 + IF Heartbeat(d) THEN MinLen - 2 ELSE Payload(d).pos)

\* Mutant: the last escape byte.
NextEscapeLast(data) == SelectLastInSubSeq(data, 2, Len(data), LAMBDA b : b = Escape)

\* Where the loop goes on after an error, 0 if it must wait for more bytes.
NextEscape(data) == SelectInSubSeq(data, 2, Len(data), LAMBDA b : b = Escape)

-----------------------------------------------------------------------------
Init ==
    /\ modeAC \in BOOLEAN
    /\ wire = <<>> /\ buffer = <<>> /\ stage = "read"
    /\ sent = <<>> /\ got = <<>> /\ cut = {}

\* The peer broadcasts a whole frame.
Send(f) ==
    /\ Len(sent) < MaxFrames
    /\ wire' = wire \o EncodeBeast(f)
    /\ sent' = Append(sent, f)
    /\ UNCHANGED <<modeAC, buffer, stage, got, cut>>

\* Where the first i frames end in the stream.
EndOf(i) == Len(FlattenSeq([j \in 1 .. i |-> EncodeBeast(sent[j])]))

\* conn.Read
Read(n) ==
    /\ stage = "read"
    /\ n <= ReadSize
    /\ buffer' = buffer \o SubSeq(wire, 1, n)
    /\ wire' = From(wire, n + 1)
    /\ stage' = "parse"
    /\ LET end == EndOf(Len(sent)) - Len(wire')
       IN  cut' = cut \cup {i \in DOMAIN sent : EndOf(i - 1) < end /\ end < EndOf(i)}
    /\ UNCHANGED <<modeAC, sent, got>>

\* The iterations of the parsing loop: a message, none, an error and another try, an
\* error and the end of the loop.
Deliver ==
    LET d == Aligned(buffer)
    IN  /\ stage = "parse" /\ Decoded(d)
        /\ got' = Append(got, Message(d))
        /\ buffer' = Remaining(d)
        /\ UNCHANGED <<modeAC, wire, stage, sent, cut>>

Skip ==
    LET d == Aligned(buffer)
    IN  /\ stage = "parse" /\ Skipped(d)
        /\ buffer' = Remaining(d)
        /\ UNCHANGED <<modeAC, wire, stage, sent, got, cut>>

\* Nothing recovers from the panic.
Panic ==
    /\ stage = "parse" /\ Crashes(Aligned(buffer))
    /\ stage' = "crashed"
    /\ UNCHANGED <<modeAC, wire, buffer, sent, got, cut>>

Failed == LET d == Aligned(buffer) IN ~Decoded(d) /\ ~Skipped(d) /\ ~Crashes(d)

Resync ==
    /\ stage = "parse" /\ Failed /\ NextEscape(buffer) > 0
    /\ buffer' = From(buffer, NextEscape(buffer))
    /\ UNCHANGED <<modeAC, wire, stage, sent, got, cut>>

Wait ==
    /\ stage = "parse" /\ Failed /\ NextEscape(buffer) = 0
    /\ stage' = "read"
    /\ buffer' = IF Len(buffer) > BufferLimit THEN From(buffer, Len(buffer) - BufferKept + 1)
                 ELSE buffer
    /\ UNCHANGED <<modeAC, wire, sent, got, cut>>

\* Mutant: the buffer outlives the connection.
NewBufferOld == buffer

\* The buffer of a new connection.
NewBuffer == <<>>

\* The read fails or times out, or the program is started again; it dials, or a peer does.
Reconnect ==
    /\ stage \in {"read", "crashed"}
    /\ buffer' = NewBuffer /\ stage' = "read"
    /\ wire' = <<>> /\ sent' = <<>> /\ got' = <<>> /\ cut' = {}
    /\ UNCHANGED modeAC

Parse == Deliver \/ Skip \/ Resync \/ Wait

Next ==
    \/ \E f \in Frame : Send(f)
    \/ \E n \in 1 .. Len(wire) : Read(n)
    \/ Parse
    \/ Panic
    \/ Reconnect

Spec == Init /\ [][Next]_vars

-----------------------------------------------------------------------------
(* Properties. *)

HasEscape(f) == Escape \in ToSet(f.body)

\* Does the frame carry a message for this program?
Carries(f) ==
    CASE f.type = TypeStatus -> FALSE
      [] f.type = TypeModeAC -> modeAC /\ \E i \in DOMAIN f.body : f.body[i] # 0
      [] OTHER -> Decodes(f)

\* The messages that the frames of s carry.
MessagesIn(s) == FlattenSeq([i \in DOMAIN s |-> IF Carries(s[i]) THEN <<s[i]>> ELSE <<>>])

\* The messages of the frames from number i on.
Expected(i) == MessagesIn(From(sent, i))

\* The last frame that the decoder loses its way in: one with an escape byte in its body
\* that is not there as a whole, or that is no message to the decoder.
Damaged ==
    Max({0} \cup {i \in DOMAIN sent :
                    /\ HasEscape(sent[i])
                    /\ i \in cut \/ sent[i].type = TypeStatus \/ ~Decodes(sent[i])})

AtRest == stage = "read" /\ wire = <<>>

\* As long as no frame does damage, however reads cut the others, what was handled is
\* what was sent, in this order, nothing missing, doubled or invented; and it is all of
\* it once everything is read.  Nor does the program crash.
NothingLost ==
    Damaged = 0 => /\ IsPrefix(got, Expected(1))
                   /\ AtRest => got = Expected(1)
                   /\ stage # "crashed"

\* Frames i to k have no escape bytes and are longer together than any body: what is read
\* from before them ends before they do.
Plain(i, k) ==
    /\ i <= k /\ \A j \in i .. k : ~HasEscape(sent[j])
    /\ \A t \in DOMAIN BodyLen : EndOf(k) - EndOf(i - 1) > BodyLen[t]

\* The damage is limited: whatever the decoder took for messages where it was astray, if it
\* did not crash it is in step again after as many plain frames as are longer than any body
\* (one, if it is a long one); of all that was sent after them nothing is missing, doubled
\* or invented.
Recovers ==
    AtRest => \A k \in Damaged + 1 .. Len(sent) :
                  Plain(Damaged + 1, k) => IsSuffix(Expected(k + 1), got)

\* The parsing loop ends, whatever it finds: each iteration but the last takes bytes away.
LoopEnds ==
    [][stage = "parse" /\ stage' = "parse" /\ UNCHANGED <<wire, sent>>
         => Len(buffer') < Len(buffer)]_vars

=============================================================================

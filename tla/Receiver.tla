------------------------------ MODULE Receiver ------------------------------
(***************************************************************************)
(* From samples to messages: processInput (src/cmd/dump1090-server/        *)
(* input.go) and handleSamples (main.go) fill a buffer whose first         *)
(* overlapSamples are the tail of the one before, Demodulate2400 and       *)
(* Demodulate2400AC (src/modes/demod.go) scan it for transmissions, the    *)
(* best reading of each is decoded (Decoder), and what is trusted makes    *)
(* its address known (RecentAddresses), as do messages from the network,   *)
(* while the periodic goroutine makes the filter forget.                   *)
(*                                                                         *)
(* A sample is its position in the stream.  Lengths are scaled down: a     *)
(* Window of 287 samples is 3 and the overlap of 300 is 4.                 *)
(***************************************************************************)
EXTENDS Decoder

CONSTANTS
    StreamLength,   \* the samples before the stream ends
    Overlap,        \* overlapSamples
    Window,         \* the longest transmission, 19 + 112 * 12 / 5
    ACWindow,       \* what the scan for Mode A/C leaves out, 100
    Full,           \* the buffer the device fills every time
    Reads,          \* the lengths a read of a file or a pipe may return
    Sent,           \* the transmissions
    Spans,          \* [kind |-> its length in samples]
    MaxRotations    \* bound on the rotations of the filter

ASSUME ReceiverAssumption ==
    /\ {StreamLength, Overlap, Window, ACWindow, Full} \subseteq Nat
    /\ Reads \subseteq 1 .. Full
    /\ DOMAIN Spans = {"long", "short", "ac"}
    /\ \A kind \in {"long", "short"} : Spans[kind] \in 1 .. Window
    /\ Spans["ac"] \in 1 .. ACWindow /\ Window <= Overlap /\ Overlap <= Full

VARIABLES
    device,         \* the samples come from the device, not from a file
    sent,           \* sent[t]: when and as what t was transmitted
    read,           \* the samples read so far
    data, length,   \* magBuf
    scan, j,        \* which loop runs, and its index
    young, old,     \* the ICAO filter
    looked,         \* looked[t]: how often t was a candidate
    seams,          \* the first sample of each buffer but the first
    short,          \* a read returned less than the overlap
    spoken,         \* the addresses announced without an error so far
    believed,       \* the addresses of messages that announce none
    outvoted,       \* a clean squitter lost against another reading of it
    rotations

filterVars == <<young, old>>
bufferVars == <<device, sent, read, data, length, seams, short>>
trustVars == <<spoken, believed, outvoted>>
vars == <<bufferVars, scan, j, filterVars, looked, trustVars, rotations>>

Filter == INSTANCE RecentAddresses WITH Addr <- Address

Silence == 0

Span(t) == Spans[sent[t].kind]

Transmissions == [Sent -> [start : 1 .. StreamLength, kind : DOMAIN Spans]]

\* Transmissions do not overlap.
Apart(s) == \A t, u \in Sent :
    t # u => s[t].start + Spans[s[t].kind] <= s[u].start
             \/ s[u].start + Spans[s[u].kind] <= s[t].start

Init ==
    /\ device \in BOOLEAN
    /\ sent \in {s \in Transmissions : Apart(s)}
    /\ read = 0 /\ length = 0 /\ seams = {} /\ short = FALSE
    /\ data = [k \in 0 .. Full + Overlap - 1 |-> Silence]
    /\ scan = "read" /\ j = 0
    /\ Filter!Init
    /\ looked = [t \in Sent |-> 0]
    /\ spoken = {} /\ believed = {} /\ outvoted = FALSE
    /\ rotations = 0

(***************************************************************************)
(* The head of the loop of processInput, and the conversion at the start   *)
(* of handleSamples: the samples go behind the overlap.                    *)
(***************************************************************************)
Read(n) ==
    /\ scan = "read" /\ scan' = "S" /\ j' = 0
    /\ n \in (IF device THEN {Full} ELSE Reads) /\ read + n <= StreamLength
    /\ data' = [k \in DOMAIN data |->
           IF k \in Overlap .. Overlap + n - 1 THEN read + 1 + k - Overlap
                                               ELSE data[k]]
    /\ read' = read + n /\ length' = n
    /\ short' = (short \/ n < Overlap)
    /\ UNCHANGED <<device, sent, seams, filterVars, looked, trustVars, rotations>>

\* t can be made out at index k: all of its samples are there, in order.
Intact(t, k) == \A i \in 0 .. Span(t) - 1 : data[k + i] = sent[t].start + i

(***************************************************************************)
(* The loop of Demodulate2400 comes to the next transmission.              *)
(***************************************************************************)
\* Mutant: the scan goes on as far as the data do, into the next buffer's part.
ScannedNot == 0 .. length + Overlap - Window - 1

Scanned == 0 .. length - Window - 1

Candidates == {k \in Scanned : k >= j /\ \E t \in Sent :
                   sent[t].kind # "ac" /\ Intact(t, k)}

\* A frame without an error that names its sender.
Spoken(f) == IF f \in Announced /\ f.errors = 0 THEN {AddressOf(f)} ELSE {}

\* A frame that names no sender, or only after a repair.
Unsigned(f) == f \in Replies \/ f.addr # f.fixed

\* The readings of a transmission: any one, or beside it another phase's that
\* is a clean squitter.  What passes the parity in one phase is what was sent,
\* so that no two phases read different messages without an error.
Misread == {f \in Frame : f \in Announced => f.errors > 0}

Readings == {<<f>> : f \in Frame}
            \cup (Misread \X CleanSquitters)

\* They all have the length of the transmission.
OfLength(kind) == IF kind = "long" THEN {"AP", "CommB", "Squitter"}
                                   ELSE {"AP", "AllCall"}

ReadingsOf == [kind \in {"long", "short"} |->
    {r \in Readings : \A i \in DOMAIN r : r[i].df \in OfLength(kind)}]

\* What handling a message adds to the filter, whose Add stores no 0.
Heard(f) == IF Announces(f) THEN {AddressOf(f)} \ {ICAO(Zero)} ELSE {}

AddKnownICAO(addresses) == IF addresses = {} THEN UNCHANGED filterVars
                           ELSE \E a \in addresses : Filter!Hear(a)

\* The best reading is decoded and, if it is trusted, handled.
Decision(readings, known) ==
    LET f == Best(readings, known)
        trusted == Score(f, known) >= 0 /\ Trusted(f, known)
    IN  [trusted |-> trusted,
         heard |-> IF trusted THEN Heard(f) ELSE {},
         believed |-> IF trusted /\ Unsigned(f) THEN {ICAO(AddressOf(f).addr)} ELSE {},
         spoken |-> UNION {Spoken(readings[i]) : i \in DOMAIN readings},
         outvoted |-> \E i \in DOMAIN readings :
             readings[i] \in CleanSquitters /\ ~(trusted /\ f = readings[i])]

Decisions(kind, known) == {Decision(r, known) : r \in ReadingsOf[kind]}

\* The loop goes on behind a message, or after the first sample of what is none.
Candidate ==
    /\ scan = "S"
    /\ \E k \in Candidates, t \in Sent :
           /\ \A i \in Candidates : k <= i
           /\ sent[t].kind # "ac" /\ Intact(t, k)
           /\ looked' = [looked EXCEPT ![t] = @ + 1]
           /\ \E d \in Decisions(sent[t].kind, Filter!Known) :
                  /\ AddKnownICAO(d.heard)
                  /\ spoken' = spoken \cup d.spoken
                  /\ believed' = believed \cup d.believed
                  /\ outvoted' = (outvoted \/ d.outvoted)
                  /\ j' = IF d.trusted THEN k + Span(t) ELSE k + 1
    /\ UNCHANGED <<bufferVars, scan, rotations>>

ScanEnds ==
    /\ scan = "S" /\ Candidates = {}
    /\ scan' = "AC" /\ j' = 1
    /\ UNCHANGED <<bufferVars, filterVars, looked, trustVars, rotations>>

(***************************************************************************)
(* Demodulate2400AC, whose replies are trusted for their shape.            *)
(***************************************************************************)
ScannedAC == 1 .. length - ACWindow - 1

Replied == {k \in ScannedAC : k >= j /\ \E t \in Sent :
                sent[t].kind = "ac" /\ Intact(t, k)}

Reply ==
    /\ scan = "AC"
    /\ \E k \in Replied, t \in Sent :
           /\ \A i \in Replied : k <= i
           /\ sent[t].kind = "ac" /\ Intact(t, k)
           /\ looked' = [looked EXCEPT ![t] = @ + 1]
           /\ j' = k + Span(t)
    /\ UNCHANGED <<bufferVars, scan, filterVars, trustVars, rotations>>

(***************************************************************************)
(* The end of the loop: the tail of the buffer becomes the overlap, but    *)
(* processInput leaves the old one when the read was shorter than that.    *)
(***************************************************************************)
\* Mutant: the overlap is taken from the start of the samples read last.
TailNot(k) == data[k + Overlap]

Tail(k) == data[k + length]

BufferEnds ==
    /\ scan = "AC" /\ Replied = {}
    /\ scan' = "read" /\ j' = 0
    /\ IF device \/ length >= Overlap
       THEN data' = [k \in DOMAIN data |-> IF k < Overlap THEN Tail(k) ELSE data[k]]
       ELSE data' = data
    /\ seams' = seams \cup {read - Overlap + 1}
    /\ UNCHANGED <<device, sent, read, length, short, filterVars, looked,
                   trustVars, rotations>>

\* Nothing is scored that comes from the network.
Unfiltered == {g \in Announced : TrustedUnfiltered(g) /\ g.scored = g.fixed}

\* A message from the network goes to handleMessage without a filter.
Network ==
    /\ \E d \in {[heard |-> Heard(f), spoken |-> Spoken(f)] : f \in Unfiltered} :
           /\ spoken' = spoken \cup d.spoken
           /\ AddKnownICAO(d.heard)
    /\ UNCHANGED <<bufferVars, scan, j, looked, believed, outvoted, rotations>>

\* The periodic goroutine expires the filter.
Expire ==
    /\ rotations < MaxRotations /\ rotations' = rotations + 1
    /\ Filter!Rotate
    /\ UNCHANGED <<bufferVars, scan, j, looked, trustVars>>

Next ==
    \/ \E n \in Reads \cup {Full} : Read(n)
    \/ Candidate \/ ScanEnds \/ Reply \/ BufferEnds
    \/ Network
    \/ Expire

Spec == Init /\ [][Next]_vars

------------------------------------------------------------------------------
\* Nothing is believed of an address that nobody announced, but of 0: the filter
\* holds only addresses of squitters and all-call replies received without an
\* error, never a repaired one nor, as an ICAO address, one a squitter said is
\* none; and a message that does not announce its address, or only after a repair
\* changed it, is handled only for such an address or for 0, which Test takes for
\* known (scoreModesMessage, DecodeModesMessageWithFilter, AddKnownICAO).
OnlyHeard ==
    /\ Filter!Known \subseteq spoken
    /\ believed \subseteq spoken \cup {ICAO(Zero)}

\* A squitter that some phase reads without an error is handled as it was
\* sent, whatever the other phases make of the same samples and whatever is
\* known: the scores of scoreModesMessage rank it above every misreading.
CleanSquitterWins == ~outvoted

\* No transmission is demodulated twice, although the overlap puts it into two
\* buffers, as long as no read is shorter than the overlap.
HeardOnce == ~short => \A t \in Sent : looked[t] <= 1

AtSeam(t) == \E s \in seams :
    IF sent[t].kind = "ac" THEN s - sent[t].start \in 0 .. ACWindow
                           ELSE s - sent[t].start \in 1 .. Window

\* A transmission that the scan has passed was a candidate, unless it began
\* just before a seam: 287 samples before, or 100 for Mode A/C.
HeardUnlessAtSeam ==
    ~short /\ scan = "read" => \A t \in Sent :
        sent[t].start <= read - Overlap => looked[t] >= 1 \/ AtSeam(t)

==============================================================================

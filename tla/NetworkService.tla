--------------------------- MODULE NetworkService ---------------------------
(***************************************************************************)
(* One TCP output service of the server: network.go, NetworkClient and the *)
(* callers of Broadcast and sendHeartbeats in main.go.  Handlers of        *)
(* messages broadcast, the periodic task sends heartbeats, and one         *)
(* goroutine accepts connections and, after the shutdown, closes them all. *)
(* They share a sync.Map of clients and no lock: Range, as in the Go 1.21  *)
(* of go.mod, goes over the keys there are when it begins and may pass     *)
(* over one deleted since, and Write, Close and Delete are steps of their  *)
(* own.  Write either puts the whole frame into the socket or gives up     *)
(* after 100 ms, when a part of it may be there.                           *)
(***************************************************************************)
EXTENDS Integers

CONSTANTS
    Conn,        \* connections; one is used again once nothing refers to it
    Addr,        \* addresses of peers
    Prompt,      \* the peers that always make room for a frame within 100 ms
    Broadcaster, \* goroutines that call Broadcast: receiver and input connections
    Periodic,    \* the goroutine of the periodic task
    Acceptor,    \* the goroutine of runOutputTCPServer
    Interval,    \* HeartbeatInterval in periods of the task; 0 is none
    Room         \* bound: frames that fit into the buffers of a socket

Worker == Broadcaster \cup {Periodic, Acceptor}

ASSUME ServiceAssumption ==
    /\ Prompt \subseteq Addr
    /\ Periodic \notin Broadcaster /\ Acceptor \notin Broadcaster \cup {Periodic}
    /\ Interval \in Nat /\ Room \in Nat \ {0}

VARIABLES
    ctxDone,  \* whether app.ctx is cancelled
    listening,\* whether the listener is open
    clients,  \* svc.clients: client IDs to connections
    stage,    \* of a connection: free, in the listener's backlog, accepted, or closed by the server
    addr,     \* its peer's address
    peer,     \* its peer: open, gone, or known to be gone (reset)
    buffer,   \* frames in its sockets, if the peer is prompt
    idle,     \* periods since lastWrite, as long as the periodic task asks
    pc,       \* where a goroutine is
    left,     \* the entries that its Range has yet to show
    cur,      \* the entry it is closing and deleting, or adding
    due,      \* whether the ticker of the periodic task has fired
    got       \* history: what an open connection has of a goroutine's frames: none yet, all
              \* since its first (has), all but the one being broadcast (owed), or not (missed)

serviceVars == <<ctxDone, listening, clients, stage, addr, peer, buffer, idle,
                 pc, left, cur, due, got>>

Nobody == <<>>
Nothing == [b \in Broadcaster |-> "none"]
Entry(m) == {<<k, m[k]>> : k \in DOMAIN m}

ServiceInit ==
    /\ ctxDone = FALSE /\ listening = FALSE /\ due = FALSE
    /\ clients = <<>>
    /\ stage = [c \in Conn |-> "free"]
    /\ addr = [c \in Conn |-> CHOOSE a \in Addr : TRUE]
    /\ peer = [c \in Conn |-> "open"]
    /\ buffer = [c \in Conn |-> 0] /\ idle = [c \in Conn |-> 0]
    /\ pc = [w \in Worker |-> IF w = Acceptor THEN "listen" ELSE "idle"]
    /\ left = [w \in Worker |-> {}]
    /\ cur = [w \in Worker |-> Nobody]
    /\ got = [c \in Conn |-> Nothing]

Go(w, l) == pc' = [pc EXCEPT ![w] = l]

\* Mutant: the ID is the address.
newClientIDAddress(c) == <<addr[c], 0>>

\* The counter makes IDs of connections from one address differ.
newClientID(c) == <<addr[c], c>>

-----------------------------------------------------------------------------
(* Range over the clients, for Broadcast, sendHeartbeats and CloseAll. *)

RangeBegin(w) == left' = [left EXCEPT ![w] = Entry(clients)]

Broadcast(b) ==
    /\ pc[b] = "idle"
    /\ RangeBegin(b) /\ Go(b, "range")
    /\ got' = [c \in Conn |-> [got[c] EXCEPT ![b] = IF @ = "has" THEN "owed" ELSE IF @ = "owed" THEN "missed" ELSE @]]
    /\ UNCHANGED <<ctxDone, listening, clients, stage, addr, peer, buffer, idle, cur, due>>

sendHeartbeats ==
    /\ pc[Periodic] = "idle" /\ due /\ due' = FALSE
    /\ IF Interval = 0 THEN UNCHANGED <<left, pc>>
       ELSE RangeBegin(Periodic) /\ Go(Periodic, "range")
    /\ UNCHANGED <<ctxDone, listening, clients, stage, addr, peer, buffer, idle, cur, got>>

\* Mutant: a period later.
shouldSendLater(c) == {h \in BOOLEAN : IF h THEN idle[c] > Interval ELSE idle[c] <= Interval + 1}

\* time.Since(lastWrite) >= interval: between n - 1 and n periods have passed when the clock
\* has ticked n times.
shouldSendHeartbeat(c) == {h \in BOOLEAN : IF h THEN idle[c] >= Interval ELSE idle[c] <= Interval}

\* An entry that is no longer there may be passed over.
RangeEnd(w) ==
    /\ pc[w] = "range" /\ left[w] \cap Entry(clients) = {}
    /\ Go(w, IF w = Acceptor THEN "done" ELSE "idle")
    /\ left' = [left EXCEPT ![w] = {}]
    /\ UNCHANGED <<ctxDone, listening, clients, stage, addr, peer, buffer, idle, cur, due, got>>

\* conn.Write of a whole frame; to a peer that is gone the first one seems to succeed, and the
\* peer's kernel answers it with a reset.  The buffers of a peer that is not prompt are left out.
WriteSucceeds(w, c) ==
    /\ stage[c] = "accepted"
    /\ \/ /\ peer[c] = "open" /\ UNCHANGED peer
          /\ IF addr[c] \in Prompt THEN buffer[c] < Room /\ buffer' = [buffer EXCEPT ![c] = @ + 1]
             ELSE UNCHANGED buffer
       \/ /\ peer[c] = "gone" /\ peer' = [peer EXCEPT ![c] = "reset"]
          /\ UNCHANGED buffer
    /\ idle' = [idle EXCEPT ![c] = 0]
    /\ got' = IF w \in Broadcaster /\ got[c][w] # "missed" THEN [got EXCEPT ![c][w] = "has"] ELSE got

\* It fails on a closed connection, and at the deadline if the peer leaves no room: then none
\* or a part of the frame has gone.
WriteFails(c) ==
    \/ stage[c] = "closed"
    \/ peer[c] = "reset"
    \/ peer[c] = "open" /\ addr[c] \notin Prompt

\* Mutant: the error is ignored.
GiveUpNot(w, e) == UNCHANGED <<pc, cur>>

\* The client is to be closed and deleted, and Range goes on.
GiveUp(w, e) == cur' = [cur EXCEPT ![w] = e] /\ Go(w, "close")

Visit(w) ==
    /\ pc[w] = "range" /\ w # Acceptor
    /\ \E e \in left[w] :
         /\ left' = [left EXCEPT ![w] = @ \ {e}]
         /\ \/ /\ w = Periodic /\ FALSE \in shouldSendHeartbeat(e[2])
               /\ UNCHANGED <<peer, buffer, idle, got, pc, cur>>
            \/ /\ w \in Broadcaster \/ (w = Periodic /\ TRUE \in shouldSendHeartbeat(e[2]))
               /\ \/ WriteSucceeds(w, e[2]) /\ UNCHANGED <<pc, cur>>
                  \/ /\ WriteFails(e[2]) /\ UNCHANGED <<peer, buffer, idle, got>>
                     /\ GiveUp(w, e)
    /\ UNCHANGED <<ctxDone, listening, clients, stage, addr, due>>

\* NetworkClient.Close; what the service knew of the connection is forgotten.
CloseConn(c) ==
    /\ stage' = [stage EXCEPT ![c] = "closed"]
    /\ peer' = [peer EXCEPT ![c] = IF @ = "open" THEN @ ELSE "gone"]
    /\ idle' = [idle EXCEPT ![c] = 0] /\ got' = [got EXCEPT ![c] = Nothing]

Without(k) == [i \in DOMAIN clients \ {k} |-> clients[i]]

Close(w) ==
    /\ pc[w] = "close" /\ Go(w, "delete")
    /\ CloseConn(cur[w][2])
    /\ UNCHANGED <<ctxDone, listening, clients, addr, buffer, left, cur, due>>

Delete(w) ==
    /\ pc[w] = "delete" /\ Go(w, "range")
    /\ clients' = Without(cur[w][1])
    /\ cur' = [cur EXCEPT ![w] = Nobody]
    /\ UNCHANGED <<ctxDone, listening, stage, addr, peer, buffer, idle, left, due, got>>

\* CloseAll does both for every client.
CloseOne ==
    /\ pc[Acceptor] = "range"
    /\ \E e \in left[Acceptor] :
         /\ left' = [left EXCEPT ![Acceptor] = @ \ {e}]
         /\ CloseConn(e[2]) /\ clients' = Without(e[1])
    /\ UNCHANGED <<ctxDone, listening, addr, buffer, pc, cur, due>>

-----------------------------------------------------------------------------
(* runOutputTCPServer. *)

\* A disabled port or a failed Listen goes straight to the deferred CloseAll.
Listen ==
    /\ pc[Acceptor] = "listen"
    /\ \/ listening' = TRUE /\ Go(Acceptor, "accept") /\ UNCHANGED left
       \/ UNCHANGED listening /\ Go(Acceptor, "range") /\ RangeBegin(Acceptor)
    /\ UNCHANGED <<ctxDone, clients, stage, addr, peer, buffer, idle, cur, due, got>>

\* An Accept that fails before the shutdown is tried again.
Accept ==
    /\ pc[Acceptor] = "accept" /\ listening
    /\ \E c \in Conn :
         /\ stage[c] = "backlog"
         /\ stage' = [stage EXCEPT ![c] = "accepted"] /\ idle' = [idle EXCEPT ![c] = 0]
         /\ cur' = [cur EXCEPT ![Acceptor] = <<newClientID(c), c>>]
    /\ Go(Acceptor, "add")
    /\ UNCHANGED <<ctxDone, listening, clients, addr, peer, buffer, left, due, got>>

With(k, c) == [i \in DOMAIN clients \cup {k} |-> IF i = k THEN c ELSE clients[i]]

Add ==
    /\ pc[Acceptor] = "add" /\ Go(Acceptor, "accept")
    /\ clients' = With(cur[Acceptor][1], cur[Acceptor][2])
    /\ cur' = [cur EXCEPT ![Acceptor] = Nobody]
    /\ UNCHANGED <<ctxDone, listening, stage, addr, peer, buffer, idle, left, due, got>>

\* Mutant: nobody interrupts Accept.
CloseListenerNever == FALSE /\ UNCHANGED serviceVars

\* The goroutine that waits for ctx.Done; the backlog is refused.
CloseListener ==
    /\ ctxDone /\ listening /\ listening' = FALSE
    /\ stage' = [c \in Conn |-> IF stage[c] = "backlog" THEN "closed" ELSE stage[c]]
    /\ UNCHANGED <<ctxDone, clients, addr, peer, buffer, idle, pc, left, cur, due, got>>

\* Mutant: the shutdown does not wait for the listener.
AcceptEndsEarly ==
    /\ pc[Acceptor] = "accept" /\ ctxDone
    /\ Go(Acceptor, "range") /\ RangeBegin(Acceptor)
    /\ UNCHANGED <<ctxDone, listening, clients, stage, addr, peer, buffer, idle, cur, due, got>>

\* Mutant: an Accept that fails ends the service.
AcceptEndsOnError ==
    /\ pc[Acceptor] = "accept"
    /\ Go(Acceptor, "range") /\ RangeBegin(Acceptor)
    /\ UNCHANGED <<ctxDone, listening, clients, stage, addr, peer, buffer, idle, cur, due, got>>

AcceptEnds ==
    /\ pc[Acceptor] = "accept" /\ ctxDone /\ ~listening
    /\ Go(Acceptor, "range") /\ RangeBegin(Acceptor)
    /\ UNCHANGED <<ctxDone, listening, clients, stage, addr, peer, buffer, idle, cur, due, got>>

\* runPeriodicTasks returns, and nobody asks any more for how long a connection was idle.
PeriodicEnds ==
    /\ pc[Periodic] = "idle" /\ ctxDone /\ Go(Periodic, "done")
    /\ idle' = [c \in Conn |-> 0]
    /\ UNCHANGED <<ctxDone, listening, clients, stage, addr, peer, buffer, left, cur, due, got>>

Cancel ==
    /\ ~ctxDone /\ ctxDone' = TRUE
    /\ UNCHANGED <<listening, clients, stage, addr, peer, buffer, idle, pc, left, cur, due, got>>

WorkerStep(w) == RangeEnd(w) \/ Visit(w) \/ Close(w) \/ Delete(w)
AcceptorStep == CloseOne \/ Listen \/ Accept \/ Add \/ AcceptEnds

ServiceStep ==
    \/ \E w \in Worker : WorkerStep(w)
    \/ AcceptorStep \/ CloseListener \/ sendHeartbeats \/ PeriodicEnds \/ Cancel
    \/ \E b \in Broadcaster : Broadcast(b)

-----------------------------------------------------------------------------
(* Properties. *)

Registered(c) == \E k \in DOMAIN clients : clients[k] = c

\* A connection that was accepted and not closed is in the map, so that messages, heartbeats
\* and the shutdown reach it, whoever else's entry is deleted at the same time; only the
\* acceptor may be about to add it (the IDs of newClientID, Close before Delete).
OpenIsRegistered ==
    \A c \in Conn : stage[c] = "accepted" =>
        Registered(c) \/ (pc[Acceptor] = "add" /\ cur[Acceptor][2] = c)

\* When the service's goroutine returns no connection is open and the map is empty, however
\* broadcasts, heartbeats and late connections met the shutdown.
AllClosed ==
    pc[Acceptor] = "done" =>
        clients = <<>> /\ \A c \in Conn : stage[c] \in {"free", "closed"}

\* What an open connection has got of one goroutine's frames is an unbroken run up to its last
\* broadcast: a failing neighbour costs it no frame, and a frame it missed costs it the
\* connection (Broadcast goes on after an error and closes the client at fault).
Unbroken == \A c \in Conn, b \in Broadcaster : got[c][b] # "missed"

=============================================================================

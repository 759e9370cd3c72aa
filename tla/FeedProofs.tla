----------------------------- MODULE FeedProofs -----------------------------
(***************************************************************************)
(* Clients come, stall and go while goroutines broadcast to them and the   *)
(* shutdown closes them: the map of clients stays right without a lock,    *)
(* for any numbers of connections, addresses, goroutines and readers.      *)
(***************************************************************************)
EXTENDS Feed, TLAPS

Stages == {"free", "backlog", "accepted", "closed"}
AcceptorPlaces == {"listen", "accept", "add", "range", "done"}
WorkerPlaces == {"idle", "range", "close", "delete", "done"}
Gots == {"none", "has", "owed", "missed"}

\* An entry of the map: its ID names the connection.
IsEntry(e) == e = <<e[1], e[2]>> /\ e[2] \in Conn /\ e[1][2] = e[2]

TypeInv ==
    /\ stage \in [Conn -> Stages]
    /\ got \in [Conn -> [Broadcaster -> Gots]]
    /\ pc \in [Worker -> AcceptorPlaces \cup WorkerPlaces]
    /\ \A w \in Worker : pc[w] \in (IF w = Acceptor THEN AcceptorPlaces ELSE WorkerPlaces)
    /\ listening \in BOOLEAN
    /\ clients = [k \in DOMAIN clients |-> clients[k]]
    /\ \A k \in DOMAIN clients : clients[k] \in Conn /\ k[2] = clients[k]
    /\ DOMAIN left = Worker /\ DOMAIN cur = Worker
    /\ \A w \in Worker : \A e \in left[w] : IsEntry(e)
    /\ \A w \in Worker : pc[w] \in {"add", "close", "delete"} => IsEntry(cur[w])
    /\ \A w \in Worker : pc[w] \notin {"add", "close", "delete"} => cur[w] = Nobody

\* w has yet to visit, or is closing, adding or deleting, the connection c.
Holds(w, c) ==
    \/ \E e \in left[w] : e[2] = c
    \/ pc[w] \in {"add", "close", "delete"} /\ cur[w][2] = c

\* A connection that anything refers to is in use or closed, not a new one.
RefsUsed ==
    \A c \in Conn : stage[c] \in {"free", "backlog"} =>
        ~Registered(c) /\ \A w \in Worker : ~Holds(w, c)

\* What is being deleted is closed, and stays so.
DeletingClosed == \A w \in Worker : pc[w] = "delete" => stage[cur[w][2]] = "closed"

\* Nobody has heard yet of the connection that is being added.
AddingFresh ==
    pc[Acceptor] = "add" =>
        /\ ~Registered(cur[Acceptor][2])
        /\ \A w \in Worker \ {Acceptor} : ~Holds(w, cur[Acceptor][2])
        /\ \A e \in left[Acceptor] : e[2] # cur[Acceptor][2]

\* The goroutine of the service closes what there is when nothing more can come.
EndsLast ==
    /\ ~listening => \A c \in Conn : stage[c] # "backlog"
    /\ listening => pc[Acceptor] \in {"accept", "add"}
    /\ pc[Acceptor] = "range" => Entry(clients) \subseteq left[Acceptor]
    /\ pc[Acceptor] = "done" => DOMAIN clients = {}

\* b is about to write to c, or to close it.
Coming(b, c) ==
    /\ pc[b] \in {"range", "close", "delete"}
    /\ \/ \E k \in DOMAIN clients : clients[k] = c /\ <<k, c>> \in left[b]
       \/ pc[b] = "close" /\ cur[b][2] = c

\* Who has had frames is open and in the map, and gets the one being broadcast.
GotInv ==
    \A c \in Conn, b \in Broadcaster :
        /\ got[c][b] # "missed"
        /\ got[c][b] \in {"has", "owed"} => stage[c] = "accepted" /\ Registered(c)
        /\ got[c][b] = "owed" => Coming(b, c)

IInv == TypeInv /\ RefsUsed /\ DeletingClosed /\ OpenIsRegistered /\ AddingFresh /\ EndsLast /\ GotInv

LEMMA Workers ==
    /\ Acceptor \in Worker /\ Periodic \in Worker /\ Broadcaster \subseteq Worker
    /\ Periodic # Acceptor /\ Acceptor \notin Broadcaster /\ Periodic \notin Broadcaster
BY ServiceAssumption DEF ServiceAssumption, Worker

LEMMA InitIInv == Init => IInv
<1> SUFFICES ASSUME Init PROVE IInv
  OBVIOUS
<1> USE DEF Init, ServiceInit
<1>1. DOMAIN clients = {} /\ clients = [k \in DOMAIN clients |-> clients[k]]
  OBVIOUS
<1>2. \A w \in Worker : left[w] = {} /\ cur[w] = Nobody
                        /\ pc[w] \in {"listen", "idle"}
  OBVIOUS
<1>3. /\ stage = [c \in Conn |-> "free"] /\ got = [c \in Conn |-> [b \in Broadcaster |-> "none"]]
      /\ listening = FALSE /\ DOMAIN left = Worker /\ DOMAIN cur = Worker
      /\ pc = [w \in Worker |-> IF w = Acceptor THEN "listen" ELSE "idle"]
  BY DEF Nothing
<1> USE Workers
<1>4. TypeInv
  <2>1. stage \in [Conn -> Stages] /\ got \in [Conn -> [Broadcaster -> Gots]]
    BY <1>3 DEF Stages, Gots
  <2>2. /\ pc \in [Worker -> AcceptorPlaces \cup WorkerPlaces]
        /\ \A w \in Worker : pc[w] \in (IF w = Acceptor THEN AcceptorPlaces ELSE WorkerPlaces)
    BY <1>3 DEF AcceptorPlaces, WorkerPlaces
  <2>3. \A w \in Worker : pc[w] \notin {"add", "close", "delete"}
    BY <1>2
  <2> QED BY <1>1, <1>2, <1>3, <2>1, <2>2, <2>3 DEF TypeInv
<1>5. RefsUsed /\ DeletingClosed /\ OpenIsRegistered /\ AddingFresh /\ EndsLast
  BY <1>1, <1>2, <1>3
     DEF RefsUsed, DeletingClosed, OpenIsRegistered, AddingFresh, EndsLast, Registered, Holds
<1>6. GotInv
  BY <1>3 DEF GotInv
<1> QED BY <1>4, <1>5, <1>6 DEF IInv

\* The steps of time and of peers that leave, and others that concern only them.
LEMMA QuietIInv ==
    ASSUME IInv, UNCHANGED <<clients, stage, pc, left, cur, got, listening>>
    PROVE  IInv'
<1>1. TypeInv'
  BY DEF IInv, TypeInv
<1>2. \A c \in Conn : /\ Registered(c)' = Registered(c)
                     /\ \A w \in Worker : /\ Holds(w, c)' = Holds(w, c)
                                          /\ Coming(w, c)' = Coming(w, c)
  BY DEF Registered, Holds, Coming
<1>3. RefsUsed' /\ DeletingClosed'
  BY <1>2 DEF IInv, RefsUsed, DeletingClosed
<1>4. OpenIsRegistered'
  BY <1>2 DEF IInv, OpenIsRegistered
<1>5. AddingFresh'
  BY DEF IInv, AddingFresh, Registered, Holds
<1>6. EndsLast'
  BY DEF IInv, EndsLast, Entry
<1>7. GotInv'
  BY <1>2, Workers DEF IInv, GotInv
<1> QED BY <1>1, <1>3, <1>4, <1>5, <1>6, <1>7 DEF IInv

-----------------------------------------------------------------------------
(* Going over the map. *)

\* A goroutine begins: it will see all the entries there are.
LEMMA BeginIInv ==
    ASSUME IInv, NEW w \in Worker, pc[w] \in {"idle", "listen", "accept"},
           w = Acceptor => ~listening,
           RangeBegin(w), Go(w, "range"),
           got' \in [Conn -> [Broadcaster -> Gots]],
           \A c \in Conn, b \in Broadcaster :
               /\ b # w => got'[c][b] = got[c][b]
               /\ b = w => got'[c][b] = IF got[c][b] = "has" THEN "owed" ELSE got[c][b],
           UNCHANGED <<clients, stage, cur, listening>>
    PROVE  IInv'
<1> USE Workers
<1>1. /\ DOMAIN left' = Worker /\ left'[w] = Entry(clients)
      /\ \A v \in Worker : v # w => left'[v] = left[v] /\ pc'[v] = pc[v]
      /\ pc'[w] = "range"
  BY DEF RangeBegin, Go, IInv, TypeInv
<1>2. \A e \in Entry(clients) : IsEntry(e) /\ Registered(e[2])
  BY DEF Entry, IsEntry, Registered, IInv, TypeInv
<1>3. \A c \in Conn : Registered(c)' = Registered(c)
  BY DEF Registered
<1>4. TypeInv'
  <2>1. /\ pc' \in [Worker -> AcceptorPlaces \cup WorkerPlaces]
        /\ \A v \in Worker : pc'[v] \in (IF v = Acceptor THEN AcceptorPlaces ELSE WorkerPlaces)
    BY <1>1 DEF Go, IInv, TypeInv, AcceptorPlaces, WorkerPlaces
  <2>2. \A v \in Worker : \A e \in left'[v] : IsEntry(e)
    BY <1>1, <1>2 DEF IInv, TypeInv
  <2>3. \A v \in Worker : /\ pc'[v] \in {"add", "close", "delete"} => IsEntry(cur[v])
                          /\ pc'[v] \notin {"add", "close", "delete"} => cur[v] = Nobody
    BY <1>1 DEF IInv, TypeInv
  <2> QED BY <1>1, <2>1, <2>2, <2>3 DEF IInv, TypeInv
<1>5. \A v \in Worker, c \in Conn : Holds(v, c)' => Holds(v, c) \/ (v = w /\ Registered(c))
  BY <1>1, <1>2 DEF Holds
<1>6. RefsUsed'
  BY <1>3, <1>5 DEF IInv, RefsUsed
<1>7. DeletingClosed' /\ OpenIsRegistered'
  BY <1>1, <1>3 DEF IInv, DeletingClosed, OpenIsRegistered
<1>8. AddingFresh'
  <2> SUFFICES ASSUME pc'[Acceptor] = "add" PROVE AddingFresh'
    BY DEF AddingFresh
  <2>1. w # Acceptor /\ pc[Acceptor] = "add" /\ left'[Acceptor] = left[Acceptor]
    BY <1>1
  <2>2. cur[Acceptor][2] \in Conn
    BY <2>1 DEF IInv, TypeInv, IsEntry
  <2> QED BY <1>3, <1>5, <2>1, <2>2 DEF IInv, AddingFresh
<1>9. EndsLast'
  BY <1>1 DEF IInv, EndsLast
<1>10. GotInv'
  <2> SUFFICES ASSUME NEW c \in Conn, NEW b \in Broadcaster
               PROVE  /\ got'[c][b] # "missed"
                      /\ got'[c][b] \in {"has", "owed"} => stage[c] = "accepted" /\ Registered(c)
                      /\ got'[c][b] = "owed" => Coming(b, c)'
    BY <1>3 DEF GotInv
  <2>1. /\ got[c][b] # "missed"
        /\ got[c][b] \in {"has", "owed"} => stage[c] = "accepted" /\ Registered(c)
        /\ got[c][b] = "owed" => Coming(b, c)
    BY DEF IInv, GotInv
  <2>2. CASE b # w
    BY <1>1, <2>1, <2>2 DEF Coming
  <2>3. CASE b = w
    <3>1. got[c][b] # "owed"
      BY <2>1, <2>3 DEF Coming
    <3>2. Registered(c) => Coming(b, c)'
      BY <1>1, <2>3 DEF Registered, Coming, Entry
    <3> QED BY <2>1, <2>3, <3>1, <3>2
  <2> QED BY <2>2, <2>3
<1> QED BY <1>4, <1>6, <1>7, <1>8, <1>9, <1>10 DEF IInv

\* It ends: the entries it has not seen are gone, so that nobody is owed anything.
LEMMA EndIInv ==
    ASSUME IInv, NEW w \in Worker, RangeEnd(w)
    PROVE  IInv'
<1> USE Workers
<1>1. /\ DOMAIN left' = Worker /\ left'[w] = {} /\ pc[w] = "range"
      /\ \A v \in Worker : v # w => left'[v] = left[v] /\ pc'[v] = pc[v]
      /\ pc'[w] = IF w = Acceptor THEN "done" ELSE "idle"
      /\ left[w] \cap Entry(clients) = {}
      /\ UNCHANGED <<clients, stage, cur, listening, got>>
  BY DEF RangeEnd, Go, IInv, TypeInv
<1>3. \A c \in Conn : Registered(c)' = Registered(c)
  BY <1>1 DEF Registered
<1>4. TypeInv'
  <2>1. /\ pc' \in [Worker -> AcceptorPlaces \cup WorkerPlaces]
        /\ \A v \in Worker : pc'[v] \in (IF v = Acceptor THEN AcceptorPlaces ELSE WorkerPlaces)
    BY <1>1 DEF RangeEnd, Go, IInv, TypeInv, AcceptorPlaces, WorkerPlaces
  <2>2. \A v \in Worker : \A e \in left'[v] : IsEntry(e)
    BY <1>1 DEF IInv, TypeInv
  <2>3. \A v \in Worker : /\ pc'[v] \in {"add", "close", "delete"} => IsEntry(cur[v])
                          /\ pc'[v] \notin {"add", "close", "delete"} => cur[v] = Nobody
    BY <1>1 DEF IInv, TypeInv
  <2> QED BY <1>1, <2>1, <2>2, <2>3 DEF IInv, TypeInv
<1>5. \A v \in Worker, c \in Conn : Holds(v, c)' => Holds(v, c)
  BY <1>1 DEF Holds
<1>6. RefsUsed'
  BY <1>1, <1>3, <1>5 DEF IInv, RefsUsed
<1>7. DeletingClosed' /\ OpenIsRegistered'
  BY <1>1, <1>3 DEF IInv, DeletingClosed, OpenIsRegistered
<1>8. AddingFresh'
  <2> SUFFICES ASSUME pc'[Acceptor] = "add" PROVE AddingFresh'
    BY DEF AddingFresh
  <2>1. w # Acceptor /\ pc[Acceptor] = "add" /\ left'[Acceptor] = left[Acceptor]
    BY <1>1
  <2>2. cur[Acceptor][2] \in Conn
    BY <2>1 DEF IInv, TypeInv, IsEntry
  <2> QED BY <1>1, <1>3, <1>5, <2>1, <2>2 DEF IInv, AddingFresh
<1>9. EndsLast'
  <2>1. w = Acceptor => DOMAIN clients = {}
    BY <1>1 DEF IInv, EndsLast, Entry
  <2> QED BY <1>1, <2>1 DEF IInv, EndsLast
<1>10. GotInv'
  <2> SUFFICES ASSUME NEW c \in Conn, NEW b \in Broadcaster, got[c][b] = "owed"
               PROVE  Coming(b, c)'
    BY <1>1, <1>3 DEF IInv, GotInv
  <2>1. Coming(b, c)
    BY DEF IInv, GotInv
  <2>2. b # w
    BY <1>1, <2>1 DEF Coming, Entry
  <2> QED BY <1>1, <2>1, <2>2 DEF Coming
<1> QED BY <1>4, <1>6, <1>7, <1>8, <1>9, <1>10 DEF IInv

\* One entry is shown: written to, left alone, or found to be failing.
LEMMA VisitIInv ==
    ASSUME IInv, NEW w \in Worker, Visit(w)
    PROVE  IInv'
<1> USE Workers
<1>1. PICK e \in left[w] :
          /\ left' = [left EXCEPT ![w] = @ \ {e}]
          /\ \/ w = Periodic /\ UNCHANGED <<got, pc, cur>>
             \/ WriteSucceeds(w, e[2]) /\ UNCHANGED <<pc, cur>>
             \/ UNCHANGED got /\ GiveUp(w, e)
  BY DEF Visit
<1>2. pc[w] = "range" /\ w # Acceptor /\ UNCHANGED <<listening, clients, stage>>
  BY DEF Visit
<1>3. /\ IsEntry(e) /\ DOMAIN left' = Worker /\ left'[w] = left[w] \ {e}
      /\ \A v \in Worker : v # w => left'[v] = left[v]
  BY <1>1 DEF IInv, TypeInv
<1>4. /\ \A v \in Worker : v # w => pc'[v] = pc[v] /\ cur'[v] = cur[v]
      /\ \/ pc'[w] = "range" /\ cur'[w] = cur[w]
         \/ pc'[w] = "close" /\ cur'[w] = e
      /\ DOMAIN cur' = Worker /\ pc' \in [Worker -> AcceptorPlaces \cup WorkerPlaces]
  BY <1>1, <1>2 DEF WriteSucceeds, GiveUp, Go, IInv, TypeInv, WorkerPlaces
<1>5. \A c \in Conn : Registered(c)' = Registered(c)
  BY <1>2 DEF Registered
<1>6. \A v \in Worker, c \in Conn : Holds(v, c)' => Holds(v, c)
  BY <1>2, <1>3, <1>4 DEF Holds
<1>7. Holds(w, e[2])
  BY <1>1 DEF Holds
<1>8. \/ UNCHANGED got
      \/ /\ w \in Broadcaster /\ stage[e[2]] = "accepted"
         /\ got' = [got EXCEPT ![e[2]][w] = "has"]
  BY <1>1 DEF WriteSucceeds
<1>9. TypeInv'
  <2>1. got' \in [Conn -> [Broadcaster -> Gots]]
    BY <1>3, <1>8 DEF IsEntry, Gots, IInv, TypeInv
  <2>2. \A v \in Worker : /\ pc'[v] \in (IF v = Acceptor THEN AcceptorPlaces ELSE WorkerPlaces)
                          /\ \A x \in left'[v] : IsEntry(x)
                          /\ pc'[v] \in {"add", "close", "delete"} => IsEntry(cur'[v])
                          /\ pc'[v] \notin {"add", "close", "delete"} => cur'[v] = Nobody
    BY <1>2, <1>3, <1>4 DEF IInv, TypeInv, WorkerPlaces
  <2> QED BY <1>2, <1>3, <1>4, <2>1, <2>2 DEF IInv, TypeInv
<1>10. RefsUsed'
  BY <1>2, <1>5, <1>6 DEF IInv, RefsUsed
<1>11. DeletingClosed'
  BY <1>2, <1>4 DEF IInv, DeletingClosed
<1>12. OpenIsRegistered'
  BY <1>2, <1>4, <1>5 DEF IInv, OpenIsRegistered
<1>13. AddingFresh'
  <2> SUFFICES ASSUME pc'[Acceptor] = "add" PROVE AddingFresh'
    BY DEF AddingFresh
  <2>1. pc[Acceptor] = "add" /\ left'[Acceptor] = left[Acceptor] /\ cur'[Acceptor] = cur[Acceptor]
    BY <1>2, <1>3, <1>4
  <2>2. cur[Acceptor][2] \in Conn
    BY <2>1 DEF IInv, TypeInv, IsEntry
  <2> QED BY <1>5, <1>6, <2>1, <2>2 DEF IInv, AddingFresh
<1>14. EndsLast'
  BY <1>2, <1>3, <1>4 DEF IInv, EndsLast, Entry
<1>15. ASSUME NEW c \in Conn, NEW b \in Broadcaster, Coming(b, c), b # w \/ c # e[2]
       PROVE  Coming(b, c)'
  <2>1. CASE b # w
    BY <1>2, <1>3, <1>4, <1>15, <2>1 DEF Coming
  <2>2. CASE b = w /\ c # e[2]
    <3>1. PICK k \in DOMAIN clients : clients[k] = c /\ <<k, c>> \in left[w]
      BY <1>2, <1>15, <2>2 DEF Coming
    <3>2. <<k, c>> # e
      BY <1>3, <2>2 DEF IsEntry
    <3>3. <<k, c>> \in left'[w]
      BY <1>3, <3>1, <3>2
    <3> QED BY <1>2, <1>4, <2>2, <3>1, <3>3 DEF Coming
  <2> QED BY <1>15, <2>1, <2>2
<1>16. CASE UNCHANGED got
  <2>1. ASSUME NEW c \in Conn, NEW b \in Broadcaster, got[c][b] = "owed"
        PROVE  Coming(b, c)'
    <3>1. Coming(b, c)
      BY <2>1 DEF IInv, GotInv
    <3>2. CASE b = w /\ c = e[2]
      <4>1. pc'[w] = "close" /\ cur'[w] = e
        BY <1>1, <1>16, <3>2, <2>1 DEF WriteSucceeds, GiveUp, Go, IInv, TypeInv, GotInv, IsEntry
      <4> QED BY <3>2, <4>1 DEF Coming
    <3> QED BY <1>15, <3>1, <3>2
  <2> QED BY <1>2, <1>5, <1>9, <1>10, <1>11, <1>12, <1>13, <1>14, <1>16, <2>1 DEF IInv, GotInv
<1>17. CASE /\ w \in Broadcaster /\ stage[e[2]] = "accepted"
            /\ got' = [got EXCEPT ![e[2]][w] = "has"]
  <2>1. e[2] \in Conn
    BY <1>3 DEF IsEntry
  <2>2. Registered(e[2])
    BY <1>2, <1>7, <1>17, <2>1 DEF IInv, OpenIsRegistered, AddingFresh
  <2>3. \A c \in Conn, b \in Broadcaster :
            got'[c][b] = IF c = e[2] /\ b = w THEN "has" ELSE got[c][b]
    BY <1>17, <2>1 DEF IInv, TypeInv
  <2>4. GotInv'
    <3> SUFFICES ASSUME NEW c \in Conn, NEW b \in Broadcaster
                 PROVE  /\ got'[c][b] # "missed"
                        /\ got'[c][b] \in {"has", "owed"} => stage[c] = "accepted" /\ Registered(c)
                        /\ got'[c][b] = "owed" => Coming(b, c)'
      BY <1>2, <1>5 DEF GotInv
    <3>1. CASE c = e[2] /\ b = w
      BY <1>17, <2>2, <2>3, <3>1
    <3>2. CASE ~(c = e[2] /\ b = w)
      BY <1>15, <2>3, <3>2 DEF IInv, GotInv
    <3> QED BY <3>1, <3>2
  <2> QED BY <1>9, <1>10, <1>11, <1>12, <1>13, <1>14, <2>4 DEF IInv
<1> QED BY <1>8, <1>16, <1>17

-----------------------------------------------------------------------------
(* Closing and deleting. *)

\* Deleting an ID takes one connection out of the map.
LEMMA WithoutOne ==
    ASSUME TypeInv, NEW k, clients' = Without(k)
    PROVE  /\ DOMAIN clients' = DOMAIN clients \ {k}
           /\ clients' = [i \in DOMAIN clients' |-> clients'[i]]
           /\ \A i \in DOMAIN clients' : clients'[i] = clients[i]
           /\ \A c \in Conn : c # k[2] => Registered(c)' = Registered(c)
           /\ \A c \in Conn : Registered(c)' => Registered(c)
<1>1. /\ DOMAIN clients' = DOMAIN clients \ {k}
      /\ clients' = [i \in DOMAIN clients' |-> clients'[i]]
      /\ \A i \in DOMAIN clients' : clients'[i] = clients[i]
  BY DEF Without
<1>2. \A c \in Conn : c # k[2] => Registered(c)' = Registered(c)
  BY <1>1 DEF Registered, TypeInv
<1>3. \A c \in Conn : Registered(c)' => Registered(c)
  BY <1>1 DEF Registered
<1> QED BY <1>1, <1>2, <1>3

\* What closing a connection changes.
LEMMA ClosesOne ==
    ASSUME TypeInv, NEW c0 \in Conn, CloseConn(c0)
    PROVE  /\ stage' \in [Conn -> Stages] /\ got' \in [Conn -> [Broadcaster -> Gots]]
           /\ stage'[c0] = "closed" /\ \A b \in Broadcaster : got'[c0][b] = "none"
           /\ \A c \in Conn : c # c0 => stage'[c] = stage[c] /\ got'[c] = got[c]
BY DEF TypeInv, CloseConn, Nothing, Stages, Gots

LEMMA CloseIInv ==
    ASSUME IInv, NEW w \in Worker, Close(w)
    PROVE  IInv'
<1> USE Workers
<1> DEFINE c0 == cur[w][2]
<1>1. /\ pc[w] = "close" /\ pc'[w] = "delete" /\ w # Acceptor
      /\ pc' \in [Worker -> AcceptorPlaces \cup WorkerPlaces]
      /\ \A v \in Worker : v # w => pc'[v] = pc[v]
      /\ UNCHANGED <<listening, clients, left, cur>> /\ CloseConn(c0)
  BY DEF Close, Go, IInv, TypeInv, WorkerPlaces, AcceptorPlaces
<1>2. c0 \in Conn
  BY <1>1 DEF IInv, TypeInv, IsEntry
<1> HIDE DEF c0
<1>3. /\ stage' \in [Conn -> Stages] /\ got' \in [Conn -> [Broadcaster -> Gots]]
      /\ stage'[c0] = "closed" /\ \A b \in Broadcaster : got'[c0][b] = "none"
      /\ \A c \in Conn : c # c0 => stage'[c] = stage[c] /\ got'[c] = got[c]
  BY <1>1, <1>2, ClosesOne DEF IInv
<1>4. \A c \in Conn : /\ Registered(c)' = Registered(c)
                     /\ \A v \in Worker : Holds(v, c)' => Holds(v, c)
  <2>1. \A c \in Conn : Registered(c)' = Registered(c)
    BY <1>1 DEF Registered
  <2>2. ASSUME NEW c \in Conn, NEW v \in Worker, Holds(v, c)' PROVE Holds(v, c)
    BY <1>1, <2>2 DEF Holds
  <2> QED BY <2>1, <2>2
<1>12. ASSUME NEW c \in Conn, NEW v \in Worker, c # c0, Coming(v, c)
       PROVE  Coming(v, c)'
  BY <1>1, <1>12 DEF Coming, c0
<1>5. TypeInv'
  <2>1. \A v \in Worker : /\ pc'[v] \in (IF v = Acceptor THEN AcceptorPlaces ELSE WorkerPlaces)
                          /\ pc'[v] \in {"add", "close", "delete"} => IsEntry(cur[v])
                          /\ pc'[v] \notin {"add", "close", "delete"} => cur[v] = Nobody
    BY <1>1 DEF IInv, TypeInv, WorkerPlaces
  <2> QED BY <1>1, <1>3, <2>1 DEF IInv, TypeInv
<1>6. RefsUsed'
  <2>1. \A c \in Conn : stage'[c] \in {"free", "backlog"} => stage[c] \in {"free", "backlog"}
    BY <1>3
  <2> QED BY <1>4, <2>1 DEF IInv, RefsUsed
<1>7. DeletingClosed'
  <2> SUFFICES ASSUME NEW v \in Worker, pc'[v] = "delete" PROVE stage'[cur[v][2]] = "closed"
    BY <1>1 DEF DeletingClosed
  <2>1. cur[v][2] \in Conn
    BY <1>1 DEF IInv, TypeInv, IsEntry
  <2>2. v = w \/ stage[cur[v][2]] = "closed"
    BY <1>1 DEF IInv, DeletingClosed
  <2> QED BY <1>3, <2>1, <2>2 DEF c0
<1>8. OpenIsRegistered'
  BY <1>1, <1>3, <1>4 DEF IInv, OpenIsRegistered
<1>9. AddingFresh'
  <2> SUFFICES ASSUME pc'[Acceptor] = "add" PROVE AddingFresh'
    BY DEF AddingFresh
  <2>1. pc[Acceptor] = "add" /\ cur[Acceptor][2] \in Conn
    BY <1>1 DEF IInv, TypeInv, IsEntry
  <2> QED BY <1>1, <1>4, <2>1 DEF IInv, AddingFresh
<1>10. EndsLast'
  BY <1>1, <1>3 DEF IInv, EndsLast, Entry
<1>11. GotInv'
  <2> SUFFICES ASSUME NEW c \in Conn, NEW b \in Broadcaster
               PROVE  /\ got'[c][b] # "missed"
                      /\ got'[c][b] \in {"has", "owed"} => stage'[c] = "accepted" /\ Registered(c)
                      /\ got'[c][b] = "owed" => Coming(b, c)'
    BY <1>4 DEF GotInv
  <2>1. CASE c = c0
    BY <1>3, <2>1
  <2>2. CASE c # c0
    <3>1. got'[c][b] = got[c][b] /\ stage'[c] = stage[c]
      BY <1>3, <2>2
    <3>2. Coming(b, c) => Coming(b, c)'
      BY <1>12, <2>2
    <3> QED BY <3>1, <3>2 DEF IInv, GotInv
  <2> QED BY <2>1, <2>2
<1> QED BY <1>5, <1>6, <1>7, <1>8, <1>9, <1>10, <1>11 DEF IInv

LEMMA DeleteIInv ==
    ASSUME IInv, NEW w \in Worker, Delete(w)
    PROVE  IInv'
<1> USE Workers
<1> DEFINE c0 == cur[w][2]
           k0 == cur[w][1]
<1>1. /\ pc[w] = "delete" /\ pc'[w] = "range" /\ w # Acceptor /\ cur'[w] = Nobody
      /\ pc' \in [Worker -> AcceptorPlaces \cup WorkerPlaces] /\ DOMAIN cur' = Worker
      /\ \A v \in Worker : v # w => pc'[v] = pc[v] /\ cur'[v] = cur[v]
      /\ UNCHANGED <<listening, stage, left, got>> /\ clients' = Without(k0)
  BY DEF Delete, Go, IInv, TypeInv, WorkerPlaces, AcceptorPlaces
<1>2. c0 \in Conn /\ k0[2] = c0 /\ stage[c0] = "closed"
  BY <1>1 DEF IInv, TypeInv, IsEntry, DeletingClosed
<1> HIDE DEF c0, k0
<1>3. /\ DOMAIN clients' = DOMAIN clients \ {k0}
      /\ clients' = [i \in DOMAIN clients' |-> clients'[i]]
      /\ \A i \in DOMAIN clients' : clients'[i] = clients[i]
      /\ \A c \in Conn : c # c0 => Registered(c)' = Registered(c)
      /\ \A c \in Conn : Registered(c)' => Registered(c)
  BY <1>1, <1>2, WithoutOne DEF IInv
<1>4. ASSUME NEW c \in Conn, NEW v \in Worker, Holds(v, c)' PROVE Holds(v, c)
  BY <1>1, <1>4 DEF Holds
<1>5. TypeInv'
  <2>1. \A v \in Worker : /\ pc'[v] \in (IF v = Acceptor THEN AcceptorPlaces ELSE WorkerPlaces)
                          /\ pc'[v] \in {"add", "close", "delete"} => IsEntry(cur'[v])
                          /\ pc'[v] \notin {"add", "close", "delete"} => cur'[v] = Nobody
    BY <1>1 DEF IInv, TypeInv, WorkerPlaces
  <2>2. \A k \in DOMAIN clients' : clients'[k] \in Conn /\ k[2] = clients'[k]
    BY <1>3 DEF IInv, TypeInv
  <2> QED BY <1>1, <1>3, <2>1, <2>2 DEF IInv, TypeInv
<1>6. RefsUsed'
  BY <1>1, <1>3, <1>4 DEF IInv, RefsUsed
<1>7. DeletingClosed'
  BY <1>1 DEF IInv, DeletingClosed
<1>8. OpenIsRegistered'
  BY <1>1, <1>2, <1>3 DEF IInv, OpenIsRegistered
<1>9. AddingFresh'
  <2> SUFFICES ASSUME pc'[Acceptor] = "add" PROVE AddingFresh'
    BY DEF AddingFresh
  <2>1. pc[Acceptor] = "add" /\ cur[Acceptor][2] \in Conn /\ cur'[Acceptor] = cur[Acceptor]
    BY <1>1 DEF IInv, TypeInv, IsEntry
  <2> QED BY <1>1, <1>3, <1>4, <2>1 DEF IInv, AddingFresh
<1>10. EndsLast'
  <2>1. Entry(clients)' \subseteq Entry(clients)
    BY <1>3 DEF Entry
  <2> QED BY <1>1, <1>3, <2>1 DEF IInv, EndsLast
<1>11. GotInv'
  <2> SUFFICES ASSUME NEW c \in Conn, NEW b \in Broadcaster
               PROVE  /\ got[c][b] # "missed"
                      /\ got[c][b] \in {"has", "owed"} => stage[c] = "accepted" /\ Registered(c)'
                      /\ got[c][b] = "owed" => Coming(b, c)'
    BY <1>1 DEF GotInv
  <2>1. CASE c = c0
    BY <1>2, <2>1 DEF IInv, GotInv
  <2>2. CASE c # c0
    <3>1. ASSUME Coming(b, c) PROVE Coming(b, c)'
      <4>1. CASE pc[b] = "close" /\ cur[b][2] = c
        BY <1>1, <4>1 DEF Coming
      <4>2. CASE \E k \in DOMAIN clients : clients[k] = c /\ <<k, c>> \in left[b]
        <5>1. PICK k \in DOMAIN clients : clients[k] = c /\ <<k, c>> \in left[b]
          BY <4>2
        <5>2. k \in DOMAIN clients' /\ clients'[k] = c
          BY <1>2, <1>3, <2>2, <5>1 DEF IInv, TypeInv
        <5> QED BY <1>1, <3>1, <5>1, <5>2 DEF Coming
      <4> QED BY <3>1, <4>1, <4>2 DEF Coming
    <3> QED BY <1>3, <2>2, <3>1 DEF IInv, GotInv
  <2> QED BY <2>1, <2>2
<1> QED BY <1>5, <1>6, <1>7, <1>8, <1>9, <1>10, <1>11 DEF IInv

\* CloseAll closes and deletes; what is left of the map is what it has yet to see.
LEMMA CloseOneIInv ==
    ASSUME IInv, CloseOne
    PROVE  IInv'
<1> USE Workers
<1>1. PICK e \in left[Acceptor] :
          /\ left' = [left EXCEPT ![Acceptor] = @ \ {e}]
          /\ CloseConn(e[2]) /\ clients' = Without(e[1])
  BY DEF CloseOne
<1> DEFINE c0 == e[2]
           k0 == e[1]
<1>2. /\ c0 \in Conn /\ k0[2] = c0 /\ pc[Acceptor] = "range" /\ UNCHANGED <<listening, pc, cur>>
      /\ DOMAIN left' = Worker /\ left'[Acceptor] = left[Acceptor] \ {e}
      /\ \A v \in Worker : v # Acceptor => left'[v] = left[v]
  BY <1>1 DEF CloseOne, IInv, TypeInv, IsEntry
<1>3. /\ DOMAIN clients' = DOMAIN clients \ {k0}
      /\ clients' = [i \in DOMAIN clients' |-> clients'[i]]
      /\ \A i \in DOMAIN clients' : clients'[i] = clients[i]
      /\ \A c \in Conn : c # c0 => Registered(c)' = Registered(c)
      /\ \A c \in Conn : Registered(c)' => Registered(c)
  BY <1>1, <1>2, WithoutOne DEF IInv
<1>4. /\ stage' \in [Conn -> Stages] /\ got' \in [Conn -> [Broadcaster -> Gots]]
      /\ stage'[c0] = "closed" /\ \A b \in Broadcaster : got'[c0][b] = "none"
      /\ \A c \in Conn : c # c0 => stage'[c] = stage[c] /\ got'[c] = got[c]
  BY <1>1, <1>2, ClosesOne DEF IInv
<1> HIDE DEF c0, k0
<1>5. ASSUME NEW c \in Conn, NEW v \in Worker, Holds(v, c)' PROVE Holds(v, c)
  BY <1>2, <1>5 DEF Holds
<1>6. TypeInv'
  <2>1. \A v \in Worker : \A x \in left'[v] : IsEntry(x)
    BY <1>2 DEF IInv, TypeInv
  <2>2. \A k \in DOMAIN clients' : clients'[k] \in Conn /\ k[2] = clients'[k]
    BY <1>3 DEF IInv, TypeInv
  <2> QED BY <1>2, <1>3, <1>4, <2>1, <2>2 DEF IInv, TypeInv
<1>7. RefsUsed'
  <2>1. \A c \in Conn : stage'[c] \in {"free", "backlog"} => stage[c] \in {"free", "backlog"}
    BY <1>4
  <2> QED BY <1>3, <1>5, <2>1 DEF IInv, RefsUsed
<1>8. DeletingClosed'
  <2> SUFFICES ASSUME NEW v \in Worker, pc[v] = "delete" PROVE stage'[cur[v][2]] = "closed"
    BY <1>2 DEF DeletingClosed
  <2>1. cur[v][2] \in Conn /\ stage[cur[v][2]] = "closed"
    BY DEF IInv, TypeInv, IsEntry, DeletingClosed
  <2> QED BY <1>4, <2>1
<1>9. OpenIsRegistered'
  BY <1>2, <1>3, <1>4 DEF IInv, OpenIsRegistered
<1>10. AddingFresh'
  BY <1>2 DEF AddingFresh
<1>11. EndsLast'
  <2>1. Entry(clients)' \subseteq left'[Acceptor]
    <3> SUFFICES ASSUME NEW k \in DOMAIN clients' PROVE <<k, clients'[k]>> \in left'[Acceptor]
      BY DEF Entry
    <3>1. <<k, clients'[k]>> \in left[Acceptor]
      BY <1>2, <1>3 DEF IInv, EndsLast, Entry
    <3>2. <<k, clients'[k]>> # e
      BY <1>3 DEF k0
    <3> QED BY <1>2, <3>1, <3>2
  <2> QED BY <1>2, <1>4, <2>1 DEF IInv, EndsLast
<1>12. GotInv'
  <2> SUFFICES ASSUME NEW c \in Conn, NEW b \in Broadcaster
               PROVE  /\ got'[c][b] # "missed"
                      /\ got'[c][b] \in {"has", "owed"} => stage'[c] = "accepted" /\ Registered(c)'
                      /\ got'[c][b] = "owed" => Coming(b, c)'
    BY DEF GotInv
  <2>1. CASE c = c0
    BY <1>4, <2>1
  <2>2. CASE c # c0
    <3>1. ASSUME Coming(b, c) PROVE Coming(b, c)'
      <4>1. CASE pc[b] = "close" /\ cur[b][2] = c
        BY <1>2, <4>1 DEF Coming
      <4>2. CASE \E k \in DOMAIN clients : clients[k] = c /\ <<k, c>> \in left[b]
        <5>1. PICK k \in DOMAIN clients : clients[k] = c /\ <<k, c>> \in left[b]
          BY <4>2
        <5>2. k \in DOMAIN clients' /\ clients'[k] = c
          BY <1>2, <1>3, <2>2, <5>1 DEF IInv, TypeInv
        <5> QED BY <1>2, <3>1, <5>1, <5>2 DEF Coming
      <4> QED BY <3>1, <4>1, <4>2 DEF Coming
    <3>2. got'[c][b] = got[c][b] /\ stage'[c] = stage[c]
      BY <1>4, <2>2
    <3> QED BY <1>3, <2>2, <3>1, <3>2 DEF IInv, GotInv
  <2> QED BY <2>1, <2>2
<1> QED BY <1>6, <1>7, <1>8, <1>9, <1>10, <1>11, <1>12 DEF IInv

-----------------------------------------------------------------------------
(* Accepting connections, and ceasing to. *)

\* The acceptor's step keeps a connection that nobody knows from being known.
LEMMA AcceptIInv ==
    ASSUME IInv, Accept
    PROVE  IInv'
<1> USE Workers
<1>1. PICK c0 \in Conn : /\ stage[c0] = "backlog"
                         /\ stage' = [stage EXCEPT ![c0] = "accepted"]
                         /\ cur' = [cur EXCEPT ![Acceptor] = <<newClientID(c0), c0>>]
  BY DEF Accept
<1>2. /\ pc[Acceptor] = "accept" /\ pc'[Acceptor] = "add" /\ listening
      /\ pc' \in [Worker -> AcceptorPlaces \cup WorkerPlaces] /\ DOMAIN cur' = Worker
      /\ \A v \in Worker : v # Acceptor => pc'[v] = pc[v] /\ cur'[v] = cur[v]
      /\ cur'[Acceptor] = <<<<addr[c0], c0>>, c0>>
      /\ UNCHANGED <<listening, clients, left, got>>
      /\ stage' \in [Conn -> Stages] /\ stage'[c0] = "accepted"
      /\ \A c \in Conn : c # c0 => stage'[c] = stage[c]
  BY <1>1 DEF Accept, Go, IInv, TypeInv, AcceptorPlaces, Stages, newClientID
<1>3. \A c \in Conn : Registered(c)' = Registered(c)
  BY <1>2 DEF Registered
<1>4. ASSUME NEW c \in Conn, NEW v \in Worker, Holds(v, c)' PROVE Holds(v, c) \/ c = c0
  BY <1>2, <1>4 DEF Holds
<1>5. ~Registered(c0) /\ \A v \in Worker : ~Holds(v, c0)
  BY <1>1 DEF IInv, RefsUsed
<1>6. TypeInv'
  <2>1. IsEntry(cur'[Acceptor])
    BY <1>2 DEF IsEntry
  <2>2. \A v \in Worker : /\ pc'[v] \in (IF v = Acceptor THEN AcceptorPlaces ELSE WorkerPlaces)
                          /\ pc'[v] \in {"add", "close", "delete"} => IsEntry(cur'[v])
                          /\ pc'[v] \notin {"add", "close", "delete"} => cur'[v] = Nobody
    BY <1>2, <2>1 DEF IInv, TypeInv, AcceptorPlaces
  <2> QED BY <1>2, <2>2 DEF IInv, TypeInv
<1>7. RefsUsed'
  BY <1>2, <1>3, <1>4 DEF IInv, RefsUsed
<1>8. DeletingClosed'
  <2> SUFFICES ASSUME NEW v \in Worker, pc'[v] = "delete" PROVE stage'[cur'[v][2]] = "closed"
    BY DEF DeletingClosed
  <2>1. v # Acceptor /\ cur'[v] = cur[v] /\ stage[cur[v][2]] = "closed" /\ cur[v][2] \in Conn
    BY <1>2 DEF IInv, TypeInv, IsEntry, DeletingClosed
  <2> QED BY <1>1, <1>2, <2>1
<1>9. OpenIsRegistered'
  BY <1>2, <1>3 DEF IInv, OpenIsRegistered
<1>10. AddingFresh'
  <2>1. \A v \in Worker \ {Acceptor} : ~Holds(v, c0)'
    BY <1>2, <1>5 DEF Holds
  <2>2. \A e \in left[Acceptor] : e[2] # c0
    BY <1>5 DEF Holds
  <2>3. cur'[Acceptor][2] = c0 /\ ~Registered(c0)'
    BY <1>2, <1>3, <1>5
  <2> QED BY <1>2, <2>1, <2>2, <2>3 DEF AddingFresh, Registered, Holds
<1>11. EndsLast'
  BY <1>2 DEF IInv, EndsLast
<1>12. GotInv'
  <2> SUFFICES ASSUME NEW c \in Conn, NEW b \in Broadcaster
               PROVE  /\ got[c][b] # "missed"
                      /\ got[c][b] \in {"has", "owed"} => stage'[c] = "accepted" /\ Registered(c)
                      /\ got[c][b] = "owed" => Coming(b, c)'
    BY <1>2, <1>3 DEF GotInv
  <2>1. Coming(b, c) => Coming(b, c)'
    BY <1>2 DEF Coming
  <2> QED BY <1>2, <2>1 DEF IInv, GotInv
<1> QED BY <1>6, <1>7, <1>8, <1>9, <1>10, <1>11, <1>12 DEF IInv

LEMMA AddIInv ==
    ASSUME IInv, Add
    PROVE  IInv'
<1> USE Workers
<1> DEFINE k0 == cur[Acceptor][1]
           c0 == cur[Acceptor][2]
<1>1. /\ pc[Acceptor] = "add" /\ pc'[Acceptor] = "accept" /\ clients' = With(k0, c0)
      /\ pc' \in [Worker -> AcceptorPlaces \cup WorkerPlaces] /\ DOMAIN cur' = Worker
      /\ \A v \in Worker : v # Acceptor => pc'[v] = pc[v] /\ cur'[v] = cur[v]
      /\ cur'[Acceptor] = Nobody
      /\ UNCHANGED <<listening, stage, left, got>>
  BY DEF Add, Go, IInv, TypeInv, AcceptorPlaces
<1>2. c0 \in Conn /\ k0[2] = c0
  BY <1>1 DEF IInv, TypeInv, IsEntry
<1> HIDE DEF k0, c0
<1>3. /\ DOMAIN clients' = DOMAIN clients \cup {k0}
      /\ clients' = [k \in DOMAIN clients' |-> clients'[k]]
      /\ clients'[k0] = c0
      /\ \A k \in DOMAIN clients : clients'[k] = clients[k]
  <2>1. clients' = [k \in DOMAIN clients \cup {k0} |-> IF k = k0 THEN c0 ELSE clients[k]]
    BY <1>1 DEF With
  <2>2. \A k \in DOMAIN clients : k[2] = clients[k]
    BY DEF IInv, TypeInv
  <2> QED BY <1>2, <2>1, <2>2
<1>4. \A c \in Conn : Registered(c)' <=> Registered(c) \/ c = c0
  BY <1>3 DEF Registered
<1>5. ASSUME NEW c \in Conn, NEW v \in Worker, Holds(v, c)' PROVE Holds(v, c)
  BY <1>1, <1>5 DEF Holds
<1>6. stage[c0] \notin {"free", "backlog"}
  BY <1>1, <1>2 DEF IInv, RefsUsed, Holds, c0
<1>7. TypeInv'
  <2>1. \A v \in Worker : /\ pc'[v] \in (IF v = Acceptor THEN AcceptorPlaces ELSE WorkerPlaces)
                          /\ pc'[v] \in {"add", "close", "delete"} => IsEntry(cur'[v])
                          /\ pc'[v] \notin {"add", "close", "delete"} => cur'[v] = Nobody
    BY <1>1 DEF IInv, TypeInv, AcceptorPlaces
  <2>2. \A k \in DOMAIN clients' : clients'[k] \in Conn /\ k[2] = clients'[k]
    BY <1>2, <1>3 DEF IInv, TypeInv
  <2> QED BY <1>1, <1>3, <2>1, <2>2 DEF IInv, TypeInv
<1>8. RefsUsed'
  BY <1>1, <1>4, <1>5, <1>6 DEF IInv, RefsUsed
<1>9. DeletingClosed'
  BY <1>1 DEF IInv, DeletingClosed
<1>10. OpenIsRegistered'
  BY <1>1, <1>4 DEF IInv, OpenIsRegistered, c0
<1>11. AddingFresh' /\ EndsLast'
  BY <1>1 DEF IInv, AddingFresh, EndsLast
<1>12. GotInv'
  <2> SUFFICES ASSUME NEW c \in Conn, NEW b \in Broadcaster
               PROVE  /\ got[c][b] # "missed"
                      /\ got[c][b] \in {"has", "owed"} => stage[c] = "accepted" /\ Registered(c)'
                      /\ got[c][b] = "owed" => Coming(b, c)'
    BY <1>1 DEF GotInv
  <2>1. Coming(b, c) => Coming(b, c)'
    BY <1>1, <1>3 DEF Coming
  <2> QED BY <1>4, <2>1 DEF IInv, GotInv
<1> QED BY <1>7, <1>8, <1>9, <1>10, <1>11, <1>12 DEF IInv

\* A new connection takes the place of one that nothing refers to.
LEMMA ConnectIInv ==
    ASSUME IInv, listening, NEW a, NEW c0 \in Unused, Connect(a, c0)
    PROVE  IInv'
<1> USE Workers
<1>1. /\ c0 \in Conn /\ UNCHANGED <<listening, clients, pc, left, cur>>
      /\ stage' = [stage EXCEPT ![c0] = "backlog"] /\ got' = [got EXCEPT ![c0] = Nothing]
  BY DEF Unused, Connect
<1>2. /\ stage' \in [Conn -> Stages] /\ stage'[c0] = "backlog"
      /\ got' \in [Conn -> [Broadcaster -> Gots]] /\ \A b \in Broadcaster : got'[c0][b] = "none"
      /\ \A c \in Conn : c # c0 => stage'[c] = stage[c] /\ got'[c] = got[c]
  BY <1>1 DEF IInv, TypeInv, Stages, Gots, Nothing
<1>3. ~Registered(c0) /\ \A w \in Worker : ~Holds(w, c0)
  <2>1. CASE stage[c0] = "free"
    BY <1>1, <2>1 DEF IInv, RefsUsed
  <2>2. CASE /\ ~Registered(c0)
             /\ \A w \in Worker : \A e \in left[w] \cup ({cur[w]} \ {Nobody}) : e[2] # c0
    <3>1. \A w \in Worker : pc[w] \in {"add", "close", "delete"} => cur[w] # Nobody
      <4>1. \A x, y : <<x, y>> # Nobody
        BY DEF Nobody
      <4> SUFFICES ASSUME NEW w \in Worker, IsEntry(cur[w]) PROVE cur[w] # Nobody
        BY DEF IInv, TypeInv
      <4>2. \E x, y : cur[w] = <<x, y>>
        BY Zenon DEF IsEntry
      <4> HIDE DEF Nobody
      <4> QED BY <4>1, <4>2
    <3> QED BY <2>2, <3>1 DEF Holds
  <2> QED BY <2>1, <2>2 DEF Unused
<1>4. \A c \in Conn : Registered(c)' = Registered(c)
  BY <1>1 DEF Registered
<1>5. ASSUME NEW c \in Conn, NEW v \in Worker PROVE Holds(v, c)' = Holds(v, c)
  BY <1>1 DEF Holds
<1>6. TypeInv'
  BY <1>1, <1>2 DEF IInv, TypeInv
<1>7. RefsUsed'
  BY <1>1, <1>2, <1>3, <1>4, <1>5 DEF IInv, RefsUsed
<1>8. DeletingClosed'
  <2> SUFFICES ASSUME NEW v \in Worker, pc[v] = "delete" PROVE stage'[cur[v][2]] = "closed"
    BY <1>1 DEF DeletingClosed
  <2>1. cur[v][2] \in Conn /\ cur[v][2] # c0
    BY <1>3 DEF IInv, TypeInv, IsEntry, Holds
  <2> QED BY <1>2, <2>1 DEF IInv, DeletingClosed
<1>9. OpenIsRegistered'
  BY <1>1, <1>2, <1>4 DEF IInv, OpenIsRegistered
<1>10. AddingFresh'
  BY <1>1 DEF IInv, AddingFresh, Registered, Holds
<1>11. EndsLast'
  BY <1>1 DEF IInv, EndsLast, Entry
<1>12. GotInv'
  <2> SUFFICES ASSUME NEW c \in Conn, NEW b \in Broadcaster
               PROVE  /\ got'[c][b] # "missed"
                      /\ got'[c][b] \in {"has", "owed"} => stage'[c] = "accepted" /\ Registered(c)
                      /\ got'[c][b] = "owed" => Coming(b, c)'
    BY <1>4 DEF GotInv
  <2>1. CASE c = c0
    BY <1>2, <2>1
  <2>2. CASE c # c0
    <3>1. got'[c][b] = got[c][b] /\ stage'[c] = stage[c]
      BY <1>2, <2>2
    <3>2. Coming(b, c) => Coming(b, c)'
      BY <1>1 DEF Coming
    <3> QED BY <3>1, <3>2 DEF IInv, GotInv
  <2> QED BY <2>1, <2>2
<1> QED BY <1>6, <1>7, <1>8, <1>9, <1>10, <1>11, <1>12 DEF IInv

\* Closing the listener refuses the backlog.
LEMMA CloseListenerIInv ==
    ASSUME IInv, CloseListener
    PROVE  IInv'
<1> USE Workers
<1>1. /\ listening' = FALSE /\ UNCHANGED <<clients, pc, left, cur, got>>
      /\ stage' = [c \in Conn |-> IF stage[c] = "backlog" THEN "closed" ELSE stage[c]]
  BY DEF CloseListener
<1>2. /\ stage' \in [Conn -> Stages] /\ \A c \in Conn : stage'[c] # "backlog"
      /\ \A c \in Conn : stage[c] # "backlog" => stage'[c] = stage[c]
      /\ \A c \in Conn : stage[c] = "backlog" => stage'[c] = "closed"
  BY <1>1 DEF IInv, TypeInv, Stages
<1>3. \A c \in Conn : Registered(c)' = Registered(c)
  BY <1>1 DEF Registered
<1>4. ASSUME NEW c \in Conn, NEW v \in Worker PROVE Holds(v, c)' = Holds(v, c)
  BY <1>1 DEF Holds
<1>5. TypeInv'
  BY <1>1, <1>2 DEF IInv, TypeInv
<1>6. RefsUsed'
  BY <1>1, <1>2, <1>3, <1>4 DEF IInv, RefsUsed
<1>7. DeletingClosed'
  <2> SUFFICES ASSUME NEW v \in Worker, pc[v] = "delete" PROVE stage'[cur[v][2]] = "closed"
    BY <1>1 DEF DeletingClosed
  <2>1. cur[v][2] \in Conn
    BY DEF IInv, TypeInv, IsEntry
  <2> QED BY <1>2, <2>1 DEF IInv, DeletingClosed
<1>8. OpenIsRegistered'
  BY <1>1, <1>2, <1>3 DEF IInv, OpenIsRegistered
<1>9. AddingFresh'
  BY <1>1 DEF IInv, AddingFresh, Registered, Holds
<1>10. EndsLast'
  BY <1>1, <1>2 DEF IInv, EndsLast, Entry
<1>11. GotInv'
  <2> SUFFICES ASSUME NEW c \in Conn, NEW b \in Broadcaster
               PROVE  /\ got[c][b] # "missed"
                      /\ got[c][b] \in {"has", "owed"} => stage'[c] = "accepted" /\ Registered(c)
                      /\ got[c][b] = "owed" => Coming(b, c)'
    BY <1>1, <1>3 DEF GotInv
  <2>1. Coming(b, c) => Coming(b, c)'
    BY <1>1 DEF Coming
  <2> QED BY <1>2, <2>1 DEF IInv, GotInv
<1> QED BY <1>5, <1>6, <1>7, <1>8, <1>9, <1>10, <1>11 DEF IInv

\* A goroutine that is not going over the map moves on.
LEMMA MoveIInv ==
    ASSUME IInv, NEW w \in Worker, NEW l, Go(w, l),
           \/ w = Acceptor /\ pc[w] = "listen" /\ l = "accept" /\ listening'
           \/ w # Acceptor /\ pc[w] = "idle" /\ l = "done" /\ listening' = listening,
           listening' \in BOOLEAN,
           UNCHANGED <<clients, stage, left, cur, got>>
    PROVE  IInv'
<1> USE Workers
<1>1. /\ pc' \in [Worker -> AcceptorPlaces \cup WorkerPlaces] /\ pc'[w] = l
      /\ \A v \in Worker : v # w => pc'[v] = pc[v]
  BY DEF Go, IInv, TypeInv, AcceptorPlaces, WorkerPlaces
<1>2. \A c \in Conn : Registered(c)' = Registered(c)
  BY DEF Registered
<1>3. ASSUME NEW c \in Conn, NEW v \in Worker, Holds(v, c)' PROVE Holds(v, c)
  BY <1>1, <1>3 DEF Holds
<1>4. TypeInv'
  <2>1. \A v \in Worker : /\ pc'[v] \in (IF v = Acceptor THEN AcceptorPlaces ELSE WorkerPlaces)
                          /\ pc'[v] \in {"add", "close", "delete"} => IsEntry(cur[v])
                          /\ pc'[v] \notin {"add", "close", "delete"} => cur[v] = Nobody
    BY <1>1 DEF IInv, TypeInv, AcceptorPlaces, WorkerPlaces
  <2> QED BY <1>1, <2>1 DEF IInv, TypeInv
<1>5. RefsUsed'
  BY <1>2, <1>3 DEF IInv, RefsUsed
<1>6. DeletingClosed' /\ OpenIsRegistered'
  BY <1>1, <1>2 DEF IInv, DeletingClosed, OpenIsRegistered
<1>7. AddingFresh'
  <2> SUFFICES ASSUME pc'[Acceptor] = "add" PROVE AddingFresh'
    BY DEF AddingFresh
  <2>1. pc[Acceptor] = "add" /\ cur[Acceptor][2] \in Conn
    BY <1>1 DEF IInv, TypeInv, IsEntry
  <2> QED BY <1>2, <1>3, <2>1 DEF IInv, AddingFresh
<1>8. EndsLast'
  BY <1>1 DEF IInv, EndsLast, Entry
<1>9. GotInv'
  <2> SUFFICES ASSUME NEW c \in Conn, NEW b \in Broadcaster, Coming(b, c)
               PROVE  Coming(b, c)'
    BY <1>2 DEF IInv, GotInv
  <2> QED BY <1>1 DEF Coming
<1> QED BY <1>4, <1>5, <1>6, <1>7, <1>8, <1>9 DEF IInv

-----------------------------------------------------------------------------
(* All the steps of the service and of its peers. *)

LEMMA ServiceIInv ==
    ASSUME IInv, ServiceStep
    PROVE  IInv'
<1> USE Workers
<1>1. CASE \E w \in Worker : WorkerStep(w)
  BY <1>1, EndIInv, VisitIInv, CloseIInv, DeleteIInv DEF WorkerStep
<1>2. CASE \E b \in Broadcaster : Broadcast(b)
  <2>1. PICK b \in Broadcaster : Broadcast(b)
    BY <1>2
  <2>2. /\ pc[b] = "idle" /\ RangeBegin(b) /\ Go(b, "range") /\ b \in Worker /\ b # Acceptor
        /\ got' = [c \in Conn |-> [got[c] EXCEPT ![b] = IF @ = "has" THEN "owed"
                                                      ELSE IF @ = "owed" THEN "missed" ELSE @]]
        /\ UNCHANGED <<clients, stage, cur, listening>>
    BY <2>1 DEF Broadcast
  <2>3. \A c \in Conn : got[c][b] # "owed"
    BY <2>2 DEF IInv, GotInv, Coming
  <2>4. /\ got' \in [Conn -> [Broadcaster -> Gots]]
        /\ \A c \in Conn, x \in Broadcaster :
               /\ x # b => got'[c][x] = got[c][x]
               /\ x = b => got'[c][x] = IF got[c][x] = "has" THEN "owed" ELSE got[c][x]
    <3>1. \A c \in Conn : got[c] \in [Broadcaster -> Gots]
      BY DEF IInv, TypeInv
    <3>2. \A c \in Conn : got'[c] = [got[c] EXCEPT ![b] = IF got[c][b] = "has" THEN "owed"
                                                          ELSE got[c][b]]
      BY <2>2, <2>3
    <3>3. \A c \in Conn : got'[c] \in [Broadcaster -> Gots]
      <4> SUFFICES ASSUME NEW c \in Conn PROVE got'[c] \in [Broadcaster -> Gots]
        OBVIOUS
      <4> DEFINE x == IF got[c][b] = "has" THEN "owed" ELSE got[c][b]
      <4>1. x \in Gots
        BY <3>1 DEF Gots
      <4>2. got'[c] = [got[c] EXCEPT ![b] = x]
        BY <3>2
      <4> HIDE DEF x
      <4> QED BY <3>1, <4>1, <4>2
    <3>4. got' \in [Conn -> [Broadcaster -> Gots]]
      BY <2>2, <3>3
    <3> QED BY <3>1, <3>2, <3>4
  <2> QED BY <2>2, <2>4, BeginIInv
<1>3. CASE sendHeartbeats
  <2>1. CASE Interval = 0
    BY <1>3, <2>1, QuietIInv DEF sendHeartbeats
  <2>2. CASE Interval # 0
    <3>1. /\ pc[Periodic] = "idle" /\ RangeBegin(Periodic) /\ Go(Periodic, "range")
          /\ UNCHANGED <<clients, stage, cur, listening, got>>
      BY <1>3, <2>2 DEF sendHeartbeats
    <3>2. got' \in [Conn -> [Broadcaster -> Gots]]
      BY <3>1 DEF IInv, TypeInv
    <3> QED BY <3>1, <3>2, BeginIInv
  <2> QED BY <2>1, <2>2
<1>4. CASE Listen \/ AcceptEnds
  <2>1. CASE Listen /\ listening' = TRUE /\ Go(Acceptor, "accept") /\ UNCHANGED left
    BY <2>1, MoveIInv DEF Listen
  <2>2. CASE (Listen \/ AcceptEnds) /\ UNCHANGED listening /\ Go(Acceptor, "range") /\ RangeBegin(Acceptor)
    <3>1. /\ pc[Acceptor] \in {"listen", "accept"} /\ ~listening
          /\ UNCHANGED <<clients, stage, cur, listening, got>>
      BY <2>2 DEF Listen, AcceptEnds, IInv, EndsLast
    <3>2. /\ got' \in [Conn -> [Broadcaster -> Gots]]
          /\ \A c \in Conn, b \in Broadcaster : b # Acceptor /\ got'[c][b] = got[c][b]
      BY <3>1 DEF IInv, TypeInv
    <3> QED BY <2>2, <3>1, <3>2, BeginIInv
  <2> QED BY <1>4, <2>1, <2>2 DEF Listen, AcceptEnds
<1>5. CASE PeriodicEnds
  <2>1. listening \in BOOLEAN
    BY DEF IInv, TypeInv
  <2> QED BY <1>5, <2>1, MoveIInv DEF PeriodicEnds
<1>6. CASE Cancel
  BY <1>6, QuietIInv DEF Cancel
<1> QED BY <1>1, <1>2, <1>3, <1>4, <1>5, <1>6, CloseOneIInv, AcceptIInv, AddIInv, CloseListenerIInv
        DEF ServiceStep, AcceptorStep

\* Readers and strangers connect, or change only what they are to be sent.
LEMMA PeerIInv ==
    ASSUME IInv,
           \/ \E a \in strangers : Stranger(a)
           \/ \E r \in Reader : ReaderStep(r) \/ Interrupt(r)
           \/ Tick
    PROVE  IInv'
<1>1. \/ listening /\ \E a : \E c \in Unused : Connect(a, c)
      \/ UNCHANGED <<clients, stage, pc, left, cur, got, listening>>
  <2>1. CASE \E a \in strangers : Stranger(a)
    BY <2>1 DEF Stranger, Hangup
  <2>2. CASE \E r \in Reader : Dial(r)
    BY <2>2 DEF Dial, serviceVars
  <2>3. CASE \E r \in Reader : Check(r) \/ Read(r) \/ Lost(r) \/ Wait(r) \/ Interrupt(r)
    BY <2>3 DEF Check, Read, Lost, Wait, Interrupt, Hangup, Receive, serviceVars
  <2>4. CASE Tick
    BY <2>4 DEF Tick
  <2> QED BY <2>1, <2>2, <2>3, <2>4 DEF ReaderStep
<1> QED BY <1>1, QuietIInv, ConnectIInv

LEMMA NextIInv == IInv /\ [Next]_vars => IInv'
<1> SUFFICES ASSUME IInv, [Next]_vars PROVE IInv'
  OBVIOUS
<1>1. CASE UNCHANGED vars
  BY <1>1, QuietIInv DEF vars, serviceVars
<1> QED BY <1>1, ServiceIInv, PeerIInv DEF Next

LEMMA AlwaysIInv == Spec => []IInv
BY InitIInv, NextIInv, PTL DEF Spec

\* No connection is forgotten: while it is open it is in the map of clients, so
\* that broadcasts, heartbeats and CloseAll reach it, although Close and Delete,
\* Add and the end of other connections are separate steps under no lock.
THEOREM NobodyForgotten == Spec => []OpenIsRegistered
<1>1. IInv => OpenIsRegistered
  BY DEF IInv
<1> QED BY <1>1, AlwaysIInv, PTL

\* When the goroutine of a service returns, nothing is left open of it, whatever
\* connected, failed or was being broadcast while it shut down.
THEOREM NothingLeftOpen == Spec => []AllClosed
<1>1. IInv => AllClosed
  <2> SUFFICES ASSUME IInv, pc[Acceptor] = "done"
               PROVE  clients = <<>> /\ \A c \in Conn : stage[c] \in {"free", "closed"}
    BY DEF AllClosed
  <2>1. DOMAIN clients = {} /\ ~listening /\ \A c \in Conn : stage[c] # "backlog"
    BY DEF IInv, EndsLast
  <2>2. clients = <<>>
    BY <2>1 DEF IInv, TypeInv
  <2>3. \A c \in Conn : stage[c] # "accepted"
    BY <2>1 DEF IInv, OpenIsRegistered, Registered
  <2> QED BY <2>1, <2>2, <2>3 DEF IInv, TypeInv, Stages
<1> QED BY <1>1, AlwaysIInv, PTL

\* Nobody who stays connected misses a frame between two others of one goroutine,
\* whichever neighbours fail, stall or are closed during a broadcast.
THEOREM NoFrameMissed == Spec => []Unbroken
<1>1. IInv => Unbroken
  BY DEF IInv, GotInv, Unbroken
<1> QED BY <1>1, AlwaysIInv, PTL

-----------------------------------------------------------------------------
(* Readers and their connections. *)

Attached(r) == rpc[r] \in {"check", "read"}

ReaderTypes ==
    /\ addr = [c \in Conn |-> addr[c]] /\ peer = [c \in Conn |-> peer[c]]
    /\ buffer \in [Conn -> Nat] /\ idle \in [Conn -> Nat]
    /\ rpc = [r \in Reader |-> rpc[r]] /\ on = [r \in Reader |-> on[r]]
    /\ silence \in [Reader -> Nat]

\* A reader's connection is its own: nobody else closes that end or takes it for a new one.
OwnConnection ==
    /\ strangers \cap Reader = {}
    /\ \A r \in Reader :
         /\ rpc[r] # "read" => silence[r] = 0
         /\ Attached(r) =>
              /\ on[r] \in Conn /\ stage[on[r]] # "free"
              /\ peer[on[r]] = "open" /\ addr[on[r]] = r

ReaderInv == ReaderTypes /\ OwnConnection

LEMMA InitReaderInv == Init => ReaderInv
<1> SUFFICES ASSUME Init PROVE ReaderInv
  OBVIOUS
<1>1. ReaderTypes
  <2>1. PICK cast \in Casts : rpc = [r \in Reader |-> IF r \in cast THEN "run" ELSE "done"]
    BY DEF Init
  <2>2. rpc = [r \in Reader |-> rpc[r]]
    BY <2>1
  <2>3. silence \in [Reader -> Nat] /\ buffer \in [Conn -> Nat] /\ idle \in [Conn -> Nat]
    BY DEF Init, ServiceInit
  <2>4. on = [r \in Reader |-> on[r]]
    <3> DEFINE x == CHOOSE c \in Conn : TRUE
    <3>1. on = [r \in Reader |-> x]
      BY DEF Init
    <3> HIDE DEF x
    <3> QED BY <3>1
  <2>5. addr = [c \in Conn |-> addr[c]] /\ peer = [c \in Conn |-> peer[c]]
    <3> DEFINE x == CHOOSE a \in Addr : TRUE
    <3>1. addr = [c \in Conn |-> x] /\ peer = [c \in Conn |-> "open"]
      BY DEF Init, ServiceInit
    <3> HIDE DEF x
    <3> QED BY <3>1
  <2> QED BY <2>2, <2>3, <2>4, <2>5 DEF ReaderTypes
<1>2. OwnConnection
  <2>1. PICK cast \in Casts :
          /\ rpc = [r \in Reader |-> IF r \in cast THEN "run" ELSE "done"]
          /\ strangers = cast \ Reader
    BY DEF Init
  <2>2. \A r \in Reader : rpc[r] \in {"run", "done"} /\ silence[r] = 0
    BY <2>1 DEF Init
  <2> QED BY <2>1, <2>2 DEF OwnConnection, Attached
<1> QED BY <1>1, <1>2 DEF ReaderInv

\* What the server does to a socket leaves the peer's end alone.
LEMMA ServiceLeavesPeers ==
    ASSUME IInv, ReaderInv, ServiceStep
    PROVE  /\ addr' = addr
           /\ peer' = [c \in Conn |-> peer'[c]]
           /\ buffer' \in [Conn -> Nat] /\ idle' \in [Conn -> Nat]
           /\ \A c \in Conn : /\ peer[c] = "open" => peer'[c] = "open"
                              /\ stage[c] # "free" => stage'[c] # "free"
<1>1. /\ peer = [c \in Conn |-> peer[c]] /\ stage \in [Conn -> Stages]
      /\ buffer \in [Conn -> Nat] /\ idle \in [Conn -> Nat]
  BY DEF ReaderInv, ReaderTypes, IInv, TypeInv
<1>2. ASSUME NEW w \in Worker, Visit(w)
      PROVE  /\ addr' = addr
             /\ peer' = [c \in Conn |-> peer'[c]]
             /\ buffer' \in [Conn -> Nat] /\ idle' \in [Conn -> Nat]
             /\ \A c \in Conn : /\ peer[c] = "open" => peer'[c] = "open"
                                /\ stage[c] # "free" => stage'[c] # "free"
  <2>1. PICK e \in left[w] :
          \/ UNCHANGED <<peer, buffer, idle>>
          \/ WriteSucceeds(w, e[2])
    BY <1>2 DEF Visit
  <2>2. e[2] \in Conn /\ addr' = addr /\ stage' = stage
    BY <1>2 DEF Visit, IInv, TypeInv, IsEntry
  <2>3. CASE UNCHANGED <<peer, buffer, idle>>
    BY <1>1, <2>2, <2>3
  <2>4. CASE WriteSucceeds(w, e[2])
    <3>1. idle' \in [Conn -> Nat]
      BY <1>1, <2>4 DEF WriteSucceeds
    <3>2. buffer' = buffer \/ buffer' = [buffer EXCEPT ![e[2]] = @ + 1]
      BY <2>4 DEF WriteSucceeds
    <3>3. buffer' \in [Conn -> Nat]
      BY <1>1, <3>2
    <3>4. \/ peer' = peer
          \/ peer[e[2]] = "gone" /\ peer' = [peer EXCEPT ![e[2]] = "reset"]
      BY <2>4 DEF WriteSucceeds
    <3>5. /\ peer' = [c \in Conn |-> peer'[c]]
          /\ \A c \in Conn : peer[c] = "open" => peer'[c] = "open"
      BY <1>1, <3>4
    <3> QED BY <2>2, <3>1, <3>3, <3>5
  <2> QED BY <2>1, <2>3, <2>4
<1>3. ASSUME NEW x \in Conn, CloseConn(x)
      PROVE  /\ peer' = [c \in Conn |-> peer'[c]]
             /\ idle' \in [Conn -> Nat]
             /\ \A c \in Conn : /\ peer[c] = "open" => peer'[c] = "open"
                                /\ stage[c] # "free" => stage'[c] # "free"
  BY <1>1, <1>3 DEF CloseConn
<1>4. ASSUME NEW w \in Worker, Close(w)
      PROVE  cur[w][2] \in Conn /\ CloseConn(cur[w][2]) /\ UNCHANGED <<addr, buffer>>
  BY <1>4 DEF Close, IInv, TypeInv, IsEntry
<1>5. ASSUME CloseOne
      PROVE  (\E x \in Conn : CloseConn(x)) /\ UNCHANGED <<addr, buffer>>
  BY <1>5, Workers DEF CloseOne, IInv, TypeInv, IsEntry
<1>6. CASE Accept
  <2>1. PICK c \in Conn : /\ stage' = [stage EXCEPT ![c] = "accepted"]
                          /\ idle' = [idle EXCEPT ![c] = 0]
    BY <1>6 DEF Accept
  <2> QED BY <1>1, <1>6, <2>1 DEF Accept
<1>7. CASE CloseListener
  BY <1>1, <1>7 DEF CloseListener
<1>8. CASE UNCHANGED <<addr, peer, buffer, stage>> /\ (idle' = idle \/ idle' = [c \in Conn |-> 0])
  BY <1>1, <1>8
<1>9. \/ \E w \in Worker : Visit(w) \/ Close(w)
      \/ CloseOne \/ Accept \/ CloseListener
      \/ UNCHANGED <<addr, peer, buffer, stage>> /\ (idle' = idle \/ idle' = [c \in Conn |-> 0])
  BY DEF ServiceStep, WorkerStep, AcceptorStep, RangeEnd, Delete, Listen, Add, AcceptEnds,
         sendHeartbeats, PeriodicEnds, Cancel, Broadcast
<1> QED BY <1>1, <1>2, <1>3, <1>4, <1>5, <1>6, <1>7, <1>8, <1>9

\* A connection that is taken for a new one is nobody's.
LEMMA UnusedIsFree ==
    ASSUME IInv, OwnConnection, NEW x \in Unused
    PROVE  /\ x \in Conn
           /\ \A r \in Reader : Attached(r) => on[r] # x
           /\ \A w \in Worker : pc[w] \in {"close", "delete"} => cur[w][2] # x
<1>1. x \in Conn /\ \A r \in Reader : Attached(r) => on[r] # x
  BY DEF Unused, OwnConnection
<1>2. ASSUME NEW w \in Worker, pc[w] \in {"close", "delete"} PROVE cur[w][2] # x
  <2>1. IsEntry(cur[w])
    BY <1>2 DEF IInv, TypeInv
  <2>2. cur[w] # Nobody
    BY <2>1 DEF IsEntry, Nobody
  <2>3. stage[x] = "free" => ~Holds(w, x)
    BY <1>1 DEF IInv, RefsUsed
  <2> QED BY <1>2, <2>2, <2>3 DEF Unused, Holds
<1> QED BY <1>1, <1>2

LEMMA ConnectReaders ==
    ASSUME ReaderTypes, IInv, NEW a, NEW x \in Conn, Connect(a, x)
    PROVE  /\ addr' = [addr EXCEPT ![x] = a] /\ peer' = [peer EXCEPT ![x] = "open"]
           /\ stage' = [stage EXCEPT ![x] = "backlog"]
           /\ buffer' \in [Conn -> Nat] /\ idle' \in [Conn -> Nat]
           /\ addr' = [c \in Conn |-> addr'[c]] /\ peer' = [c \in Conn |-> peer'[c]]
           /\ addr'[x] = a /\ peer'[x] = "open" /\ stage'[x] = "backlog"
           /\ buffer'[x] = 0 /\ idle'[x] = 0
           /\ \A c \in Conn \ {x} : /\ addr'[c] = addr[c] /\ peer'[c] = peer[c]
                                    /\ stage'[c] = stage[c]
                                    /\ buffer'[c] = buffer[c] /\ idle'[c] = idle[c]
BY DEF Connect, ReaderTypes, IInv, TypeInv

LEMMA HangupReaders ==
    ASSUME ReaderTypes, NEW x, Hangup(x)
    PROVE  /\ UNCHANGED <<stage, addr, idle, ctxDone, clients, pc, left, cur, due>>
           /\ buffer' \in [Conn -> Nat]
           /\ peer' = [c \in Conn |-> peer'[c]]
           /\ \A c \in Conn \ {x} : peer'[c] = peer[c] /\ buffer'[c] = buffer[c]
BY DEF Hangup, ReaderTypes

LEMMA NextReaderInv ==
    ASSUME IInv, ReaderInv, [Next]_vars
    PROVE  ReaderInv'
<1> USE DEF ReaderInv
<1>1. CASE ServiceStep /\ UNCHANGED readerVars
  <2>1. ReaderTypes'
    BY <1>1, ServiceLeavesPeers DEF ReaderTypes, readerVars
  <2>2. OwnConnection'
    BY <1>1, ServiceLeavesPeers DEF OwnConnection, Attached, readerVars
  <2> QED BY <2>1, <2>2
<1>2. CASE (\E a \in strangers : Stranger(a)) /\ UNCHANGED readerVars
  <2>1. PICK a \in strangers : Stranger(a)
    BY <1>2
  <2>2. CASE \E x \in Unused : Connect(a, x)
    <3>1. PICK x \in Unused : Connect(a, x)
      BY <2>2
    <3>2. x \in Conn /\ \A r \in Reader : Attached(r) => on[r] # x
      BY <3>1, UnusedIsFree
    <3>3. ReaderTypes'
      BY <1>2, <3>1, <3>2, ConnectReaders DEF ReaderTypes, readerVars
    <3>4. OwnConnection'
      BY <1>2, <3>1, <3>2, ConnectReaders DEF OwnConnection, Attached, readerVars
    <3> QED BY <3>3, <3>4
  <2>3. CASE \E x \in Conn : addr[x] = a /\ Hangup(x)
    <3>1. PICK x \in Conn : addr[x] = a /\ Hangup(x)
      BY <2>3
    <3>2. \A r \in Reader : Attached(r) => on[r] # x
      BY <2>1, <3>1 DEF OwnConnection
    <3>3. ReaderTypes'
      BY <1>2, <3>1, HangupReaders DEF ReaderTypes, readerVars
    <3>4. OwnConnection'
      BY <1>2, <3>1, <3>2, HangupReaders DEF OwnConnection, Attached, readerVars
    <3> QED BY <3>3, <3>4
  <2> QED BY <2>1, <2>2, <2>3 DEF Stranger
<1>3. ASSUME NEW r \in Reader, Dial(r) PROVE ReaderInv'
  <2>1. rpc[r] = "run" /\ UNCHANGED <<silence, cancelled, strangers>>
    BY <1>3 DEF Dial
  <2>2. CASE UNCHANGED <<serviceVars, on>> /\ (Step(r, "done") \/ Step(r, "lost"))
    <3>1. /\ \A q \in Reader \ {r} : rpc'[q] = rpc[q]
          /\ rpc'[r] \in {"done", "lost"}
          /\ rpc' = [q \in Reader |-> rpc'[q]]
      BY <2>2 DEF Step, ReaderTypes
    <3>2. ReaderTypes'
      BY <2>1, <2>2, <3>1 DEF ReaderTypes, serviceVars
    <3>3. OwnConnection'
      BY <2>1, <2>2, <3>1 DEF OwnConnection, Attached, serviceVars
    <3> QED BY <3>2, <3>3
  <2>3. CASE \E x \in Unused : Connect(r, x) /\ on' = [on EXCEPT ![r] = x] /\ Step(r, "check")
    <3>1. PICK x \in Unused : Connect(r, x) /\ on' = [on EXCEPT ![r] = x] /\ Step(r, "check")
      BY <2>3
    <3>2. x \in Conn /\ \A q \in Reader : Attached(q) => on[q] # x
      BY <3>1, UnusedIsFree
    <3>3. /\ \A q \in Reader \ {r} : rpc'[q] = rpc[q] /\ on'[q] = on[q]
          /\ rpc'[r] = "check" /\ on'[r] = x
          /\ rpc' = [q \in Reader |-> rpc'[q]] /\ on' = [q \in Reader |-> on'[q]]
      BY <3>1 DEF Step, ReaderTypes
    <3>4. ReaderTypes'
      BY <2>1, <3>1, <3>2, <3>3, ConnectReaders DEF ReaderTypes
    <3>5. OwnConnection'
      BY <2>1, <3>1, <3>2, <3>3, ConnectReaders DEF OwnConnection, Attached
    <3> QED BY <3>4, <3>5
  <2> QED BY <1>3, <2>2, <2>3 DEF Dial
<1>4. ASSUME NEW r \in Reader, Check(r) \/ Read(r) PROVE ReaderInv'
  <2>1. Attached(r) /\ on[r] \in Conn /\ UNCHANGED <<on, strangers>>
    BY <1>4 DEF Check, Read, Attached, OwnConnection
  <2>2. PICK l \in {"done", "read", "check", "lost"} : Step(r, l)
    BY <1>4 DEF Check, Read
  <2>3. /\ \A q \in Reader \ {r} : rpc'[q] = rpc[q]
        /\ rpc'[r] = l /\ rpc' = [q \in Reader |-> rpc'[q]]
    BY <2>2 DEF Step, ReaderTypes
  <2>4. /\ silence' \in [Reader -> Nat]
        /\ \A q \in Reader \ {r} : silence'[q] = silence[q]
        /\ silence'[r] = 0
    BY <1>4 DEF Check, Read, OwnConnection, ReaderTypes
  <2>5. /\ UNCHANGED <<stage, addr, idle>>
        /\ buffer' \in [Conn -> Nat]
        /\ peer' = [c \in Conn |-> peer'[c]]
        /\ \A c \in Conn \ {on[r]} : peer'[c] = peer[c]
        /\ l \in {"read", "check"} => peer'[on[r]] = peer[on[r]]
    <3>1. CASE Hangup(on[r]) /\ l \notin {"read", "check"}
      BY <3>1, HangupReaders
    <3>2. CASE Receive(on[r])
      BY <3>2 DEF Receive, ReaderTypes
    <3>3. CASE UNCHANGED serviceVars
      BY <3>3 DEF serviceVars, ReaderTypes
    <3>4. (Hangup(on[r]) /\ rpc'[r] \notin {"read", "check"}) \/ Receive(on[r]) \/ UNCHANGED serviceVars
      BY <1>4 DEF Check, Read, Step, ReaderTypes
    <3> QED BY <2>3, <3>1, <3>2, <3>3, <3>4
  <2>6. \A q \in Reader \ {r} : Attached(q) => on[q] # on[r]
    BY <2>1 DEF OwnConnection
  <2>7. ReaderTypes'
    BY <2>1, <2>3, <2>4, <2>5 DEF ReaderTypes
  <2>8. OwnConnection'
    BY <2>1, <2>3, <2>4, <2>5, <2>6 DEF OwnConnection, Attached
  <2> QED BY <2>7, <2>8
<1>5. ASSUME NEW r \in Reader, Lost(r) \/ Wait(r) PROVE ReaderInv'
  <2>1. /\ rpc[r] \in {"lost", "wait"}
        /\ \E l \in {"run", "done", "wait"} : Step(r, l)
        /\ UNCHANGED <<serviceVars, on, silence, strangers>>
    BY <1>5 DEF Lost, Wait
  <2>2. /\ \A q \in Reader \ {r} : rpc'[q] = rpc[q]
        /\ rpc'[r] \in {"run", "done", "wait"}
        /\ rpc' = [q \in Reader |-> rpc'[q]]
    BY <2>1 DEF Step, ReaderTypes
  <2>3. ReaderTypes'
    BY <2>1, <2>2 DEF ReaderTypes, serviceVars
  <2>4. OwnConnection'
    BY <2>1, <2>2 DEF OwnConnection, Attached, serviceVars
  <2> QED BY <2>3, <2>4
<1>6. CASE UNCHANGED <<serviceVars, rpc, on, silence, strangers>>
  BY <1>6 DEF ReaderTypes, OwnConnection, Attached, serviceVars
<1>7. CASE Tick
  <2>1. /\ UNCHANGED <<stage, addr, peer, buffer, rpc, on, strangers>>
        /\ idle' = [c \in Conn |-> IF stage[c] = "accepted" /\ due' /\ idle[c] <= Interval + 1
                                   THEN idle[c] + 1 ELSE idle[c]]
        /\ silence' = [r \in Reader |-> IF rpc[r] = "read" THEN silence[r] + 1 ELSE silence[r]]
    BY <1>7 DEF Tick
  <2>2. idle' \in [Conn -> Nat] /\ silence' \in [Reader -> Nat]
    BY <2>1 DEF ReaderTypes
  <2>3. ReaderTypes'
    BY <2>1, <2>2 DEF ReaderTypes
  <2>4. OwnConnection'
    BY <2>1 DEF OwnConnection, Attached
  <2> QED BY <2>3, <2>4
<1>8. \/ ServiceStep /\ UNCHANGED readerVars
      \/ (\E a \in strangers : Stranger(a)) /\ UNCHANGED readerVars
      \/ \E r \in Reader : Dial(r) \/ Check(r) \/ Read(r) \/ Lost(r) \/ Wait(r)
      \/ UNCHANGED <<serviceVars, rpc, on, silence, strangers>>
      \/ Tick
  BY DEF Next, ReaderStep, Interrupt, vars, readerVars
<1> QED BY <1>1, <1>2, <1>3, <1>4, <1>5, <1>6, <1>7, <1>8

LEMMA AlwaysReaderInv == Spec => []ReaderInv
BY InitReaderInv, NextReaderInv, AlwaysIInv, PTL DEF Spec

-----------------------------------------------------------------------------
(* Heartbeats come before the deadline. *)

\* The periodic task has yet to decide on c in this period.
ToBeat(c) ==
    \/ due
    \/ /\ pc[Periodic] \in {"range", "close", "delete"}
       /\ \E k \in DOMAIN clients : clients[k] = c /\ <<k, c>> \in left[Periodic]

\* A prompt reader's connection is waiting to be accepted or open, and nobody is giving it
\* up; with heartbeats it has data to read, or waits no longer than nothing was written, and
\* the periodic task does not let that be longer than the interval.
KeptOf(r) ==
    /\ stage[on[r]] \in {"backlog", "accepted"}
    /\ \A w \in Worker : pc[w] \in {"close", "delete"} => cur[w][2] # on[r]
    /\ stage[on[r]] = "backlog" => silence[r] = 0
    /\ stage[on[r]] = "accepted" /\ Interval >= 1 =>
         /\ buffer[on[r]] > 0 \/ silence[r] <= idle[on[r]]
         /\ idle[on[r]] > 0 => Registered(on[r])
         /\ idle[on[r]] <= Interval \/ (idle[on[r]] = Interval + 1 /\ ToBeat(on[r]))

\* Nobody closes all clients, nor does the periodic task end, before the shutdown.
Serving ==
    /\ left[Acceptor] = {}
    /\ pc[Acceptor] = "listen" => DOMAIN clients = {}
    /\ pc[Periodic] # "done"

HeartbeatInv ==
    ~ctxDone => Serving /\ \A r \in Reader \cap Prompt : Attached(r) => KeptOf(r)

LEMMA InitHeartbeatInv == Init => HeartbeatInv
<1> SUFFICES ASSUME Init PROVE HeartbeatInv
  OBVIOUS
<1>1. Serving
  BY Workers DEF Init, ServiceInit, Serving
<1>2. \A r \in Reader : ~Attached(r)
  BY DEF Init, Attached
<1> QED BY <1>1, <1>2 DEF HeartbeatInv

\* What keeps a reader's connection as it is.
LEMMA KeptFrame ==
    ASSUME NEW r, KeptOf(r), on'[r] = on[r], silence'[r] = silence[r],
           stage'[on[r]] = stage[on[r]],
           buffer'[on[r]] = buffer[on[r]], idle'[on[r]] = idle[on[r]],
           \A w \in Worker : pc'[w] \in {"close", "delete"} => cur'[w][2] # on[r],
           Registered(on[r]) => Registered(on[r])',
           ToBeat(on[r]) => ToBeat(on[r])'
    PROVE  KeptOf(r)'
<1>1. (Registered(on[r]))' = \E k \in DOMAIN clients' : clients'[k] = on[r]
  BY DEF Registered
<1> QED BY DEF KeptOf, Registered, ToBeat

\* A visit of a client by a goroutine that broadcasts or sends heartbeats.
LEMMA VisitKeeps ==
    ASSUME IInv, ReaderInv, HeartbeatInv, ~ctxDone, NEW w \in Worker, Visit(w),
           UNCHANGED readerVars, NEW r \in Reader \cap Prompt, Attached(r)
    PROVE  KeptOf(r)'
<1> DEFINE c == on[r]
<1>1. /\ KeptOf(r) /\ c \in Conn /\ peer[c] = "open" /\ addr[c] = r /\ r \in Prompt
      /\ buffer \in [Conn -> Nat] /\ idle \in [Conn -> Nat] /\ silence[r] \in Nat
      /\ Interval \in Nat
  BY ServiceAssumption DEF HeartbeatInv, ReaderInv, OwnConnection, ReaderTypes
<1>2. /\ pc[w] = "range" /\ w # Acceptor
      /\ UNCHANGED <<ctxDone, listening, clients, stage, addr, due, on, silence, rpc>>
  BY DEF Visit, readerVars
<1>3. PICK e \in left[w] :
        /\ left' = [left EXCEPT ![w] = @ \ {e}]
        /\ \/ /\ w = Periodic /\ FALSE \in shouldSendHeartbeat(e[2])
              /\ UNCHANGED <<peer, buffer, idle, got, pc, cur>>
           \/ /\ w \in Broadcaster \/ (w = Periodic /\ TRUE \in shouldSendHeartbeat(e[2]))
              /\ \/ WriteSucceeds(w, e[2]) /\ UNCHANGED <<pc, cur>>
                 \/ /\ WriteFails(e[2]) /\ UNCHANGED <<peer, buffer, idle, got>>
                    /\ GiveUp(w, e)
  BY DEF Visit
<1>4. DOMAIN left = Worker /\ DOMAIN cur = Worker /\ pc \in [Worker -> AcceptorPlaces \cup WorkerPlaces]
  BY DEF IInv, TypeInv
<1>5. Registered(c) => Registered(c)'
  BY <1>2 DEF Registered
<1>6. pc'[w] \in {"range", "close"} /\ \A x \in Worker \ {w} : pc'[x] = pc[x] /\ left'[x] = left[x]
  BY <1>2, <1>3, <1>4 DEF GiveUp, Go
<1>7. e[2] # c => (ToBeat(c) => ToBeat(c)')
  <2> SUFFICES ASSUME e[2] # c, ToBeat(c) PROVE ToBeat(c)'
    OBVIOUS
  <2>1. CASE due
    BY <1>2, <2>1 DEF ToBeat
  <2>2. CASE /\ pc[Periodic] \in {"range", "close", "delete"}
             /\ \E k \in DOMAIN clients : clients[k] = c /\ <<k, c>> \in left[Periodic]
    <3>1. PICK k \in DOMAIN clients : clients[k] = c /\ <<k, c>> \in left[Periodic]
      BY <2>2
    <3>2. <<k, c>> # e
      OBVIOUS
    <3>3. <<k, c>> \in left'[Periodic]
      BY <1>3, <1>4, <3>1, <3>2, Workers
    <3>4. pc'[Periodic] \in {"range", "close", "delete"}
      BY <1>6, <2>2, Workers
    <3> QED BY <1>2, <3>1, <3>3, <3>4 DEF ToBeat
  <2> QED BY <2>1, <2>2 DEF ToBeat
<1>8. CASE w = Periodic /\ FALSE \in shouldSendHeartbeat(e[2]) /\ UNCHANGED <<peer, buffer, idle, got, pc, cur>>
  <2>1. CASE e[2] # c
    BY <1>1, <1>2, <1>5, <1>7, <1>8, <2>1, KeptFrame DEF KeptOf
  <2>2. CASE e[2] = c
    <3>1. idle[c] <= Interval
      <4>1. PICK h \in BOOLEAN : h = FALSE /\ IF h THEN idle[c] >= Interval ELSE idle[c] <= Interval
        BY <1>8, <2>2 DEF shouldSendHeartbeat
      <4> QED BY <4>1
    <3> QED BY <1>1, <1>2, <1>5, <1>8, <3>1 DEF KeptOf
  <2> QED BY <2>1, <2>2
<1>9. CASE WriteSucceeds(w, e[2]) /\ UNCHANGED <<pc, cur>>
  <2>1. CASE e[2] # c
    <3>1. buffer'[c] = buffer[c] /\ idle'[c] = idle[c]
      BY <1>1, <1>9, <2>1 DEF WriteSucceeds
    <3> QED BY <1>1, <1>2, <1>5, <1>7, <1>9, <2>1, <3>1, KeptFrame DEF KeptOf
  <2>2. CASE e[2] = c
    <3>1. buffer' = [buffer EXCEPT ![c] = @ + 1] /\ idle' = [idle EXCEPT ![c] = 0]
      BY <1>1, <1>9, <2>2 DEF WriteSucceeds
    <3>2. buffer'[c] > 0 /\ idle'[c] = 0
      BY <1>1, <3>1
    <3> QED BY <1>1, <1>2, <1>9, <3>2 DEF KeptOf
  <2> QED BY <2>1, <2>2
<1>10. CASE WriteFails(e[2]) /\ UNCHANGED <<peer, buffer, idle, got>> /\ GiveUp(w, e)
  <2>1. e[2] # c
    BY <1>1, <1>10 DEF WriteFails, KeptOf
  <2>2. \A x \in Worker : pc'[x] \in {"close", "delete"} => cur'[x][2] # c
    BY <1>1, <1>4, <1>6, <1>10, <2>1 DEF GiveUp, KeptOf
  <2> QED BY <1>1, <1>2, <1>5, <1>7, <1>10, <2>1, <2>2, KeptFrame
<1> QED BY <1>3, <1>8, <1>9, <1>10

\* The other steps of the server that can be taken before the shutdown.
LEMMA ServiceKeeps ==
    ASSUME IInv, ReaderInv, HeartbeatInv, ~ctxDone, ~ctxDone', ServiceStep,
           UNCHANGED readerVars, NEW r \in Reader \cap Prompt, Attached(r)
    PROVE  KeptOf(r)'
<1> USE Workers
<1> DEFINE c == on[r]
<1>1. /\ KeptOf(r) /\ c \in Conn
      /\ buffer \in [Conn -> Nat] /\ idle \in [Conn -> Nat] /\ silence[r] \in Nat
      /\ Interval \in Nat
      /\ rpc[r] # "read" => silence[r] = 0
  BY ServiceAssumption DEF HeartbeatInv, ReaderInv, OwnConnection, ReaderTypes
<1>2. /\ DOMAIN left = Worker /\ DOMAIN cur = Worker
      /\ pc \in [Worker -> AcceptorPlaces \cup WorkerPlaces]
      /\ stage \in [Conn -> Stages]
  BY DEF IInv, TypeInv
<1>3. UNCHANGED <<on, silence, rpc>> /\ Serving
  BY DEF readerVars, HeartbeatInv
<1>4. ASSUME NEW w \in Worker, RangeEnd(w) PROVE KeptOf(r)'
  <2>1. /\ UNCHANGED <<clients, stage, buffer, idle, cur, due>>
        /\ \A x \in Worker \ {w} : pc'[x] = pc[x] /\ left'[x] = left[x]
        /\ pc'[w] \in {"done", "idle"}
        /\ left[w] \cap Entry(clients) = {}
    BY <1>2, <1>4 DEF RangeEnd, Go
  <2>2. w = Periodic => (ToBeat(c) => due)
    <3>1. \A k \in DOMAIN clients : <<k, clients[k]>> \notin left[w]
      BY <2>1 DEF Entry
    <3> QED BY <3>1 DEF ToBeat
  <2>3. ToBeat(c) => ToBeat(c)'
    <3>1. CASE due
      BY <2>1, <3>1 DEF ToBeat
    <3>2. CASE w # Periodic
      BY <1>3, <2>1, <3>2 DEF ToBeat
    <3> QED BY <2>2, <3>1, <3>2
  <2> QED BY <1>1, <1>3, <2>1, <2>3, KeptFrame DEF KeptOf, Registered
<1>5. ASSUME NEW w \in Worker, Close(w) PROVE KeptOf(r)'
  <2>1. pc[w] = "close" /\ cur[w][2] # c
    BY <1>1, <1>5 DEF Close, KeptOf
  <2>2. /\ UNCHANGED <<clients, buffer, cur, due, left>>
        /\ stage'[c] = stage[c] /\ idle'[c] = idle[c]
        /\ \A x \in Worker \ {w} : pc'[x] = pc[x]
        /\ pc'[w] = "delete"
    BY <1>1, <1>2, <1>5, <2>1 DEF Close, CloseConn, Go
  <2>3. ToBeat(c) => ToBeat(c)'
    BY <1>3, <2>2 DEF ToBeat
  <2> QED BY <1>1, <1>3, <2>1, <2>2, <2>3, KeptFrame DEF KeptOf, Registered
<1>6. ASSUME NEW w \in Worker, Delete(w) PROVE KeptOf(r)'
  <2>1. pc[w] = "delete" /\ cur[w][2] # c /\ IsEntry(cur[w])
    BY <1>1, <1>6 DEF Delete, KeptOf, IInv, TypeInv
  <2>2. \A k \in DOMAIN clients : clients[k] = c => k # cur[w][1]
    BY <2>1 DEF IsEntry, IInv, TypeInv
  <2>3. /\ UNCHANGED <<stage, buffer, idle, due, left>>
        /\ clients' = Without(cur[w][1])
        /\ \A x \in Worker \ {w} : pc'[x] = pc[x] /\ cur'[x] = cur[x]
        /\ pc'[w] = "range"
    BY <1>2, <1>6 DEF Delete, Go
  <2>4. \A k \in DOMAIN clients : clients[k] = c => k \in DOMAIN clients' /\ clients'[k] = c
    BY <2>2, <2>3 DEF Without
  <2>5. Registered(c) => Registered(c)'
    BY <1>3, <2>4 DEF Registered
  <2>6. ToBeat(c) => ToBeat(c)'
    BY <1>3, <2>3, <2>4 DEF ToBeat
  <2> QED BY <1>1, <1>3, <2>1, <2>3, <2>5, <2>6, KeptFrame DEF KeptOf
<1>7. CASE \E b \in Broadcaster : Broadcast(b)
  <2>1. PICK b \in Broadcaster : Broadcast(b)
    BY <1>7
  <2>2. /\ UNCHANGED <<stage, buffer, idle, due, clients, cur>>
        /\ \A x \in Worker \ {b} : pc'[x] = pc[x] /\ left'[x] = left[x]
        /\ pc'[b] = "range"
    BY <1>2, <2>1 DEF Broadcast, RangeBegin, Go
  <2>3. ToBeat(c) => ToBeat(c)'
    BY <1>3, <2>2 DEF ToBeat
  <2> QED BY <1>1, <1>3, <2>2, <2>3, KeptFrame DEF KeptOf, Registered
<1>8. CASE sendHeartbeats
  <2>1. /\ UNCHANGED <<stage, buffer, idle, clients, cur>>
        /\ \A x \in Worker \ {Periodic} : pc'[x] = pc[x]
        /\ pc'[Periodic] \in {"idle", "range"}
    BY <1>2, <1>8 DEF sendHeartbeats, RangeBegin, Go
  <2>2. Interval >= 1 => pc'[Periodic] = "range" /\ left'[Periodic] = Entry(clients)
    BY <1>1, <1>2, <1>8 DEF sendHeartbeats, RangeBegin, Go
  <2>3. Interval >= 1 /\ Registered(c) => ToBeat(c)'
    BY <1>3, <2>1, <2>2 DEF Registered, ToBeat, Entry
  <2>4. Registered(c) => Registered(c)'
    BY <1>3, <2>1 DEF Registered
  <2> QED BY <1>1, <1>3, <2>1, <2>3, <2>4 DEF KeptOf
<1>9. CASE Listen
  <2>1. /\ UNCHANGED <<stage, buffer, idle, clients, cur, due>>
        /\ \A x \in Worker \ {Acceptor} : pc'[x] = pc[x] /\ left'[x] = left[x]
        /\ pc'[Acceptor] \in {"accept", "range"}
    BY <1>2, <1>9 DEF Listen, RangeBegin, Go
  <2>2. ToBeat(c) => ToBeat(c)'
    BY <1>3, <2>1 DEF ToBeat
  <2> QED BY <1>1, <1>3, <2>1, <2>2, KeptFrame DEF KeptOf, Registered
<1>10. CASE Accept
  <2>1. PICK x \in Conn : /\ stage[x] = "backlog"
                          /\ stage' = [stage EXCEPT ![x] = "accepted"]
                          /\ idle' = [idle EXCEPT ![x] = 0]
                          /\ cur' = [cur EXCEPT ![Acceptor] = <<newClientID(x), x>>]
    BY <1>10 DEF Accept
  <2>2. /\ UNCHANGED <<buffer, clients, due, left>>
        /\ \A w \in Worker \ {Acceptor} : pc'[w] = pc[w] /\ cur'[w] = cur[w]
        /\ pc'[Acceptor] = "add"
    BY <1>2, <1>10, <2>1 DEF Accept, Go
  <2>3. ToBeat(c) => ToBeat(c)'
    BY <1>3, <2>2 DEF ToBeat
  <2>4. CASE x # c
    <3>1. stage'[c] = stage[c] /\ idle'[c] = idle[c]
      BY <1>1, <1>2, <2>1, <2>4
    <3> QED BY <1>1, <1>3, <2>2, <2>3, <3>1, KeptFrame DEF KeptOf, Registered
  <2>5. CASE x = c
    <3>1. stage'[c] = "accepted" /\ idle'[c] = 0 /\ silence[r] = 0
      BY <1>1, <1>2, <2>1, <2>5 DEF KeptOf
    <3>2. \A w \in Worker : pc'[w] \in {"close", "delete"} => cur'[w][2] # c
      BY <1>1, <2>2 DEF KeptOf
    <3> QED BY <1>1, <1>3, <3>1, <3>2 DEF KeptOf
  <2> QED BY <2>4, <2>5
<1>11. CASE Add
  <2>1. /\ UNCHANGED <<stage, buffer, idle, due, left>>
        /\ clients' = With(cur[Acceptor][1], cur[Acceptor][2])
        /\ \A w \in Worker \ {Acceptor} : pc'[w] = pc[w] /\ cur'[w] = cur[w]
        /\ pc'[Acceptor] = "accept"
    BY <1>2, <1>11 DEF Add, Go
  <2>2. IsEntry(cur[Acceptor])
    BY <1>11 DEF Add, IInv, TypeInv
  <2>3. \A k \in DOMAIN clients : clients[k] = c => k \in DOMAIN clients' /\ clients'[k] = c
    BY <2>1, <2>2 DEF With, IsEntry, IInv, TypeInv
  <2>4. Registered(c) => Registered(c)'
    BY <1>3, <2>3 DEF Registered
  <2>5. ToBeat(c) => ToBeat(c)'
    BY <1>3, <2>1, <2>3 DEF ToBeat
  <2> QED BY <1>1, <1>3, <2>1, <2>4, <2>5, KeptFrame DEF KeptOf
<1>12. ~(CloseOne \/ AcceptEnds \/ CloseListener \/ PeriodicEnds \/ Cancel)
  BY <1>3 DEF CloseOne, AcceptEnds, CloseListener, PeriodicEnds, Cancel, Serving
<1> QED BY <1>4, <1>5, <1>6, <1>7, <1>8, <1>9, <1>10, <1>11, <1>12, VisitKeeps
        DEF ServiceStep, WorkerStep, AcceptorStep


\* The steps of the readers, of other programs and of time.
LEMMA PeerKeeps ==
    ASSUME IInv, ReaderInv, HeartbeatInv, ~ctxDone,
           \/ (\E a \in strangers : Stranger(a)) /\ UNCHANGED readerVars
           \/ \E q \in Reader : ReaderStep(q) \/ Interrupt(q)
           \/ Tick
           \/ UNCHANGED vars,
           NEW r \in Reader \cap Prompt, Attached(r)'
    PROVE  KeptOf(r)'
<1> USE Workers
<1>1. /\ Serving /\ OwnConnection /\ ReaderTypes
      /\ Attached(r) => KeptOf(r) /\ on[r] \in Conn
      /\ silence[r] \in Nat /\ (rpc[r] # "read" => silence[r] = 0)
      /\ Interval \in Nat
  BY ServiceAssumption DEF HeartbeatInv, ReaderInv, OwnConnection, ReaderTypes
<1>2. stage \in [Conn -> Stages] /\ buffer \in [Conn -> Nat] /\ idle \in [Conn -> Nat]
  BY DEF IInv, TypeInv, ReaderInv, ReaderTypes
<1>3. ASSUME Attached(r), UNCHANGED <<on, stage, buffer, idle, clients, pc, left, cur, due>>,
             silence'[r] = silence[r]
      PROVE  KeptOf(r)'
  BY <1>1, <1>3 DEF KeptOf, Registered, ToBeat
<1>4. ASSUME NEW a, NEW x \in Unused, Connect(a, x), Attached(r), on'[r] = on[r],
             silence'[r] = silence[r]
      PROVE  KeptOf(r)'
  <2>1. x \in Conn /\ x # on[r]
    BY <1>1, <1>4, UnusedIsFree
  <2>2. UNCHANGED <<clients, pc, left, cur, due>>
    BY <1>4 DEF Connect
  <2>3. /\ stage'[on[r]] = stage[on[r]] /\ buffer'[on[r]] = buffer[on[r]]
        /\ idle'[on[r]] = idle[on[r]]
    BY <1>1, <1>4, <2>1, ConnectReaders
  <2>4. ToBeat(on[r]) => ToBeat(on[r])'
    BY <1>4, <2>2 DEF ToBeat
  <2> QED BY <1>1, <1>4, <2>2, <2>3, <2>4, KeptFrame DEF KeptOf, Registered
<1>5. ASSUME NEW x \in Conn, Hangup(x), x # on[r], Attached(r), on'[r] = on[r],
             silence'[r] = silence[r]
      PROVE  KeptOf(r)'
  <2>1. /\ UNCHANGED <<stage, idle, clients, pc, left, cur, due>>
        /\ buffer'[on[r]] = buffer[on[r]]
    BY <1>1, <1>5, HangupReaders
  <2>2. ToBeat(on[r]) => ToBeat(on[r])'
    BY <1>5, <2>1 DEF ToBeat
  <2> QED BY <1>1, <1>5, <2>1, <2>2, KeptFrame DEF KeptOf, Registered
<1>6. CASE (\E a \in strangers : Stranger(a)) /\ UNCHANGED readerVars
  <2>1. PICK a \in strangers : Stranger(a)
    BY <1>6
  <2>2. Attached(r) /\ UNCHANGED <<on, silence>>
    BY <1>6 DEF Attached, readerVars
  <2>3. CASE \E x \in Unused : Connect(a, x)
    BY <1>4, <2>2, <2>3
  <2>4. CASE \E x \in Conn : addr[x] = a /\ Hangup(x)
    <3>1. PICK x \in Conn : addr[x] = a /\ Hangup(x)
      BY <2>4
    <3>2. x # on[r]
      BY <1>1, <2>1, <2>2, <3>1 DEF OwnConnection
    <3> QED BY <1>5, <2>2, <3>1, <3>2
  <2> QED BY <2>1, <2>3, <2>4 DEF Stranger
<1>7. ASSUME NEW q \in Reader, Dial(q) PROVE KeptOf(r)'
  <2>1. rpc[q] = "run" /\ silence' = silence
    BY <1>7 DEF Dial
  <2>2. CASE (Step(q, "done") \/ Step(q, "lost")) /\ UNCHANGED <<serviceVars, on>>
    <3>1. Attached(r)
      BY <1>1, <2>2 DEF Attached, Step, ReaderTypes
    <3> QED BY <1>3, <2>1, <2>2, <3>1 DEF serviceVars
  <2>3. CASE \E x \in Unused : Connect(q, x) /\ on' = [on EXCEPT ![q] = x] /\ Step(q, "check")
    <3>1. PICK x \in Unused : Connect(q, x) /\ on' = [on EXCEPT ![q] = x] /\ Step(q, "check")
      BY <2>3
    <3>2. CASE q # r
      <4>1. on'[r] = on[r] /\ rpc'[r] = rpc[r]
        BY <1>1, <3>1, <3>2 DEF Step, ReaderTypes
      <4> QED BY <1>4, <2>1, <3>1, <4>1 DEF Attached
    <3>3. CASE q = r
      <4>1. on'[r] = x /\ silence'[r] = 0
        BY <1>1, <2>1, <3>1, <3>3 DEF ReaderTypes
      <4>2. x \in Conn /\ \A w \in Worker : pc[w] \in {"close", "delete"} => cur[w][2] # x
        BY <1>1, UnusedIsFree
      <4>3. stage'[x] = "backlog"
        BY <1>1, <3>1, <4>2, ConnectReaders
      <4>4. UNCHANGED <<pc, cur>>
        BY <3>1 DEF Connect
      <4> QED BY <4>1, <4>2, <4>3, <4>4 DEF KeptOf
    <3> QED BY <3>2, <3>3
  <2> QED BY <1>7, <2>2, <2>3 DEF Dial
<1>8. ASSUME NEW q \in Reader, Check(q) \/ Read(q), q # r PROVE KeptOf(r)'
  <2>1. rpc'[r] = rpc[r] /\ on' = on /\ silence'[r] = silence[r]
    BY <1>1, <1>8 DEF Check, Read, Step, ReaderTypes
  <2>2. Attached(r) /\ on[q] \in Conn /\ on[q] # on[r]
    BY <1>1, <1>8, <2>1 DEF Attached, Check, Read, OwnConnection
  <2>3. CASE Hangup(on[q])
    BY <1>5, <2>1, <2>2, <2>3
  <2>4. CASE Receive(on[q])
    <3>1. /\ UNCHANGED <<stage, idle, clients, pc, left, cur, due>>
          /\ buffer'[on[r]] = buffer[on[r]]
      BY <1>1, <1>2, <2>2, <2>4 DEF Receive
    <3>2. ToBeat(on[r]) => ToBeat(on[r])'
      BY <2>1, <3>1 DEF ToBeat
    <3> QED BY <1>1, <2>1, <2>2, <3>1, <3>2, KeptFrame DEF KeptOf, Registered
  <2>5. CASE UNCHANGED serviceVars
    BY <1>3, <2>1, <2>2, <2>5 DEF serviceVars
  <2> QED BY <1>8, <2>3, <2>4, <2>5 DEF Check, Read
<1>9. CASE Check(r)
  <2>1. UNCHANGED serviceVars /\ UNCHANGED <<on, silence>> /\ Attached(r)
    BY <1>1, <1>9 DEF Check, Attached, Step, ReaderTypes
  <2> QED BY <1>3, <2>1 DEF serviceVars
<1>10. CASE Read(r)
  <2>1. Receive(on[r]) /\ on' = on /\ silence'[r] = 0 /\ Attached(r)
    BY <1>1, <1>10 DEF Read, Attached, Step, ReaderTypes
  <2>2. UNCHANGED <<stage, idle, clients, pc, left, cur, due>>
    BY <2>1 DEF Receive
  <2>3. silence'[r] <= idle'[on[r]]
    BY <1>1, <1>2, <2>1, <2>2
  <2>4. ToBeat(on[r]) => ToBeat(on[r])'
    BY <2>1, <2>2 DEF ToBeat
  <2>5. KeptOf(r)
    BY <1>1, <2>1
  <2> QED BY <2>1, <2>2, <2>3, <2>4, <2>5 DEF KeptOf, Registered
<1>11. ASSUME NEW q \in Reader, Lost(q) \/ Wait(q) \/ Interrupt(q) PROVE KeptOf(r)'
  <2>1. Attached(r) /\ UNCHANGED serviceVars /\ UNCHANGED <<on, silence>>
    BY <1>1, <1>11 DEF Lost, Wait, Interrupt, Attached, Step, ReaderTypes
  <2> QED BY <1>3, <2>1 DEF serviceVars
<1>12. CASE Tick
  <2>1. /\ UNCHANGED <<stage, buffer, rpc, on, clients, pc, left, cur>>
        /\ idle' = [c \in Conn |-> IF stage[c] = "accepted" /\ due' /\ idle[c] <= Interval + 1
                                   THEN idle[c] + 1 ELSE idle[c]]
        /\ silence' = [q \in Reader |-> IF rpc[q] = "read" THEN silence[q] + 1 ELSE silence[q]]
    BY <1>12 DEF Tick
  <2>2. Attached(r) /\ KeptOf(r) /\ on[r] \in Conn
    BY <1>1, <2>1 DEF Attached
  <2>3. rpc[r] = "read" /\ Registered(on[r]) /\ buffer[on[r]] = 0
    BY <1>12, <2>2 DEF Tick, Settled, Attached, KeptOf
  <2>4. stage[on[r]] = "accepted"
    BY <2>2, <2>3 DEF KeptOf, IInv, RefsUsed
  <2>5. ~ToBeat(on[r])
    BY <1>12 DEF Tick, Settled, ToBeat
  <2>6. due'
    <3>1. due' = (pc[Periodic] # "done")
      BY <1>12 DEF Tick
    <3>2. pc[Periodic] # "done"
      BY <1>1 DEF Serving
    <3> QED BY <3>1, <3>2
  <2>7. Interval >= 1 => silence[r] <= idle[on[r]] /\ idle[on[r]] <= Interval
    BY <1>2, <2>2, <2>3, <2>4, <2>5 DEF KeptOf
  <2>8. Interval >= 1 => idle'[on[r]] = idle[on[r]] + 1 /\ silence'[r] = silence[r] + 1
    BY <1>1, <1>2, <2>1, <2>2, <2>3, <2>4, <2>6, <2>7
  <2>9. ToBeat(on[r])'
    BY <2>6 DEF ToBeat
  <2>10. Interval >= 1 => silence'[r] <= idle'[on[r]] /\ (idle'[on[r]] <= Interval \/ idle'[on[r]] = Interval + 1)
    BY <1>1, <1>2, <2>2, <2>7, <2>8
  <2>11. Registered(on[r])'
    BY <2>1, <2>3 DEF Registered
  <2> QED BY <2>1, <2>2, <2>4, <2>9, <2>10, <2>11 DEF KeptOf
<1>13. CASE UNCHANGED vars
  <2>1. Attached(r) /\ UNCHANGED serviceVars /\ UNCHANGED <<on, silence>>
    BY <1>13 DEF vars, readerVars, Attached
  <2> QED BY <1>3, <2>1 DEF serviceVars
<1> QED BY <1>6, <1>7, <1>8, <1>9, <1>10, <1>11, <1>12, <1>13 DEF ReaderStep

\* Until the shutdown the acceptor closes nobody and the periodic task goes on.
LEMMA NextServing ==
    ASSUME IInv, Serving, ~ctxDone, ~ctxDone', [Next]_vars
    PROVE  Serving'
<1> USE Workers
<1>1. /\ DOMAIN left = Worker
      /\ pc \in [Worker -> AcceptorPlaces \cup WorkerPlaces]
  BY DEF IInv, TypeInv
<1>2. ASSUME NEW w \in Worker, WorkerStep(w) PROVE Serving'
  <2>1. /\ \A x \in Worker \ {w} : pc'[x] = pc[x] /\ left'[x] = left[x]
        /\ left'[w] \subseteq left[w]
        /\ pc[w] \in {"range", "close", "delete"}
    BY <1>1, <1>2 DEF WorkerStep, RangeEnd, Visit, Close, Delete, Go, GiveUp
  <2>2. w = Periodic => pc'[w] # "done"
    BY <1>1, <1>2 DEF WorkerStep, RangeEnd, Visit, Close, Delete, Go, GiveUp
  <2>3. pc'[Acceptor] = "listen" => pc[Acceptor] = "listen" /\ w # Acceptor
    BY <1>1, <1>2, <2>1 DEF WorkerStep, RangeEnd, Visit, Close, Delete, Go, GiveUp
  <2>4. pc'[Acceptor] = "listen" => DOMAIN clients' = {}
    <3>1. clients' = clients \/ clients' = Without(cur[w][1])
      BY <1>2 DEF WorkerStep, RangeEnd, Visit, Close, Delete
    <3> QED BY <2>3, <3>1 DEF Serving, Without
  <2> QED BY <2>1, <2>2, <2>4 DEF Serving
<1>3. CASE CloseOne \/ AcceptEnds \/ CloseListener \/ PeriodicEnds \/ Cancel
  BY <1>3 DEF CloseOne, AcceptEnds, CloseListener, PeriodicEnds, Cancel, Serving
<1>4. CASE Listen
  <2>1. DOMAIN clients = {} /\ clients' = clients
    BY <1>4 DEF Listen, Serving
  <2>2. left' = left \/ left' = [left EXCEPT ![Acceptor] = Entry(clients)]
    BY <1>4 DEF Listen, RangeBegin
  <2>3. left'[Acceptor] = {}
    BY <1>1, <2>1, <2>2 DEF Entry, Serving
  <2>4. pc'[Periodic] = pc[Periodic]
    BY <1>1, <1>4 DEF Listen, Go
  <2> QED BY <2>1, <2>3, <2>4 DEF Serving
<1>5. CASE Accept \/ Add
  BY <1>1, <1>5 DEF Accept, Add, Go, Serving
<1>6. CASE sendHeartbeats
  BY <1>1, <1>6 DEF sendHeartbeats, RangeBegin, Go, Serving
<1>7. CASE \E b \in Broadcaster : Broadcast(b)
  BY <1>1, <1>7 DEF Broadcast, RangeBegin, Go, Serving
<1>8. CASE UNCHANGED <<clients, pc, left>>
  BY <1>8 DEF Serving
<1>9. \/ ServiceStep
      \/ UNCHANGED <<clients, pc, left>>
  <2>1. (\E a \in strangers : Stranger(a)) => UNCHANGED <<clients, pc, left>>
    BY DEF Stranger, Connect, Hangup
  <2>2. (\E r \in Reader : ReaderStep(r) \/ Interrupt(r)) => UNCHANGED <<clients, pc, left>>
    BY DEF ReaderStep, Dial, Check, Read, Lost, Wait, Interrupt, Connect, Hangup, Receive, serviceVars
  <2>3. Tick => UNCHANGED <<clients, pc, left>>
    BY DEF Tick
  <2> QED BY <2>1, <2>2, <2>3 DEF Next, vars, serviceVars
<1> QED BY <1>2, <1>3, <1>4, <1>5, <1>6, <1>7, <1>8, <1>9 DEF ServiceStep, AcceptorStep

LEMMA NextHeartbeatInv ==
    ASSUME IInv, ReaderInv, HeartbeatInv, [Next]_vars
    PROVE  HeartbeatInv'
<1> SUFFICES ASSUME ~ctxDone'
             PROVE  Serving' /\ \A r \in Reader \cap Prompt : Attached(r)' => KeptOf(r)'
  BY DEF HeartbeatInv, Attached, KeptOf
<1>1. ~ctxDone
  <2>1. ctxDone' = ctxDone \/ ctxDone' = TRUE
    BY DEF Next, vars, serviceVars, ServiceStep, WorkerStep, AcceptorStep, RangeEnd, Visit, Close,
           Delete, CloseOne, Listen, Accept, Add, AcceptEnds, CloseListener, sendHeartbeats,
           PeriodicEnds, Cancel, Broadcast, Stranger, Connect, Hangup, Receive, ReaderStep,
           Dial, Check, Read, Lost, Wait, Interrupt, Tick
  <2> QED BY <2>1
<1>2. Serving'
  BY <1>1, NextServing DEF HeartbeatInv
<1>3. ASSUME NEW r \in Reader \cap Prompt, Attached(r)' PROVE KeptOf(r)'
  <2>1. CASE ServiceStep /\ UNCHANGED readerVars
    <3>1. Attached(r)
      BY <1>3, <2>1 DEF Attached, readerVars
    <3> QED BY <1>1, <2>1, <3>1, ServiceKeeps
  <2>2. CASE \/ (\E a \in strangers : Stranger(a)) /\ UNCHANGED readerVars
             \/ \E q \in Reader : ReaderStep(q) \/ Interrupt(q)
             \/ Tick
             \/ UNCHANGED vars
    BY <1>1, <1>3, <2>2, PeerKeeps
  <2> QED BY <2>1, <2>2 DEF Next
<1> QED BY <1>2, <1>3

\* Until the shutdown the server gives up no reader that keeps up, for any clients, traffic,
\* settings and timing; and unless the heartbeat interval is within a period of the read
\* deadline or above it, a heartbeat is there before its Read gives up too.
THEOREM HeartbeatsInTime == Spec => KeptTillDeadline
<1> DEFINE Kept == \A r \in Reader \cap Prompt :
                     rpc[r] = "read" /\ rpc'[r] = "lost" /\ ~ctxDone =>
                       /\ stage[on[r]] # "closed"
                       /\ Interval > 0 => ReadTimeout <= Interval + 1
<1>1. IInv /\ ReaderInv /\ HeartbeatInv /\ [Next]_vars => [Kept]_vars
  <2> SUFFICES ASSUME IInv, ReaderInv, HeartbeatInv, [Next]_vars,
                      NEW r \in Reader \cap Prompt,
                      rpc[r] = "read", rpc'[r] = "lost", ~ctxDone
               PROVE  /\ stage[on[r]] # "closed"
                      /\ Interval > 0 => ReadTimeout <= Interval + 1
    OBVIOUS
  <2>1. rpc = [q \in Reader |-> rpc[q]] /\ Attached(r) /\ KeptOf(r) /\ on[r] \in Conn
    BY DEF ReaderInv, ReaderTypes, OwnConnection, HeartbeatInv, Attached
  <2>2. Read(r) /\ Step(r, "lost")
    BY <2>1 DEF Next, vars, readerVars, ReaderStep, Dial, Check, Read, Lost, Wait, Interrupt, Step, Tick
  <2>3. stage[on[r]] \in {"backlog", "accepted"}
    BY <2>1 DEF KeptOf
  <2>4. buffer[on[r]] = 0 /\ silence[r] >= ReadTimeout
    BY <2>1, <2>2, <2>3 DEF Read, Step
  <2>5. /\ silence[r] \in Nat /\ idle[on[r]] \in Nat
        /\ Interval \in Nat /\ ReadTimeout \in Nat \ {0}
    BY <2>1, ServiceAssumption, FeedAssumption DEF ReaderInv, ReaderTypes
  <2>6. stage[on[r]] = "accepted"
    BY <2>1, <2>3, <2>4, <2>5 DEF KeptOf
  <2>7. Interval > 0 => silence[r] <= idle[on[r]] /\ idle[on[r]] <= Interval + 1
    BY <2>1, <2>4, <2>5, <2>6 DEF KeptOf
  <2> QED BY <2>4, <2>5, <2>6, <2>7
<1>2. HeartbeatInv /\ IInv /\ ReaderInv /\ [Next]_vars => HeartbeatInv'
  BY NextHeartbeatInv
<1> QED BY <1>1, <1>2, InitHeartbeatInv, AlwaysIInv, AlwaysReaderInv, PTL DEF Spec, KeptTillDeadline

=============================================================================

-------------------------------- MODULE Feed --------------------------------
(***************************************************************************)
(* An output service of the server with its readers: run and               *)
(* connectAndProcess of view1090 and faup1090, which dial, read with a     *)
(* deadline of 60 s, and dial again after a pause when the connection is   *)
(* lost.  What they read is the business of the module Beast.  Time passes *)
(* in periods of the server's periodic task.  Other programs may connect,  *)
(* read or not, and leave as they like.                                    *)
(***************************************************************************)
EXTENDS NetworkService

CONSTANTS
    Reader,      \* the addresses at which view1090 or faup1090 runs
    Casts,       \* bound: the sets of addresses that may be at work at a time
    ReadTimeout, \* the read deadline in periods
    Reconnect    \* whether ReconnectDelay > 0

ASSUME FeedAssumption == Reader \subseteq Addr /\ Casts \subseteq SUBSET Addr /\ ReadTimeout \in Nat \ {0} /\ Reconnect \in BOOLEAN

VARIABLES
    rpc,       \* where a reader is
    on,        \* its connection
    silence,   \* periods since its SetReadDeadline
    cancelled, \* whether its context is cancelled
    strangers  \* the addresses of other programs

readerVars == <<rpc, on, silence, cancelled, strangers>>
vars == <<serviceVars, readerVars>>

Init ==
    /\ ServiceInit
    /\ \E cast \in Casts :
         /\ rpc = [r \in Reader |-> IF r \in cast THEN "run" ELSE "done"]
         /\ strangers = cast \ Reader
    /\ silence = [r \in Reader |-> 0]
    /\ cancelled = [r \in Reader |-> FALSE]
    /\ on = [r \in Reader |-> CHOOSE c \in Conn : TRUE]

Step(r, l) == rpc' = [rpc EXCEPT ![r] = l]

\* Connections that nobody refers to any more.
Unused == {c \in Conn :
    stage[c] = "free" \/
    (/\ stage[c] = "closed" /\ peer[c] # "open" /\ ~Registered(c)
     /\ \A w \in Worker : \A e \in left[w] \cup ({cur[w]} \ {Nobody}) : e[2] # c)}

\* A new connection enters the backlog of the listener.
Connect(a, c) ==
    /\ c = CHOOSE x \in Unused : \A y \in Unused : x <= y
    /\ stage' = [stage EXCEPT ![c] = "backlog"] /\ addr' = [addr EXCEPT ![c] = a]
    /\ peer' = [peer EXCEPT ![c] = "open"]
    /\ buffer' = [buffer EXCEPT ![c] = 0] /\ idle' = [idle EXCEPT ![c] = 0]
    /\ got' = [got EXCEPT ![c] = Nothing]
    /\ UNCHANGED <<ctxDone, listening, clients, pc, left, cur, due>>

\* The peer closes; what it has not read is lost.
Hangup(c) ==
    /\ peer' = [peer EXCEPT ![c] = "gone"] /\ buffer' = [buffer EXCEPT ![c] = 0]
    /\ UNCHANGED <<ctxDone, listening, clients, stage, addr, idle, pc, left, cur, due, got>>

Receive(c) ==
    /\ buffer[c] > 0 /\ buffer' = [buffer EXCEPT ![c] = 0]
    /\ UNCHANGED <<ctxDone, listening, clients, stage, addr, peer, idle, pc, left, cur, due, got>>

\* run, and net.DialTimeout: a listener that is not open refuses.
Dial(r) ==
    /\ rpc[r] = "run"
    /\ \/ cancelled[r] /\ Step(r, "done") /\ UNCHANGED <<serviceVars, on>>
       \/ ~cancelled[r] /\ ~listening /\ Step(r, "lost") /\ UNCHANGED <<serviceVars, on>>
       \/ /\ ~cancelled[r] /\ listening
          /\ \E c \in Unused : Connect(r, c) /\ on' = [on EXCEPT ![r] = c]
          /\ Step(r, "check")
    /\ UNCHANGED <<silence, cancelled, strangers>>

\* The head of the reading loop.
Check(r) ==
    /\ rpc[r] = "check"
    /\ IF cancelled[r] THEN Hangup(on[r]) /\ Step(r, "done")
       ELSE Step(r, "read") /\ UNCHANGED serviceVars
    /\ UNCHANGED <<on, silence, cancelled, strangers>>

\* conn.Read returns data, or an error: the server has closed, or the deadline has passed.
Read(r) ==
    /\ rpc[r] = "read"
    /\ \/ Receive(on[r]) /\ Step(r, "check")
       \/ /\ stage[on[r]] = "closed" \/ (buffer[on[r]] = 0 /\ silence[r] >= ReadTimeout)
          /\ Hangup(on[r]) /\ Step(r, "lost")
    /\ silence' = [silence EXCEPT ![r] = 0]
    /\ UNCHANGED <<on, cancelled, strangers>>

\* run after an error: give up, notice the end, or wait for the next attempt.
Lost(r) ==
    /\ rpc[r] = "lost"
    /\ Step(r, IF ~Reconnect \/ cancelled[r] THEN "done" ELSE "wait")
    /\ UNCHANGED <<serviceVars, on, silence, cancelled, strangers>>

Wait(r) ==
    /\ rpc[r] = "wait"
    /\ Step(r, "run") \/ (cancelled[r] /\ Step(r, "done"))
    /\ UNCHANGED <<serviceVars, on, silence, cancelled, strangers>>

Interrupt(r) ==
    /\ rpc[r] # "done" /\ ~cancelled[r] /\ cancelled' = [cancelled EXCEPT ![r] = TRUE]
    /\ UNCHANGED <<serviceVars, rpc, on, silence, strangers>>

\* What takes much less than a period is done: the heartbeats, adding a client, accepting a
\* prompt reader, and what it does with data.
Settled ==
    /\ ~due /\ pc[Periodic] \in {"idle", "done"} /\ pc[Acceptor] # "add"
    /\ \A r \in Reader \cap Prompt :
         /\ rpc[r] # "check"
         /\ rpc[r] = "read" /\ stage[on[r]] # "closed" => Registered(on[r])
         /\ rpc[r] = "read" => buffer[on[r]] = 0 /\ stage[on[r]] # "closed"
    /\ \A r \in Reader : rpc[r] = "read" => silence[r] < ReadTimeout

Tick ==
    /\ Settled
    /\ due' = (pc[Periodic] # "done")
    /\ idle' = [c \in Conn |-> IF stage[c] = "accepted" /\ due' /\ idle[c] <= Interval + 1
                               THEN idle[c] + 1 ELSE idle[c]]
    /\ silence' = [r \in Reader |-> IF rpc[r] = "read" THEN silence[r] + 1 ELSE silence[r]]
    /\ UNCHANGED <<ctxDone, listening, clients, stage, addr, peer, buffer, pc, left, cur, got,
                   rpc, on, cancelled, strangers>>

\* Any other program.
Stranger(a) ==
    \/ listening /\ \E c \in Unused : Connect(a, c)
    \/ \E c \in Conn : /\ stage[c] # "free" /\ addr[c] = a /\ peer[c] = "open"
                       /\ Hangup(c)

ReaderStep(r) == Dial(r) \/ Check(r) \/ Read(r) \/ Lost(r) \/ Wait(r)

Next ==
    \/ (ServiceStep \/ \E a \in strangers : Stranger(a)) /\ UNCHANGED readerVars
    \/ \E r \in Reader : ReaderStep(r) \/ Interrupt(r)
    \/ Tick

\* Goroutines that can run do, and time passes whatever else happens.  Select picks among the
\* cases that are ready at random, so the periodic task does not overlook the end forever.
\* Nobody has to broadcast, and nobody has to end anything.
Fairness ==
    /\ \A b \in Broadcaster : WF_<<pc, left>>(WorkerStep(b))
    /\ WF_<<pc, left>>(WorkerStep(Periodic) \/ sendHeartbeats)
    /\ SF_<<pc, left>>(PeriodicEnds)
    /\ WF_<<pc, left>>(WorkerStep(Acceptor) \/ AcceptorStep)
    /\ WF_listening(CloseListener)
    /\ \A r \in Reader : WF_vars(ReaderStep(r))
    /\ SF_vars(Tick)

Spec == Init /\ [][Next]_vars /\ Fairness

-----------------------------------------------------------------------------
(* Properties. *)

\* A connection is kept until the shutdown or a failed write, says runOutputTCPServer.  A
\* reader that keeps up loses its own by its read deadline all the same when the heartbeat
\* interval is the deadline, as it is by default (60 s both): the heartbeat of an output with
\* nothing to report is decided on once a period and comes too late.
IdleKept ==
    [][\A r \in Reader \cap Prompt : rpc[r] = "read" /\ rpc'[r] = "lost" => ctxDone]_vars

\* While the server runs, a reader that keeps up loses its connection by its own deadline only,
\* never because the server gave it up, whatever other clients do; and with heartbeats not
\* even then, unless the interval is within a period of the deadline or above it.
KeptTillDeadline ==
    [][\A r \in Reader \cap Prompt :
         rpc[r] = "read" /\ rpc'[r] = "lost" /\ ~ctxDone =>
           /\ stage[on[r]] # "closed"
           /\ Interval > 0 => ReadTimeout <= Interval + 1]_vars

\* While heartbeats are sent something is written to every connection, whether its peer keeps
\* up or not and whoever broadcasts, or it is closed, in the period after the interval.
HeartbeatsEvery ==
    \A c \in Conn : stage[c] = "accepted" /\ Interval > 0 /\ pc[Periodic] # "done" => idle[c] <= Interval + 1

\* No connection stays open for ever whose reader is gone, if only because a heartbeat fails:
\* the map and the file descriptors do not grow with every client that ever was.
DeadLeave ==
    \A c \in Conn : []<>~(stage[c] = "accepted" /\ peer[c] # "open")

\* A cancelled server closes its service and ends its goroutines in the end, and a cancelled
\* reader ends, at the latest when its read deadline passes.
ShutsDown ==
    /\ <>[](ctxDone => pc[Acceptor] = "done" /\ pc[Periodic] = "done")
    /\ \A r \in Reader : <>[](cancelled[r] => rpc[r] = "done")

=============================================================================

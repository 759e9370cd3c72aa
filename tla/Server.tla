------------------------------- MODULE Server -------------------------------
(***************************************************************************)
(* The life of dump1090-server: main with its source of samples (a device, *)
(* a file, stdin or the network alone), the signals, the context every     *)
(* goroutine watches, and the wait group main waits for.  What the         *)
(* services and the periodic task do meanwhile is the business of other    *)
(* modules.  The goroutines that close the listeners of the HTTP and input *)
(* servers, and those of the input connections, are not in the group.      *)
(***************************************************************************)
EXTENDS RTLSDR

CONSTANTS
    Http, Output, Input, \* the servers of each kind
    Enabled,             \* the sets of servers a configuration may start
    Conn,                \* bound: the connections of the input servers
    MaxSignals           \* bound on the signals that are sent

Listener == Http \cup Output \cup Input

ASSUME ServerAssumption == Enabled \subseteq SUBSET Listener /\ MaxSignals \in Nat \ {0}

VARIABLES
    source,  \* where samples come from
    todo,    \* the steps OpenWithConfig has left
    mpc,     \* where main is
    signals, \* how many were sent
    waiting, \* whether the goroutine that handles a signal is still there
    ctxDone, \* whether app.ctx is cancelled
    server,  \* the state of each server's goroutine
    closer,  \* the state of the goroutine that closes its listener
    ticking, \* whether runPeriodicTasks runs
    conn     \* the state of each input connection's goroutine

mainVars == <<source, todo, mpc, signals, waiting, ctxDone>>
taskVars == <<server, closer, ticking, conn>>
vars == <<deviceVars, mainVars, taskVars>>

\* main up to the start of the goroutines, none of which can fail.
Init ==
    /\ DeviceInit
    /\ \/ source = "rtlsdr" /\ todo \in DeviceConfigs /\ mpc = "open"
       \/ source \in {"file", "stdin", "net"} /\ todo = <<>> /\ mpc = "start"
    /\ signals = 0 /\ waiting = TRUE /\ ctxDone = FALSE
    /\ \E on \in Enabled :
         server = [s \in Listener |-> IF s \in on THEN "start" ELSE "done"]
    /\ closer = [s \in Listener |-> IF s \in Http /\ server[s] = "start" THEN "wait" ELSE "done"]
    /\ ticking = TRUE
    /\ conn = [c \in Conn |-> "free"]

Ended == mpc \in {"exit", "crash"}

\* The channel of signals has room for one; after the first nobody receives.
Signal ==
    /\ signals < MaxSignals /\ signals' = signals + 1
    /\ UNCHANGED <<deviceVars, source, todo, mpc, waiting, ctxDone, taskVars>>

HandleSignal ==
    /\ waiting /\ signals > 0 /\ waiting' = FALSE /\ ctxDone' = TRUE
    /\ UNCHANGED <<deviceVars, source, todo, mpc, signals, taskVars>>

-----------------------------------------------------------------------------
(* main *)

Main(l) == mpc' = l /\ UNCHANGED <<source, signals, waiting, ctxDone, taskVars>>

OpenDevice ==
    /\ mpc = "open"
    /\ \E ok \in BOOLEAN : Open(ok) /\ Main(IF ok THEN "configure" ELSE "stop")
    /\ UNCHANGED todo

Configure ==
    /\ mpc = "configure" /\ todo # <<>> /\ todo' = Tail(todo)
    /\ \/ Main("configure") /\ UNCHANGED deviceVars
       \/ Fatal(Head(todo)) /\ GiveUp /\ Main("stop")

\* processRTLSDR starts the reading and waits for its end or for that of the context.
StartReading ==
    /\ mpc = "configure" /\ todo = <<>>
    /\ ReadStart /\ Main("select") /\ UNCHANGED todo

\* Mutant: only the reading is waited for.
SelectNot ==
    /\ mpc = "select" /\ rpc = "done" /\ Main("close") /\ UNCHANGED <<deviceVars, todo>>

Select ==
    /\ mpc = "select"
    /\ \/ ctxDone /\ CancelAsync /\ Main("close")
       \/ rpc = "done" /\ Main("close") /\ UNCHANGED deviceVars
    /\ UNCHANGED todo

\* The deferred Close of processRTLSDR.
Close ==
    \/ mpc = "close" /\ CloseBegin /\ Main("closing") /\ UNCHANGED todo
    \/ mpc = "closing" /\ CloseEnd /\ Main("stop") /\ UNCHANGED todo

\* processFile opens its input, if that is possible; stdin is open, and the network needs none.
OpenInput ==
    /\ mpc = "start" /\ (Main(source) \/ (source = "file" /\ Main("stop")))
    /\ UNCHANGED <<deviceVars, todo>>

\* processInput looks at the context before each Read.
CheckInput ==
    /\ mpc \in {"file", "stdin"} /\ Main(IF ctxDone THEN "stop" ELSE "read")
    /\ UNCHANGED <<deviceVars, todo>>

\* A Read returns samples, the end of the input, or an error.
ReadInput ==
    /\ mpc = "read" /\ (Main(source) \/ Main("stop"))
    /\ UNCHANGED <<deviceVars, todo>>

NetOnly == mpc = "net" /\ ctxDone /\ Main("stop") /\ UNCHANGED <<deviceVars, todo>>

\* However the processing ended, the context is cancelled.
Stop ==
    /\ mpc = "stop" /\ mpc' = "wait" /\ ctxDone' = TRUE
    /\ UNCHANGED <<deviceVars, source, todo, signals, waiting, taskVars>>

\* app.wg: the servers, the closers of the output servers, the periodic task.
Group == {s \in Listener : server[s] # "done"} \cup {s \in Output : closer[s] # "done"}

WaitGroup == mpc = "wait" /\ Group = {} /\ ~ticking /\ Main("exit") /\ UNCHANGED <<deviceVars, todo>>

\* The other outcome of a read on a freed handle.
Crash == Dangling /\ Main("crash") /\ UNCHANGED <<deviceVars, todo>>

-----------------------------------------------------------------------------
(* The goroutines main starts. *)

Task(s, l) == server' = [server EXCEPT ![s] = l]
Others == UNCHANGED <<deviceVars, mainVars>>

\* The listener opens and its closer starts, or the server ends with an error.  The closer of
\* an HTTP server is there before; a server that is shut down does not open.
Listen(s) ==
    /\ server[s] = "start"
    /\ \/ Task(s, "done") /\ UNCHANGED closer
       \/ /\ s \notin Http \/ closer[s] = "wait"
          /\ Task(s, "accept") /\ closer' = [closer EXCEPT ![s] = "wait"]
    /\ UNCHANGED <<ticking, conn>> /\ Others

CloseListener(s) ==
    /\ closer[s] = "wait" /\ ctxDone /\ closer' = [closer EXCEPT ![s] = "done"]
    /\ UNCHANGED <<server, ticking, conn>> /\ Others

\* A closed listener accepts no more, and the context is known to be done.
AcceptEnds(s) ==
    /\ server[s] = "accept" /\ closer[s] = "done" /\ Task(s, "done")
    /\ UNCHANGED <<closer, ticking, conn>> /\ Others

PeriodicEnds ==
    /\ ticking /\ ctxDone /\ ticking' = FALSE
    /\ UNCHANGED <<server, closer, conn>> /\ Others

\* An input server starts a goroutine for each connection.
AcceptInput(s, c) ==
    /\ server[s] = "accept" /\ closer[s] = "wait" /\ conn[c] = "free"
    /\ conn' = [conn EXCEPT ![c] = "check"]
    /\ UNCHANGED <<server, closer, ticking>> /\ Others

\* It looks at the context before each Read, which returns data, or an error at the latest
\* after 60 s.
HandleInput(c) ==
    /\ \/ conn[c] = "check" /\ conn' = [conn EXCEPT ![c] = IF ctxDone THEN "free" ELSE "read"]
       \/ conn[c] = "read" /\ \E l \in {"check", "free"} : conn' = [conn EXCEPT ![c] = l]
    /\ UNCHANGED <<server, closer, ticking>> /\ Others

-----------------------------------------------------------------------------
MainStep ==
    \/ OpenDevice \/ Configure \/ StartReading \/ Select \/ Close
    \/ OpenInput \/ CheckInput \/ NetOnly \/ Stop \/ WaitGroup

DeviceStep == (ReadStep \/ goAsyncCallback \/ Leave(TRUE)) /\ UNCHANGED <<mainVars, taskVars>>

ListenerStep(s) == Listen(s) \/ CloseListener(s) \/ AcceptEnds(s)

\* Nothing happens after the end of the process.
Next ==
    /\ ~Ended
    /\ \/ Signal \/ HandleSignal \/ MainStep \/ ReadInput \/ Crash \/ DeviceStep \/ PeriodicEnds
       \/ \E s \in Listener : ListenerStep(s)
       \/ \E s \in Input, c \in Conn : AcceptInput(s, c)
       \/ \E c \in Conn : HandleInput(c)

\* Goroutines that can run do, and a cancelled read has only so many transfers to complete.  A
\* file is always read on; stdin may be silent for ever.
Fairness ==
    /\ WF_<<mpc, todo>>(~Ended /\ MainStep)
    /\ WF_waiting(~Ended /\ HandleSignal)
    /\ WF_deviceVars(~Ended /\ ReadStep /\ UNCHANGED <<mainVars, taskVars>>)
    /\ SF_stream(~Ended /\ Leave(FALSE) /\ UNCHANGED <<mainVars, taskVars>>)
    /\ WF_ticking(~Ended /\ PeriodicEnds)
    /\ \A s \in Listener : WF_<<server, closer>>(~Ended /\ ListenerStep(s))
    /\ WF_mpc(~Ended /\ source = "file" /\ ReadInput)

Spec == Init /\ [][Next]_vars /\ Fairness

-----------------------------------------------------------------------------
(* Properties. *)

\* Whichever step of opening, configuring or reading the device fails, and whenever a signal
\* comes, the handle of librtlsdr is given back before main waits for the other goroutines.
DeviceReleased == mpc \in {"stop", "wait", "exit"} => handle # "open" /\ ~calling

\* The signal was noticed before the library began to read: the cancellation did nothing,
\* and Close waits for a read that nobody cancels any more.
CancelLost == mpc = "closing" /\ stream = "reading"

\* stdin says nothing, and a signal does not interrupt the Read.
Silent == mpc = "read" /\ source = "stdin"

\* A signal, or the end of the source, ends the process, whatever its servers and
\* connections are doing, but for two cases: the signal comes while the reading starts, or
\* stdin is silent.  A second signal does not help then.
EndsWhenTold ==
    signals > 0 \/ ctxDone \/ mpc = "stop" \/ rpc = "done" ~> Ended \/ CancelLost \/ Silent

=============================================================================

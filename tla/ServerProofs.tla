---------------------------- MODULE ServerProofs ----------------------------
(***************************************************************************)
(* The handle of librtlsdr is given back on every path out of              *)
(* processRTLSDR, whatever the configurations, servers and connections     *)
(* are.                                                                    *)
(***************************************************************************)
EXTENDS Server, TLAPS

\* The places of main in which the device is at work, and in which it is not.
AtDevice == {"open", "configure", "select", "close", "closing"}
AtInput == {"start", "file", "stdin", "net", "read"}

\* The library is in the callback only within a read, and reads only a device that is open.
ReadsOpen ==
    /\ calling => stream # "idle"
    /\ stream # "idle" => rpc = "in" /\ handle = "open"

\* Nobody reads before main has started to wait for the reading.
ReadsAfterStart == mpc \in {"open", "configure"} => rpc = "none"

\* Only a server that has the device as its source opens it.
SourceKept ==
    /\ source \in {"file", "stdin", "net"} => handle = "none" /\ mpc \notin AtDevice
    /\ source = "rtlsdr" => mpc \notin AtInput
    /\ source \in {"rtlsdr", "file", "stdin", "net"}

Back == mpc \in {"stop", "wait", "exit"} => handle # "open"

IInv == ReadsOpen /\ ReadsAfterStart /\ SourceKept /\ Back

LEMMA InitIInv == Init => IInv
BY DEF Init, DeviceInit, IInv, ReadsOpen, ReadsAfterStart, SourceKept, Back, AtDevice, AtInput

\* The invariant without the variables of the tasks and of the signals.
LEMMA TaskStepIInv ==
    ASSUME IInv, UNCHANGED <<deviceVars, source, todo, mpc>>
    PROVE  IInv'
BY DEF IInv, ReadsOpen, ReadsAfterStart, SourceKept, Back, AtDevice, AtInput, deviceVars, libraryVars

\* Steps of the reading goroutine and of the library leave main where it is.
LEMMA DeviceStepIInv ==
    ASSUME IInv, DeviceStep
    PROVE  IInv'
<1>1. UNCHANGED <<source, mpc>>
  BY DEF DeviceStep, mainVars
<1>2. (rpc # "none" /\ rpc' # "none") \/ rpc' = rpc
  BY DEF IInv, ReadsOpen, DeviceStep, ReadStep, Register, Argument, Enter, EnterFreed, Dangling,
         goAsyncCallback, CallbackReturns, Leave, ReadEnd
<1>3. handle' = handle
  BY DEF DeviceStep, ReadStep, Register, Argument, Enter, EnterFreed, Dangling, goAsyncCallback,
         CallbackReturns, Leave, ReadEnd, libraryVars
<1>4. ReadsOpen'
  BY DEF IInv, ReadsOpen, DeviceStep, ReadStep, Register, Argument, Enter, EnterFreed, Dangling,
         goAsyncCallback, CallbackReturns, Leave, ReadEnd, libraryVars
<1>5. QED
  BY <1>1, <1>2, <1>3, <1>4 DEF IInv, ReadsAfterStart, SourceKept, Back, AtDevice, AtInput

\* Steps of main: the device is closed before main stops, on every path.
LEMMA MainStepIInv ==
    ASSUME IInv, MainStep \/ ReadInput \/ Crash
    PROVE  IInv'
<1>1. CASE OpenDevice
  BY <1>1 DEF IInv, ReadsOpen, ReadsAfterStart, SourceKept, Back, AtDevice, AtInput, OpenDevice,
       Open, Main
<1>2. CASE Configure
  <2>1. stream = "idle" /\ ~calling /\ rpc = "none"
    BY <1>2 DEF IInv, ReadsOpen, ReadsAfterStart, Configure
  <2>2. QED
    BY <1>2, <2>1 DEF IInv, ReadsOpen, ReadsAfterStart, SourceKept, Back, AtDevice, AtInput,
         Configure, GiveUp, Released, Main, deviceVars, libraryVars
<1>3. CASE StartReading
  BY <1>3 DEF IInv, ReadsOpen, ReadsAfterStart, SourceKept, Back, AtDevice, AtInput, StartReading,
       ReadStart, Main, libraryVars
<1>4. CASE Select
  BY <1>4 DEF IInv, ReadsOpen, ReadsAfterStart, SourceKept, Back, AtDevice, AtInput, Select,
       CancelAsync, Main, deviceVars, libraryVars
<1>5. CASE Close
  BY <1>5 DEF IInv, ReadsOpen, ReadsAfterStart, SourceKept, Back, AtDevice, AtInput, Close,
       CloseBegin, CloseEnd, Released, Main, libraryVars
<1>6. CASE OpenInput \/ CheckInput \/ ReadInput \/ NetOnly
  BY <1>6 DEF IInv, ReadsOpen, ReadsAfterStart, SourceKept, Back, AtDevice, AtInput, OpenInput,
       CheckInput, ReadInput, NetOnly, Main, deviceVars, libraryVars
<1>7. CASE Stop \/ WaitGroup \/ Crash
  BY <1>7 DEF IInv, ReadsOpen, ReadsAfterStart, SourceKept, Back, AtDevice, AtInput, Stop,
       WaitGroup, Crash, Main, deviceVars, libraryVars
<1>8. QED
  BY <1>1, <1>2, <1>3, <1>4, <1>5, <1>6, <1>7 DEF MainStep

LEMMA StepIInv == IInv /\ [Next]_vars => IInv'
<1> SUFFICES ASSUME IInv, [Next]_vars PROVE IInv'
  OBVIOUS
<1>1. CASE MainStep \/ ReadInput \/ Crash
  BY <1>1, MainStepIInv
<1>2. CASE DeviceStep
  BY <1>2, DeviceStepIInv
<1>3. CASE Signal \/ HandleSignal
  BY <1>3, TaskStepIInv DEF Signal, HandleSignal
<1>4. CASE PeriodicEnds \/ \E c \in Conn : HandleInput(c)
  BY <1>4, TaskStepIInv DEF PeriodicEnds, HandleInput, Others, mainVars
<1>5. ASSUME NEW s \in Listener, ListenerStep(s) \/ \E c \in Conn : AcceptInput(s, c)
      PROVE  IInv'
  BY <1>5, TaskStepIInv DEF ListenerStep, Listen, CloseListener, AcceptEnds, AcceptInput, Others,
       mainVars
<1>6. CASE UNCHANGED vars
  BY <1>6, TaskStepIInv DEF vars, mainVars
<1>7. QED
  BY <1>1, <1>2, <1>3, <1>4, <1>5, <1>6 DEF Next, Listener

\* Whichever step of opening, configuring or reading the device fails, and whenever a signal
\* comes, OpenWithConfig, ReadAsync and the deferred Close of processRTLSDR between them give
\* the handle back before main waits for the other goroutines.
THEOREM DeviceGivenBack == Spec => []DeviceReleased
<1>1. IInv => DeviceReleased
  BY DEF IInv, ReadsOpen, Back, DeviceReleased
<1>2. QED
  BY <1>1, InitIInv, StepIInv, PTL DEF Spec

=============================================================================

------------------------------ MODULE RTLSDR ------------------------------
(***************************************************************************)
(* The package rtlsdr: one Device from OpenWithConfig over ReadAsync to    *)
(* Close.  Of librtlsdr, which is not part of the repository, the module   *)
(* says what the package relies on: rtlsdr_read_async returns when it is   *)
(* cancelled or the device fails, rtlsdr_cancel_async does nothing unless  *)
(* a read is going on, rtlsdr_close waits for a read that is going on, and *)
(* a nil handle is an error.  The package uses the handle without the      *)
(* lock in ReadAsync and CancelAsync.                                      *)
(***************************************************************************)
EXTENDS Naturals, Sequences

CONSTANT DeviceConfigs  \* the configurations: the steps OpenWithConfig takes after Open

\* The steps that change what the device does, in the order of OpenWithConfig.
Setting == {"GainMode", "Gains", "Gain", "PPM", "AGC", "Freq", "Rate", "Reset", "BiasTee"}

ASSUME DeviceAssumption == DeviceConfigs \subseteq Seq(Setting)

VARIABLES
    handle,     \* the library's device: "none", "open" or "freed"
    stream,     \* its reading: "idle", "reading" or "stopping"
    calling,    \* whether it is in the callback
    dev,        \* whether Device.dev is set
    closed,     \* Device.closed
    locked,     \* whether Close holds Device.mu
    registered, \* whether callbackMap has the callback
    rpc,        \* where ReadAsync is
    argument    \* whether the handle it passes on is set

libraryVars == <<handle, stream, calling>>
deviceVars == <<libraryVars, dev, closed, locked, registered, rpc, argument>>

DeviceInit ==
    /\ handle = "none" /\ stream = "idle" /\ calling = FALSE
    /\ dev = FALSE /\ closed = FALSE /\ locked = FALSE
    /\ registered = FALSE /\ rpc = "none" /\ argument = FALSE

\* Open; a failure leaves no device.
Open(ok) ==
    /\ handle' = (IF ok THEN "open" ELSE "none") /\ dev' = ok
    /\ UNCHANGED <<stream, calling, closed, locked, registered, rpc, argument>>

\* An error of a step is returned, except that of the bias tee.
Fatal(step) == step # "BiasTee"

\* Close where nobody reads.
Released ==
    /\ handle' = "freed" /\ dev' = FALSE /\ closed' = TRUE /\ locked' = FALSE
    /\ UNCHANGED <<stream, calling, registered, rpc, argument>>

\* Mutant: an error is returned without closing the device.
GiveUpNot == UNCHANGED deviceVars

\* What OpenWithConfig does with the device when a step fails.
GiveUp == Released

\* Close takes the lock, and may wait in rtlsdr_close.
CloseBegin ==
    /\ ~locked /\ ~closed /\ locked' = TRUE
    /\ UNCHANGED <<libraryVars, dev, closed, registered, rpc, argument>>

CloseEnd == locked /\ stream = "idle" /\ Released

CancelAsync ==
    /\ stream' = IF stream = "reading" THEN "stopping" ELSE stream
    /\ UNCHANGED <<handle, calling, dev, closed, locked, registered, rpc, argument>>

-----------------------------------------------------------------------------
(* ReadAsync, in a goroutine of its own. *)

ReadStart ==
    /\ rpc' = "begin"
    /\ UNCHANGED <<libraryVars, dev, closed, locked, registered, argument>>

\* Registering the callback takes the lock.
Register ==
    /\ rpc = "begin" /\ ~locked
    /\ registered' = TRUE /\ rpc' = "call"
    /\ UNCHANGED <<libraryVars, dev, closed, locked, argument>>

\* d.dev is read after the unlock.
Argument ==
    /\ rpc = "call"
    /\ argument' = dev /\ rpc' = "enter"
    /\ UNCHANGED <<libraryVars, dev, closed, locked, registered>>

\* rtlsdr_read_async starts; on a nil handle it returns an error.
Enter ==
    /\ rpc = "enter" /\ (argument => handle = "open")
    /\ rpc' = (IF argument THEN "in" ELSE "cleanup")
    /\ stream' = (IF argument THEN "reading" ELSE stream)
    /\ UNCHANGED <<handle, calling, dev, closed, locked, registered, argument>>

\* The handle was freed after it was read: what the library then does is undefined.
Dangling == rpc = "enter" /\ argument /\ handle = "freed"

\* One outcome is an error; Server has the other one, a crash.
EnterFreed ==
    /\ Dangling /\ rpc' = "cleanup"
    /\ UNCHANGED <<libraryVars, dev, closed, locked, registered, argument>>

\* goAsyncCallback calls the callback of a registered device.
goAsyncCallback ==
    /\ stream # "idle" /\ ~calling /\ registered /\ calling' = TRUE
    /\ UNCHANGED <<handle, stream, dev, closed, locked, registered, rpc, argument>>

CallbackReturns ==
    /\ calling /\ calling' = FALSE
    /\ UNCHANGED <<handle, stream, dev, closed, locked, registered, rpc, argument>>

\* rtlsdr_read_async returns: it was cancelled, or the device failed.
Leave(failed) ==
    /\ rpc = "in" /\ ~calling /\ (failed \/ stream = "stopping")
    /\ stream' = "idle" /\ rpc' = "cleanup"
    /\ UNCHANGED <<handle, calling, dev, closed, locked, registered, argument>>

\* The callback is unregistered, and the result sent to a channel with room for it.
ReadEnd ==
    /\ rpc = "cleanup" /\ registered' = FALSE /\ rpc' = "done"
    /\ UNCHANGED <<libraryVars, dev, closed, locked, argument>>

\* What the reading goroutine does when it can.
ReadStep ==
    Register \/ Argument \/ Enter \/ EnterFreed \/ CallbackReturns \/ Leave(FALSE) \/ ReadEnd

=============================================================================

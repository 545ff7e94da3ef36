---------------------------- MODULE HidDeviceApi ----------------------------
(***************************************************************************)
(* The device calls of the HID driver as its header offers them to any     *)
(* application: hid_host_device_open, start, stop and close, from several  *)
(* tasks and in any order, against the driver task, which delivers reports *)
(* and takes the device down when it is unplugged.  HidHost has the one    *)
(* order in which UsbHidHost makes these calls; here is every other.       *)
(*                                                                         *)
(* Callers are the application's tasks and the driver task, which closes   *)
(* interfaces itself and lets the application close them once more in its  *)
(* DISCONNECTED callback, which it does. A handle is the interface of the  *)
(* device it is for: an address that is used again is HidHost's subject.   *)
(***************************************************************************)
EXTENDS UsbHostLib

CONSTANTS
    Task,       \* the application's tasks
    Driver,     \* the driver task
    Serial      \* whether it makes one call at a time in an interface

ASSUME CallerAssumption == Driver \notin Task /\ Serial \in BOOLEAN
\* Bound: one device.
ASSUME OneDevice == \E d \in Device : Device = {d}

VARIABLES
    iface,      \* iface[p]: the hid_iface_t of interface p
    listed,     \* hid_ifaces_tailq, in the order of the configuration
    call,       \* call[c]: where caller c is, and in which interface
    fault       \* "freed_xfer", "dangling": a transfer, or an interface, is
                \* used after it was freed; "assert": of in_xfer_done; or "none"

vars == <<libVars, iface, listed, call, fault>>

Caller == Task \cup {Driver}

Op == {"open", "start", "stop", "close"}

State == {"NOT_INITIALIZED", "IDLE", "READY", "ACTIVE", "WAIT_USER_DELETION"}

\* leaked is history, which no call reads: an open has claimed the interface
\* and failed without releasing it.
Iface == [state : State, cb : BOOLEAN, xfer : {"null", "alloc", "freed"},
          leaked : BOOLEAN]

\* Mutant: malloc in place of calloc.
NewIface_Malloc == [state |-> "IDLE", cb |-> FALSE, xfer |-> "garbage",
                    leaked |-> FALSE]

NewIface == [state |-> "IDLE", cb |-> FALSE, xfer |-> "null", leaked |-> FALSE]

PC == {"idle", "check_open", "claim", "alloc", "set_cb", "check_start",
       "activate", "submit", "disable", "disabled",
       "check_close", "release", "free", "finish",
       "report", "gone", "shutdown", "uninstall"}

\* The pointer is to an interface that has been freed.
Freed == <<0>>

\* op tells what the call in progress returns from; of a close by the driver
\* task whether the loop or the application's callback made it.
CallState == [pc : PC, op : Op \cup {"none", "loop", "user", "event"},
              p : Pipe \cup {<<>>, Freed}]

Idle == [pc |-> "idle", op |-> "none", p |-> <<>>]

TypeOK ==
    /\ LibTypeOK
    /\ iface \in [Pipe -> Iface]
    /\ listed \subseteq Pipe
    /\ call \in [Caller -> CallState]
    /\ fault \in {"none", "freed_xfer", "dangling", "assert"}

Init ==
    /\ LibInit
    /\ iface = [p \in Pipe |-> [NewIface EXCEPT !.state = "NOT_INITIALIZED"]]
    /\ listed = {}
    /\ call = [c \in Caller |-> Idle]
    /\ fault = "none"

-----------------------------------------------------------------------------
\* Caller c is at a step, and its pointer is good: else it is UseFreed.
At(c, pc) == fault = "none" /\ call[c].pc = pc /\ call[c].p # Freed

Goto(c, pc) == call' = [call EXCEPT ![c].pc = pc]

Own(c) == iface[call[c].p]

Set(c, new) == iface' = [iface EXCEPT ![call[c].p] = new]

\* A call has returned: to the application, or to the handler of the driver
\* task, which gives up when its own close fails and goes on with the next
\* interface whatever the application's close has returned.
Returned(c, ok) ==
    CASE call[c].op = "loop" -> IF ok THEN [call[c] EXCEPT !.pc = "shutdown"] ELSE Idle
      [] call[c].op = "user" -> [Idle EXCEPT !.pc = "gone", !.op = "event"]
      [] OTHER -> Idle

Return(c, ok) == call' = [call EXCEPT ![c] = Returned(c, ok)]

\* _hid_host_remove_interface: c goes on to where, and who else is in the
\* interface has a pointer to freed memory.
RemoveInterface(c, where) ==
    /\ listed' = listed \ {call[c].p}
    /\ call' = [o \in Caller |->
                  IF o = c THEN where
                  ELSE IF call[o].p = call[c].p THEN [call[o] EXCEPT !.p = Freed]
                  ELSE call[o]]

Crash(f) == fault' = f /\ UNCHANGED <<libVars, iface, listed, call>>

\* hid_host_interface_shutdown only compares the pointer.
UseFreed(c) ==
    /\ fault = "none" /\ call[c].p = Freed /\ call[c].pc # "shutdown"
    /\ Crash("dangling")

-----------------------------------------------------------------------------
(* The calls.                                                              *)

FirstStep == [open |-> "check_open", start |-> "check_start",
              stop |-> "disable", close |-> "check_close"]

\* The application calls with a handle that get_iface_by_handle finds; with
\* any other the call returns at once.
Ask(t, op, p) ==
    /\ fault = "none" /\ call[t] = Idle
    /\ Serial => \A o \in Task : call[o].p # p
    /\ p \in listed
    /\ call' = [call EXCEPT ![t] = [pc |-> FirstStep[op], op |-> op, p |-> p]]
    /\ UNCHANGED <<libVars, iface, listed, fault>>

CheckOpen(c) ==
    /\ At(c, "check_open")
    /\ IF Own(c).state = "IDLE" THEN Goto(c, "claim") ELSE Return(c, FALSE)
    /\ UNCHANGED <<libVars, iface, listed, fault>>

Claim(c) ==
    /\ At(c, "claim")
    /\ \/ /\ ClaimOk(call[c].p)
          /\ claimed' = claimed \cup {call[c].p}
          /\ Goto(c, "alloc")
       \/ /\ ~ClaimOk(call[c].p) \/ MayFail("claim")
          /\ Return(c, FALSE)
          /\ UNCHANGED claimed
    /\ UNCHANGED <<port, opened, msgs, pipe, plugs, iface, listed, fault>>

AllocTransfer(c) ==
    /\ At(c, "alloc")
    /\ Set(c, [Own(c) EXCEPT !.xfer = "alloc", !.state = "READY"])
    /\ Goto(c, "set_cb")
    /\ UNCHANGED <<libVars, listed, fault>>

\* The open fails after the claim: the state stays IDLE, so that no close will
\* release the interface, and no open will claim it again.
AllocTransferFails(c) ==
    /\ At(c, "alloc") /\ MayFail("alloc")
    /\ Set(c, [Own(c) EXCEPT !.leaked = TRUE])
    /\ Return(c, FALSE)
    /\ UNCHANGED <<libVars, listed, fault>>

SetCallback(c) ==
    /\ At(c, "set_cb")
    /\ Set(c, [Own(c) EXCEPT !.cb = TRUE])
    /\ Return(c, TRUE)
    /\ UNCHANGED <<libVars, listed, fault>>

\* Mutant: in_xfer is tested, which keeps pointing at a transfer that was freed,
\* but not the state.
CheckStart_AnyState(c) ==
    /\ At(c, "check_start")
    /\ IF Own(c).xfer # "null" THEN Goto(c, "activate") ELSE Return(c, FALSE)
    /\ UNCHANGED <<libVars, iface, listed, fault>>

CheckStart(c) ==
    /\ At(c, "check_start")
    /\ IF Own(c).xfer # "null" /\ Own(c).state = "READY"
       THEN Goto(c, "activate") ELSE Return(c, FALSE)
    /\ UNCHANGED <<libVars, iface, listed, fault>>

\* in_xfer is filled in, and the state set before the submission.
Activate(c) ==
    /\ At(c, "activate") /\ Own(c).xfer = "alloc"
    /\ Set(c, [Own(c) EXCEPT !.state = "ACTIVE"])
    /\ Goto(c, "submit")
    /\ UNCHANGED <<libVars, listed, fault>>

\* The state stays ACTIVE also if the submission is refused.
SubmitIn(c) ==
    /\ At(c, "submit") /\ Own(c).xfer = "alloc"
    /\ \/ /\ SubmitOk(call[c].p)
          /\ pipe' = [pipe EXCEPT ![call[c].p] = "pending"]
       \/ (~SubmitOk(call[c].p) \/ MayFail("submit")) /\ UNCHANGED pipe
    /\ Return(c, TRUE)
    /\ UNCHANGED <<port, opened, msgs, claimed, plugs, iface, listed, fault>>

UseFreedTransfer(c) ==
    /\ At(c, "activate") \/ At(c, "submit") \/ At(c, "report") \/ At(c, "free")
    /\ Own(c).xfer # "alloc"
    /\ Crash("freed_xfer")

\* hid_host_disable_interface: halt, flush and clear, and then the state.
Disable(c) ==
    /\ At(c, "disable")
    /\ \/ /\ Own(c).state = "ACTIVE"
          /\ pipe' = [pipe EXCEPT ![call[c].p] =
                        IF @ = "pending" THEN "canceled" ELSE @]
          /\ Goto(c, "disabled")
       \/ /\ Own(c).state # "ACTIVE" \/ MayFail("halt")
          /\ Return(c, FALSE)
          /\ UNCHANGED pipe
    /\ UNCHANGED <<port, opened, msgs, claimed, plugs, iface, listed, fault>>

Disabled(c) ==
    /\ At(c, "disabled")
    /\ Set(c, [Own(c) EXCEPT !.state = "READY"])
    /\ IF call[c].op = "stop" THEN Return(c, TRUE) ELSE Goto(c, "release")
    /\ UNCHANGED <<libVars, listed, fault>>

CheckClose(c) ==
    /\ At(c, "check_close")
    /\ Goto(c, IF Own(c).state = "ACTIVE" THEN "disable" ELSE "release")
    /\ UNCHANGED <<libVars, iface, listed, fault>>

\* Mutant: the close goes on when the release fails.
Release_Unchecked(c) ==
    /\ At(c, "release")
    /\ IF Own(c).state # "READY" THEN Goto(c, "finish") /\ UNCHANGED claimed
       ELSE /\ \/ ReleaseOk(call[c].p) /\ claimed' = claimed \ {call[c].p}
               \/ /\ ~ReleaseOk(call[c].p) \/ MayFail("release")
                  /\ UNCHANGED claimed
            /\ Goto(c, "free")
    /\ UNCHANGED <<port, opened, msgs, pipe, plugs, iface, listed, fault>>

\* The library does not release an interface whose transfer has not come back.
Release(c) ==
    /\ At(c, "release")
    /\ IF Own(c).state # "READY" THEN Goto(c, "finish") /\ UNCHANGED claimed
       ELSE \/ /\ ReleaseOk(call[c].p)
               /\ claimed' = claimed \ {call[c].p}
               /\ Goto(c, "free")
            \/ /\ ~ReleaseOk(call[c].p) \/ MayFail("release")
               /\ Return(c, FALSE)
               /\ UNCHANGED claimed
    /\ UNCHANGED <<port, opened, msgs, pipe, plugs, iface, listed, fault>>

\* Mutant: a closed interface keeps its state.
FreeTransfer_KeepsState(c) ==
    /\ At(c, "free") /\ Own(c).xfer = "alloc"
    /\ Set(c, [Own(c) EXCEPT !.xfer = "freed"])
    /\ Goto(c, "finish")
    /\ UNCHANGED <<libVars, listed, fault>>

\* in_xfer keeps pointing at the transfer.
FreeTransfer(c) ==
    /\ At(c, "free") /\ Own(c).xfer = "alloc"
    /\ Set(c, [Own(c) EXCEPT !.xfer = "freed", !.state = "IDLE"])
    /\ Goto(c, "finish")
    /\ UNCHANGED <<libVars, listed, fault>>

\* An interface whose device has gone is removed.
Finish(c) ==
    /\ At(c, "finish")
    /\ IF Own(c).state = "WAIT_USER_DELETION"
       THEN RemoveInterface(c, Returned(c, TRUE))
       ELSE Return(c, TRUE) /\ UNCHANGED listed
    /\ UNCHANGED <<libVars, iface, fault>>

CallNext(c) ==
    \/ CheckOpen(c) \/ Claim(c)
    \/ AllocTransfer(c) \/ AllocTransferFails(c) \/ SetCallback(c)
    \/ CheckStart(c) \/ Activate(c) \/ SubmitIn(c)
    \/ Disable(c) \/ Disabled(c)
    \/ CheckClose(c) \/ Release(c) \/ FreeTransfer(c) \/ Finish(c)
    \/ UseFreedTransfer(c) \/ UseFreed(c)

-----------------------------------------------------------------------------
(* The driver task.                                                        *)

\* A new device is opened and its interfaces are listed; the CONNECTED callback
\* gives their handles to the application.  What a device that cannot be opened
\* leads to is HidHost's subject.
NewDevice ==
    /\ At(Driver, "idle") /\ Deliverable("NEW_DEV")
    /\ LET d == Head(msgs).dev
           found == {p \in Pipe : p[1] = d /\ Desc(p).hid /\ Desc(p).usable}
       IN IF OpenOk(d)
          THEN /\ opened' = opened \cup {d}
               /\ listed' = listed \cup found
               /\ iface' = [p \in Pipe |-> IF p \in found THEN NewIface ELSE iface[p]]
          ELSE UNCHANGED <<opened, listed, iface>>
    /\ msgs' = Tail(msgs)
    /\ UNCHANGED <<port, claimed, pipe, plugs, call, fault>>

\* Mutant: the transfer is looked for among the interfaces that are ACTIVE.
InXferDone_ActiveOnly(p) ==
    /\ At(Driver, "idle") /\ pipe[p] \in Finished
    /\ pipe' = [pipe EXCEPT ![p] = "idle"]
    /\ IF iface[p].state # "ACTIVE" THEN fault' = "assert" /\ UNCHANGED call
       ELSE /\ call' = IF pipe[p] # "completed" THEN call
                       ELSE [call EXCEPT ![Driver] =
                               [pc |-> "report", op |-> "event", p |-> p]]
            /\ UNCHANGED fault
    /\ UNCHANGED <<port, opened, msgs, claimed, plugs, iface, listed>>

\* in_xfer_done; a report goes to the application's callback.
InXferDone(p) ==
    /\ At(Driver, "idle") /\ pipe[p] \in Finished
    /\ pipe' = [pipe EXCEPT ![p] = "idle"]
    /\ IF p \notin listed THEN fault' = "assert" /\ UNCHANGED call
       ELSE /\ call' = IF pipe[p] # "completed" THEN call
                       ELSE [call EXCEPT ![Driver] =
                               [pc |-> "report", op |-> "event", p |-> p]]
            /\ UNCHANGED fault
    /\ UNCHANGED <<port, opened, msgs, claimed, plugs, iface, listed>>

\* The callback has read the report out of in_xfer, which is submitted again,
\* whatever the state is by now and whatever comes of it.
Resubmit ==
    /\ At(Driver, "report") /\ Own(Driver).xfer = "alloc"
    /\ \/ /\ SubmitOk(call[Driver].p)
          /\ pipe' = [pipe EXCEPT ![call[Driver].p] = "pending"]
       \/ (~SubmitOk(call[Driver].p) \/ MayFail("submit")) /\ UNCHANGED pipe
    /\ Return(Driver, TRUE)
    /\ UNCHANGED <<port, opened, msgs, claimed, plugs, iface, listed, fault>>

DeviceGone ==
    /\ At(Driver, "idle") /\ Deliverable("DEV_GONE")
    /\ msgs' = Tail(msgs)
    /\ call' = [call EXCEPT ![Driver] = [Idle EXCEPT !.pc = "gone", !.op = "event"]]
    /\ UNCHANGED <<port, opened, claimed, pipe, plugs, iface, listed, fault>>

\* The loop closes the first interface that is listed.
GoneFirst ==
    /\ At(Driver, "gone")
    /\ \E p \in listed :
        /\ \A q \in listed : p[2] <= q[2]
        /\ call' = [call EXCEPT ![Driver] = [pc |-> "check_close", op |-> "loop", p |-> p]]
    /\ UNCHANGED <<libVars, iface, listed, fault>>

\* Mutant: an interface that is closed is taken for one that was never opened,
\* and stays with the application.
Shutdown_ClosedKept ==
    /\ At(Driver, "shutdown") /\ call[Driver].p \in listed
    /\ IF Own(Driver).cb /\ Own(Driver).state = "IDLE"
       THEN call' = [call EXCEPT ![Driver] = Idle] /\ UNCHANGED <<iface, listed>>
       ELSE IF Own(Driver).cb
       THEN /\ Set(Driver, [Own(Driver) EXCEPT !.state = "WAIT_USER_DELETION"])
            /\ call' = [call EXCEPT ![Driver].pc = "check_close", ![Driver].op = "user"]
            /\ UNCHANGED listed
       ELSE /\ RemoveInterface(Driver, [Idle EXCEPT !.pc = "gone", !.op = "event"])
            /\ UNCHANGED iface
    /\ UNCHANGED <<libVars, fault>>

\* hid_host_interface_shutdown looks the handle up again, and if it is not there
\* the handler gives up.  An interface with a callback, which a close does not
\* clear, is closed in it once more.
Shutdown ==
    /\ fault = "none" /\ call[Driver].pc = "shutdown"
    /\ IF call[Driver].p \notin listed
       THEN call' = [call EXCEPT ![Driver] = Idle] /\ UNCHANGED <<iface, listed>>
       ELSE IF Own(Driver).cb
       THEN /\ Set(Driver, [Own(Driver) EXCEPT !.state = "WAIT_USER_DELETION"])
            /\ call' = [call EXCEPT ![Driver].pc = "check_close", ![Driver].op = "user"]
            /\ UNCHANGED listed
       ELSE /\ RemoveInterface(Driver, [Idle EXCEPT !.pc = "gone", !.op = "event"])
            /\ UNCHANGED iface
    /\ UNCHANGED <<libVars, fault>>

\* With the list empty hid_host_uninstall_device closes the device, which the
\* library refuses as long as any of it is claimed.  Its steps are one here: the
\* control transfer and the semaphores it frees are HidControl's, the list of
\* devices it takes the device off is HidHost's, and no call of this module
\* looks at them.
GoneEmpty ==
    /\ At(Driver, "gone") /\ listed = {}
    /\ \E d \in Device :
        \/ CloseOk(d) /\ opened' = {} /\ port' = [port EXCEPT ![d] = "absent"]
        \/ (~CloseOk(d) \/ MayFail("close")) /\ UNCHANGED <<opened, port>>
    /\ call' = [call EXCEPT ![Driver] = Idle]
    /\ UNCHANGED <<msgs, claimed, pipe, plugs, iface, listed, fault>>

DriverNext ==
    \/ NewDevice \/ DeviceGone \/ GoneFirst \/ Shutdown \/ GoneEmpty
    \/ Resubmit \/ CallNext(Driver)
    \/ \E p \in Pipe : InXferDone(p)

-----------------------------------------------------------------------------
Bus ==
    /\ fault = "none"
    /\ \/ \E d \in Device : Attach(d) \/ DetachOpen(d) \/ DetachUnopened(d)
       \/ \E p \in Pipe : Complete(p)
    /\ UNCHANGED <<iface, listed, call, fault>>

TaskNext(t) == CallNext(t) \/ \E op \in Op, p \in Pipe : Ask(t, op, p)

Next == DriverNext \/ (\E t \in Task : TaskNext(t)) \/ Bus

Spec == Init /\ [][Next]_vars

\* The tasks run, and each turn of the library's event loop serves every
\* finished transfer and every message; nobody owes a call, a device or a
\* report.
FairSpec ==
    /\ Spec
    /\ WF_vars(DriverNext) /\ SF_vars(DeviceGone)
    /\ \A p \in Pipe : SF_vars(InXferDone(p))
    /\ \A t \in Task : WF_vars(CallNext(t))

-----------------------------------------------------------------------------
(* Properties of an application that is Serial.                             *)

Attached == \A d \in Device : port[d] = "attached"

In(p) == {c \in Caller : call[c].p = p}

\* While the device stays, no order of calls uses a freed transfer or frees one
\* twice, though in_xfer keeps pointing at it after a close: but for a close
\* while the driver task is in the interface's report callback, which no call
\* can exclude, as the transfer is submitted again after the callback.
OnlyReportsRace ==
    fault = "freed_xfer" /\ Attached => call[Driver].pc = "report"

\* A completion never misses its interface, whatever the application has closed
\* in the meantime, also after an unplug.
CompletionFindsInterface == fault # "assert"

\* An interface that is IDLE with nobody in a call has given back everything,
\* so that it can be opened again, but for the claim of an open that could not
\* allocate its transfer; and one that is READY or ACTIVE has what a close gives
\* back, with no claim leaked.
StateTellsClaim ==
    \A p \in listed : Attached /\ In(p) = {} /\ fault = "none" =>
        IF iface[p].state = "IDLE"
        THEN /\ p \in claimed <=> iface[p].leaked
             /\ pipe[p] = "idle" /\ iface[p].xfer # "alloc"
        ELSE /\ p \in claimed /\ ~iface[p].leaked
             /\ iface[p].xfer = "alloc" /\ iface[p].cb

\* Unplugged while no call is under way, the device is taken down completely,
\* whatever the application had opened, started, stopped and closed before;
\* unless it calls again meanwhile.  Only a claim leaked by a failed open keeps
\* the device from being closed, and its interfaces are taken down even then.
Quiet(d) ==
    /\ \A c \in Caller : call[c] = Idle
    /\ msgs # <<>> /\ Head(msgs) = [event |-> "DEV_GONE", dev |-> d]

TakenDown ==
    \A d \in Device :
        Quiet(d) ~> \/ port[d] = "absent"
                    \/ listed = {} /\ \E p \in claimed : iface[p].leaked
                    \/ \E t \in Task : call[t] # Idle

\* What InterfaceLife knows of an interface: nothing, once its device has left.
Phase(p) ==
    CASE ~Attached \/ p \notin listed -> "away"
      [] Attached /\ p \in listed ->
            CASE iface[p].state = "IDLE" -> "closed"
              [] iface[p].state = "READY" -> "open"
              [] OTHER -> "started"

Present(S) == {p \in S : Attached /\ p \in listed}

Life == INSTANCE InterfaceLife
          WITH Interface <- Pipe, phase <- [p \in Pipe |-> Phase(p)],
               held <- Present(claimed),
               awaited <- Present({p \in Pipe : pipe[p] # "idle"})

\* However the calls of the tasks and the driver task's reports interleave,
\* each interface is claimed, opened, started, stopped, released and closed in
\* this order, and awaits a transfer only between the open and the release.
ImplementsLife == Life!Spec
=============================================================================

------------------------------ MODULE HidHost -------------------------------
(***************************************************************************)
(* The HID host driver (src/src/usb/hid_host.c) and the two tasks that run *)
(* it:                                                                     *)
(*                                                                         *)
(*   - the driver task (event_handler_task) delivers the library's events: *)
(*     it installs devices, runs transfer callbacks, and takes a device    *)
(*     down when it is unplugged;                                          *)
(*   - the processor task of UsbHidHost (hidEventProcessorTask) takes the  *)
(*     CONNECTED events from a bounded FreeRTOS queue and opens and starts *)
(*     each interface.                                                     *)
(*                                                                         *)
(* Each task runs one action between two points where the other can be     *)
(* scheduled: the code locks only list operations, so a pointer taken from *)
(* the list under the lock is used after it.  An interface lives at a heap *)
(* address; freeing it turns the pointer another task holds into Dangling, *)
(* even if the address is allocated again.  Using it is undefined: fault   *)
(* records that, and the model follows no behaviour past a fault but the   *)
(* reboot of the panic handler.                                            *)
(***************************************************************************)
EXTENDS UsbHostLib, SequencesExt

CONSTANTS
    Addr,       \* heap addresses for interface objects
    QueueCap,   \* EVENT_QUEUE_SIZE
    Stops,      \* whether the application calls stop and start
    Null, Dangling

ASSUME AddrAssumption == Null \notin Addr /\ Dangling \notin Addr
ASSUME DeviceAssumption == Null \notin Device /\ Dangling \notin Device
ASSUME QueueAssumption == QueueCap \in Nat \ {0}
ASSUME StopsAssumption == Stops \in BOOLEAN

VARIABLES
    ifaces,     \* hid_ifaces_tailq: the addresses of the listed interfaces
    obj,        \* obj[a]: the hid_iface_t at address a
    devs,       \* hid_devices_tailq: the installed devices
    ctrl,       \* ctrl[d]: the control transfer buffer of device d; "held" if
                \* its mutex was taken by a task that has been deleted
    queue,      \* eventQueue: handles with a CONNECTED event
    hid,        \* where the driver task is
    proc,       \* where the processor task is
    fault       \* what went wrong beyond repair, or "none"

driverVars == <<ifaces, obj, devs, ctrl>>
vars == <<libVars, driverVars, queue, hid, proc, fault>>

State == {"NOT_INITIALIZED", "IDLE", "READY", "ACTIVE", "WAIT_USER_DELETION"}

\* in_xfer is a pointer: NULL, live, or kept after usb_host_transfer_free.
Iface == [dev : Device \cup {Null}, n : Nat, state : State, cb : BOOLEAN,
          xfer : {"null", "alloc", "freed"}]

NoIface == [dev |-> Null, n |-> 0, state |-> "NOT_INITIALIZED", cb |-> FALSE,
            xfer |-> "null"]

HidPC == {"wait", "install", "add", "notify", "gone", "disable", "release",
          "free", "finish", "shutdown", "remove", "uninstall", "close",
          "unlist", "resubmit"}

ProcPC == {"receive", "get_params", "params", "open", "check", "claim",
           "alloc", "set_cb", "request", "parent", "ctrl", "ctrl_wait",
           "ctrl_done", "start", "prepare", "activate", "submit", "stopped"}

Fault == {"none", "dangling", "freed_xfer", "bad_handle", "bad_index",
          "assert_device", "assert_iface", "assert_parent", "abort"}

\* ctx tells who called hid_host_device_close: the disconnect loop, or the
\* user's DISCONNECTED callback inside hid_host_interface_shutdown.
HidTask == [pc : HidPC, dev : Device \cup {Null}, ptr : Addr \cup {Null},
            n : Nat, ctx : {"loop", "user"}]

HidIdle == [pc |-> "wait", dev |-> Null, ptr |-> Null, n |-> 0,
            ctx |-> "loop"]

\* ptr and dev are what the call in progress dereferences; req is the class
\* request in progress, kind what get_params copied.
ProcTask == [pc : ProcPC, h : Addr \cup {Null},
             ptr : Addr \cup {Null, Dangling},
             dev : Device \cup {Null, Dangling},
             kind : Kind, req : {"protocol", "idle"}]

ProcIdle == [pc |-> "receive", h |-> Null, ptr |-> Null, dev |-> Null,
             kind |-> "generic", req |-> "protocol"]

TypeOK ==
    /\ LibTypeOK
    /\ ifaces \in Seq(Addr)
    /\ obj \in [Addr -> Iface]
    /\ devs \subseteq Device
    /\ ctrl \in [Device -> {"null", "alloc", "freed", "held"}]
    /\ queue \in Seq(Addr)
    /\ hid \in HidTask
    /\ proc \in ProcTask
    /\ fault \in Fault

Init ==
    /\ LibInit
    /\ ifaces = <<>>
    /\ obj = [a \in Addr |-> NoIface]
    /\ devs = {}
    /\ ctrl = [d \in Device |-> "null"]
    /\ queue = <<>>
    /\ hid = HidIdle
    /\ proc = ProcIdle
    /\ fault = "none"

-----------------------------------------------------------------------------
Listed == { ifaces[i] : i \in DOMAIN ifaces }

PipeOf(a) == <<obj[a].dev, obj[a].n>>

\* Where the tasks are, as long as the program runs.  The processor task is at
\* a step only if the pointers it holds are good: else it is UseAfterFree.
HidAt(pc) == fault = "none" /\ hid.pc = pc

ProcAt(pc) ==
    /\ fault = "none" /\ proc.pc = pc
    /\ proc.ptr # Dangling /\ proc.dev # Dangling

\* The driver task goes to the next step of the handler it is in.
HidGoto(pc) == hid' = [hid EXCEPT !.pc = pc]
HidReturn == hid' = HidIdle

\* The processor task goes on to its next step, holding no interface pointer.
ProcGoto(pc) == proc' = [proc EXCEPT !.pc = pc, !.ptr = Null]
ProcReturn == proc' = ProcIdle

Fail(f) == fault' = f /\ UNCHANGED <<libVars, driverVars, queue, hid, proc>>

-----------------------------------------------------------------------------
(* The driver task: a new device.                                          *)

\* hid_host_device_init_attempt, when the device opens and has a HID interface
NewDevice ==
    /\ HidAt("wait") /\ Deliverable("NEW_DEV")
    /\ LET d == Head(msgs).dev IN
        /\ OpenOk(d)
        /\ \E n \in DOMAIN Config[d] : Config[d][n].hid
        /\ opened' = opened \cup {d}
        /\ hid' = [HidIdle EXCEPT !.pc = "install", !.dev = d]
    /\ msgs' = Tail(msgs)
    /\ UNCHANGED <<plugs, port, claimed, pipe, driverVars, queue, proc, fault>>

\* No HID interface: the device is opened, looked at and closed.
NotHidDevice ==
    /\ HidAt("wait") /\ Deliverable("NEW_DEV")
    /\ LET d == Head(msgs).dev IN
        OpenOk(d) /\ \A n \in DOMAIN Config[d] : ~Config[d][n].hid
    /\ msgs' = Tail(msgs)
    /\ UNCHANGED <<plugs, port, opened, claimed, pipe, driverVars, queue, hid, proc,
                   fault>>

\* The open fails (the device left again, or is already open) and dev_hdl is
\* closed uninitialised: the library refuses the handle or follows it.
OpenFailed ==
    /\ HidAt("wait") /\ Deliverable("NEW_DEV")
    /\ ~OpenOk(Head(msgs).dev) \/ MayFail("open")
    /\ msgs' = Tail(msgs)
    /\ fault' \in {"none", "bad_handle"}
    /\ UNCHANGED <<plugs, port, opened, claimed, pipe, driverVars, queue, hid, proc>>

InstallDevice ==
    /\ HidAt("install")
    /\ devs' = devs \cup {hid.dev}
    /\ ctrl' = [ctrl EXCEPT ![hid.dev] = "alloc"]
    /\ hid' = [hid EXCEPT !.pc = "add", !.n = 1]
    /\ UNCHANGED <<libVars, ifaces, obj, queue, proc, fault>>

\* Interface hid.n of the configuration is listed if it is HID and has a HID
\* descriptor and an IN endpoint.
AddInterface ==
    /\ HidAt("add") /\ hid.n \in DOMAIN Config[hid.dev]
    /\ LET desc == Config[hid.dev][hid.n] IN desc.hid /\ desc.usable
    /\ \E a \in Addr \ Listed :
        /\ ifaces' = Append(ifaces, a)
        /\ obj' = [obj EXCEPT ![a] =
                     [NoIface EXCEPT !.dev = hid.dev, !.n = hid.n,
                                     !.state = "IDLE"]]
    /\ hid' = [hid EXCEPT !.n = @ + 1]
    /\ UNCHANGED <<libVars, devs, ctrl, queue, proc, fault>>

SkipInterface ==
    /\ HidAt("add") /\ hid.n \in DOMAIN Config[hid.dev]
    /\ LET desc == Config[hid.dev][hid.n] IN ~(desc.hid /\ desc.usable)
    /\ hid' = [hid EXCEPT !.n = @ + 1]
    /\ UNCHANGED <<libVars, driverVars, queue, proc, fault>>

ListCreated ==
    /\ HidAt("add") /\ hid.n \notin DOMAIN Config[hid.dev]
    /\ hid' = [hid EXCEPT !.pc = "notify", !.n = 1]
    /\ UNCHANGED <<libVars, driverVars, queue, proc, fault>>

\* No memory while a device is installed: ESP_ERROR_CHECK stops the program.
InstallFails ==
    /\ HidAt("install") \/ (HidAt("add") /\ hid.n \in DOMAIN Config[hid.dev])
    /\ MayFail("heap") \/ (hid.pc = "add" /\ Listed = Addr)
    /\ Fail("abort")

\* usb_host_device_info fails in a callback of UsbHidHost, which asks for it
\* first of all: ESP_ERROR_CHECK stops the program.  The callbacks tell of a new
\* interface, of a report, of one that is gone, and of a failed transfer.
CallbackFails ==
    /\ MayFail("info")
    /\ \/ /\ HidAt("notify") /\ hid.n \in DOMAIN ifaces
          /\ obj[ifaces[hid.n]].dev = hid.dev
       \/ HidAt("resubmit") /\ obj[hid.ptr].cb
       \/ HidAt("shutdown") /\ hid.ptr \in Listed /\ obj[hid.ptr].cb
       \/ HidAt("wait") /\ \E a \in Listed : obj[a].cb /\ pipe[PipeOf(a)] = "error"
    /\ Fail("abort")

\* Mutant: the queue is taken for full one event early.
addEventToQueue_OffByOne(h) ==
    queue' = IF Len(queue) < QueueCap - 1 THEN Append(queue, h) ELSE queue

\* Mutant: the event is sent with a pointer that is not set yet.
addEventToQueue_WrongHandle(h) ==
    queue' = IF Len(queue) < QueueCap THEN Append(queue, hid.ptr) ELSE queue

\* hidHostDeviceCallback queues the handle, or drops it if the queue is full.
addEventToQueue(h) ==
    queue' = IF Len(queue) < QueueCap THEN Append(queue, h) ELSE queue

\* One turn of the loop of hid_host_notify_interface_connected.
NotifyConnected ==
    /\ HidAt("notify") /\ hid.n \in DOMAIN ifaces
    /\ LET a == ifaces[hid.n] IN
        IF obj[a].dev = hid.dev THEN addEventToQueue(a)
                                ELSE UNCHANGED queue
    /\ hid' = [hid EXCEPT !.n = @ + 1]
    /\ UNCHANGED <<libVars, driverVars, proc, fault>>

AllNotified ==
    /\ HidAt("notify") /\ hid.n \notin DOMAIN ifaces
    /\ HidReturn
    /\ UNCHANGED <<libVars, driverVars, queue, proc, fault>>

-----------------------------------------------------------------------------
(* The driver task: hid_host_device_disconnected and what it calls.        *)

\* A control transfer of the device has come back before its DEV_GONE.
DeviceGone ==
    /\ HidAt("wait") /\ Deliverable("DEV_GONE")
    /\ ~(proc.pc = "ctrl_wait" /\ proc.dev = Head(msgs).dev)
    /\ msgs' = Tail(msgs)
    /\ IF Head(msgs).dev \in devs
       THEN /\ hid' = [HidIdle EXCEPT !.pc = "gone", !.dev = Head(msgs).dev]
            /\ UNCHANGED fault
       ELSE /\ fault' = "assert_device"
            /\ UNCHANGED hid
    /\ UNCHANGED <<plugs, port, opened, claimed, pipe, driverVars, queue, proc>>

\* The loop takes the FIRST listed interface.  If it belongs to another device
\* the loop turns without doing anything: no action, the task is stuck here.
GoneFirst ==
    /\ HidAt("gone") /\ ifaces # <<>>
    /\ obj[Head(ifaces)].dev = hid.dev
    /\ hid' = [hid EXCEPT !.pc = "disable", !.ptr = Head(ifaces),
                          !.ctx = "loop"]
    /\ UNCHANGED <<libVars, driverVars, queue, proc, fault>>

\* Mutant: the loop stops at the first interface of another device.
GoneEmpty_StopsEarly ==
    /\ HidAt("gone")
    /\ ifaces # <<>> => obj[Head(ifaces)].dev # hid.dev
    /\ HidGoto("uninstall")
    /\ UNCHANGED <<libVars, driverVars, queue, proc, fault>>

GoneEmpty ==
    /\ HidAt("gone") /\ ifaces = <<>>
    /\ HidGoto("uninstall")
    /\ UNCHANGED <<libVars, driverVars, queue, proc, fault>>

\* hid_host_device_close returns: an error leaves the disconnect handler, or
\* stops the program in the user's callback (ESP_ERROR_CHECK).
CloseReturnsError ==
    IF hid.ctx = "loop" THEN HidReturn /\ UNCHANGED fault
                        ELSE fault' = "abort" /\ UNCHANGED hid

CloseReturnsOk == HidGoto(IF hid.ctx = "loop" THEN "shutdown" ELSE "gone")

\* hid_host_disable_interface; flushing retires the transfer in flight.
CloseDisable ==
    /\ HidAt("disable")
    /\ IF obj[hid.ptr].state = "ACTIVE"
       THEN /\ obj' = [obj EXCEPT ![hid.ptr].state = "READY"]
            /\ pipe' = [p \in Pipe |->
                          IF p = PipeOf(hid.ptr) /\ pipe[p] = "pending"
                          THEN "canceled" ELSE pipe[p]]
       ELSE UNCHANGED <<obj, pipe>>
    /\ HidGoto("release")
    /\ UNCHANGED <<plugs, port, opened, msgs, claimed, ifaces, devs, ctrl, queue,
                   proc, fault>>

CloseDisableFails ==
    /\ HidAt("disable") /\ obj[hid.ptr].state = "ACTIVE"
    /\ MayFail("halt")
    /\ CloseReturnsError
    /\ UNCHANGED <<libVars, driverVars, queue, proc>>

CloseRelease ==
    /\ HidAt("release")
    /\ IF obj[hid.ptr].state = "READY"
       THEN /\ ReleaseOk(PipeOf(hid.ptr))
            /\ claimed' = claimed \ {PipeOf(hid.ptr)}
            /\ HidGoto("free")
       ELSE UNCHANGED claimed /\ HidGoto("finish")
    /\ UNCHANGED <<plugs, port, opened, msgs, pipe, driverVars, queue, proc, fault>>

CloseReleaseFails ==
    /\ HidAt("release") /\ obj[hid.ptr].state = "READY"
    /\ ~ReleaseOk(PipeOf(hid.ptr)) \/ MayFail("release")
    /\ CloseReturnsError
    /\ UNCHANGED <<libVars, driverVars, queue, proc>>

\* Mutant: the state is not set back to IDLE.
CloseFreeTransfer_KeepsState ==
    /\ HidAt("free")
    /\ obj' = [obj EXCEPT ![hid.ptr].xfer = "freed"]
    /\ HidGoto("finish")
    /\ UNCHANGED <<libVars, ifaces, devs, ctrl, queue, proc, fault>>

\* The transfer is freed but in_xfer keeps pointing at it.
CloseFreeTransfer ==
    /\ HidAt("free")
    /\ IF obj[hid.ptr].xfer = "freed"
       THEN fault' = "freed_xfer" /\ UNCHANGED <<obj, hid>>
       ELSE /\ obj' = [obj EXCEPT ![hid.ptr].xfer = "freed",
                                  ![hid.ptr].state = "IDLE"]
            /\ HidGoto("finish")
            /\ UNCHANGED fault
    /\ UNCHANGED <<libVars, ifaces, devs, ctrl, queue, proc>>

\* _hid_host_remove_interface
RemoveInterface(a) ==
    /\ \E i \in DOMAIN ifaces : ifaces[i] = a /\ ifaces' = RemoveAt(ifaces, i)
    /\ obj' = [obj EXCEPT ![a] = NoIface]
    /\ proc' = [proc EXCEPT !.ptr = IF @ = a THEN Dangling ELSE @]

CloseFinish ==
    /\ HidAt("finish")
    /\ IF obj[hid.ptr].state = "WAIT_USER_DELETION"
       THEN RemoveInterface(hid.ptr)
       ELSE UNCHANGED <<ifaces, obj, proc>>
    /\ CloseReturnsOk
    /\ UNCHANGED <<libVars, devs, ctrl, queue, fault>>

\* Mutant: the user is not called back.
Shutdown_Silent ==
    /\ HidAt("shutdown")
    /\ CASE hid.ptr \notin Listed -> HidReturn /\ UNCHANGED obj
         [] hid.ptr \in Listed /\ ~obj[hid.ptr].cb ->
                HidGoto("remove") /\ UNCHANGED obj
         [] hid.ptr \in Listed /\ obj[hid.ptr].cb ->
                /\ obj' = [obj EXCEPT ![hid.ptr].state = "WAIT_USER_DELETION"]
                /\ HidGoto("gone")
    /\ UNCHANGED <<libVars, ifaces, devs, ctrl, queue, proc, fault>>

\* hid_host_interface_shutdown: tell the user, whose callback closes the
\* interface, or remove the interface oneself if the user never opened it.  An
\* interface the close before removed already ends the handler.
Shutdown ==
    /\ HidAt("shutdown")
    /\ CASE hid.ptr \notin Listed -> HidReturn /\ UNCHANGED obj
         [] hid.ptr \in Listed /\ ~obj[hid.ptr].cb ->
                HidGoto("remove") /\ UNCHANGED obj
         [] hid.ptr \in Listed /\ obj[hid.ptr].cb ->
                /\ obj' = [obj EXCEPT ![hid.ptr].state = "WAIT_USER_DELETION"]
                /\ hid' = [hid EXCEPT !.pc = "disable", !.ctx = "user"]
    /\ UNCHANGED <<libVars, ifaces, devs, ctrl, queue, proc, fault>>

ShutdownRemove ==
    /\ HidAt("remove")
    /\ RemoveInterface(hid.ptr)
    /\ HidGoto("gone")
    /\ UNCHANGED <<libVars, devs, ctrl, queue, fault>>

\* hid_host_uninstall_device, in its three steps.
UninstallFreeCtrl ==
    /\ HidAt("uninstall")
    /\ ctrl' = [ctrl EXCEPT ![hid.dev] = IF @ = "held" THEN @ ELSE "freed"]
    /\ HidGoto("close")
    /\ UNCHANGED <<libVars, ifaces, obj, devs, queue, proc, fault>>

UninstallClose ==
    /\ HidAt("close") /\ CloseOk(hid.dev)
    /\ opened' = opened \ {hid.dev}
    /\ port' = [port EXCEPT ![hid.dev] = IF @ = "gone" THEN "absent" ELSE @]
    /\ HidGoto("unlist")
    /\ UNCHANGED <<plugs, msgs, claimed, pipe, driverVars, queue, proc, fault>>

UninstallCloseFails ==
    /\ HidAt("close") /\ (~CloseOk(hid.dev) \/ MayFail("close"))
    /\ HidReturn
    /\ UNCHANGED <<libVars, driverVars, queue, proc, fault>>

UninstallUnlist ==
    /\ HidAt("unlist")
    /\ devs' = devs \ {hid.dev}
    /\ ctrl' = [ctrl EXCEPT ![hid.dev] = "null"]
    /\ proc' = [proc EXCEPT !.dev = IF @ = hid.dev THEN Dangling ELSE @]
    /\ HidReturn
    /\ UNCHANGED <<libVars, ifaces, obj, queue, fault>>

-----------------------------------------------------------------------------
(* The driver task: a finished IN transfer.                                *)

\* Mutant: the endpoint address is not compared.
IsFirstByEp_Any(a, ep) == a = Head(ifaces)

\* get_interface_by_ep: a is the first listed interface with that endpoint
IsFirstByEp(a, ep) ==
    \E i \in DOMAIN ifaces :
        /\ a = ifaces[i] /\ Desc(PipeOf(a)).ep = ep
        /\ \A j \in 1..(i - 1) : Desc(PipeOf(ifaces[j])).ep # ep

\* in_xfer_done finds the interface and checks it; for a report,
\* hidHostInterfaceCallback copies the data out of iface->in_xfer.
InXferDone(p) ==
    /\ HidAt("wait") /\ pipe[p] \in Finished
    /\ pipe' = [pipe EXCEPT ![p] = "idle"]
    /\ \/ /\ \A a \in Listed : Desc(PipeOf(a)).ep # Desc(p).ep
          /\ fault' = "assert_iface"
          /\ UNCHANGED hid
       \/ \E a \in Listed :
          /\ IsFirstByEp(a, Desc(p).ep)
          /\ CASE obj[a].dev # p[1] ->
                     fault' = "assert_parent" /\ UNCHANGED hid
               [] obj[a].dev = p[1] /\ pipe[p] # "completed" ->
                     UNCHANGED <<hid, fault>>
               [] obj[a].dev = p[1] /\ pipe[p] = "completed" ->
                     /\ fault' = IF obj[a].cb /\ obj[a].xfer # "alloc"
                                 THEN "freed_xfer" ELSE "none"
                     /\ hid' = [HidIdle EXCEPT !.pc = "resubmit", !.ptr = a,
                                               !.dev = p[1], !.n = p[2]]
    /\ UNCHANGED <<plugs, port, opened, msgs, claimed, driverVars, queue, proc>>

\* Mutant: the transfer is not launched again.
Resubmit_Forgotten ==
    /\ HidAt("resubmit")
    /\ HidReturn
    /\ UNCHANGED <<libVars, driverVars, queue, proc, fault>>

\* The transfer is submitted again; the result of that is ignored.
Resubmit ==
    /\ HidAt("resubmit")
    /\ LET p == <<hid.dev, hid.n>> IN
        \/ SubmitOk(p) /\ pipe' = [pipe EXCEPT ![p] = "pending"]
        \/ (~SubmitOk(p) \/ MayFail("submit")) /\ UNCHANGED pipe
    /\ HidReturn
    /\ UNCHANGED <<plugs, port, opened, msgs, claimed, driverVars, queue, proc,
                   fault>>

\* ctrl_xfer_done gives the semaphore the processor task waits for.
CtrlXferDone ==
    /\ HidAt("wait") /\ proc.pc = "ctrl_wait"
    /\ proc' = [proc EXCEPT !.pc = "ctrl_done"]
    /\ UNCHANGED <<libVars, driverVars, queue, hid, fault>>

HidNext ==
    \/ NewDevice \/ NotHidDevice \/ OpenFailed \/ InstallDevice
    \/ AddInterface \/ SkipInterface \/ ListCreated \/ InstallFails
    \/ NotifyConnected \/ AllNotified \/ CallbackFails
    \/ DeviceGone \/ GoneFirst \/ GoneEmpty
    \/ CloseDisable \/ CloseDisableFails \/ CloseRelease \/ CloseReleaseFails
    \/ CloseFreeTransfer \/ CloseFinish
    \/ Shutdown \/ ShutdownRemove
    \/ UninstallFreeCtrl \/ UninstallClose \/ UninstallCloseFails
    \/ UninstallUnlist
    \/ \E p \in Pipe : InXferDone(p)
    \/ Resubmit \/ CtrlXferDone

-----------------------------------------------------------------------------
(* The processor task: handleHidHostEvent and the driver calls it makes.   *)
(* Every call looks the handle up again; between the look-up and the use   *)
(* the driver task may free the interface.                                 *)

Receive ==
    /\ ProcAt("receive") /\ queue # <<>>
    /\ queue' = Tail(queue)
    /\ proc' = [ProcIdle EXCEPT !.pc = "get_params", !.h = Head(queue)]
    /\ UNCHANGED <<libVars, driverVars, hid, fault>>

\* get_iface_by_handle, the first thing each call does with its handle
Lookup(pc, next) ==
    /\ ProcAt(pc)
    /\ proc' = IF proc.h \in Listed
                THEN [proc EXCEPT !.pc = next, !.ptr = proc.h]
                ELSE ProcIdle
    /\ UNCHANGED <<libVars, driverVars, queue, hid, fault>>

GetParams == Lookup("get_params", "params")
DeviceOpen == Lookup("open", "check")
ClassRequest == Lookup("request", "parent")
DeviceStart == Lookup("start", "prepare")

\* The parameters are copied; an unknown protocol indexes HID_PROTO_NAMES out
\* of its bounds before hid_host_device_open can refuse it.
CopyParams ==
    /\ ProcAt("params")
    /\ LET kind == Desc(PipeOf(proc.ptr)).kind IN
        IF kind = "badproto"
        THEN fault' = "bad_index" /\ UNCHANGED proc
        ELSE /\ proc' = [proc EXCEPT !.pc = "open", !.ptr = Null,
                                     !.kind = kind]
             /\ UNCHANGED fault
    /\ UNCHANGED <<libVars, driverVars, queue, hid>>

CheckOpen ==
    /\ ProcAt("check")
    /\ proc' = IF /\ Desc(PipeOf(proc.ptr)).kind # "badproto"
                   /\ obj[proc.ptr].state = "IDLE"
                THEN [proc EXCEPT !.pc = "claim"]
                ELSE ProcIdle
    /\ UNCHANGED <<libVars, driverVars, queue, hid, fault>>

\* Mutant: the transfer is allocated whether or not the claim has succeeded.
ClaimInterface_Unchecked ==
    /\ ProcAt("claim")
    /\ LET p == PipeOf(proc.ptr) IN
        \/ /\ ClaimOk(p)
           /\ claimed' = claimed \cup {p}
        \/ /\ ~ClaimOk(p) \/ MayFail("claim")
           /\ UNCHANGED claimed
    /\ proc' = [proc EXCEPT !.pc = "alloc"]
    /\ UNCHANGED <<plugs, port, opened, msgs, pipe, driverVars, queue, hid, fault>>

\* hid_host_interface_claim_and_prepare_transfer, in its two library calls
ClaimInterface ==
    /\ ProcAt("claim")
    /\ LET p == PipeOf(proc.ptr) IN
        \/ /\ ClaimOk(p)
           /\ claimed' = claimed \cup {p}
           /\ proc' = [proc EXCEPT !.pc = "alloc"]
        \/ /\ ~ClaimOk(p) \/ MayFail("claim")
           /\ ProcReturn
           /\ UNCHANGED claimed
    /\ UNCHANGED <<plugs, port, opened, msgs, pipe, driverVars, queue, hid, fault>>

PrepareTransfer ==
    /\ ProcAt("alloc")
    /\ obj' = [obj EXCEPT ![proc.ptr].xfer = "alloc",
                          ![proc.ptr].state = "READY"]
    /\ proc' = [proc EXCEPT !.pc = "set_cb"]
    /\ UNCHANGED <<libVars, ifaces, devs, ctrl, queue, hid, fault>>

\* Mutant: the state is set before the allocation is known to succeed.
PrepareTransferFails_Ready ==
    /\ ProcAt("alloc") /\ MayFail("alloc")
    /\ obj' = [obj EXCEPT ![proc.ptr].state = "READY"]
    /\ ProcReturn
    /\ UNCHANGED <<libVars, ifaces, devs, ctrl, queue, hid, fault>>

\* The open fails and leaves the interface claimed.
PrepareTransferFails ==
    /\ ProcAt("alloc") /\ MayFail("alloc")
    /\ ProcReturn
    /\ UNCHANGED <<libVars, driverVars, queue, hid, fault>>

\* The open ends with the user's callback; boot interfaces get requests next.
SetCallback ==
    /\ ProcAt("set_cb")
    /\ obj' = [obj EXCEPT ![proc.ptr].cb = TRUE]
    /\ ProcGoto(IF proc.kind \in {"keyboard", "mouse"} THEN "request"
                                                       ELSE "start")
    /\ UNCHANGED <<libVars, ifaces, devs, ctrl, queue, hid, fault>>

\* hid_class_request_set_protocol and _idle take the parent out of the
\* interface and use the device from there on.
TakeParent ==
    /\ ProcAt("parent")
    /\ proc' = [proc EXCEPT !.pc = "ctrl", !.ptr = Null,
                            !.dev = obj[proc.ptr].dev]
    /\ UNCHANGED <<libVars, driverVars, queue, hid, fault>>

\* The request times out on a mutex nobody will give back.
SubmitControl ==
    /\ ProcAt("ctrl")
    /\ CASE ctrl[proc.dev] = "freed" ->
                fault' = "freed_xfer" /\ UNCHANGED proc
         [] ctrl[proc.dev] \in {"null", "alloc"} /\ port[proc.dev] = "attached" ->
                proc' = [proc EXCEPT !.pc = "ctrl_wait"] /\ UNCHANGED fault
         [] OTHER ->
                ProcReturn /\ UNCHANGED fault
    /\ UNCHANGED <<libVars, driverVars, queue, hid>>

\* The semaphore was given, whatever the status of the transfer.
ControlDone ==
    /\ ProcAt("ctrl_done")
    /\ proc' = IF proc.kind = "keyboard" /\ proc.req = "protocol"
                THEN [proc EXCEPT !.pc = "request", !.req = "idle",
                                  !.dev = Null]
                ELSE [proc EXCEPT !.pc = "start", !.dev = Null]
    /\ UNCHANGED <<libVars, driverVars, queue, hid, fault>>

\* The transfer cannot be submitted, or times out: the event is given up and
\* the interface stays READY.
ControlFails ==
    /\ ProcAt("ctrl") \/ ProcAt("ctrl_wait")
    /\ ctrl[proc.dev] # "freed" /\ MayFail("ctrl")
    /\ ProcReturn
    /\ UNCHANGED <<libVars, driverVars, queue, hid, fault>>

CheckStart ==
    /\ ProcAt("prepare")
    /\ proc' = IF obj[proc.ptr].xfer # "null" /\ obj[proc.ptr].state = "READY"
                THEN [proc EXCEPT !.pc = "activate"]
                ELSE ProcIdle
    /\ UNCHANGED <<libVars, driverVars, queue, hid, fault>>

\* Mutant: the state is not set.
Activate_StateForgotten ==
    /\ ProcAt("activate")
    /\ IF obj[proc.ptr].xfer = "freed"
       THEN fault' = "freed_xfer" /\ UNCHANGED proc
       ELSE proc' = [proc EXCEPT !.pc = "submit"] /\ UNCHANGED fault
    /\ UNCHANGED <<libVars, driverVars, queue, hid>>

\* in_xfer is filled in and the state set before the transfer is submitted.
Activate ==
    /\ ProcAt("activate")
    /\ IF obj[proc.ptr].xfer = "freed"
       THEN fault' = "freed_xfer" /\ UNCHANGED <<obj, proc>>
       ELSE /\ obj' = [obj EXCEPT ![proc.ptr].state = "ACTIVE"]
            /\ proc' = [proc EXCEPT !.pc = "submit"]
            /\ UNCHANGED fault
    /\ UNCHANGED <<libVars, ifaces, devs, ctrl, queue, hid>>

SubmitIn ==
    /\ ProcAt("submit")
    /\ LET p == PipeOf(proc.ptr) IN
        \/ /\ obj[proc.ptr].xfer = "freed"
           /\ fault' = "freed_xfer"
           /\ UNCHANGED <<pipe, proc>>
        \/ /\ obj[proc.ptr].xfer # "freed" /\ SubmitOk(p)
           /\ pipe' = [pipe EXCEPT ![p] = "pending"]
           /\ ProcReturn
           /\ UNCHANGED fault
        \/ /\ obj[proc.ptr].xfer # "freed"
           /\ ~SubmitOk(p) \/ MayFail("submit")
           /\ ProcReturn
           /\ UNCHANGED <<pipe, fault>>
    /\ UNCHANGED <<plugs, port, opened, msgs, claimed, driverVars, queue, hid>>

\* The call in progress follows a pointer to freed memory.
UseAfterFree ==
    /\ fault = "none"
    /\ proc.ptr = Dangling \/ proc.dev = Dangling
    /\ Fail("dangling")

ProcNext ==
    \/ Receive
    \/ GetParams \/ CopyParams
    \/ DeviceOpen \/ CheckOpen \/ ClaimInterface
    \/ PrepareTransfer \/ PrepareTransferFails \/ SetCallback
    \/ ClassRequest \/ TakeParent \/ SubmitControl \/ ControlDone
    \/ ControlFails
    \/ DeviceStart \/ CheckStart \/ Activate \/ SubmitIn
    \/ UseAfterFree

-----------------------------------------------------------------------------
(* UsbHidHost::stop and start, called by the application.                   *)

\* The processor task is deleted wherever it is: the event it was at is lost,
\* and the device mutex stays taken if it was inside a class request.
Stop ==
    /\ Stops /\ fault = "none" /\ proc.pc # "stopped"
    /\ ctrl' = [d \in Device |->
                  IF proc.pc \in {"ctrl_wait", "ctrl_done"} /\ proc.dev = d
                  THEN "held" ELSE ctrl[d]]
    /\ proc' = [ProcIdle EXCEPT !.pc = "stopped"]
    /\ UNCHANGED <<libVars, ifaces, obj, devs, queue, hid, fault>>

\* A new task starts with the queue as it is: nothing is enumerated again.
Start ==
    /\ fault = "none" /\ proc.pc = "stopped"
    /\ proc' = ProcIdle
    /\ UNCHANGED <<libVars, driverVars, queue, hid, fault>>

-----------------------------------------------------------------------------
\* The panic handler restarts the program after a failed assertion or a crash.
Reboot ==
    /\ fault # "none"
    /\ LibReset
    /\ ifaces' = <<>>
    /\ obj' = [a \in Addr |-> NoIface]
    /\ devs' = {}
    /\ ctrl' = [d \in Device |-> "null"]
    /\ queue' = <<>>
    /\ hid' = HidIdle
    /\ proc' = ProcIdle
    /\ fault' = "none"

Plug(d) ==
    /\ fault = "none" /\ Attach(d)
    /\ UNCHANGED <<driverVars, queue, hid, proc, fault>>

Unplug(d) ==
    /\ fault = "none"
    /\ DetachOpen(d) \/ DetachUnopened(d)
    /\ UNCHANGED <<driverVars, queue, hid, proc, fault>>

Transfer(p) ==
    /\ fault = "none" /\ Complete(p)
    /\ UNCHANGED <<driverVars, queue, hid, proc, fault>>

Bus ==
    \/ \E d \in Device : Plug(d) \/ Unplug(d)
    \/ \E p \in Pipe : Transfer(p)

Next == HidNext \/ ProcNext \/ Stop \/ Start \/ Bus \/ Reboot

Spec == Init /\ [][Next]_vars

\* Both tasks and the panic handler keep running, and each turn of the event
\* loop of the library serves every finished transfer and drains the messages,
\* so that none of them waits forever behind the others.  The bus owes nothing.
Fairness ==
    /\ WF_vars(HidNext) /\ WF_vars(ProcNext) /\ WF_vars(Reboot)
    /\ SF_vars(NewDevice) /\ SF_vars(DeviceGone) /\ SF_vars(CtrlXferDone)
    /\ \A p \in Pipe : SF_vars(InXferDone(p))

FairSpec == Spec /\ Fairness

-----------------------------------------------------------------------------
(* Safety.                                                                  *)

\* The device of every listed interface is installed: the parent pointer that
\* the disconnect loop, the open and the class requests follow without a check
\* never leads to a freed hid_device_t.
ParentInstalled == \A a \in Listed : obj[a].dev \in devs

\* An interface of a device is listed once: a device that comes back does not
\* find its interfaces of the time before still in hid_ifaces_tailq.
OnePerPipe ==
    \A i, j \in DOMAIN ifaces : PipeOf(ifaces[i]) = PipeOf(ifaces[j]) => i = j

\* A transfer that was submitted and has not come back belongs to a listed
\* interface that is ACTIVE, claimed, has a callback and has its buffer: the
\* assertion assert(iface) of in_xfer_done cannot fail, and the report is not
\* read out of freed memory, however an unplug and a start interleave.
OutstandingListed ==
    \A p \in Pipe : pipe[p] # "idle" =>
        /\ p \in claimed
        /\ \E a \in Listed : /\ PipeOf(a) = p
                             /\ obj[a].state = "ACTIVE"
                             /\ obj[a].xfer = "alloc"
                             /\ obj[a].cb

\* A READY or ACTIVE interface is claimed and has its transfer, except between
\* the release and the state change of a close: a close finds what it releases.
OpenOwnsClaim ==
    \A a \in Listed : obj[a].state \in {"READY", "ACTIVE"} =>
        \/ PipeOf(a) \in claimed /\ obj[a].xfer = "alloc"
        \/ hid.pc = "free" /\ hid.ptr = a

\* No assertion of the driver fails, whatever call fails; no ESP_ERROR_CHECK
\* stops the program unless a call does.
AssertsHold ==
    /\ fault \notin {"assert_device", "assert_iface", "assert_parent"}
    /\ fault = "abort" => Failing # {}

\* An attached interface that waits to be opened has a CONNECTED event on its
\* way: queued, about to be queued, or in the hands of the processor task.
IdleIsQueued ==
    \A a \in Listed :
        obj[a].state = "IDLE" /\ port[obj[a].dev] = "attached" =>
            \/ a \in ToSet(queue)
            \/ proc.h = a
            \/ hid.pc \in {"add", "notify"} /\ hid.dev = obj[a].dev

\* The assertion of in_xfer_done on the parent: the interface found by its
\* endpoint address is the one whose transfer came back.
ContextMatches == fault # "assert_parent"

(* Liveness.                                                                *)

Served(p) ==
    /\ \E a \in Listed : PipeOf(a) = p /\ obj[a].state = "ACTIVE"
    /\ pipe[p] # "idle" \/ (hid.pc = "resubmit" /\ <<hid.dev, hid.n>> = p)

\* A HID interface of a device that stays plugged in is, from some time on,
\* ACTIVE with a transfer on its endpoint: its reports keep coming.
AttachedIsServed ==
    \A p \in Pipe : Desc(p).hid /\ Desc(p).usable =>
        (<>[](port[p[1]] = "attached") => <>[]Served(p))

\* The device has been unplugged with nothing else going on.
Settled(d) ==
    /\ hid.pc = "wait" /\ proc = ProcIdle /\ queue = <<>>
    /\ msgs # <<>> /\ Head(msgs) = [event |-> "DEV_GONE", dev |-> d]

\* If no event is waiting and no call is in progress when a device is unplugged,
\* it is taken down completely: the library can close it and free the port.
SettledUnplug == \A d \in Device : Settled(d) ~> port[d] = "absent"

\* The same whatever the tasks are doing when the device is unplugged.
UnplugCompletes == \A d \in Device : port[d] = "gone" ~> port[d] = "absent"

\* What InterfaceLife knows of an interface of a device that is there.
Present(p) == port[p[1]] = "attached" /\ \E a \in Listed : PipeOf(a) = p

Phase(p) ==
    LET state == {obj[a].state : a \in {b \in Listed : PipeOf(b) = p}}
    IN CASE ~Present(p) -> "away"
         [] Present(p) /\ "IDLE" \in state -> "closed"
         [] Present(p) /\ "READY" \in state -> "open"
         [] OTHER -> "started"

Life == INSTANCE InterfaceLife
          WITH Interface <- Pipe, phase <- [p \in Pipe |-> Phase(p)],
               held <- {p \in claimed : Present(p)},
               awaited <- {p \in Pipe : pipe[p] # "idle" /\ Present(p)}

\* However unplugs, stops and failing calls cut the calls of the processor task
\* short, each interface is claimed, opened and started in this order, has a
\* transfer only after that, and comes back as new with its device.
ImplementsLife == Life!Spec
=============================================================================

--------------------------- MODULE UsbHidHostLife ---------------------------
(***************************************************************************)
(* The life of a UsbHidHost object (src/src/UsbHidHost.cpp): constructor,  *)
(* init, start, stop, deinit and destructor, called by one application     *)
(* task, against the two tasks they create and the callback of the HID     *)
(* driver, which uses the object's queue.                                  *)
(*                                                                         *)
(* usbLibTask serves the USB Host Library and ends when the last client is *)
(* gone.  The HID driver, that client, is here only installed or not (its  *)
(* own life is HidDriverLife's subject), and of the devices only what may  *)
(* keep the driver and the library from being uninstalled.                 *)
(***************************************************************************)
EXTENDS Naturals, FiniteSets

CONSTANTS
    LibTask,    \* bound: usbLibTasks that are ever created, one per init
    ProcTask,   \* processor tasks that may run at once
    Null,
    Careful,    \* "once": the application calls init and start only when what
                \* an earlier call created is gone, and not after deinit;
                \* "uninstall": it uninstalls the HID driver before deinit
    Failing     \* what may fail: "queue", "host", "late" (usbLibTask
                \* takes longer than init waits for it)

ASSUME TaskAssumption ==
    Null \notin LibTask /\ Null \notin ProcTask /\ IsFiniteSet(LibTask)

VARIABLES
    app,                    \* where the application's task is
    eventQueue,             \* the queue of the object
    hidProcessorTaskHandle, usbLibTaskHandle,
    procs,                  \* the processor tasks that run
    lib,                    \* lib[l]: where usbLibTask l is
    notified,               \* the notification value of the application's task
    host,                   \* whether the USB Host Library is installed
    flags,                  \* its events not yet handled
    driver,                 \* whether the HID driver is installed, as a client
    device,                 \* what is plugged in
    listed,                 \* whether the driver has it in its list
    fault                   \* what the program does not survive, or "none"

object == <<eventQueue, hidProcessorTaskHandle, usbLibTaskHandle>>
usb == <<host, flags, driver, device, listed>>
vars == <<app, object, procs, lib, notified, usb, fault>>

\* "killed": deleted by init.  "freed": its control block is given back.
LibPC == {"none", "install", "notify", "events", "shutdown", "ended", "killed",
          "freed"}

\* failed: it could not install or not uninstall the library.
LibTaskState == [pc : LibPC, failed : BOOLEAN]

TypeOK ==
    /\ app \in {"none", "ready", "notify", "timeout", "install", "wait",
                "delete"}
    /\ eventQueue \in {"live", "failed", "deleted"}
    /\ hidProcessorTaskHandle \in ProcTask \cup {Null}
    /\ usbLibTaskHandle \in LibTask \cup {Null}
    /\ procs \subseteq ProcTask
    /\ lib \in [LibTask -> LibTaskState]
    /\ notified \in 0..Cardinality(LibTask)
    /\ host \in BOOLEAN /\ driver \in BOOLEAN /\ listed \in BOOLEAN
    /\ flags \subseteq {"NO_CLIENTS", "ALL_FREE"}
    /\ device \in {"none", "hid", "other"}
    /\ fault \in {"none", "abort", "queue", "task"}

Init ==
    /\ app = "none" /\ eventQueue = "deleted"
    /\ hidProcessorTaskHandle = Null /\ usbLibTaskHandle = Null
    /\ procs = {}
    /\ lib = [l \in LibTask |-> [pc |-> "none", failed |-> FALSE]]
    /\ notified = 0
    /\ host = FALSE /\ flags = {} /\ driver = FALSE
    /\ device = "none" /\ listed = FALSE
    /\ fault = "none"

-----------------------------------------------------------------------------
MayFail(what) == what \in Failing

App(pc) == fault = "none" /\ app = pc

Lib(l, pc) == fault = "none" /\ lib[l].pc = pc

Goto(l, pc) == lib' = [lib EXCEPT ![l].pc = pc]

\* usb_host_client_deregister, for the only client
Deregister == driver' = FALSE /\ flags' = flags \cup {"NO_CLIENTS"}

-----------------------------------------------------------------------------
(* The application.                                                        *)

Construct ==
    /\ App("none")
    /\ \E q \in {"live"} \cup (IF MayFail("queue") THEN {"failed"} ELSE {}) :
        eventQueue' = q
    /\ hidProcessorTaskHandle' = Null /\ usbLibTaskHandle' = Null
    /\ app' = "ready"
    /\ UNCHANGED <<procs, lib, notified, usb, fault>>

\* init creates usbLibTask and waits for its notification.
CallInit ==
    /\ App("ready")
    /\ "once" \in Careful =>
        /\ eventQueue # "deleted" /\ ~driver
        /\ \A l \in LibTask : lib[l].pc \in {"none", "killed", "freed"}
    /\ \E l \in LibTask :
        /\ lib[l].pc = "none"
        /\ Goto(l, "install")
        /\ usbLibTaskHandle' = l
    /\ app' = "notify"
    /\ UNCHANGED <<eventQueue, hidProcessorTaskHandle, procs, notified, usb, fault>>

\* Mutant: a notification is taken though none has come.
TakeTimeout_Takes ==
    /\ App("notify") /\ notified = 0 /\ MayFail("late")
    /\ notified' = notified - 1
    /\ app' = "timeout"
    /\ UNCHANGED <<object, procs, lib, usb, fault>>

\* Mutant: init goes on without the notification.
TakeTimeout_Ignored ==
    /\ App("notify") /\ notified = 0 /\ MayFail("late")
    /\ app' = "install"
    /\ UNCHANGED <<object, procs, lib, notified, usb, fault>>

\* ulTaskNotifyTake, of a notification that any usbLibTask may have given.
TakeNotification ==
    /\ App("notify") /\ notified > 0
    /\ notified' = notified - 1
    /\ app' = "install"
    /\ UNCHANGED <<object, procs, lib, usb, fault>>

TakeTimeout ==
    /\ App("notify") /\ notified = 0 /\ MayFail("late")
    /\ app' = "timeout"
    /\ UNCHANGED <<object, procs, lib, notified, usb, fault>>

\* init gives up and deletes the task, wherever it is by now; it keeps the
\* handle.
KillLibTask ==
    /\ App("timeout")
    /\ Goto(usbLibTaskHandle, "killed")
    /\ app' = "ready"
    /\ UNCHANGED <<object, procs, notified, usb, fault>>

\* ESP_ERROR_CHECK(hid_host_install): the driver must not be installed yet, and
\* the library must be.
InstallDriver ==
    /\ App("install")
    /\ IF host /\ ~driver
       THEN driver' = TRUE /\ app' = "ready" /\ UNCHANGED fault
       ELSE fault' = "abort" /\ UNCHANGED <<app, driver>>
    /\ UNCHANGED <<object, procs, lib, notified, host, flags, device, listed>>

\* The new task receives from the queue at once.
CallStart ==
    /\ App("ready")
    /\ "once" \in Careful =>
        hidProcessorTaskHandle = Null /\ eventQueue # "deleted"
    /\ \E p \in ProcTask \ procs :
        /\ procs' = procs \cup {p}
        /\ hidProcessorTaskHandle' = p
    /\ fault' = IF eventQueue = "live" THEN "none" ELSE "queue"
    /\ UNCHANGED <<app, eventQueue, usbLibTaskHandle, lib, notified, usb>>

\* Mutant: the handle is forgotten, the task is not deleted.
DeleteProcessor_Forgets ==
    /\ procs' = procs
    /\ hidProcessorTaskHandle' = Null

\* stop, and the beginning of deinit
DeleteProcessor ==
    /\ procs' = procs \ {hidProcessorTaskHandle}
    /\ hidProcessorTaskHandle' = Null

CallStop ==
    /\ App("ready") /\ hidProcessorTaskHandle # Null
    /\ DeleteProcessor
    /\ UNCHANGED <<app, eventQueue, usbLibTaskHandle, lib, notified, usb, fault>>

\* hid_host_uninstall refuses while a device is listed, and is done with if
\* there is no driver.
UninstallDriver ==
    IF driver /\ ~listed THEN Deregister ELSE UNCHANGED <<driver, flags>>

\* The application uninstalls the driver itself.
CallUninstall ==
    /\ App("ready") /\ driver
    /\ UninstallDriver
    /\ UNCHANGED <<app, object, procs, lib, notified, host, device, listed, fault>>

\* deinit deletes the processor task and waits for usbLibTask.
CallDeinit ==
    /\ App("ready")
    /\ "uninstall" \in Careful => ~driver
    /\ DeleteProcessor
    /\ app' = IF usbLibTaskHandle = Null THEN "delete" ELSE "wait"
    /\ UNCHANGED <<eventQueue, usbLibTaskHandle, lib, notified, usb, fault>>

\* eTaskGetState says eDeleted; of a control block that is freed it may still.
LibTaskDeleted ==
    /\ App("wait")
    /\ lib[usbLibTaskHandle].pc \in {"ended", "killed", "freed"}
    /\ usbLibTaskHandle' = Null
    /\ app' = "delete"
    /\ UNCHANGED <<eventQueue, hidProcessorTaskHandle, procs, lib, notified, usb,
                   fault>>

\* What it reads of a freed control block is something else.
LibTaskFreed ==
    /\ App("wait")
    /\ lib[usbLibTaskHandle].pc \in {"killed", "freed"}
    /\ fault' = "task"
    /\ UNCHANGED <<app, object, procs, lib, notified, usb>>

\* The queue goes before the driver whose callback sends to it, and under a
\* processor task that is still waiting for it.
DeleteQueue ==
    /\ App("delete")
    /\ eventQueue' = "deleted"
    /\ fault' = IF procs = {} THEN "none" ELSE "queue"
    /\ UninstallDriver
    /\ app' = "ready"
    /\ UNCHANGED <<hidProcessorTaskHandle, usbLibTaskHandle, procs, lib, notified,
                   host, device, listed>>

\* The destructor has done the same when the object ends.
Destroy ==
    /\ App("ready") /\ eventQueue = "deleted"
    /\ app' = "none"
    /\ UNCHANGED <<object, procs, lib, notified, usb, fault>>

AppNext ==
    \/ Construct \/ CallInit \/ CallStart \/ CallStop \/ CallUninstall
    \/ CallDeinit \/ Destroy

\* The calls that are under way.
AppReturns ==
    \/ TakeNotification \/ TakeTimeout \/ KillLibTask \/ InstallDriver
    \/ LibTaskDeleted \/ LibTaskFreed \/ DeleteQueue

-----------------------------------------------------------------------------
(* usbLibTask.                                                             *)

\* A failure is only logged; a library that is installed already is one.
LibInstall(l) ==
    /\ Lib(l, "install")
    /\ \E ok \in {TRUE} \cup (IF MayFail("host") THEN {FALSE} ELSE {}) :
        /\ host' = (host \/ ok)
        /\ lib' = [lib EXCEPT ![l] = [pc |-> "notify", failed |-> host \/ ~ok]]
    /\ UNCHANGED <<app, object, procs, notified, flags, driver, device, listed, fault>>

LibNotify(l) ==
    /\ Lib(l, "notify")
    /\ notified' = notified + 1
    /\ Goto(l, "events")
    /\ UNCHANGED <<app, object, procs, usb, fault>>

\* Mutant: the loop is left when the last device has gone.
LibEvents_AllFree(l) ==
    /\ Lib(l, "events") /\ host /\ flags # {}
    /\ flags' = {}
    /\ Goto(l, "shutdown")
    /\ UNCHANGED <<app, object, procs, notified, host, driver, device, listed, fault>>

\* One turn of the loop, in a library that is installed.
LibEvents(l) ==
    /\ Lib(l, "events") /\ host /\ flags # {}
    /\ flags' = {}
    /\ Goto(l, IF "NO_CLIENTS" \in flags THEN "shutdown" ELSE "events")
    /\ UNCHANGED <<app, object, procs, notified, host, driver, device, listed, fault>>

\* In one that is not, ESP_ERROR_CHECK(usb_host_lib_info) stops the program.
LibNotInstalled(l) ==
    /\ Lib(l, "events") /\ ~host
    /\ fault' = "abort"
    /\ UNCHANGED <<app, object, procs, lib, notified, usb>>

\* Mutant: the task does not end.
LibShutdown_Stays(l) ==
    /\ Lib(l, "shutdown")
    /\ Goto(l, "events")
    /\ UNCHANGED <<app, object, procs, notified, usb, fault>>

\* Mutant: the task deletes itself before it uninstalls the library.
LibShutdown_EndsFirst(l) ==
    /\ Lib(l, "shutdown")
    /\ Goto(l, "ended")
    /\ UNCHANGED <<app, object, procs, notified, usb, fault>>

\* usb_host_uninstall refuses while a device is plugged in, for which the loop
\* that has been left would have had to handle the events, or a client is there.
LibShutdown(l) ==
    /\ Lib(l, "shutdown")
    /\ IF device = "none" /\ ~driver
       THEN host' = FALSE /\ flags' = {} /\ Goto(l, "ended")
       ELSE /\ lib' = [lib EXCEPT ![l] = [pc |-> "ended", failed |-> TRUE]]
            /\ UNCHANGED <<host, flags>>
    /\ UNCHANGED <<app, object, procs, notified, driver, device, listed, fault>>

\* The idle task frees the control block of a task that has deleted itself.
Reap(l) ==
    /\ Lib(l, "ended")
    /\ Goto(l, "freed")
    /\ UNCHANGED <<app, object, procs, notified, usb, fault>>

LibNext(l) ==
    \/ LibInstall(l) \/ LibNotify(l) \/ LibEvents(l) \/ LibNotInstalled(l)
    \/ LibShutdown(l)

-----------------------------------------------------------------------------
(* Devices, and the callback of the driver.                                *)

Attach ==
    /\ fault = "none" /\ host /\ device = "none"
    /\ device' \in {"hid", "other"}
    /\ UNCHANGED <<app, object, procs, lib, notified, host, flags, driver, listed,
                   fault>>

Detach ==
    /\ fault = "none" /\ device # "none"
    /\ device' = "none" /\ listed' = FALSE
    /\ flags' = flags \cup {"ALL_FREE"}
    /\ UNCHANGED <<app, object, procs, lib, notified, host, driver, fault>>

\* A HID device is listed, and hidHostDeviceCallback sends it to the queue.
ConnectedCallback ==
    /\ fault = "none" /\ driver /\ device = "hid" /\ ~listed
    /\ listed' = TRUE
    /\ fault' = IF eventQueue = "live" THEN "none" ELSE "queue"
    /\ UNCHANGED <<app, object, procs, lib, notified, host, flags, driver, device>>

Next ==
    \/ AppNext \/ AppReturns
    \/ \E l \in LibTask : LibNext(l) \/ Reap(l)
    \/ Attach \/ Detach \/ ConnectedCallback

Spec == Init /\ [][Next]_vars

\* The tasks run; nobody owes a call or a device.
FairSpec ==
    Spec /\ WF_vars(AppReturns) /\ \A l \in LibTask : WF_vars(LibNext(l))

-----------------------------------------------------------------------------
(* Properties, of an application that is careful.                          *)

\* Nobody is left who would use the queue deinit deletes: no processor task
\* waits for it, and no driver has a callback that sends to it.
QueueUsersGone == eventQueue = "deleted" => procs = {} /\ ~driver

\* init calls hid_host_install only after usbLibTask has installed the library,
\* as the notification is to ensure; but if usbLibTask's own installation has
\* failed, or a notification was left by one that init gave up waiting for.
InstallAfterLibrary ==
    app = "install" /\ ~host =>
        \E l \in LibTask : lib[l].failed \/ lib[l].pc = "killed"

\* While the driver is installed, so is the library, and a usbLibTask is there
\* that serves it.
LibraryServed ==
    driver => /\ host
              /\ \E l \in LibTask : lib[l].pc \in {"install", "notify", "events"}

\* The object leaves nothing behind: no task, no driver, and no library, but if
\* usbLibTask could not uninstall it, or init has killed the one that would.
EndsClean ==
    app = "none" =>
        /\ procs = {} /\ ~driver
        /\ host => \E l \in LibTask : lib[l].failed \/ lib[l].pc = "killed"
        /\ \A l \in LibTask : lib[l].pc \in {"none", "ended", "killed", "freed"}

\* deinit, and the destructor, returns: usbLibTask ends while it is waited for.
DeinitReturns == app = "wait" ~> app # "wait" \/ fault # "none"
=============================================================================

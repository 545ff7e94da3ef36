---------------------------- MODULE HidDriverLife ----------------------------
(***************************************************************************)
(* Installing and uninstalling the HID driver (src/src/usb/hid_host.c)     *)
(* while its background task, event_handler_task, handles the events of    *)
(* the client.  s_hid_driver is a global pointer that every function reads *)
(* again where it needs it; uninstall asks the task to end, wakes it, and  *)
(* waits for all_events_handled before it frees the driver.                *)
(*                                                                         *)
(* Of a device only the opened handle matters here; what the driver does   *)
(* with it is HidHost's subject.                                           *)
(***************************************************************************)
EXTENDS Naturals

CONSTANTS
    Caller,     \* the tasks that install the driver
    Uninstaller,    \* those of them that uninstall it
    Heap,       \* addresses for hid_driver_t
    Loop,       \* the background tasks that can be created
    Null,
    Patient,    \* whether callers uninstall a driver only when its background
                \* task has begun to handle events
    Failing     \* what may fail: "memory", "register", "task", "events"

ASSUME AddressAssumption == Heap # {} /\ Null \notin Heap
ASSUME PatientAssumption == Patient \in BOOLEAN

ASSUME UninstallerAssumption == Uninstaller \subseteq Caller

VARIABLES
    s_hid_driver,   \* the installed driver, or Null
    driver,         \* driver[h]: the hid_driver_t at address h
    call,           \* call[t]: the call task t is in
    loop,           \* loop[l]: where the background task l is
    fault           \* what the program does not survive, or "none"

vars == <<s_hid_driver, driver, call, loop, fault>>

MayFail(what) == what \in Failing

\* device is what the client knows of the device in the port: "new" and "gone"
\* are events that wait for it.
Driver == [live : BOOLEAN, client : BOOLEAN, ending : BOOLEAN,
           started : BOOLEAN, handled : BOOLEAN, unblocked : BOOLEAN,
           device : {"none", "new", "open", "gone"}]

NoDriver == [live |-> FALSE, client |-> FALSE, ending |-> FALSE,
             started |-> FALSE, handled |-> FALSE, unblocked |-> FALSE,
             device |-> "none"]

CallPC == {"idle", "register", "publish", "task",
           "end", "unblock", "wait", "deregister", "free", "clear"}

\* After "error" the loop ends as "failed", unless the driver ends as well.
LoopPC == {"none", "check", "mark", "handle", "test", "error", "failed", "ended"}

\* drv is the local driver of hid_host_install, or the driver whose semaphore
\* hid_host_uninstall waits for.
NoCall == [pc |-> "idle", drv |-> Null]

\* drv is the client usb_host_client_handle_events was called with.
NoLoop == [pc |-> "none", drv |-> Null]

TypeOK ==
    /\ s_hid_driver \in Heap \cup {Null}
    /\ driver \in [Heap -> Driver]
    /\ call \in [Caller -> [pc : CallPC, drv : Heap \cup {Null}]]
    /\ \A t \in Caller :
        call[t].pc \in {"register", "publish", "task", "wait"}
            => call[t].drv \in Heap
    /\ loop \in [Loop -> [pc : LoopPC, drv : Heap \cup {Null}]]
    /\ fault \in {"none", "null", "freed", "abort"}

Init ==
    /\ s_hid_driver = Null
    /\ driver = [h \in Heap |-> NoDriver]
    /\ call = [t \in Caller |-> NoCall]
    /\ loop = [l \in Loop |-> NoLoop]
    /\ fault = "none"

-----------------------------------------------------------------------------
At(t, pc) == fault = "none" /\ call[t].pc = pc

Goto(t, pc) == call' = [call EXCEPT ![t].pc = pc]

Return(t) == call' = [call EXCEPT ![t] = NoCall]

Fails(f) == fault' = f /\ UNCHANGED <<s_hid_driver, driver, call, loop>>

\* What reading through s_hid_driver comes to.
Bad == IF s_hid_driver = Null THEN "null"
       ELSE IF ~driver[s_hid_driver].live THEN "freed" ELSE "none"

Set(field, value) == [driver EXCEPT ![s_hid_driver][field] = value]

-----------------------------------------------------------------------------
(* hid_host_install.                                                       *)

\* Mutant: the steps that follow work on the global pointer.
Install_Global(t) ==
    /\ At(t, "idle") /\ s_hid_driver = Null
    /\ \E h \in Heap :
        /\ ~driver[h].live
        /\ driver' = [driver EXCEPT ![h] = [NoDriver EXCEPT !.live = TRUE]]
        /\ call' = [call EXCEPT ![t] = [pc |-> "register",
                                        drv |-> s_hid_driver]]
    /\ UNCHANGED <<s_hid_driver, loop, fault>>

\* An installed driver is refused at once.
Install(t) ==
    /\ At(t, "idle") /\ s_hid_driver = Null
    /\ \E h \in Heap :
        /\ ~driver[h].live
        /\ driver' = [driver EXCEPT ![h] = [NoDriver EXCEPT !.live = TRUE]]
        /\ call' = [call EXCEPT ![t] = [pc |-> "register", drv |-> h]]
    /\ UNCHANGED <<s_hid_driver, loop, fault>>

\* The failure path of every step: whatever s_hid_driver is, it is cleared.
Undo(t) ==
    /\ s_hid_driver' = Null
    /\ driver' = [driver EXCEPT ![call[t].drv] = NoDriver]
    /\ Return(t)
    /\ UNCHANGED <<loop, fault>>

\* No semaphore, or no client
RegisterFails(t) ==
    /\ At(t, "register") /\ (MayFail("memory") \/ MayFail("register"))
    /\ Undo(t)

Register(t) ==
    /\ At(t, "register")
    /\ driver' = [driver EXCEPT ![call[t].drv].client = TRUE]
    /\ Goto(t, "publish")
    /\ UNCHANGED <<s_hid_driver, loop, fault>>

Publish(t) ==
    /\ At(t, "publish") /\ s_hid_driver = Null
    /\ s_hid_driver' = call[t].drv
    /\ Goto(t, "task")
    /\ UNCHANGED <<driver, loop, fault>>

\* Another task has installed its driver in the meantime.
PublishFails(t) ==
    /\ At(t, "publish") /\ s_hid_driver # Null
    /\ Undo(t)

CreateTask(t) ==
    /\ At(t, "task")
    /\ \E l \in Loop :
        /\ loop[l].pc \in {"none", "failed", "ended"}
        /\ loop' = [loop EXCEPT ![l] = [NoLoop EXCEPT !.pc = "check"]]
    /\ Return(t)
    /\ UNCHANGED <<s_hid_driver, driver, fault>>

CreateTaskFails(t) ==
    /\ At(t, "task") /\ MayFail("task")
    /\ Undo(t)

-----------------------------------------------------------------------------
(* hid_host_uninstall.                                                     *)

Uninstall(t) ==
    /\ t \in Uninstaller /\ At(t, "idle") /\ s_hid_driver # Null
    /\ Patient => driver[s_hid_driver].started
    /\ Goto(t, "end")
    /\ UNCHANGED <<s_hid_driver, driver, loop, fault>>

\* Every step reads through the global pointer once more; only the wait does
\* not.
Crash(t) ==
    /\ fault = "none"
    /\ call[t].pc \in {"end", "unblock", "deregister"}
    /\ Bad # "none" /\ Fails(Bad)

\* In the critical section: another task may be uninstalling already, and the
\* device list must be empty.
End(t) ==
    /\ At(t, "end") /\ Bad = "none"
    /\ IF \/ driver[s_hid_driver].ending
          \/ driver[s_hid_driver].device \in {"open", "gone"}
       THEN Return(t) /\ UNCHANGED driver
       ELSE Goto(t, "unblock") /\ driver' = Set("ending", TRUE)
    /\ UNCHANGED <<s_hid_driver, loop, fault>>

\* Mutant: the driver is let go without the wait.
Unblock_NoWait(t) ==
    /\ At(t, "unblock") /\ Bad = "none"
    /\ driver' = Set("unblocked", TRUE)
    /\ Goto(t, "deregister")
    /\ UNCHANGED <<s_hid_driver, loop, fault>>

\* Mutant: the wait without the wake-up.
Unblock_Silent(t) ==
    /\ At(t, "unblock") /\ Bad = "none"
    /\ call' = [call EXCEPT ![t] =
                    IF driver[s_hid_driver].started
                    THEN [pc |-> "wait", drv |-> s_hid_driver]
                    ELSE [@ EXCEPT !.pc = "deregister"]]
    /\ UNCHANGED <<s_hid_driver, driver, loop, fault>>

\* "In case the event handling started, we must wait until it finishes"
Unblock(t) ==
    /\ At(t, "unblock") /\ Bad = "none"
    /\ IF driver[s_hid_driver].started
       THEN /\ driver' = Set("unblocked", TRUE)
            /\ call' = [call EXCEPT ![t] = [pc |-> "wait",
                                            drv |-> s_hid_driver]]
       ELSE UNCHANGED driver /\ Goto(t, "deregister")
    /\ UNCHANGED <<s_hid_driver, loop, fault>>

Wait(t) ==
    /\ At(t, "wait") /\ driver[call[t].drv].handled
    /\ driver' = [driver EXCEPT ![call[t].drv].handled = FALSE]
    /\ Goto(t, "deregister")
    /\ UNCHANGED <<s_hid_driver, loop, fault>>

\* The library refuses to let a client go that handles events or has a device
\* open, and ESP_ERROR_CHECK stops the program.
InUse(h) ==
    \/ driver[h].device \in {"open", "gone"}
    \/ \E l \in Loop : loop[l].pc = "handle" /\ loop[l].drv = h

Deregister(t) ==
    /\ At(t, "deregister") /\ Bad = "none"
    /\ IF InUse(s_hid_driver) THEN Fails("abort")
       ELSE /\ driver' = Set("client", FALSE)
            /\ Goto(t, "free")
            /\ UNCHANGED <<s_hid_driver, loop, fault>>

Free(t) ==
    /\ At(t, "free")
    /\ IF s_hid_driver = Null
       THEN UNCHANGED driver
       ELSE driver' = [driver EXCEPT ![s_hid_driver] = NoDriver]
    /\ Goto(t, "clear")
    /\ UNCHANGED <<s_hid_driver, loop, fault>>

Clear(t) ==
    /\ At(t, "clear")
    /\ s_hid_driver' = Null
    /\ Return(t)
    /\ UNCHANGED <<driver, loop, fault>>

UninstallStep(t) ==
    \/ Crash(t) \/ End(t) \/ Unblock(t) \/ Wait(t)
    \/ Deregister(t) \/ Free(t) \/ Clear(t)

-----------------------------------------------------------------------------
(* event_handler_task, one hid_host_handle_events after the other.         *)

LoopAt(l, pc) == fault = "none" /\ loop[l].pc = pc

LoopGoto(l, pc) == loop' = [loop EXCEPT ![l].pc = pc]

Check(l) ==
    /\ LoopAt(l, "check")
    /\ LoopGoto(l, IF s_hid_driver = Null THEN "ended" ELSE "mark")
    /\ UNCHANGED <<s_hid_driver, driver, call, fault>>

\* event_handling_started is set, and the client is handed to the library.
Mark(l) ==
    /\ LoopAt(l, "mark") /\ Bad = "none"
    /\ driver' = Set("started", TRUE)
    /\ loop' = [loop EXCEPT ![l] = [pc |-> "handle", drv |-> s_hid_driver]]
    /\ UNCHANGED <<s_hid_driver, call, fault>>

\* The library runs client_event_cb for what is pending and returns; it blocks
\* while there is nothing and nobody unblocks it.
HandleEvents(l) ==
    LET h == loop[l].drv IN
    /\ LoopAt(l, "handle")
    /\ driver[h].client
    /\ driver[h].unblocked \/ driver[h].device \in {"new", "gone"}
    /\ driver' = [driver EXCEPT
                    ![h].unblocked = FALSE,
                    ![h].device = CASE @ = "new" -> "open"
                                    [] @ = "gone" -> "none"
                                    [] OTHER -> @]
    /\ LoopGoto(l, "test")
    /\ UNCHANGED <<s_hid_driver, call, fault>>

HandleFails(l) ==
    /\ LoopAt(l, "handle") /\ MayFail("events")
    /\ LoopGoto(l, "error")
    /\ UNCHANGED <<s_hid_driver, driver, call, fault>>

\* event_handler_task goes on as long as the events were handled without an
\* error.
AfterEvents(l) == IF loop[l].pc = "test" THEN "check" ELSE "failed"

\* Mutant: the semaphore is given whether the driver ends or not.
Test_Always(l) ==
    /\ LoopAt(l, "test") \/ LoopAt(l, "error")
    /\ Bad = "none"
    /\ driver' = Set("handled", TRUE)
    /\ LoopGoto(l, IF driver[s_hid_driver].ending THEN "ended" ELSE AfterEvents(l))
    /\ UNCHANGED <<s_hid_driver, call, fault>>

\* If the driver ends, all_events_handled is given and the task ends.
Test(l) ==
    /\ LoopAt(l, "test") \/ LoopAt(l, "error")
    /\ Bad = "none"
    /\ IF driver[s_hid_driver].ending
       THEN driver' = Set("handled", TRUE) /\ LoopGoto(l, "ended")
       ELSE UNCHANGED driver /\ LoopGoto(l, AfterEvents(l))
    /\ UNCHANGED <<s_hid_driver, call, fault>>

\* The pointer is tested once, before the handling, and read twice after it.
LoopCrash(l) ==
    /\ fault = "none" /\ loop[l].pc \in {"mark", "test", "error"}
    /\ Bad # "none" /\ Fails(Bad)

LoopStep(l) ==
    Check(l) \/ Mark(l) \/ HandleEvents(l) \/ Test(l) \/ LoopCrash(l)

LoopNext(l) == LoopStep(l) \/ HandleFails(l)

-----------------------------------------------------------------------------
(* The device in the port, as each registered client is told of it.        *)

Plug ==
    /\ fault = "none"
    /\ \E h \in Heap : driver[h].client /\ driver[h].device = "none"
    /\ driver' = [h \in Heap |->
                    IF driver[h].client /\ driver[h].device = "none"
                    THEN [driver[h] EXCEPT !.device = "new"] ELSE driver[h]]
    /\ UNCHANGED <<s_hid_driver, call, loop, fault>>

\* A device that leaves before its event is handled cannot be opened any more.
Unplug ==
    /\ fault = "none"
    /\ \E h \in Heap : driver[h].device \in {"new", "open"}
    /\ driver' = [h \in Heap |->
                    [driver[h] EXCEPT !.device =
                        CASE @ = "new" -> "none"
                          [] @ = "open" -> "gone"
                          [] OTHER -> @]]
    /\ UNCHANGED <<s_hid_driver, call, loop, fault>>

Next ==
    \/ \E t \in Caller :
        \/ Install(t) \/ Register(t) \/ RegisterFails(t)
        \/ Publish(t) \/ PublishFails(t)
        \/ CreateTask(t) \/ CreateTaskFails(t)
        \/ Uninstall(t) \/ UninstallStep(t)
    \/ \E l \in Loop : LoopNext(l)
    \/ Plug \/ Unplug

Spec == Init /\ [][Next]_vars

\* The tasks run; nobody is obliged to call, the library to report an error, and
\* devices come as they like.
FairSpec ==
    /\ Spec
    /\ \A t \in Caller : WF_vars(UninstallStep(t))
    /\ \A l \in Loop : WF_vars(LoopStep(l))

-----------------------------------------------------------------------------
(* Properties.                                                             *)

\* A driver nobody can reach any more: it is installed, but an installation
\* that failed has cleared s_hid_driver, which is another task's by then.
Lost ==
    \E h \in Heap :
        /\ driver[h].live /\ h # s_hid_driver
        /\ \A t \in Caller :
            call[t].drv = h => call[t].pc \notin {"register", "publish", "task"}

\* As long as no driver was lost, nothing reads through a pointer that is null
\* or freed: the background task is out of hid_host_handle_events before the
\* driver goes, and a task's second look at s_hid_driver finds what the first
\* one found (hid_host_uninstall against hid_host_handle_events).
DriverOutlivesTask == fault \in {"null", "freed"} => Lost

\* When usb_host_client_deregister refuses, the device is the reason: it came
\* after the lists were found empty.  The handling of events is over by then,
\* and the wait of hid_host_uninstall is for nothing else.
AbortIsTheDevice ==
    fault = "abort" =>
        Lost \/ driver[s_hid_driver].device \in {"open", "gone"}

\* An uninstallation returns.  The wake-up may come before the background task
\* blocks, while it handles a device, or after it has seen the end and gone:
\* the semaphore is given in every case (hid_host_uninstall).  There is one
\* other way not to return: event_handler_task ended on an error of the library
\* before, and nobody is left who would give it.
UninstallReturns ==
    \A t \in Caller :
        call[t].pc \in {"end", "unblock", "wait", "deregister", "free", "clear"}
            ~> \/ call[t].pc = "idle"
               \/ fault # "none"
               \/ Lost
               \/ \E l \in Loop : loop[l].pc = "failed"
=============================================================================

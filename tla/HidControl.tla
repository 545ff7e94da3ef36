----------------------------- MODULE HidControl -----------------------------
(***************************************************************************)
(* The class requests of one installed device (src/src/usb/hid_host.c):    *)
(* SET and GET requests and the report descriptor of an open interface,    *)
(* called by any number of tasks.  A request holds the mutex device_busy,  *)
(* writes its setup packet into the buffer ctrl_xfer, submits it, and      *)
(* takes the binary semaphore ctrl_xfer_done, which the driver task gives  *)
(* when the transfer has come back.                                        *)
(*                                                                         *)
(* Removing the device under a request is HidHost's subject, not this one. *)
(***************************************************************************)
EXTENDS Naturals

CONSTANTS
    Task,           \* the tasks that make requests
    Nobody,
    DriverCaller,   \* the task whose calls are callbacks of the driver task,
                    \* or Nobody
    Buffer,         \* heap addresses for transfers
    BufSize,        \* what a buffer of hid_host_install_device can carry
    DescLen,        \* report_desc_size
    Requests,       \* the requests made: "set", "get", "descriptor"
    Failing         \* what may go wrong: "submit", "timeout", "halt",
                    \* "stall", "heap", "info"; and "large": a SET request
                    \* whose data are as long as the report descriptor

ASSUME TaskAssumption == Nobody \notin Task
ASSUME BufferAssumption == Buffer # {} /\ Nobody \notin Buffer
ASSUME SizeAssumption == BufSize \in Nat /\ DescLen \in Nat
ASSUME RequestAssumption == Requests \subseteq {"set", "get", "descriptor"}

VARIABLES
    device_busy,    \* the owner of the mutex
    ctrl_xfer_done, \* the semaphore: given or not
    ctrl_xfer,      \* the address of the device's control transfer
    buffer,         \* buffer[b]: the transfer at address b
    report_desc,    \* the report descriptor of the interface
    call,           \* call[t]: the call task t is in
    fault           \* what went wrong beyond repair, or "none"

deviceVars == <<device_busy, ctrl_xfer_done, ctrl_xfer, buffer>>
vars == <<deviceVars, report_desc, call, fault>>

MayFail(what) == what \in Failing

\* setup is the call whose setup packet is in the buffer, carried the one the
\* transfer in flight was submitted for, as long as that call waits for it, and
\* data the one the data in the buffer answers.  "finished" is back from the
\* bus with its callback still to run.  actual is actual_num_bytes: "whole" if
\* it counts a setup packet and an answer, "short" if fewer bytes than a setup
\* packet, "none" before the first transfer and once the setup packet has been
\* subtracted.
Transfer == [live : BOOLEAN, size : Nat,
             setup : Task \cup {Nobody}, carried : Task \cup {Nobody},
             data : Task \cup {Nobody},
             flight : {"idle", "pending", "finished"},
             actual : {"none", "whole", "short"}]

NoTransfer == [live |-> FALSE, size |-> 0, setup |-> Nobody,
               carried |-> Nobody, data |-> Nobody, flight |-> "idle",
               actual |-> "none"]

NewTransfer(size) == [NoTransfer EXCEPT !.live = TRUE, !.size = size]

\* The call that allocated iface->report_desc, and whether it is filled.
Descriptor == [owner : Task \cup {Nobody}, filled : BOOLEAN]

NoDescriptor == [owner |-> Nobody, filled |-> FALSE]

PC == {"idle", "malloc", "lock", "resize", "setup", "submit", "wait", "reset",
       "done", "unlock"}

\* xfer and size are the locals ctrl_xfer and ctrl_size; got is the call the
\* data handed to the caller answer.
Call == [pc : PC, req : {"set", "get", "descriptor"},
         xfer : Buffer \cup {Nobody}, size : Nat,
         result : {"none", "ok", "cached", "busy", "error"},
         got : Task \cup {Nobody}]

NoCall == [pc |-> "idle", req |-> "set", xfer |-> Nobody, size |-> 0,
           result |-> "none", got |-> Nobody]

TypeOK ==
    /\ device_busy \in Task \cup {Nobody}
    /\ ctrl_xfer_done \in BOOLEAN
    /\ ctrl_xfer \in Buffer
    /\ buffer \in [Buffer -> Transfer]
    /\ report_desc \in Descriptor
    /\ call \in [Task -> Call]
    /\ fault \in {"none", "freed_xfer", "bad_length", "overflow", "abort"}

\* hid_host_install_device, with an interface of the device open
Init ==
    /\ device_busy = Nobody
    /\ ctrl_xfer_done = FALSE
    /\ ctrl_xfer \in Buffer
    /\ buffer = [b \in Buffer |-> IF b = ctrl_xfer THEN NewTransfer(BufSize)
                                                   ELSE NoTransfer]
    /\ report_desc = NoDescriptor
    /\ call = [t \in Task |-> NoCall]
    /\ fault = "none"

-----------------------------------------------------------------------------
At(t, pc) == fault = "none" /\ call[t].pc = pc

Goto(t, pc) == call' = [call EXCEPT ![t].pc = pc]

\* hid_control_transfer or the copy is over with this result: unlock next.
Finish(t, result) ==
    call' = [call EXCEPT ![t].pc = "unlock", ![t].result = result]

\* The call returns and its locals are gone.
Return(t, result) ==
    call' = [call EXCEPT ![t] =
               [NoCall EXCEPT !.req = call[t].req, !.result = result]]

Crash(f) ==
    fault' = f /\ UNCHANGED <<deviceVars, report_desc, call>>

\* A request begins by copying the pointer to the device's transfer.
Ask(t, req) ==
    /\ At(t, "idle") /\ req \in Requests \cap {"set", "get"}
    /\ call' = [call EXCEPT ![t] =
                  [NoCall EXCEPT !.pc = "lock", !.req = req,
                                 !.xfer = ctrl_xfer]]
    /\ UNCHANGED <<deviceVars, report_desc, fault>>

\* hid_host_get_report_descriptor with no descriptor requested before
AskDescriptor(t) ==
    /\ At(t, "idle") /\ "descriptor" \in Requests
    /\ report_desc.owner = Nobody
    /\ call' = [call EXCEPT ![t] = [NoCall EXCEPT !.pc = "malloc",
                                                  !.req = "descriptor"]]
    /\ UNCHANGED <<deviceVars, report_desc, fault>>

\* Mutant: the flag is returned instead of the descriptor.
Filled_Flag(t) == report_desc.filled

\* Whose answer task t finds in the report descriptor.
Filled(t) == IF report_desc.filled THEN t ELSE Nobody

\* "Report Descriptor was already requested, return pointer"
RecallDescriptor(t) ==
    /\ At(t, "idle") /\ "descriptor" \in Requests
    /\ report_desc.owner # Nobody
    /\ call' = [call EXCEPT ![t] =
                  [NoCall EXCEPT !.req = "descriptor", !.result = "cached",
                                 !.got = Filled(t)]]
    /\ UNCHANGED <<deviceVars, report_desc, fault>>

\* hid_class_request_report_descriptor allocates, and the request begins: it
\* copies the pointer to the transfer and reads its size.
AllocDescriptor(t) ==
    /\ At(t, "malloc") /\ buffer[ctrl_xfer].live
    /\ report_desc' = [owner |-> t, filled |-> FALSE]
    /\ call' = [call EXCEPT ![t].pc = "lock", ![t].xfer = ctrl_xfer,
                            ![t].size = buffer[ctrl_xfer].size]
    /\ UNCHANGED <<deviceVars, fault>>

\* The size is read from a transfer that was freed and could not be replaced.
AllocDescriptorFreed(t) ==
    /\ At(t, "malloc") /\ ~buffer[ctrl_xfer].live
    /\ Crash("freed_xfer")

AllocDescriptorFails(t) ==
    /\ At(t, "malloc") /\ MayFail("heap")
    /\ report_desc' = NoDescriptor
    /\ Return(t, "error")
    /\ UNCHANGED <<deviceVars, fault>>

-----------------------------------------------------------------------------
(* Under the mutex.                                                        *)

Critical == {"resize", "setup", "submit", "wait", "reset", "done", "unlock"}

\* Mutant: the result of taking the mutex is not looked at.
TryLock_Ignored(t) ==
    /\ At(t, "lock")
    /\ device_busy' = IF device_busy = Nobody THEN t ELSE device_busy
    /\ Goto(t, IF call[t].req = "descriptor" /\ call[t].size < DescLen
               THEN "resize" ELSE "setup")
    /\ UNCHANGED <<ctrl_xfer_done, ctrl_xfer, buffer, report_desc, fault>>

TryLock(t) ==
    /\ At(t, "lock") /\ device_busy = Nobody
    /\ device_busy' = t
    /\ Goto(t, IF call[t].req = "descriptor" /\ call[t].size < DescLen
               THEN "resize" ELSE "setup")
    /\ UNCHANGED <<ctrl_xfer_done, ctrl_xfer, buffer, report_desc, fault>>

\* "HID Device is busy by other task", after five seconds
LockTimeout(t) ==
    /\ At(t, "lock") /\ device_busy # Nobody
    /\ Return(t, "busy")
    /\ UNCHANGED <<deviceVars, report_desc, fault>>

\* usb_host_transfer_free refuses a transfer in flight, which then leaks.
Freed == IF buffer[ctrl_xfer].flight = "idle"
         THEN [buffer EXCEPT ![ctrl_xfer] = NoTransfer]
         ELSE buffer

\* The transfer is replaced by a larger one, maybe at the same address; the
\* local copy of the pointer is not.
Resize(t) ==
    /\ At(t, "resize")
    /\ \E b \in Buffer :
        /\ ~Freed[b].live
        /\ buffer' = [Freed EXCEPT ![b] = NewTransfer(DescLen)]
        /\ ctrl_xfer' = b
    /\ Goto(t, "setup")
    /\ UNCHANGED <<device_busy, ctrl_xfer_done, report_desc, fault>>

\* ESP_ERROR_CHECK of usb_host_device_info, before the transfer is replaced
InfoFails(t) ==
    /\ At(t, "resize") /\ MayFail("info")
    /\ Crash("abort")

\* The allocation fails: the request returns with the mutex.
ResizeFails(t) ==
    /\ At(t, "resize")
    /\ MayFail("heap") \/ \A b \in Buffer : Freed[b].live
    /\ buffer' = Freed
    /\ Return(t, "error")
    /\ UNCHANGED <<device_busy, ctrl_xfer_done, ctrl_xfer, report_desc, fault>>

\* The setup packet, and the data of a SET request if there is room for them,
\* go where the local copy of the pointer leads.
WriteSetup(t) ==
    /\ At(t, "setup")
    /\ LET b == call[t].xfer IN
        IF buffer[b].live
        THEN /\ buffer' = [buffer EXCEPT ![b].setup = t, ![b].data = Nobody]
             /\ Goto(t, "submit")
             /\ UNCHANGED <<device_busy, ctrl_xfer_done, ctrl_xfer,
                            report_desc, fault>>
        ELSE Crash("freed_xfer")

\* The data of a SET request are copied whatever the size of the buffer.
SetOverflows(t) ==
    /\ At(t, "setup") /\ call[t].req = "set" /\ MayFail("large")
    /\ buffer[call[t].xfer].live /\ buffer[call[t].xfer].size < DescLen
    /\ Crash("overflow")

\* hid_control_transfer takes the transfer from the device again.
Submit(t) ==
    /\ At(t, "submit") /\ buffer[ctrl_xfer].flight = "idle"
    /\ buffer' = [buffer EXCEPT ![ctrl_xfer].flight = "pending",
                                ![ctrl_xfer].carried =
                                    buffer[ctrl_xfer].setup]
    /\ Goto(t, "wait")
    /\ UNCHANGED <<device_busy, ctrl_xfer_done, ctrl_xfer, report_desc, fault>>

\* Mutant: the error return forgets the mutex.
SubmitFails_KeepsLock(t) ==
    /\ At(t, "submit")
    /\ buffer[ctrl_xfer].flight # "idle" \/ MayFail("submit")
    /\ Return(t, "error")
    /\ UNCHANGED <<deviceVars, report_desc, fault>>

\* The library refuses a transfer that is still in flight.
SubmitFails(t) ==
    /\ At(t, "submit")
    /\ buffer[ctrl_xfer].flight # "idle" \/ MayFail("submit")
    /\ Finish(t, "error")
    /\ UNCHANGED <<deviceVars, report_desc, fault>>

\* Mutant: the request does not wait for the semaphore.
TakeDone_NoWait(t) ==
    /\ At(t, "wait")
    /\ ctrl_xfer_done' = FALSE
    /\ Goto(t, "done")
    /\ UNCHANGED <<device_busy, ctrl_xfer, buffer, report_desc, fault>>

\* Mutant: the mutex is given back before the answer has been copied.
TakeDone_Unlocks(t) ==
    /\ At(t, "wait") /\ ctrl_xfer_done
    /\ ctrl_xfer_done' = FALSE
    /\ device_busy' = Nobody
    /\ Goto(t, "done")
    /\ UNCHANGED <<ctrl_xfer, buffer, report_desc, fault>>

\* Mutant: the semaphore counts as taken but stays given.
TakeDone_StaysGiven(t) ==
    /\ At(t, "wait") /\ ctrl_xfer_done
    /\ Goto(t, "done")
    /\ UNCHANGED <<deviceVars, report_desc, fault>>

TakeDone(t) ==
    /\ At(t, "wait") /\ ctrl_xfer_done
    /\ ctrl_xfer_done' = FALSE
    /\ Goto(t, "done")
    /\ UNCHANGED <<device_busy, ctrl_xfer, buffer, report_desc, fault>>

\* Mutant: the request waits for the semaphore without a time limit.
TakeTimeout_Never(t) == At(t, "wait") /\ FALSE

TakeTimeout(t) ==
    /\ At(t, "wait") /\ ~ctrl_xfer_done
    /\ MayFail("timeout")
    /\ Goto(t, "reset")
    /\ UNCHANGED <<deviceVars, report_desc, fault>>

\* Halt, flush and clear: a transfer in flight comes back with nothing, and its
\* callback will run when the driver task gets to it.
ResetEndpoint(t) ==
    /\ At(t, "reset")
    /\ buffer' = [buffer EXCEPT ![ctrl_xfer] =
                    IF @.flight = "pending"
                    THEN [@ EXCEPT !.carried = Nobody, !.flight = "finished",
                                   !.actual = "short"]
                    ELSE [@ EXCEPT !.carried = Nobody]]
    /\ Finish(t, "error")
    /\ UNCHANGED <<device_busy, ctrl_xfer_done, ctrl_xfer, report_desc, fault>>

\* The library refuses to halt the endpoint: the transfer stays in flight.
ResetFails(t) ==
    /\ At(t, "reset") /\ MayFail("halt")
    /\ buffer' = [buffer EXCEPT ![ctrl_xfer].carried = Nobody]
    /\ Finish(t, "error")
    /\ UNCHANGED <<device_busy, ctrl_xfer_done, ctrl_xfer, report_desc, fault>>

\* A SET request is done whatever the status of the transfer.
SetDone(t) ==
    /\ At(t, "done") /\ call[t].req = "set"
    /\ Finish(t, "ok")
    /\ UNCHANGED <<deviceVars, report_desc, fault>>

\* The eight bytes of the setup packet are subtracted from actual_num_bytes and
\* that many bytes are copied.  If they are not there the length is negative:
\* it passes the test against wLength, and memcpy takes it for a huge one.
CopyAnswer(t) ==
    /\ At(t, "done") /\ call[t].req # "set"
    /\ LET b == call[t].xfer IN
        IF buffer[b].actual = "whole"
        THEN /\ buffer' = [buffer EXCEPT ![b].actual = "none"]
             /\ call' = [call EXCEPT ![t].pc = "unlock", ![t].result = "ok",
                                     ![t].got = buffer[b].data]
             /\ report_desc' =
                  IF call[t].req = "descriptor" /\ report_desc.owner = t
                  THEN [report_desc EXCEPT !.filled = (buffer[b].data = t)]
                  ELSE report_desc
             /\ UNCHANGED <<device_busy, ctrl_xfer_done, ctrl_xfer, fault>>
        ELSE Crash("bad_length")

\* What is in the buffer is longer than what was asked for, as only the answer
\* to another request can be: ESP_ERR_INVALID_SIZE, with the count reduced.
CopyRefused(t) ==
    /\ At(t, "done") /\ call[t].req # "set"
    /\ LET b == call[t].xfer IN
        /\ buffer[b].actual = "whole" /\ buffer[b].data # t
        /\ buffer' = [buffer EXCEPT ![b].actual = "none"]
    /\ Finish(t, "error")
    /\ UNCHANGED <<device_busy, ctrl_xfer_done, ctrl_xfer, report_desc, fault>>

\* hid_device_unlock, and the call returns; hid_host_get_report_descriptor
\* returns what report_desc points at by now.
Unlock(t) ==
    /\ At(t, "unlock")
    /\ device_busy' = Nobody
    /\ call' = [call EXCEPT ![t] =
                  [NoCall EXCEPT !.req = call[t].req, !.result = call[t].result,
                                 !.got = IF call[t].req = "descriptor"
                                         THEN Filled(t) ELSE call[t].got]]
    /\ UNCHANGED <<ctrl_xfer_done, ctrl_xfer, buffer, report_desc, fault>>

TaskNext(t) ==
    \/ AllocDescriptor(t) \/ AllocDescriptorFreed(t) \/ AllocDescriptorFails(t)
    \/ TryLock(t) \/ LockTimeout(t)
    \/ Resize(t) \/ InfoFails(t) \/ ResizeFails(t)
    \/ WriteSetup(t) \/ SetOverflows(t) \/ Submit(t) \/ SubmitFails(t)
    \/ TakeDone(t) \/ TakeTimeout(t) \/ ResetEndpoint(t) \/ ResetFails(t)
    \/ SetDone(t) \/ CopyAnswer(t) \/ CopyRefused(t) \/ Unlock(t)

-----------------------------------------------------------------------------
(* The bus and the driver task.                                            *)

\* The device answers the request in flight.
Complete(b) ==
    /\ fault = "none" /\ buffer[b].flight = "pending"
    /\ buffer' = [buffer EXCEPT ![b].flight = "finished",
                                ![b].data = buffer[b].carried,
                                ![b].actual = "whole"]
    /\ UNCHANGED <<device_busy, ctrl_xfer_done, ctrl_xfer, report_desc, call,
                   fault>>

\* The device stalls the request, or has left: not even the setup packet counts.
Stall(b) ==
    /\ fault = "none" /\ buffer[b].flight = "pending" /\ MayFail("stall")
    /\ buffer' = [buffer EXCEPT ![b].flight = "finished",
                                ![b].actual = "short"]
    /\ UNCHANGED <<device_busy, ctrl_xfer_done, ctrl_xfer, report_desc, call,
                   fault>>

DriverFree == DriverCaller \in Task => call[DriverCaller].pc = "idle"

\* ctrl_xfer_done, called by the driver task when it is in no other callback
CtrlXferDone(b) ==
    /\ fault = "none" /\ buffer[b].flight = "finished" /\ DriverFree
    /\ buffer' = [buffer EXCEPT ![b].flight = "idle"]
    /\ ctrl_xfer_done' = TRUE
    /\ UNCHANGED <<device_busy, ctrl_xfer, report_desc, call, fault>>

Next ==
    \/ \E t \in Task :
        \/ \E req \in Requests : Ask(t, req)
        \/ AskDescriptor(t) \/ RecallDescriptor(t)
        \/ TaskNext(t)
    \/ \E b \in Buffer : Complete(b) \/ Stall(b) \/ CtrlXferDone(b)

Spec == Init /\ [][Next]_vars

\* A task in a call goes on: it runs, or the tick ends its wait.  Nothing is
\* asked of the device or of the driver task.
FairSpec == Spec /\ \A t \in Task : WF_vars(TaskNext(t))

-----------------------------------------------------------------------------
\* At most one task is between hid_device_try_lock and hid_device_unlock, also
\* when requests time out and errors return early.
MutualExclusion ==
    \A t \in Task : call[t].pc \in Critical => device_busy = t

\* hid_control_transfer is synchronous: when it reports success, the transfer
\* it submitted has come back.
Synchronous ==
    \A t \in Task : call[t].pc = "done" => buffer[ctrl_xfer].flight = "idle"

\* A GET request that succeeds hands out the answer to this request, and not
\* what another request left in the shared buffer.
OwnAnswer ==
    \A t \in Task :
        call[t].req = "get" /\ call[t].result = "ok" => call[t].got = t

\* The buffer of a transfer in flight is neither written nor freed.
InFlightUntouched ==
    [][\A b \in Buffer : buffer[b].flight = "pending" =>
        /\ buffer'[b].setup = buffer[b].setup
        /\ buffer'[b].live]_vars

\* A request refused because the device is busy is refused on account of a
\* request of another task.
BusyByOther ==
    [][\A t \in Task : call[t].pc = "lock" /\ call'[t].result = "busy" =>
        \E u \in Task \ {t} : call[u].pc \in Critical]_vars

\* actual_num_bytes is reduced in place, and a negative length passes the test
\* before the copy.  However requests fail, time out and share the transfer, the
\* setup packet is subtracted once from each count: a length is negative only
\* because the transfer failed, has not come back, or is not the device's.
CountedOnce ==
    fault = "bad_length" =>
        \E t \in Task :
            /\ call[t].pc = "done"
            /\ LET b == call[t].xfer IN
                \/ buffer[b].actual = "short"
                \/ buffer[b].flight # "idle"
                \/ b # ctrl_xfer

\* Every request returns, as long as the program lives: it is answered, refused
\* or timed out, whatever the device does, also when the driver task itself
\* waits in it.
EveryRequestReturns ==
    \A t \in Task :
        call[t].pc # "idle" ~> call[t].pc = "idle" \/ fault # "none"

\* What the calling tasks see of a request, with no timeout in it.
Phase(t) ==
    CASE call[t].pc \in {"malloc", "lock"} -> "asked"
      [] call[t].pc \in {"resize", "setup"} -> "serving"
      [] call[t].pc \in Critical \ {"resize", "setup"} ->
            IF buffer[call[t].xfer].data = t THEN "answered" ELSE "serving"
      [] call[t].pc = "idle" ->
            CASE call[t].result \in {"none", "cached"} -> "idle"
              [] call[t].result = "ok" -> "ok"
              [] OTHER -> "failed"

Abstract == INSTANCE SyncRequest
              WITH phase <- [t \in Task |-> Phase(t)], holder <- device_busy

\* Without timeouts, the mutex, the shared buffer and the semaphore implement
\* one answered request at a time.
ImplementsSync == Abstract!Spec
=============================================================================

------------------------- MODULE HidDeviceApiProofs -------------------------
(***************************************************************************)
(* Theorems about HidDeviceApi for any tasks, any descriptors of the       *)
(* device and any choice of failing calls.  That a completion finds its    *)
(* interface holds for every application; that the state of an interface   *)
(* tells what it has claimed, and that only a close during a report uses a *)
(* freed transfer, for one that is Serial, because it is not true          *)
(* otherwise.                                                              *)
(***************************************************************************)
EXTENDS HidDeviceApi, TLAPS

-----------------------------------------------------------------------------
(* The inductive invariant of every application.                           *)

\* Where a task may be in a call, and where the driver task may be when it
\* closes an interface.
CallSteps == {"check_open", "claim", "alloc", "set_cb", "check_start",
              "activate", "submit", "disable", "disabled",
              "check_close", "release", "free", "finish"}

CloseSteps == {"check_close", "disable", "disabled", "release", "free", "finish"}

TaskAt(n) ==
    \/ n = Idle
    \/ n.pc \in CallSteps /\ n.op \in Op /\ n.p # <<>>

LookAtList == [pc |-> "gone", op |-> "event", p |-> <<>>]

DriverAt(n) ==
    \/ n = Idle
    \/ n.pc = "report" /\ n.op = "event" /\ n.p # <<>>
    \/ n = LookAtList
    \/ n.pc \in CloseSteps \cup {"shutdown"} /\ n.op \in {"loop", "user"} /\ n.p # <<>>

\* A pointer that is good is to an interface that is listed; between a close
\* and the shutdown the loop has only the handle.
PointsAt(n, list) ==
    n.p \notin {<<>>, Freed} /\ n.pc # "shutdown" => n.p \in list

Calls ==
    /\ call \in [Caller -> CallState]
    /\ \A t \in Task : TaskAt(call[t])
    /\ DriverAt(call[Driver])
    /\ \A c \in Caller : PointsAt(call[c], listed)

\* What there is of a device that is not open.
OpenDevice ==
    /\ opened = {} => claimed = {} /\ listed = {}
    /\ \A d \in Device : port[d] = "absent" => opened = {}
    /\ \A d \in Device : port[d] = "gone" => opened = {d}

\* The message that a device is gone is the last one.
GoneIsLast ==
    \A i \in DOMAIN msgs : msgs[i].event = "DEV_GONE" =>
        i = Len(msgs) /\ \A d \in Device : port[d] = "gone"

\* The driver has been told that the device is gone, and has not closed it.
Down ==
    /\ \A d \in Device : port[d] = "gone"
    /\ \A i \in DOMAIN msgs : msgs[i].event # "DEV_GONE"

\* A transfer that is not back belongs to a listed interface, and none is left
\* when the driver handles the message.
PipesListed ==
    /\ \A p \in Pipe : pipe[p] # "idle" => p \in listed
    /\ (\A d \in Device : port[d] = "gone") => \A p \in Pipe : pipe[p] # "pending"
    /\ Down => \A p \in Pipe : pipe[p] = "idle"

\* Interfaces are shut down only when the device is down.
ShutWhenDown ==
    /\ call[Driver].pc \notin {"idle", "report"} => Down
    /\ \A p \in listed : iface[p].state = "WAIT_USER_DELETION" => Down

Rest ==
    /\ LibTypeOK
    /\ iface \in [Pipe -> Iface]
    /\ listed \subseteq Pipe
    /\ fault \in {"none", "freed_xfer", "dangling", "assert"}

IInv ==
    /\ Rest /\ Calls
    /\ OpenDevice /\ GoneIsLast /\ PipesListed /\ ShutWhenDown
    /\ CompletionFindsInterface

-----------------------------------------------------------------------------
(* Pipes and the one device.                                               *)

LEMMA Pipes ==
    /\ <<>> \notin Pipe /\ Freed \notin Pipe
    /\ \A p \in Pipe : p[1] \in Device
BY DEF Pipe, Freed

LEMMA Alone == ASSUME NEW d \in Device PROVE Device = {d}
BY OneDevice

LEMMA Callers == Driver \in Caller /\ Task \subseteq Caller /\ Driver \notin Task
BY CallerAssumption DEF Caller

LEMMA IdleState == Idle \in CallState /\ TaskAt(Idle) /\ DriverAt(Idle)
                   /\ Idle.pc = "idle" /\ Idle.p = <<>>
BY DEF Idle, CallState, PC, TaskAt, DriverAt

LEMMA GoneState ==
    LookAtList \in CallState /\ DriverAt(LookAtList)
    /\ LookAtList.pc = "gone" /\ LookAtList.p = <<>>
    /\ LookAtList = [Idle EXCEPT !.pc = "gone", !.op = "event"]
<1> DEFINE n == [Idle EXCEPT !.pc = "gone", !.op = "event"]
<1>1. n \in [pc : {"gone"}, op : {"event"}, p : {<<>>}]
  BY DEF Idle
<1>2. \A r \in [pc : {"gone"}, op : {"event"}, p : {<<>>}] : r = LookAtList
  BY DEF LookAtList
<1> QED
  BY <1>1, <1>2 DEF LookAtList, CallState, PC, DriverAt

-----------------------------------------------------------------------------
(* What a caller may go on to.                                             *)

Fits(c, n) ==
    /\ n \in CallState
    /\ c \in Task => TaskAt(n)
    /\ c = Driver => DriverAt(n)

LEMMA CallMoves ==
    ASSUME Calls, NEW c \in Caller, NEW n, Fits(c, n),
           call' = [call EXCEPT ![c] = n],
           listed \subseteq listed', PointsAt(n, listed')
    PROVE  Calls'
<1>1. call' \in [Caller -> CallState]
  BY DEF Calls, Fits
<1>2. \A o \in Caller : call'[o] = IF o = c THEN n ELSE call[o]
  BY DEF Calls
<1>3. \A t \in Task : TaskAt(call'[t])
  BY <1>2, Callers DEF Calls, Fits
<1>4. DriverAt(call'[Driver])
  BY <1>2, Callers DEF Calls, Fits
<1>5. \A o \in Caller : PointsAt(call'[o], listed')
  BY <1>2 DEF Calls, PointsAt
<1> QED
  BY <1>1, <1>3, <1>4, <1>5 DEF Calls

LEMMA GotoFits ==
    ASSUME Calls, NEW c \in Caller, NEW pc \in PC,
           call[c].pc \in CallSteps, call[c].p # Freed,
           pc \in CallSteps, c = Driver => pc \in CloseSteps,
           Goto(c, pc), listed' = listed
    PROVE  Calls' /\ call'[c].pc = pc
<1> DEFINE n == [call[c] EXCEPT !.pc = pc]
<1>1. call[c] \in CallState
  BY DEF Calls
<1>2. n \in CallState /\ n.pc = pc /\ n.op = call[c].op /\ n.p = call[c].p
  BY <1>1 DEF CallState
<1>3. call' = [call EXCEPT ![c] = n]
  BY DEF Goto, Calls
<1>4. c \in Task => TaskAt(n)
  <2>1. c \in Task => call[c].op \in Op /\ call[c].p # <<>>
    BY DEF Calls, TaskAt, Idle, CallSteps
  <2> QED
    BY <2>1, <1>2 DEF TaskAt
<1>5. c = Driver => DriverAt(n)
  <2>1. c = Driver => call[c].op \in {"loop", "user"} /\ call[c].p # <<>>
    BY DEF Calls, DriverAt, Idle, LookAtList, CallSteps
  <2> QED
    BY <2>1, <1>2 DEF DriverAt
<1>6. PointsAt(n, listed)
  BY <1>2 DEF Calls, PointsAt, CallSteps
<1>7. Fits(c, n)
  BY <1>2, <1>4, <1>5 DEF Fits
<1>8. Calls'
  BY <1>3, <1>6, <1>7, CallMoves
<1> QED
  BY <1>8, <1>3, <1>2 DEF Calls

LEMMA ReturnedFits ==
    ASSUME Calls, NEW c \in Caller, NEW ok \in BOOLEAN,
           call[c].pc \in CallSteps \cup {"report"}
    PROVE  /\ Fits(c, Returned(c, ok))
           /\ \A list : PointsAt(Returned(c, ok), list)
           /\ c \in Task => Returned(c, ok) = Idle
           /\ call[c].pc = "report" => Returned(c, ok) = Idle
<1>1. call[c] \in CallState
  BY DEF Calls
<1>2. CASE c \in Task
  <2>1. call[c].op \in Op /\ call[c].pc # "report"
    BY <1>2 DEF Calls, TaskAt, Idle, CallSteps
  <2>2. Returned(c, ok) = Idle
    BY <2>1 DEF Returned, Op
  <2> QED
    BY <1>2, <2>1, <2>2, IdleState, Callers DEF Fits, PointsAt
<1>3. CASE c = Driver
  <2>1. CASE call[c].op = "loop"
    <3>1. call[c].pc # "report" /\ call[c].p # <<>>
      BY <1>3, <2>1 DEF Calls, DriverAt, Idle, LookAtList, CloseSteps
    <3>2. CASE ok
      <4>1. Returned(c, ok) = [call[c] EXCEPT !.pc = "shutdown"]
        BY <2>1, <3>2 DEF Returned
      <4>2. /\ Returned(c, ok) \in CallState
            /\ Returned(c, ok).pc = "shutdown" /\ Returned(c, ok).op = "loop"
            /\ Returned(c, ok).p # <<>>
        BY <4>1, <1>1, <2>1, <3>1 DEF CallState, PC
      <4> QED
        BY <1>3, <3>1, <4>2, Callers DEF Fits, PointsAt, DriverAt
    <3>3. CASE ~ok
      <4>1. Returned(c, ok) = Idle
        BY <2>1, <3>3 DEF Returned
      <4> QED
        BY <1>3, <4>1, IdleState, Callers DEF Fits, PointsAt
    <3> QED
      BY <3>2, <3>3
  <2>2. CASE call[c].op = "user"
    <3>1. call[c].pc # "report"
      BY <1>3, <2>2 DEF Calls, DriverAt, Idle, LookAtList, CloseSteps
    <3>2. Returned(c, ok) = LookAtList
      BY <2>2, GoneState DEF Returned
    <3> QED
      BY <1>3, <3>1, <3>2, GoneState, Callers DEF Fits, PointsAt
  <2>3. CASE call[c].op \notin {"loop", "user"}
    <3>1. Returned(c, ok) = Idle
      BY <2>3 DEF Returned
    <3> QED
      BY <1>3, <3>1, IdleState, Callers DEF Fits, PointsAt
  <2>4. call[c].pc = "report" => call[c].op \notin {"loop", "user"}
    BY <1>3 DEF Calls, DriverAt, Idle, LookAtList, CloseSteps
  <2> QED
    BY <2>1, <2>2, <2>3, <2>4, <1>3, IdleState DEF Returned
<1> QED
  BY <1>2, <1>3 DEF Caller

LEMMA ReturnFits ==
    ASSUME Calls, NEW c \in Caller, NEW ok \in BOOLEAN,
           call[c].pc \in CallSteps \cup {"report"},
           Return(c, ok), listed' = listed
    PROVE  Calls' /\ call'[c] = Returned(c, ok)
<1>1. call' = [call EXCEPT ![c] = Returned(c, ok)]
  BY DEF Return
<1>2. Fits(c, Returned(c, ok)) /\ PointsAt(Returned(c, ok), listed)
  BY ReturnedFits
<1> QED
  BY <1>1, <1>2, CallMoves DEF Calls

LEMMA OnlyTasks ==
    ASSUME Calls, NEW c \in Caller, call[c].pc \in CallSteps \ CloseSteps
    PROVE  c \in Task
<1>1. c # Driver
  BY DEF Calls, DriverAt, Idle, LookAtList, CallSteps, CloseSteps
<1> QED
  BY <1>1 DEF Caller

\* Who points at an interface that is removed has a pointer to freed memory.
LEMMA RemoveFits ==
    ASSUME Calls, NEW c \in Caller, NEW where, Fits(c, where),
           RemoveInterface(c, where), call[c].p \notin {<<>>, Freed},
           where.p = <<>> \/ where.pc = "shutdown"
    PROVE  Calls'
<1> DEFINE Lost(o) == [call[o] EXCEPT !.p = Freed]
<1>1. /\ listed' = listed \ {call[c].p}
      /\ call' = [o \in Caller |->
                    IF o = c THEN where
                    ELSE IF call[o].p = call[c].p THEN Lost(o)
                    ELSE call[o]]
  BY DEF RemoveInterface
<1>2. \A o \in Caller : call[o] \in CallState
  BY DEF Calls
<1>3. Freed # <<>>
  BY DEF Freed
<1>4. ASSUME NEW o \in Caller, call[o].p = call[c].p
      PROVE  /\ Lost(o) \in CallState
             /\ Lost(o).p = Freed /\ Lost(o).pc = call[o].pc /\ Lost(o).op = call[o].op
             /\ call[o] # Idle /\ call[o] # LookAtList
  <2>1. call[o] # Idle /\ call[o] # LookAtList
    BY <1>4 DEF Idle, LookAtList
  <2> QED
    BY <2>1, <1>2 DEF CallState
<1>5. call' \in [Caller -> CallState]
  BY <1>1, <1>2, <1>4 DEF Fits
<1>6. ASSUME NEW t \in Task
      PROVE  TaskAt(call'[t])
  <2>1. t \in Caller /\ TaskAt(call[t])
    BY Callers DEF Calls
  <2>2. CASE t = c
    BY <2>1, <2>2, <1>1 DEF Fits
  <2>3. CASE t # c /\ call[t].p = call[c].p
    <3>1. call'[t] = Lost(t)
      BY <2>1, <2>3, <1>1
    <3> QED
      BY <2>1, <2>3, <3>1, <1>3, <1>4 DEF TaskAt
  <2>4. CASE t # c /\ call[t].p # call[c].p
    BY <2>1, <2>4, <1>1
  <2> QED
    BY <2>2, <2>3, <2>4
<1>7. DriverAt(call'[Driver])
  <2>1. Driver \in Caller /\ DriverAt(call[Driver])
    BY Callers DEF Calls
  <2>2. CASE Driver = c
    BY <2>1, <2>2, <1>1 DEF Fits
  <2>3. CASE Driver # c /\ call[Driver].p = call[c].p
    <3>1. call'[Driver] = Lost(Driver)
      BY <2>1, <2>3, <1>1
    <3> QED
      BY <2>1, <2>3, <3>1, <1>3, <1>4 DEF DriverAt
  <2>4. CASE Driver # c /\ call[Driver].p # call[c].p
    BY <2>1, <2>4, <1>1
  <2> QED
    BY <2>2, <2>3, <2>4
<1>8. ASSUME NEW o \in Caller
      PROVE  PointsAt(call'[o], listed')
  <2>1. CASE o = c
    BY <2>1, <1>1 DEF PointsAt
  <2>2. CASE o # c /\ call[o].p = call[c].p
    BY <2>2, <1>1, <1>4 DEF PointsAt
  <2>3. CASE o # c /\ call[o].p # call[c].p
    BY <2>3, <1>1 DEF PointsAt, Calls
  <2> QED
    BY <2>1, <2>2, <2>3
<1> QED
  BY <1>5, <1>6, <1>7, <1>8 DEF Calls

LEMMA Removed ==
    ASSUME NEW c \in Caller, NEW where, RemoveInterface(c, where)
    PROVE  listed' = listed \ {call[c].p} /\ call'[c] = where
BY DEF RemoveInterface

-----------------------------------------------------------------------------
(* What the steps of a call change.                                        *)

LEMMA GoodPointer ==
    ASSUME IInv, NEW c \in Caller, call[c].pc \in CallSteps \cup {"report"},
           call[c].p # Freed
    PROVE  call[c].p \in listed /\ call[c].p \in Pipe /\ Own(c) \in Iface
<1>1. call[c].p # <<>>
  <2>1. CASE c \in Task
    BY <2>1 DEF IInv, Calls, TaskAt, Idle, CallSteps
  <2>2. CASE c = Driver
    BY <2>2 DEF IInv, Calls, DriverAt, Idle, LookAtList, CallSteps
  <2> QED
    BY <2>1, <2>2 DEF Caller
<1>2. call[c].p \in listed
  BY <1>1 DEF IInv, Calls, PointsAt, CallSteps
<1> QED
  BY <1>2 DEF IInv, Rest, Own

LEMMA CallLeaves ==
    ASSUME NEW c \in Caller, CallNext(c)
    PROVE  /\ UNCHANGED <<port, opened, msgs, plugs>>
           /\ fault = "none"
           /\ \/ UNCHANGED fault /\ call[c].p # Freed /\ call[c].pc \in CallSteps
              \/ /\ fault' \in {"freed_xfer", "dangling"}
                 /\ UNCHANGED <<libVars, iface, listed, call>>
<1> USE DEF libVars, At, CallSteps
<1>1. CASE CheckOpen(c) \/ CheckStart(c) \/ CheckClose(c)
  BY <1>1 DEF CheckOpen, CheckStart, CheckClose
<1>2. CASE Claim(c) \/ Release(c)
  BY <1>2 DEF Claim, Release
<1>3. CASE AllocTransfer(c) \/ AllocTransferFails(c) \/ SetCallback(c)
            \/ Activate(c) \/ Disabled(c) \/ FreeTransfer(c)
  BY <1>3 DEF AllocTransfer, AllocTransferFails, SetCallback, Activate, Disabled,
     FreeTransfer
<1>4. CASE SubmitIn(c) \/ Disable(c)
  BY <1>4 DEF SubmitIn, Disable
<1>5. CASE Finish(c)
  BY <1>5 DEF Finish
<1>6. CASE UseFreedTransfer(c) \/ UseFreed(c)
  BY <1>6 DEF UseFreedTransfer, UseFreed, Crash
<1> QED
  BY <1>1, <1>2, <1>3, <1>4, <1>5, <1>6 DEF CallNext

\* A step of a call that does not end the program.
Sound(c) == CallNext(c) /\ UNCHANGED fault

LEMMA CallClaims ==
    ASSUME NEW c \in Caller, Sound(c)
    PROVE  \/ UNCHANGED claimed
           \/ claimed' = claimed \ {call[c].p}
           \/ ClaimOk(call[c].p) /\ claimed' = claimed \cup {call[c].p}
BY DEF Sound, CallNext, CheckOpen, CheckStart, CheckClose, Claim, Release,
       AllocTransfer, AllocTransferFails, SetCallback, Activate, Disabled, FreeTransfer,
       SubmitIn, Disable, Finish, UseFreedTransfer, UseFreed, Crash, libVars

LEMMA CallPipes ==
    ASSUME NEW c \in Caller, Sound(c)
    PROVE  \/ UNCHANGED pipe
           \/ SubmitOk(call[c].p) /\ pipe' = [pipe EXCEPT ![call[c].p] = "pending"]
           \/ pipe' = [pipe EXCEPT ![call[c].p] =
                         IF @ = "pending" THEN "canceled" ELSE @]
BY DEF Sound, CallNext, CheckOpen, CheckStart, CheckClose, Claim, Release,
       AllocTransfer, AllocTransferFails, SetCallback, Activate, Disabled, FreeTransfer,
       SubmitIn, Disable, Finish, UseFreedTransfer, UseFreed, Crash, libVars

LEMMA CallLists ==
    ASSUME NEW c \in Caller, Sound(c)
    PROVE  \/ UNCHANGED listed
           \/ /\ listed' = listed \ {call[c].p}
              /\ call[c].pc = "finish" /\ call[c].p # Freed
              /\ Own(c).state = "WAIT_USER_DELETION"
              /\ RemoveInterface(c, Returned(c, TRUE))
              /\ UNCHANGED <<libVars, iface>>
BY DEF Sound, CallNext, CheckOpen, CheckStart, CheckClose, Claim, Release,
       AllocTransfer, AllocTransferFails, SetCallback, Activate, Disabled, FreeTransfer,
       SubmitIn, Disable, Finish, UseFreedTransfer, UseFreed, Crash, libVars, At,
       RemoveInterface

LEMMA CallStates ==
    ASSUME IInv, NEW c \in Caller, Sound(c)
    PROVE  \/ UNCHANGED iface
           \/ \E new \in Iface : Set(c, new) /\ new.state # "WAIT_USER_DELETION"
           \/ call[c].pc = "set_cb" /\ Set(c, [Own(c) EXCEPT !.cb = TRUE])
           \/ call[c].pc = "alloc" /\ Set(c, [Own(c) EXCEPT !.leaked = TRUE])
<1>1. CASE AllocTransfer(c)
  <2>1. Own(c) \in Iface
    BY <1>1, GoodPointer DEF AllocTransfer, At, CallSteps
  <2> DEFINE new == [Own(c) EXCEPT !.xfer = "alloc", !.state = "READY"]
  <2>2. new \in Iface /\ new.state = "READY"
    BY <2>1 DEF Iface, State
  <2> QED
    BY <1>1, <2>2 DEF AllocTransfer
<1>2. CASE Activate(c)
  <2>1. Own(c) \in Iface
    BY <1>2, GoodPointer DEF Activate, At, CallSteps
  <2> DEFINE new == [Own(c) EXCEPT !.state = "ACTIVE"]
  <2>2. new \in Iface /\ new.state = "ACTIVE"
    BY <2>1 DEF Iface, State
  <2> QED
    BY <1>2, <2>2 DEF Activate
<1>3. CASE Disabled(c)
  <2>1. Own(c) \in Iface
    BY <1>3, GoodPointer DEF Disabled, At, CallSteps
  <2> DEFINE new == [Own(c) EXCEPT !.state = "READY"]
  <2>2. new \in Iface /\ new.state = "READY"
    BY <2>1 DEF Iface, State
  <2> QED
    BY <1>3, <2>2 DEF Disabled
<1>4. CASE FreeTransfer(c)
  <2>1. Own(c) \in Iface
    BY <1>4, GoodPointer DEF FreeTransfer, At, CallSteps
  <2> DEFINE new == [Own(c) EXCEPT !.xfer = "freed", !.state = "IDLE"]
  <2>2. new \in Iface /\ new.state = "IDLE"
    BY <2>1 DEF Iface, State
  <2> QED
    BY <1>4, <2>2 DEF FreeTransfer
<1>5. CASE SetCallback(c)
  BY <1>5 DEF SetCallback, At
<1>6. CASE AllocTransferFails(c)
  BY <1>6 DEF AllocTransferFails, At
<1> QED
  BY <1>1, <1>2, <1>3, <1>4, <1>5, <1>6
  DEF Sound, CallNext, CheckOpen, CheckStart, CheckClose, Claim, Release,
      SubmitIn, Disable, Finish, UseFreedTransfer, UseFreed, Crash, libVars

-----------------------------------------------------------------------------
(* A step of a call, whoever makes it.                                     *)

LEMMA CallKeepsCalls ==
    ASSUME IInv, NEW c \in Caller, Sound(c)
    PROVE  Calls'
<1> USE DEF At
<1>0. Calls /\ TRUE \in BOOLEAN /\ FALSE \in BOOLEAN
  BY DEF IInv
<1>1. CASE CheckOpen(c)
  <2>1. c # Driver
    BY <1>1, <1>0, OnlyTasks, Callers DEF CheckOpen, CallSteps, CloseSteps
  <2>2. Goto(c, "claim") => Calls'
    BY <1>0, <1>1, <2>1, GotoFits DEF CheckOpen, PC, CallSteps
  <2>3. Return(c, FALSE) => Calls'
    BY <1>0, <1>1, ReturnFits DEF CheckOpen, CallSteps
  <2> QED
    BY <1>1, <2>2, <2>3 DEF CheckOpen
<1>2. CASE Claim(c)
  <2>1. c # Driver
    BY <1>2, <1>0, OnlyTasks, Callers DEF Claim, CallSteps, CloseSteps
  <2>2. Goto(c, "alloc") => Calls'
    BY <1>0, <1>2, <2>1, GotoFits DEF Claim, PC, CallSteps
  <2>3. Return(c, FALSE) => Calls'
    BY <1>0, <1>2, ReturnFits DEF Claim, CallSteps
  <2> QED
    BY <1>2, <2>2, <2>3 DEF Claim
<1>3. CASE AllocTransfer(c)
  <2>1. c # Driver
    BY <1>3, <1>0, OnlyTasks, Callers DEF AllocTransfer, CallSteps, CloseSteps
  <2> QED
    BY <1>0, <1>3, <2>1, GotoFits DEF AllocTransfer, PC, CallSteps
<1>4. CASE SetCallback(c)
  BY <1>0, <1>4, ReturnFits DEF SetCallback, CallSteps
<1>5. CASE CheckStart(c)
  <2>1. c # Driver
    BY <1>5, <1>0, OnlyTasks, Callers DEF CheckStart, CallSteps, CloseSteps
  <2>2. Goto(c, "activate") => Calls'
    BY <1>0, <1>5, <2>1, GotoFits DEF CheckStart, PC, CallSteps
  <2>3. Return(c, FALSE) => Calls'
    BY <1>0, <1>5, ReturnFits DEF CheckStart, CallSteps
  <2> QED
    BY <1>5, <2>2, <2>3 DEF CheckStart
<1>6. CASE Activate(c)
  <2>1. c # Driver
    BY <1>6, <1>0, OnlyTasks, Callers DEF Activate, CallSteps, CloseSteps
  <2> QED
    BY <1>0, <1>6, <2>1, GotoFits DEF Activate, PC, CallSteps
<1>7. CASE SubmitIn(c)
  BY <1>0, <1>7, ReturnFits DEF SubmitIn, CallSteps
<1>8. CASE Disable(c)
  <2>2. Goto(c, "disabled") => Calls'
    BY <1>0, <1>8, GotoFits DEF Disable, PC, CallSteps, CloseSteps
  <2>3. Return(c, FALSE) => Calls'
    BY <1>0, <1>8, ReturnFits DEF Disable, CallSteps
  <2> QED
    BY <1>8, <2>2, <2>3 DEF Disable
<1>9. CASE Disabled(c)
  <2>2. Goto(c, "release") => Calls'
    BY <1>0, <1>9, GotoFits DEF Disabled, PC, CallSteps, CloseSteps
  <2>3. Return(c, TRUE) => Calls'
    BY <1>0, <1>9, ReturnFits DEF Disabled, CallSteps
  <2> QED
    BY <1>9, <2>2, <2>3 DEF Disabled
<1>10. CASE CheckClose(c)
  <2>1. Goto(c, "disable") => Calls'
    BY <1>0, <1>10, GotoFits DEF CheckClose, PC, CallSteps, CloseSteps
  <2>2. Goto(c, "release") => Calls'
    BY <1>0, <1>10, GotoFits DEF CheckClose, PC, CallSteps, CloseSteps
  <2> QED
    BY <1>10, <2>1, <2>2 DEF CheckClose
<1>11. CASE Release(c)
  <2>1. Goto(c, "finish") => Calls'
    BY <1>0, <1>11, GotoFits DEF Release, PC, CallSteps, CloseSteps
  <2>2. Goto(c, "free") => Calls'
    BY <1>0, <1>11, GotoFits DEF Release, PC, CallSteps, CloseSteps
  <2>3. Return(c, FALSE) => Calls'
    BY <1>0, <1>11, ReturnFits DEF Release, CallSteps
  <2> QED
    BY <1>11, <2>1, <2>2, <2>3 DEF Release
<1>12. CASE FreeTransfer(c)
  BY <1>0, <1>12, GotoFits DEF FreeTransfer, PC, CallSteps, CloseSteps
<1>13. CASE Finish(c)
  <2>1. Return(c, TRUE) /\ UNCHANGED listed => Calls'
    BY <1>0, <1>13, ReturnFits DEF Finish, CallSteps
  <2>2. ASSUME RemoveInterface(c, Returned(c, TRUE))
        PROVE  Calls'
    <3>1. call[c].pc = "finish" /\ call[c].p \notin {<<>>, Freed}
      BY <1>13, GoodPointer, Pipes DEF Finish, CallSteps
    <3>2. Fits(c, Returned(c, TRUE)) /\ PointsAt(Returned(c, TRUE), {})
      BY <1>0, <3>1, ReturnedFits DEF CallSteps
    <3>3. Returned(c, TRUE).p = <<>> \/ Returned(c, TRUE).pc = "shutdown"
      <4>1. call[c].op = "loop" => Returned(c, TRUE) = [call[c] EXCEPT !.pc = "shutdown"]
        BY DEF Returned
      <4>2. call[c].op = "user" => Returned(c, TRUE) = LookAtList
        BY GoneState DEF Returned
      <4>3. call[c].op \notin {"loop", "user"} => Returned(c, TRUE) = Idle
        BY DEF Returned
      <4>4. call[c] \in CallState
        BY <1>0 DEF Calls
      <4> QED
        BY <4>1, <4>2, <4>3, <4>4, IdleState, GoneState DEF CallState
    <3> QED
      BY <1>0, <2>2, <3>1, <3>2, <3>3, RemoveFits
  <2> QED
    BY <1>13, <2>1, <2>2 DEF Finish
<1>14. CASE UseFreedTransfer(c) \/ UseFreed(c)
  BY <1>14 DEF Sound, UseFreedTransfer, UseFreed, Crash
<1>15. CASE AllocTransferFails(c)
  BY <1>0, <1>15, ReturnFits DEF AllocTransferFails, CallSteps
<1> QED
  BY <1>1, <1>2, <1>3, <1>4, <1>5, <1>6, <1>7, <1>8, <1>9, <1>10, <1>11,
     <1>12, <1>13, <1>14, <1>15
  DEF Sound, CallNext

\* A step of a call leaves other callers where they are; a removal takes their
\* pointers away.
LEMMA OthersStay ==
    ASSUME IInv, NEW c \in Caller, Sound(c), NEW o \in Caller \ {c}
    PROVE  /\ call'[o].pc = call[o].pc /\ call'[o].op = call[o].op
           /\ \/ call'[o] = call[o]
              \/ /\ call[o].p = call[c].p /\ call'[o].p = Freed
                 /\ Own(c).state = "WAIT_USER_DELETION"
                 /\ call[c].pc = "finish" /\ call[c].p # Freed
<1> USE DEF At
<1>0. call \in [Caller -> CallState]
  BY DEF IInv, Calls
<1>1. ASSUME NEW pc, Goto(c, pc)
      PROVE  call'[o] = call[o]
  BY <1>0, <1>1 DEF Goto
<1>2. ASSUME NEW ok, Return(c, ok)
      PROVE  call'[o] = call[o]
  BY <1>0, <1>2 DEF Return
<1>3. CASE Finish(c) /\ RemoveInterface(c, Returned(c, TRUE))
           /\ Own(c).state = "WAIT_USER_DELETION"
  <2>1. call'[o] = IF call[o].p = call[c].p THEN [call[o] EXCEPT !.p = Freed]
                   ELSE call[o]
    BY <1>3 DEF RemoveInterface
  <2>2. call[o] \in CallState
    BY <1>0
  <2> QED
    BY <1>3, <2>1, <2>2 DEF Finish, CallState
<1>4. CASE Finish(c) /\ Return(c, TRUE)
  BY <1>2, <1>4
<1> QED
  BY <1>1, <1>2, <1>3, <1>4
  DEF Sound, CallNext, CheckOpen, CheckStart, CheckClose, Claim, Release,
      AllocTransfer, AllocTransferFails, SetCallback, Activate, Disabled, FreeTransfer,
      SubmitIn, Disable, Finish, UseFreedTransfer, UseFreed, Crash, libVars

\* A device that is down stays so in a call, and calls do not take it down.
LEMMA CallKeepsDown ==
    ASSUME NEW c \in Caller, CallNext(c)
    PROVE  Down' <=> Down
BY CallLeaves DEF Down

LEMMA CallStep ==
    ASSUME IInv, NEW c \in Caller, CallNext(c)
    PROVE  IInv'
<1>1. UNCHANGED <<port, opened, msgs, plugs>>
  BY CallLeaves
<1>d. Down' <=> Down
  BY CallKeepsDown
<1>2. CASE ~UNCHANGED fault
  <2>1. fault' \in {"freed_xfer", "dangling"} /\ UNCHANGED <<libVars, iface, listed, call>>
    BY <1>2, CallLeaves
  <2> QED
    BY <2>1 DEF IInv, Rest, Calls, OpenDevice, GoneIsLast, PipesListed,
       ShutWhenDown, CompletionFindsInterface, Down, LibTypeOK, libVars, PointsAt
<1>3. CASE UNCHANGED fault
  <2>s. Sound(c)
    BY <1>3 DEF Sound
  <2>g. call[c].pc \in CallSteps /\ call[c].p \in listed /\ call[c].p \in Pipe
        /\ Own(c) \in Iface
    <3>1. call[c].pc \in CallSteps /\ call[c].p # Freed
      BY <1>3, CallLeaves
    <3> QED
      BY <3>1, GoodPointer
  <2> DEFINE q == call[c].p
  <2>l. listed' \subseteq listed
        /\ (listed' # listed => listed' = listed \ {q} /\ UNCHANGED <<libVars, iface>> /\ Down)
    <3>1. ASSUME Own(c).state = "WAIT_USER_DELETION"
          PROVE  Down
      BY <3>1, <2>g DEF IInv, ShutWhenDown, Own
    <3> QED
      BY <3>1, <2>s, CallLists
  <2>p. pipe' \in [Pipe -> {"idle", "pending"} \cup Finished]
        /\ \A p \in Pipe : /\ pipe'[p] # "idle" => pipe[p] # "idle" \/ p \in listed
                           /\ pipe'[p] = "pending" => \/ pipe[p] = "pending"
                                                      \/ SubmitOk(p)
                           /\ pipe'[p] # "idle" => pipe[p] # "idle" \/ SubmitOk(p)
    <3>0. pipe \in [Pipe -> {"idle", "pending"} \cup Finished]
      BY DEF IInv, Rest, LibTypeOK
    <3>1. CASE UNCHANGED pipe
      BY <3>0, <3>1
    <3>2. CASE SubmitOk(q) /\ pipe' = [pipe EXCEPT ![q] = "pending"]
      BY <3>0, <3>2, <2>g
    <3>3. CASE pipe' = [pipe EXCEPT ![q] = IF @ = "pending" THEN "canceled" ELSE @]
      BY <3>0, <3>3, <2>g DEF Finished
    <3> QED
      BY <3>1, <3>2, <3>3, <2>s, CallPipes
  <2>c. claimed' \subseteq Pipe /\ (opened = {} => claimed' = {})
    <3>1. ClaimOk(q) => opened # {}
      BY DEF ClaimOk
    <3>2. claimed \subseteq Pipe /\ (opened = {} => claimed = {})
      BY DEF IInv, Rest, LibTypeOK, OpenDevice
    <3> QED
      BY <3>1, <3>2, <2>s, <2>g, CallClaims
  <2> DEFINE Kept == /\ iface' \in [Pipe -> Iface]
                     /\ \A p \in Pipe : iface'[p].state = "WAIT_USER_DELETION" =>
                                        iface[p].state = "WAIT_USER_DELETION"
  <2>i. Kept
    <3>0. iface \in [Pipe -> Iface]
      BY DEF IInv, Rest
    <3>1. CASE UNCHANGED iface
      BY <3>0, <3>1
    <3>2. ASSUME \E new \in Iface : Set(c, new) /\ new.state # "WAIT_USER_DELETION"
          PROVE  Kept
      <4>1. PICK new \in Iface : Set(c, new) /\ new.state # "WAIT_USER_DELETION"
        BY <3>2
      <4> QED
        BY <3>0, <4>1 DEF Set
    <3>3. ASSUME Set(c, [Own(c) EXCEPT !.cb = TRUE])
          PROVE  Kept
      <4>1. [Own(c) EXCEPT !.cb = TRUE] \in Iface
            /\ [Own(c) EXCEPT !.cb = TRUE].state = Own(c).state
        BY <2>g DEF Iface
      <4> QED
        BY <3>0, <3>3, <4>1 DEF Set, Own
    <3>4. ASSUME Set(c, [Own(c) EXCEPT !.leaked = TRUE])
          PROVE  Kept
      <4>1. [Own(c) EXCEPT !.leaked = TRUE] \in Iface
            /\ [Own(c) EXCEPT !.leaked = TRUE].state = Own(c).state
        BY <2>g DEF Iface
      <4> QED
        BY <3>0, <3>4, <4>1 DEF Set, Own
    <3> HIDE DEF Kept
    <3> QED
      BY <3>1, <3>2, <3>3, <3>4, <2>s, CallStates
  <2>1. Rest'
    BY <1>1, <1>3, <2>l, <2>p, <2>c, <2>i DEF IInv, Rest, LibTypeOK
  <2>2. Calls'
    BY <2>s, CallKeepsCalls
  <2>3. OpenDevice'
    BY <1>1, <2>l, <2>c DEF IInv, OpenDevice
  <2>4. GoneIsLast'
    BY <1>1 DEF IInv, GoneIsLast
  <2>5. PipesListed'
    <3>1. \A p \in Pipe : SubmitOk(p) => \A d \in Device : port[d] # "gone"
      <4> SUFFICES ASSUME NEW p \in Pipe, SubmitOk(p)
                   PROVE  \A d \in Device : port[d] # "gone"
        OBVIOUS
      <4>1. p[1] \in Device /\ port[p[1]] = "attached"
        BY Pipes DEF SubmitOk
      <4> QED
        BY <4>1, Alone
    <3>2. \E d \in Device : TRUE
      BY OneDevice
    <3>3. PipesListed
      BY DEF IInv
    <3>4. CASE UNCHANGED listed
      <4>1. \A p \in Pipe : pipe'[p] # "idle" => p \in listed
        BY <3>3, <2>p DEF PipesListed
      <4>2. (\A d \in Device : port[d] = "gone") => \A p \in Pipe : pipe'[p] # "pending"
        BY <3>1, <3>2, <3>3, <2>p DEF PipesListed
      <4>3. Down => \A p \in Pipe : pipe'[p] = "idle"
        BY <3>1, <3>2, <3>3, <2>p DEF PipesListed, Down
      <4> QED
        BY <1>1, <1>d, <3>4, <4>1, <4>2, <4>3 DEF PipesListed
    <3>5. CASE ~UNCHANGED listed
      BY <1>1, <1>d, <3>3, <3>5, <2>l DEF PipesListed, libVars
    <3> QED
      BY <3>4, <3>5
  <2>6. ShutWhenDown'
    <3>1. call'[Driver].pc \notin {"idle", "report"} => Down
      <4>1. CASE c = Driver
        <5>1. call[Driver].pc \notin {"idle", "report"}
          BY <4>1, <2>g DEF CallSteps
        <5> QED
          BY <5>1 DEF IInv, ShutWhenDown
      <4>2. CASE c # Driver
        <5>1. call'[Driver].pc = call[Driver].pc
          BY <4>2, <2>s, OthersStay, Callers
        <5> QED
          BY <5>1 DEF IInv, ShutWhenDown
      <4> QED
        BY <4>1, <4>2
    <3>2. \A p \in listed' : iface'[p].state = "WAIT_USER_DELETION" => Down
      BY <2>l, <2>i DEF IInv, ShutWhenDown, Rest
    <3> QED
      BY <1>d, <3>1, <3>2 DEF ShutWhenDown
  <2> QED
    BY <1>3, <2>1, <2>2, <2>3, <2>4, <2>5, <2>6 DEF IInv, CompletionFindsInterface
<1> QED
  BY <1>2, <1>3
-----------------------------------------------------------------------------
(* The other steps.                                                        *)

LEMMA InitInv == Init => IInv
<1> SUFFICES ASSUME Init
             PROVE  IInv
  OBVIOUS
<1> USE DEF Init, LibInit
<1>1. Rest
  <2>1. [NewIface EXCEPT !.state = "NOT_INITIALIZED"] \in Iface
    BY DEF NewIface, Iface, State
  <2> QED
    BY <2>1, LibAssumption DEF Rest, LibTypeOK
<1>2. Calls
  BY IdleState, Callers DEF Calls, PointsAt
<1>3. OpenDevice
  BY DEF OpenDevice
<1>4. GoneIsLast /\ PipesListed
  BY DEF GoneIsLast, PipesListed
<1>5. ShutWhenDown
  BY IdleState, Callers DEF ShutWhenDown
<1> QED
  BY <1>1, <1>2, <1>3, <1>4, <1>5 DEF IInv, CompletionFindsInterface

LEMMA AskStep ==
    ASSUME IInv, NEW t \in Task, NEW op \in Op, NEW p \in Pipe, Ask(t, op, p)
    PROVE  IInv'
<1> DEFINE n == [pc |-> FirstStep[op], op |-> op, p |-> p]
<1>1. FirstStep[op] \in CallSteps /\ FirstStep[op] \in PC
  BY DEF FirstStep, Op, CallSteps, PC
<1>2. n \in CallState /\ TaskAt(n)
  BY <1>1, Pipes DEF CallState, TaskAt
<1>3. t \in Caller /\ t # Driver
  BY Callers
<1>4. Fits(t, n) /\ PointsAt(n, listed) /\ call' = [call EXCEPT ![t] = n]
  BY <1>2, <1>3 DEF Fits, PointsAt, Ask
<1>5. UNCHANGED <<libVars, iface, listed, fault>>
  BY DEF Ask
<1>6. Calls'
  BY <1>3, <1>4, <1>5, CallMoves DEF IInv
<1>7. call'[Driver] = call[Driver]
  BY <1>3, <1>4, Callers DEF IInv, Calls
<1>8. Down' <=> Down
  BY <1>5 DEF Down, libVars
<1>9. Rest'
  BY <1>5 DEF IInv, Rest, LibTypeOK, libVars
<1>10. OpenDevice' /\ GoneIsLast'
  BY <1>5 DEF IInv, OpenDevice, GoneIsLast, libVars
<1>11. PipesListed' /\ ShutWhenDown'
  BY <1>5, <1>7, <1>8 DEF IInv, PipesListed, ShutWhenDown, libVars
<1> QED
  BY <1>5, <1>6, <1>9, <1>10, <1>11 DEF IInv, CompletionFindsInterface

\* What Tail and Append do to the messages.
LEMMA Messages ==
    ASSUME msgs \in Seq(Message)
    PROVE  /\ msgs # <<>> => /\ Tail(msgs) \in Seq(Message)
                             /\ Len(Tail(msgs)) = Len(msgs) - 1
                             /\ \A i \in DOMAIN Tail(msgs) :
                                   /\ Tail(msgs)[i] = msgs[i + 1]
                                   /\ i + 1 \in DOMAIN msgs
                             /\ Head(msgs) = msgs[1] /\ 1 \in DOMAIN msgs
           /\ \A m \in Message : /\ Append(msgs, m) \in Seq(Message)
                                 /\ Len(Append(msgs, m)) = Len(msgs) + 1
                                 /\ \A i \in DOMAIN Append(msgs, m) :
                                       \/ i \in DOMAIN msgs
                                          /\ Append(msgs, m)[i] = msgs[i]
                                       \/ i = Len(msgs) + 1
                                          /\ Append(msgs, m)[i] = m
           /\ DOMAIN msgs = 1..Len(msgs) /\ Len(msgs) \in Nat
<1>1. msgs # <<>> => Tail(msgs) \in Seq(Message) /\ Len(Tail(msgs)) = Len(msgs) - 1
                     /\ Head(msgs) = msgs[1] /\ 1 \in DOMAIN msgs
  OBVIOUS
<1>2. msgs # <<>> => \A i \in DOMAIN Tail(msgs) :
         Tail(msgs)[i] = msgs[i + 1] /\ i + 1 \in DOMAIN msgs
  OBVIOUS
<1>3. ASSUME NEW m \in Message
      PROVE  /\ Append(msgs, m) \in Seq(Message)
             /\ Len(Append(msgs, m)) = Len(msgs) + 1
             /\ \A i \in DOMAIN Append(msgs, m) :
                   \/ i \in DOMAIN msgs /\ Append(msgs, m)[i] = msgs[i]
                   \/ i = Len(msgs) + 1 /\ Append(msgs, m)[i] = m
  OBVIOUS
<1>4. DOMAIN msgs = 1..Len(msgs) /\ Len(msgs) \in Nat
  OBVIOUS
<1> QED
  BY <1>1, <1>2, <1>3, <1>4

LEMMA NewDeviceStep ==
    ASSUME IInv, NewDevice
    PROVE  IInv'
<1> DEFINE e == Head(msgs).dev
           found == {p \in Pipe : p[1] = e /\ Desc(p).hid /\ Desc(p).usable}
<1>0. msgs \in Seq(Message) /\ msgs # <<>> /\ msgs' = Tail(msgs)
  BY DEF IInv, Rest, LibTypeOK, NewDevice, Deliverable
<1>1. e \in Device
  <2>1. Head(msgs) \in Message
    BY <1>0
  <2> QED
    BY <2>1 DEF Message
<1>2. UNCHANGED <<port, claimed, pipe, plugs, call, fault>>
  BY DEF NewDevice
<1>3. call[Driver].pc = "idle" /\ fault = "none"
  BY DEF NewDevice, At
<1>4. \/ UNCHANGED <<opened, listed, iface>>
      \/ /\ OpenOk(e)
         /\ opened' = opened \cup {e}
         /\ listed' = listed \cup found
         /\ iface' = [p \in Pipe |-> IF p \in found THEN NewIface ELSE iface[p]]
  BY DEF NewDevice
<1>5. OpenOk(e) => /\ opened = {} /\ \A d \in Device : port[d] = "attached"
                   /\ opened' \subseteq Device
  <2>1. opened \subseteq Device
    BY DEF IInv, Rest, LibTypeOK
  <2> QED
    BY <1>1, <1>4, <2>1, Alone DEF OpenOk
<1>6. NewIface \in Iface /\ NewIface.state = "IDLE"
  BY DEF NewIface, Iface, State
<1>7. listed \subseteq listed' /\ found \subseteq Pipe
  BY <1>4
<1>8. Rest'
  <2>1. msgs' \in Seq(Message)
    BY <1>0, Messages
  <2>2. opened' \subseteq Device
    BY <1>4, <1>5 DEF IInv, Rest, LibTypeOK
  <2>3. iface' \in [Pipe -> Iface] /\ listed' \subseteq Pipe
    BY <1>4, <1>6 DEF IInv, Rest
  <2> QED
    BY <1>2, <2>1, <2>2, <2>3 DEF IInv, Rest, LibTypeOK
<1>9. Calls'
  BY <1>2, <1>7 DEF IInv, Calls, PointsAt
<1>10. OpenDevice'
  <2>1. CASE UNCHANGED <<opened, listed, iface>>
    BY <1>2, <2>1 DEF IInv, OpenDevice
  <2>2. CASE OpenOk(e) /\ opened' = opened \cup {e}
    <3>1. opened' # {} /\ \A d \in Device : port[d] = "attached"
      BY <1>5, <2>2
    <3> QED
      BY <1>2, <3>1 DEF OpenDevice
  <2> QED
    BY <1>4, <2>1, <2>2
<1>11. GoneIsLast'
  <2>1. ASSUME NEW i \in DOMAIN msgs', msgs'[i].event = "DEV_GONE"
        PROVE  i = Len(msgs') /\ \A d \in Device : port[d] = "gone"
    <3>1. msgs'[i] = msgs[i + 1] /\ i + 1 \in DOMAIN msgs /\ Len(msgs') = Len(msgs) - 1
      BY <1>0, Messages
    <3>2. i + 1 = Len(msgs) /\ \A d \in Device : port[d] = "gone"
      BY <2>1, <3>1 DEF IInv, GoneIsLast
    <3>3. i \in Nat /\ Len(msgs) \in Nat
      BY <1>0, Messages
    <3> QED
      BY <3>1, <3>2, <3>3
  <2> QED
    BY <1>2, <2>1 DEF GoneIsLast
<1>12. Down' => Down
  <2>1. ASSUME Down'
        PROVE  Down
    <3>1. \A d \in Device : port[d] = "gone"
      BY <1>2, <2>1 DEF Down
    <3>2. Head(msgs).event = "NEW_DEV"
      BY DEF NewDevice, Deliverable
    <3>3. ASSUME NEW i \in DOMAIN msgs, msgs[i].event = "DEV_GONE"
          PROVE  FALSE
      <4>1. i = Len(msgs) /\ i # 1 /\ i \in 1..Len(msgs)
        BY <1>0, <3>2, <3>3, Messages DEF IInv, GoneIsLast
      <4>2. i - 1 \in DOMAIN Tail(msgs)
        BY <1>0, <4>1
      <4>3. Tail(msgs)[i - 1] = msgs[(i - 1) + 1]
        BY <1>0, <4>2, Messages
      <4>4. (i - 1) + 1 = i
        BY <4>1
      <4> QED
        BY <1>0, <2>1, <3>3, <4>2, <4>3, <4>4 DEF Down
    <3> QED
      BY <3>1, <3>3 DEF Down
  <2> QED
    BY <2>1
<1>13. PipesListed'
  BY <1>2, <1>7, <1>12 DEF IInv, PipesListed
<1>14. ShutWhenDown'
  <2>1. Down => Down'
    <3>1. Down => \A i \in DOMAIN Tail(msgs) : Tail(msgs)[i].event # "DEV_GONE"
      BY <1>0, Messages DEF Down
    <3> QED
      BY <1>0, <1>2, <3>1 DEF Down
  <2>2. \A p \in listed' : iface'[p].state = "WAIT_USER_DELETION" =>
            p \in listed /\ iface[p].state = "WAIT_USER_DELETION"
    BY <1>4, <1>6, <1>8 DEF Rest
  <2> QED
    BY <1>2, <1>3, <2>1, <2>2 DEF IInv, ShutWhenDown
<1> QED
  BY <1>2, <1>8, <1>9, <1>10, <1>11, <1>13, <1>14 DEF IInv, CompletionFindsInterface

\* A step of the driver task that moves only it.
LEMMA DriverMoves ==
    ASSUME IInv, NEW n, n \in CallState, DriverAt(n), PointsAt(n, listed),
           call' = [call EXCEPT ![Driver] = n], listed' = listed
    PROVE  Calls' /\ call'[Driver] = n
<1>1. Fits(Driver, n)
  BY Callers DEF Fits
<1>2. Calls'
  BY <1>1, Callers, CallMoves DEF IInv
<1> QED
  BY <1>2, Callers DEF IInv, Calls

LEMMA DeviceGoneStep ==
    ASSUME IInv, DeviceGone
    PROVE  IInv'
<1>0. msgs \in Seq(Message) /\ msgs # <<>> /\ msgs' = Tail(msgs)
      /\ Head(msgs).event = "DEV_GONE"
  BY DEF IInv, Rest, LibTypeOK, DeviceGone, Deliverable
<1>1. UNCHANGED <<port, opened, claimed, pipe, plugs, iface, listed, fault>>
  BY DEF DeviceGone
<1>2. call' = [call EXCEPT ![Driver] = LookAtList]
  BY GoneState DEF DeviceGone
<1>3. Calls' /\ call'[Driver] = LookAtList
  BY <1>1, <1>2, GoneState, DriverMoves DEF PointsAt
<1>4. Len(msgs) = 1 /\ \A d \in Device : port[d] = "gone"
  BY <1>0, Messages DEF IInv, GoneIsLast
<1>5. msgs' = <<>>
  BY <1>0, <1>4
<1>6. Down'
  BY <1>1, <1>4, <1>5 DEF Down
<1>7. \A p \in Pipe : pipe[p] = "idle"
  <2>1. ASSUME NEW p \in Pipe
        PROVE  pipe[p] = "idle"
    <3>1. Head(msgs).dev \in Device
      <4>1. Head(msgs) \in Message
        BY <1>0
      <4> QED
        BY <4>1 DEF Message
    <3>2. p[1] = Head(msgs).dev
      BY <3>1, Pipes, Alone
    <3>3. pipe[p] \notin Finished
      BY <3>2 DEF DeviceGone, Deliverable
    <3>4. pipe[p] # "pending"
      BY <1>4 DEF IInv, PipesListed
    <3>5. pipe[p] \in {"idle", "pending"} \cup Finished
      BY DEF IInv, Rest, LibTypeOK
    <3> QED
      BY <3>3, <3>4, <3>5
  <2> QED
    BY <2>1
<1>8. Rest'
  BY <1>1, <1>5 DEF IInv, Rest, LibTypeOK
<1>9. OpenDevice' /\ GoneIsLast'
  BY <1>1, <1>5 DEF IInv, OpenDevice, GoneIsLast
<1>10. PipesListed' /\ ShutWhenDown'
  BY <1>1, <1>6, <1>7 DEF PipesListed, ShutWhenDown
<1> QED
  BY <1>1, <1>3, <1>8, <1>9, <1>10 DEF IInv, CompletionFindsInterface

LEMMA GoneFirstStep ==
    ASSUME IInv, GoneFirst
    PROVE  IInv'
<1>1. PICK p \in listed :
         call' = [call EXCEPT ![Driver] = [pc |-> "check_close", op |-> "loop", p |-> p]]
  BY DEF GoneFirst
<1> DEFINE n == [pc |-> "check_close", op |-> "loop", p |-> p]
<1>2. UNCHANGED <<libVars, iface, listed, fault>>
  BY DEF GoneFirst
<1>3. p \in Pipe /\ p # <<>>
  BY Pipes DEF IInv, Rest
<1>4. n \in CallState /\ DriverAt(n) /\ PointsAt(n, listed)
  BY <1>3 DEF CallState, PC, DriverAt, PointsAt, CloseSteps
<1>5. Calls'
  BY <1>1, <1>2, <1>4, DriverMoves
<1>6. Down /\ (Down' <=> Down)
  BY <1>2 DEF IInv, ShutWhenDown, GoneFirst, At, Down, libVars
<1>7. Rest'
  BY <1>2 DEF IInv, Rest, LibTypeOK, libVars
<1>8. OpenDevice' /\ GoneIsLast'
  BY <1>2 DEF IInv, OpenDevice, GoneIsLast, libVars
<1>9. PipesListed' /\ ShutWhenDown'
  BY <1>2, <1>6 DEF IInv, PipesListed, ShutWhenDown, libVars
<1> QED
  BY <1>2, <1>5, <1>7, <1>8, <1>9 DEF IInv, CompletionFindsInterface

LEMMA GoneEmptyStep ==
    ASSUME IInv, GoneEmpty
    PROVE  IInv'
<1>1. call' = [call EXCEPT ![Driver] = Idle] /\ listed = {}
      /\ UNCHANGED <<msgs, claimed, pipe, plugs, iface, listed, fault>>
  BY DEF GoneEmpty
<1>2. PICK d \in Device :
         \/ CloseOk(d) /\ opened' = {} /\ port' = [port EXCEPT ![d] = "absent"]
         \/ UNCHANGED <<opened, port>>
  BY DEF GoneEmpty
<1>3. Calls' /\ call'[Driver] = Idle
  BY <1>1, IdleState, DriverMoves DEF PointsAt
<1>4. Down
  BY DEF IInv, ShutWhenDown, GoneEmpty, At
<1>5. Device = {d}
  BY Alone
<1>6. \A p \in Pipe : pipe'[p] = "idle"
  BY <1>1, <1>4 DEF IInv, PipesListed
<1>7. PipesListed' /\ ShutWhenDown'
  BY <1>1, <1>3, <1>6, IdleState DEF PipesListed, ShutWhenDown
<1>8. CASE CloseOk(d) /\ opened' = {} /\ port' = [port EXCEPT ![d] = "absent"]
  <2>1. port' = [port EXCEPT ![d] = "absent"] /\ opened' = {}
    BY <1>8
  <2>2. claimed = {}
    BY <1>8, <1>5, Pipes DEF CloseOk, IInv, Rest, LibTypeOK
  <2>3. port \in [Device -> {"absent", "attached", "gone"}]
    BY DEF IInv, Rest, LibTypeOK
  <2>4. Rest'
    BY <1>1, <2>1, <2>3 DEF IInv, Rest, LibTypeOK
  <2>5. OpenDevice'
    BY <1>1, <1>5, <2>1, <2>2, <2>3 DEF OpenDevice
  <2>6. GoneIsLast'
    BY <1>1, <1>4 DEF GoneIsLast, Down
  <2> QED
    BY <1>1, <1>3, <1>7, <2>4, <2>5, <2>6 DEF IInv, CompletionFindsInterface
<1>9. CASE UNCHANGED <<opened, port>>
  <2>1. Rest' /\ OpenDevice' /\ GoneIsLast'
    BY <1>1, <1>9 DEF IInv, Rest, LibTypeOK, OpenDevice, GoneIsLast
  <2> QED
    BY <1>1, <1>3, <1>7, <2>1 DEF IInv, CompletionFindsInterface
<1> QED
  BY <1>2, <1>8, <1>9

LEMMA ShutdownStep ==
    ASSUME IInv, Shutdown
    PROVE  IInv'
<1> DEFINE p == call[Driver].p
<1>1. call[Driver].pc = "shutdown" /\ UNCHANGED <<libVars, fault>>
  BY DEF Shutdown
<1>l. p \in listed => p \in Pipe /\ p \notin {<<>>, Freed}
  BY Pipes DEF IInv, Rest
<1>2. Down /\ (Down' <=> Down)
  BY <1>1 DEF IInv, ShutWhenDown, Down, libVars
<1>3. GoneIsLast' /\ LibTypeOK'
  BY <1>1 DEF IInv, GoneIsLast, LibTypeOK, Rest, libVars
<1>o. listed' \subseteq listed => OpenDevice'
  BY <1>1 DEF IInv, OpenDevice, libVars
<1>4. CASE p \in listed /\ Own(Driver).cb
  <2> DEFINE new == [Own(Driver) EXCEPT !.state = "WAIT_USER_DELETION"]
             n == [pc |-> "check_close", op |-> "user", p |-> p]
  <2>1. Set(Driver, new) /\ UNCHANGED listed
        /\ call' = [call EXCEPT ![Driver].pc = "check_close", ![Driver].op = "user"]
    BY <1>4 DEF Shutdown
  <2>2. n \in CallState /\ DriverAt(n) /\ PointsAt(n, listed)
    BY <1>4, <1>l DEF CallState, PC, DriverAt, PointsAt, CloseSteps
  <2>3. call' = [call EXCEPT ![Driver] = n]
    <3> DEFINE moved == [call[Driver] EXCEPT !.pc = "check_close", !.op = "user"]
    <3>1. call[Driver] \in CallState /\ call \in [Caller -> CallState]
      BY Callers DEF IInv, Calls
    <3>2. moved \in [pc : {"check_close"}, op : {"user"}, p : {p}]
      BY <3>1 DEF CallState
    <3>3. \A r \in [pc : {"check_close"}, op : {"user"}, p : {p}] : r = n
      OBVIOUS
    <3>4. moved = n
      BY <3>2, <3>3
    <3>5. call' = [call EXCEPT ![Driver] = moved]
      BY <2>1, <3>1
    <3> QED
      BY <3>4, <3>5
  <2>4. Calls'
    BY <2>1, <2>2, <2>3, DriverMoves
  <2>5. new \in Iface
    BY <1>4, <1>l DEF IInv, Rest, Own, Iface, State
  <2>6. Rest'
    BY <1>1, <1>3, <2>1, <2>5 DEF IInv, Rest, Set
  <2>7. PipesListed' /\ ShutWhenDown'
    BY <1>1, <1>2, <2>1 DEF IInv, PipesListed, ShutWhenDown, libVars
  <2> QED
    BY <1>1, <1>3, <1>o, <2>1, <2>4, <2>6, <2>7 DEF IInv, CompletionFindsInterface
<1>5. CASE p \in listed /\ ~Own(Driver).cb
  <2>1. RemoveInterface(Driver, LookAtList) /\ UNCHANGED iface
    BY <1>5, GoneState DEF Shutdown
  <2>2. Fits(Driver, LookAtList)
    BY GoneState, Callers DEF Fits
  <2>3. Calls'
    BY <1>5, <1>l, <2>1, <2>2, GoneState, Callers, RemoveFits DEF IInv
  <2>4. listed' = listed \ {p}
    BY <2>1, Callers, Removed
  <2>5. Rest'
    BY <1>1, <1>3, <2>1, <2>4 DEF IInv, Rest
  <2>6. \A q \in Pipe : pipe'[q] = "idle"
    BY <1>1, <1>2 DEF IInv, PipesListed, libVars
  <2>7. OpenDevice'
    BY <1>o, <2>4
  <2>8. PipesListed' /\ ShutWhenDown'
    BY <1>2, <2>6 DEF PipesListed, ShutWhenDown
  <2> QED
    BY <1>1, <1>3, <2>3, <2>5, <2>7, <2>8 DEF IInv, CompletionFindsInterface
<1>6. CASE p \notin listed
  <2>1. call' = [call EXCEPT ![Driver] = Idle] /\ UNCHANGED <<iface, listed>>
    BY <1>6 DEF Shutdown
  <2>2. Calls' /\ call'[Driver] = Idle
    BY <2>1, IdleState, DriverMoves DEF PointsAt
  <2>3. Rest'
    BY <1>1, <1>3, <2>1 DEF IInv, Rest
  <2>4. PipesListed' /\ ShutWhenDown'
    BY <1>1, <1>2, <2>1 DEF IInv, PipesListed, ShutWhenDown, libVars
  <2> QED
    BY <1>1, <1>3, <1>o, <2>1, <2>2, <2>3, <2>4 DEF IInv, CompletionFindsInterface
<1> QED
  BY <1>4, <1>5, <1>6

LEMMA InXferDoneStep ==
    ASSUME IInv, NEW p \in Pipe, InXferDone(p)
    PROVE  IInv'
<1>1. call[Driver].pc = "idle" /\ pipe[p] \in Finished
      /\ pipe' = [pipe EXCEPT ![p] = "idle"]
      /\ UNCHANGED <<port, opened, msgs, claimed, plugs, iface, listed>>
  BY DEF InXferDone, At
<1>2. p \in listed
  BY <1>1 DEF IInv, PipesListed, Finished
<1>3. UNCHANGED fault
      /\ \/ UNCHANGED call
         \/ call' = [call EXCEPT ![Driver] = [pc |-> "report", op |-> "event", p |-> p]]
  BY <1>2 DEF InXferDone
<1> DEFINE n == [pc |-> "report", op |-> "event", p |-> p]
<1>4. n \in CallState /\ DriverAt(n) /\ PointsAt(n, listed)
  BY <1>2, Pipes DEF CallState, PC, DriverAt, PointsAt
<1>5. Calls' /\ call'[Driver].pc \in {"idle", "report"}
  <2>1. CASE UNCHANGED call
    BY <1>1, <2>1 DEF IInv, Calls
  <2>2. CASE call' = [call EXCEPT ![Driver] = n]
    <3>1. Calls' /\ call'[Driver] = n
      <4> HIDE DEF n
      <4> QED
        BY <1>1, <1>4, <2>2, DriverMoves
    <3> QED
      BY <3>1
  <2> QED
    BY <1>3, <2>1, <2>2
<1>6. Down' <=> Down
  BY <1>1 DEF Down
<1>7. pipe \in [Pipe -> {"idle", "pending"} \cup Finished]
  BY DEF IInv, Rest, LibTypeOK
<1>8. Rest'
  BY <1>1, <1>3, <1>7 DEF IInv, Rest, LibTypeOK
<1>9. OpenDevice' /\ GoneIsLast'
  BY <1>1 DEF IInv, OpenDevice, GoneIsLast
<1>10. PipesListed'
  BY <1>1, <1>6, <1>7 DEF IInv, PipesListed
<1>11. ShutWhenDown'
  BY <1>1, <1>5, <1>6 DEF IInv, ShutWhenDown
<1> QED
  BY <1>3, <1>5, <1>8, <1>9, <1>10, <1>11 DEF IInv, CompletionFindsInterface

LEMMA ResubmitStep ==
    ASSUME IInv, Resubmit
    PROVE  IInv'
<1> DEFINE p == call[Driver].p
<1>1. call[Driver].pc = "report" /\ p # Freed /\ Return(Driver, TRUE)
      /\ UNCHANGED <<port, opened, msgs, claimed, plugs, iface, listed, fault>>
  BY DEF Resubmit, At
<1>2. p \in listed /\ p \in Pipe
  BY <1>1, Callers, GoodPointer
<1>3. Calls' /\ call'[Driver] = Idle
  <2>1. Calls' /\ call'[Driver] = Returned(Driver, TRUE)
    BY <1>1, Callers, ReturnFits DEF IInv
  <2>2. Returned(Driver, TRUE) = Idle
    BY <1>1, Callers, ReturnedFits DEF IInv
  <2> QED
    BY <2>1, <2>2
<1>4. \/ UNCHANGED pipe
      \/ SubmitOk(p) /\ pipe' = [pipe EXCEPT ![p] = "pending"]
  BY DEF Resubmit
<1>5. SubmitOk(p) => \A d \in Device : port[d] # "gone"
  BY <1>2, Pipes, Alone DEF SubmitOk
<1>6. Down' <=> Down
  BY <1>1 DEF Down
<1>7. pipe \in [Pipe -> {"idle", "pending"} \cup Finished]
  BY DEF IInv, Rest, LibTypeOK
<1>8. Rest'
  BY <1>1, <1>4, <1>7 DEF IInv, Rest, LibTypeOK
<1>9. OpenDevice' /\ GoneIsLast'
  BY <1>1 DEF IInv, OpenDevice, GoneIsLast
<1>10. PipesListed'
  <2>1. CASE UNCHANGED pipe
    BY <1>1, <1>6, <2>1 DEF IInv, PipesListed
  <2>2. CASE SubmitOk(p) /\ pipe' = [pipe EXCEPT ![p] = "pending"]
    <3>1. ~Down /\ ~(\A d \in Device : port[d] = "gone")
      BY <1>5, <2>2, OneDevice DEF Down
    <3> QED
      BY <1>1, <1>2, <1>6, <1>7, <2>2, <3>1 DEF IInv, PipesListed
  <2> QED
    BY <1>4, <2>1, <2>2
<1>11. ShutWhenDown'
  BY <1>1, <1>3, <1>6, IdleState DEF IInv, ShutWhenDown
<1> QED
  BY <1>1, <1>3, <1>8, <1>9, <1>10, <1>11 DEF IInv, CompletionFindsInterface

LEMMA BusInv ==
    ASSUME IInv, Bus
    PROVE  IInv'
<1>1. UNCHANGED <<iface, listed, call, fault>>
  BY DEF Bus
<1>2. Calls'
  BY <1>1 DEF IInv, Calls, PointsAt
<1>m. msgs \in Seq(Message) /\ port \in [Device -> {"absent", "attached", "gone"}]
      /\ pipe \in [Pipe -> {"idle", "pending"} \cup Finished] /\ opened \subseteq Device
  BY DEF IInv, Rest, LibTypeOK
<1>3. ASSUME NEW d \in Device, Attach(d)
      PROVE  IInv'
  <2>1. Device = {d} /\ port[d] = "absent" /\ port' = [port EXCEPT ![d] = "attached"]
        /\ plugs < MaxPlug /\ plugs' = plugs + 1
        /\ msgs' = Append(msgs, [event |-> "NEW_DEV", dev |-> d])
        /\ UNCHANGED <<opened, claimed, pipe>>
    BY <1>3, Alone DEF Attach
  <2>2. [event |-> "NEW_DEV", dev |-> d] \in Message
    BY DEF Message
  <2>3. ~Down /\ ~Down' /\ opened = {}
    BY <1>m, <2>1 DEF IInv, Down, OpenDevice
  <2>4. Rest'
    <3>1. plugs' \in 0..MaxPlug
      BY <2>1, LibAssumption DEF IInv, Rest, LibTypeOK
    <3>2. msgs' \in Seq(Message)
      BY <1>m, <2>1, <2>2, Messages
    <3> QED
      BY <1>1, <2>1, <3>1, <3>2 DEF IInv, Rest, LibTypeOK
  <2>5. OpenDevice'
    BY <1>1, <1>m, <2>1, <2>3 DEF IInv, OpenDevice
  <2>6. GoneIsLast'
    <3>1. \A i \in DOMAIN msgs : msgs[i].event # "DEV_GONE"
      BY <2>1 DEF IInv, GoneIsLast
    <3>2. \A i \in DOMAIN msgs' : msgs'[i].event # "DEV_GONE"
      BY <1>m, <2>1, <2>2, <3>1, Messages
    <3> QED
      BY <3>2 DEF GoneIsLast
  <2>7. PipesListed'
    BY <1>1, <1>m, <2>1, <2>3 DEF IInv, PipesListed
  <2>8. ShutWhenDown'
    BY <1>1, <2>3 DEF IInv, ShutWhenDown
  <2> QED
    BY <1>1, <1>2, <2>4, <2>5, <2>6, <2>7, <2>8 DEF IInv, CompletionFindsInterface
<1>4. ASSUME NEW d \in Device, DetachOpen(d)
      PROVE  IInv'
  <2>1. Device = {d} /\ port[d] = "attached" /\ d \in opened
        /\ port' = [port EXCEPT ![d] = "gone"]
        /\ msgs' = Append(msgs, [event |-> "DEV_GONE", dev |-> d])
        /\ pipe' = [p \in Pipe |-> IF p[1] = d /\ pipe[p] = "pending"
                                   THEN "no_device" ELSE pipe[p]]
        /\ UNCHANGED <<opened, claimed, plugs>>
    BY <1>4, Alone DEF DetachOpen
  <2>2. [event |-> "DEV_GONE", dev |-> d] \in Message
    BY DEF Message
  <2>3. ~Down
    BY <2>1 DEF Down
  <2>4. Rest'
    <3>1. msgs' \in Seq(Message)
      BY <1>m, <2>1, <2>2, Messages
    <3>2. pipe' \in [Pipe -> {"idle", "pending"} \cup Finished]
      BY <1>m, <2>1 DEF Finished
    <3> QED
      BY <1>1, <2>1, <3>1, <3>2 DEF IInv, Rest, LibTypeOK
  <2>5. OpenDevice'
    BY <1>1, <1>m, <2>1 DEF IInv, OpenDevice
  <2>6. GoneIsLast'
    <3>1. \A i \in DOMAIN msgs : msgs[i].event # "DEV_GONE"
      BY <2>1 DEF IInv, GoneIsLast
    <3>2. \A i \in DOMAIN msgs' : msgs'[i].event = "DEV_GONE" => i = Len(msgs')
      BY <1>m, <2>1, <2>2, <3>1, Messages
    <3> QED
      BY <1>m, <2>1, <3>2 DEF GoneIsLast
  <2>7. ~Down'
    <3>1. Len(msgs) \in Nat /\ Len(msgs') = Len(msgs) + 1
      BY <1>m, <2>1, <2>2, Messages
    <3>2. Len(msgs') \in DOMAIN msgs'
          /\ msgs'[Len(msgs')] = [event |-> "DEV_GONE", dev |-> d]
      BY <1>m, <2>1, <2>2, <3>1
    <3> QED
      BY <3>2 DEF Down
  <2>8. PipesListed'
    <3>1. \A p \in Pipe : pipe'[p] # "pending" /\ (pipe'[p] # "idle" => pipe[p] # "idle")
      BY <1>m, <2>1, Pipes
    <3> QED
      BY <1>1, <2>7, <3>1 DEF IInv, PipesListed
  <2>9. ShutWhenDown'
    BY <1>1, <2>3 DEF IInv, ShutWhenDown
  <2> QED
    BY <1>1, <1>2, <2>4, <2>5, <2>6, <2>8, <2>9 DEF IInv, CompletionFindsInterface
<1>5. ASSUME NEW d \in Device, DetachUnopened(d)
      PROVE  IInv'
  <2>1. Device = {d} /\ port[d] = "attached" /\ d \notin opened
        /\ port' = [port EXCEPT ![d] = "absent"]
        /\ UNCHANGED <<opened, msgs, claimed, pipe, plugs>>
    BY <1>5, Alone DEF DetachUnopened
  <2>2. ~Down /\ ~Down' /\ opened = {}
    BY <1>m, <2>1 DEF Down
  <2>3. Rest'
    BY <1>1, <1>m, <2>1 DEF IInv, Rest, LibTypeOK
  <2>4. OpenDevice'
    BY <1>1, <1>m, <2>1, <2>2 DEF IInv, OpenDevice
  <2>5. GoneIsLast'
    BY <2>1 DEF IInv, GoneIsLast
  <2>6. PipesListed'
    BY <1>1, <1>m, <2>1, <2>2 DEF IInv, PipesListed
  <2>7. ShutWhenDown'
    BY <1>1, <2>2 DEF IInv, ShutWhenDown
  <2> QED
    BY <1>1, <1>2, <2>3, <2>4, <2>5, <2>6, <2>7 DEF IInv, CompletionFindsInterface
<1>6. ASSUME NEW p \in Pipe, Complete(p)
      PROVE  IInv'
  <2>1. pipe[p] = "pending"
        /\ (pipe' = [pipe EXCEPT ![p] = "completed"]
            \/ pipe' = [pipe EXCEPT ![p] = "error"])
        /\ UNCHANGED <<port, opened, msgs, claimed, plugs>>
    BY <1>6 DEF Complete
  <2>2. ~Down /\ ~Down'
    BY <2>1 DEF IInv, PipesListed, Down
  <2>3. Rest'
    <3>1. pipe' \in [Pipe -> {"idle", "pending"} \cup Finished]
      BY <1>m, <2>1 DEF Finished
    <3> QED
      BY <1>1, <2>1, <3>1 DEF IInv, Rest, LibTypeOK
  <2>4. OpenDevice' /\ GoneIsLast'
    BY <1>1, <2>1 DEF IInv, OpenDevice, GoneIsLast
  <2>5. PipesListed'
    BY <1>1, <1>m, <2>1, <2>2 DEF IInv, PipesListed
  <2>6. ShutWhenDown'
    BY <1>1, <2>2 DEF IInv, ShutWhenDown
  <2> QED
    BY <1>1, <1>2, <2>3, <2>4, <2>5, <2>6 DEF IInv, CompletionFindsInterface
<1> QED
  BY <1>3, <1>4, <1>5, <1>6 DEF Bus

LEMMA StepInv ==
    ASSUME IInv, [Next]_vars
    PROVE  IInv'
<1>1. CASE UNCHANGED vars
  BY <1>1 DEF vars, libVars, IInv, Rest, LibTypeOK, Calls, PointsAt, OpenDevice,
     GoneIsLast, PipesListed, ShutWhenDown, Down, CompletionFindsInterface
<1>2. CASE DriverNext
  BY <1>2, Callers, CallStep, NewDeviceStep, DeviceGoneStep, GoneFirstStep,
     ShutdownStep, GoneEmptyStep, ResubmitStep, InXferDoneStep
  DEF DriverNext
<1>3. ASSUME NEW t \in Task, TaskNext(t)
      PROVE  IInv'
  BY <1>3, Callers, CallStep, AskStep DEF TaskNext
<1>4. CASE Bus
  BY <1>4, BusInv
<1> QED
  BY <1>1, <1>2, <1>3, <1>4 DEF Next

LEMMA Invariance == Spec => []IInv
<1>1. IInv /\ [Next]_vars => IInv'
  BY StepInv
<1> QED
  BY <1>1, InitInv, PTL DEF Spec

\* Every variable keeps its type, whatever tasks call what and however often.
THEOREM TypeCorrect == Spec => []TypeOK
<1>1. IInv => TypeOK
  BY DEF IInv, Rest, Calls, TypeOK
<1> QED
  BY <1>1, Invariance, PTL

\* A completion finds its interface in the list (the assertion of in_xfer_done
\* holds) in whatever order tasks open, start, stop and close, also several at
\* once in one interface, and whenever the device is unplugged.
THEOREM CompletionIsExpected == Spec => []CompletionFindsInterface
<1>1. IInv => CompletionFindsInterface
  BY DEF IInv
<1> QED
  BY <1>1, Invariance, PTL

-----------------------------------------------------------------------------
(* The inductive invariant of an application that is Serial.               *)

\* An interface has one task in it.
OneTask ==
    \A t, u \in Task :
        call[t].p = call[u].p /\ call[t].p \notin {<<>>, Freed} => t = u

\* What an interface has with nobody in a call.
Resting(p) ==
    IF iface[p].state = "IDLE"
    THEN /\ p \in claimed <=> iface[p].leaked
         /\ pipe[p] = "idle" /\ iface[p].xfer # "alloc"
    ELSE /\ iface[p].state \in {"READY", "ACTIVE"}
         /\ p \in claimed /\ ~iface[p].leaked
         /\ iface[p].xfer = "alloc" /\ iface[p].cb

\* What it has when a task is at a step of a call.
Midway(p, pc) ==
    /\ pc \notin {"alloc", "set_cb", "free"} => Resting(p)
    /\ pc = "claim" => iface[p].state = "IDLE"
    /\ pc = "alloc" => /\ iface[p].state = "IDLE" /\ p \in claimed /\ ~iface[p].leaked
                       /\ pipe[p] = "idle" /\ iface[p].xfer # "alloc"
    /\ pc = "set_cb" => /\ iface[p].state = "READY" /\ p \in claimed /\ ~iface[p].leaked
                        /\ iface[p].xfer = "alloc"
    /\ pc = "activate" => iface[p].state = "READY"
    /\ pc \in {"submit", "disabled"} => iface[p].state = "ACTIVE"
    /\ pc = "free" => /\ iface[p].state = "READY" /\ p \notin claimed /\ ~iface[p].leaked
                      /\ pipe[p] = "idle" /\ iface[p].xfer = "alloc"

Accounted(p) ==
    /\ (\A t \in Task : call[t].p # p) => Resting(p)
    /\ \A t \in Task : call[t].p = p => Midway(p, call[t].pc)

AllAccounted == Attached /\ fault = "none" => \A p \in listed : Accounted(p)

SInv == OneTask /\ AllAccounted /\ OnlyReportsRace

LEMMA AttachedUp == Attached => ~Down
BY OneDevice DEF Attached, Down

LEMMA TaskMoves ==
    ASSUME IInv, NEW t \in Task, call[t].pc \in CallSteps
    PROVE  /\ \A pc : Goto(t, pc) => call'[t].pc = pc /\ call'[t].p = call[t].p
           /\ \A ok \in BOOLEAN : Return(t, ok) => call'[t] = Idle
<1>1. t \in Caller /\ call \in [Caller -> CallState] /\ call[t] \in CallState
  BY Callers DEF IInv, Calls
<1>2. \A ok \in BOOLEAN : Returned(t, ok) = Idle
  BY <1>1, ReturnedFits DEF IInv
<1>3. ASSUME NEW pc, Goto(t, pc)
      PROVE  call'[t].pc = pc /\ call'[t].p = call[t].p
  BY <1>1, <1>3 DEF Goto, CallState
<1>4. ASSUME NEW ok \in BOOLEAN, Return(t, ok)
      PROVE  call'[t] = Idle
  BY <1>1, <1>2, <1>4 DEF Return
<1> QED
  BY <1>3, <1>4

\* What a step of a task leaves behind in its interface.
LEMMA TaskAccounts ==
    ASSUME IInv, NEW t \in Task, Sound(t), Attached, NEW q, q = call[t].p,
           Midway(q, call[t].pc)
    PROVE  \/ call'[t] = Idle /\ Resting(q)'
           \/ \E pc \in CallSteps : /\ call'[t].pc = pc /\ call'[t].p = q
                                    /\ Midway(q, pc)'
<1> DEFINE Left == call'[t] = Idle /\ Resting(q)'
           On(pc) == call'[t].pc = pc /\ call'[t].p = q /\ Midway(q, pc)'
<1>c. t \in Caller /\ t # Driver
  BY Callers
<1>0. call[t].pc \in CallSteps /\ q \in listed /\ q \in Pipe /\ q # Freed
      /\ Own(t) = iface[q] /\ iface[q] \in Iface /\ iface \in [Pipe -> Iface]
  <2>1. call[t].pc \in CallSteps /\ call[t].p # Freed
    BY <1>c, CallLeaves DEF Sound
  <2> QED
    BY <1>c, <2>1, GoodPointer DEF Own, IInv, Rest
<1>p. pipe \in [Pipe -> {"idle", "pending"} \cup Finished]
  BY DEF IInv, Rest, LibTypeOK
<1>g. \A pc : Goto(t, pc) => call'[t].pc = pc /\ call'[t].p = q
  BY <1>0, TaskMoves
<1>r. \A ok \in BOOLEAN : Return(t, ok) => call'[t] = Idle
  BY <1>0, TaskMoves
<1>s. UNCHANGED <<iface, claimed, pipe>> => (Resting(q)' <=> Resting(q))
  BY DEF Resting
<1> USE DEF At, CallSteps
<1>1. CASE CheckOpen(t)
  <2>1. Resting(q) /\ UNCHANGED <<iface, claimed, pipe>>
    BY <1>1 DEF CheckOpen, Midway, libVars
  <2>2. Goto(t, "claim") /\ iface[q].state = "IDLE" => On("claim")
    BY <1>g, <1>s, <2>1 DEF Midway
  <2>3. Return(t, FALSE) => Left
    BY <1>r, <1>s, <2>1
  <2> QED
    BY <1>0, <1>1, <2>2, <2>3 DEF CheckOpen
<1>2. CASE Claim(t)
  <2>1. Resting(q) /\ iface[q].state = "IDLE" /\ UNCHANGED <<iface, pipe>>
    BY <1>2 DEF Claim, Midway
  <2>2. Goto(t, "alloc") /\ ClaimOk(q) /\ claimed' = claimed \cup {q} => On("alloc")
    BY <1>g, <2>1 DEF Midway, Resting, ClaimOk
  <2>3. Return(t, FALSE) /\ UNCHANGED claimed => Left
    BY <1>r, <1>s, <2>1
  <2> QED
    BY <1>2, <2>2, <2>3 DEF Claim
<1>3. CASE AllocTransfer(t)
  <2>1. q \in claimed /\ ~iface[q].leaked /\ UNCHANGED <<claimed, pipe>>
        /\ Goto(t, "set_cb")
        /\ iface' = [iface EXCEPT ![q] = [iface[q] EXCEPT !.xfer = "alloc", !.state = "READY"]]
    BY <1>0, <1>3 DEF AllocTransfer, Midway, libVars, Set
  <2>2. iface'[q].xfer = "alloc" /\ iface'[q].state = "READY" /\ ~iface'[q].leaked
    BY <1>0, <2>1 DEF Iface
  <2> QED
    BY <1>g, <2>1, <2>2 DEF Midway
<1>4. CASE SetCallback(t)
  <2>1. q \in claimed /\ ~iface[q].leaked /\ UNCHANGED <<claimed, pipe>>
        /\ Return(t, TRUE)
        /\ iface[q].state = "READY" /\ iface[q].xfer = "alloc"
        /\ iface' = [iface EXCEPT ![q] = [iface[q] EXCEPT !.cb = TRUE]]
    BY <1>0, <1>4 DEF SetCallback, Midway, libVars, Set
  <2>2. iface'[q].xfer = "alloc" /\ iface'[q].state = "READY" /\ iface'[q].cb
        /\ ~iface'[q].leaked
    BY <1>0, <2>1 DEF Iface
  <2> QED
    BY <1>r, <2>1, <2>2 DEF Resting
<1>5. CASE CheckStart(t)
  <2>1. Resting(q) /\ UNCHANGED <<iface, claimed, pipe>>
    BY <1>5 DEF CheckStart, Midway, libVars
  <2>2. Goto(t, "activate") /\ iface[q].state = "READY" => On("activate")
    BY <1>g, <1>s, <2>1 DEF Midway
  <2>3. Return(t, FALSE) => Left
    BY <1>r, <1>s, <2>1
  <2> QED
    BY <1>0, <1>5, <2>2, <2>3 DEF CheckStart
<1>6. CASE Activate(t)
  <2>1. Resting(q) /\ iface[q].state = "READY" /\ UNCHANGED <<claimed, pipe>>
        /\ Goto(t, "submit")
        /\ iface' = [iface EXCEPT ![q] = [iface[q] EXCEPT !.state = "ACTIVE"]]
    BY <1>0, <1>6 DEF Activate, Midway, libVars, Set
  <2>2. iface'[q].xfer = iface[q].xfer /\ iface'[q].state = "ACTIVE"
        /\ iface'[q].cb = iface[q].cb /\ iface'[q].leaked = iface[q].leaked
    BY <1>0, <2>1 DEF Iface
  <2>3. Resting(q)'
    BY <2>1, <2>2 DEF Resting
  <2> QED
    BY <1>g, <2>1, <2>2, <2>3 DEF Midway
<1>7. CASE SubmitIn(t)
  <2>1. Resting(q) /\ iface[q].state = "ACTIVE" /\ UNCHANGED <<claimed, iface>>
        /\ Return(t, TRUE)
    BY <1>7 DEF SubmitIn, Midway
  <2>2. Resting(q)'
    BY <2>1 DEF Resting
  <2> QED
    BY <1>r, <2>1, <2>2
<1>8. CASE Disable(t)
  <2>1. Resting(q) /\ UNCHANGED <<iface, claimed>>
    BY <1>8 DEF Disable, Midway
  <2>2. Goto(t, "disabled") /\ iface[q].state = "ACTIVE" => On("disabled")
    BY <1>g, <2>1 DEF Midway, Resting
  <2>3. Return(t, FALSE) /\ UNCHANGED pipe => Left
    BY <1>r, <1>s, <2>1
  <2> QED
    BY <1>0, <1>8, <2>2, <2>3 DEF Disable
<1>9. CASE Disabled(t)
  <2>1. Resting(q) /\ iface[q].state = "ACTIVE" /\ UNCHANGED <<claimed, pipe>>
        /\ iface' = [iface EXCEPT ![q] = [iface[q] EXCEPT !.state = "READY"]]
    BY <1>0, <1>9 DEF Disabled, Midway, libVars, Set
  <2>2. iface'[q].xfer = iface[q].xfer /\ iface'[q].state = "READY"
        /\ iface'[q].cb = iface[q].cb /\ iface'[q].leaked = iface[q].leaked
    BY <1>0, <2>1 DEF Iface
  <2>3. Resting(q)'
    BY <2>1, <2>2 DEF Resting
  <2>4. Goto(t, "release") => On("release")
    BY <1>g, <2>3 DEF Midway
  <2>5. Return(t, TRUE) => Left
    BY <1>r, <2>3
  <2> QED
    BY <1>9, <2>4, <2>5 DEF Disabled
<1>10. CASE CheckClose(t)
  <2>1. Resting(q) /\ UNCHANGED <<iface, claimed, pipe>>
    BY <1>10 DEF CheckClose, Midway, libVars
  <2>2. Goto(t, "disable") => On("disable")
    BY <1>g, <1>s, <2>1 DEF Midway
  <2>3. Goto(t, "release") => On("release")
    BY <1>g, <1>s, <2>1 DEF Midway
  <2> QED
    BY <1>10, <2>2, <2>3 DEF CheckClose
<1>11. CASE Release(t)
  <2>1. Resting(q) /\ UNCHANGED <<iface, pipe>>
    BY <1>11 DEF Release, Midway
  <2>2. Goto(t, "finish") /\ UNCHANGED claimed => On("finish")
    BY <1>g, <1>s, <2>1 DEF Midway
  <2>3. /\ Goto(t, "free") /\ iface[q].state = "READY" /\ ReleaseOk(q)
        /\ claimed' = claimed \ {q}
        => On("free")
    BY <1>g, <2>1 DEF Midway, Resting, ReleaseOk
  <2>4. Return(t, FALSE) /\ UNCHANGED claimed => Left
    BY <1>r, <1>s, <2>1
  <2> QED
    BY <1>0, <1>11, <2>2, <2>3, <2>4 DEF Release
<1>12. CASE FreeTransfer(t)
  <2>1. q \notin claimed /\ pipe[q] = "idle" /\ ~iface[q].leaked
        /\ UNCHANGED <<claimed, pipe>> /\ Goto(t, "finish")
        /\ iface' = [iface EXCEPT ![q] = [iface[q] EXCEPT !.xfer = "freed", !.state = "IDLE"]]
    BY <1>0, <1>12 DEF FreeTransfer, Midway, libVars, Set
  <2>2. iface'[q].xfer = "freed" /\ iface'[q].state = "IDLE" /\ ~iface'[q].leaked
    BY <1>0, <2>1 DEF Iface
  <2>3. Resting(q)'
    BY <2>1, <2>2 DEF Resting
  <2> QED
    BY <1>g, <2>1, <2>3 DEF Midway
<1>13. CASE Finish(t)
  <2>1. Resting(q) /\ UNCHANGED <<iface, claimed, pipe>>
    BY <1>13 DEF Finish, Midway, libVars
  <2>2. Return(t, TRUE)
    BY <1>0, <1>13, <2>1 DEF Finish, Resting
  <2> QED
    BY <1>r, <1>s, <2>1, <2>2
<1>14. CASE UseFreedTransfer(t) \/ UseFreed(t)
  BY <1>14 DEF Sound, UseFreedTransfer, UseFreed, Crash
<1>15. CASE AllocTransferFails(t)
  <2>1. q \in claimed /\ UNCHANGED <<claimed, pipe>> /\ Return(t, FALSE)
        /\ iface[q].state = "IDLE" /\ pipe[q] = "idle" /\ iface[q].xfer # "alloc"
        /\ iface' = [iface EXCEPT ![q] = [iface[q] EXCEPT !.leaked = TRUE]]
    BY <1>0, <1>15 DEF AllocTransferFails, Midway, libVars, Set
  <2>2. iface'[q].xfer = iface[q].xfer /\ iface'[q].state = "IDLE" /\ iface'[q].leaked
    BY <1>0, <2>1 DEF Iface
  <2>3. Resting(q)'
    BY <2>1, <2>2 DEF Resting
  <2> QED
    BY <1>r, <2>1, <2>3
<1> QED
  BY <1>1, <1>2, <1>3, <1>4, <1>5, <1>6, <1>7, <1>8, <1>9, <1>10, <1>11,
     <1>12, <1>13, <1>14, <1>15
  DEF Sound, CallNext

\* A step of a task touches nothing of another interface.
LEMMA TaskElsewhere ==
    ASSUME IInv, NEW t \in Task, Sound(t), NEW p \in Pipe, p # call[t].p
    PROVE  /\ iface'[p] = iface[p] /\ pipe'[p] = pipe[p]
           /\ p \in claimed' <=> p \in claimed
<1>1. t \in Caller
  BY Callers
<1>2. iface \in [Pipe -> Iface] /\ pipe \in [Pipe -> {"idle", "pending"} \cup Finished]
  BY DEF IInv, Rest, LibTypeOK
<1>3. iface'[p] = iface[p]
  BY <1>1, <1>2, CallStates DEF Set
<1>4. pipe'[p] = pipe[p]
  BY <1>1, <1>2, CallPipes
<1>5. p \in claimed' <=> p \in claimed
  BY <1>1, CallClaims
<1> QED
  BY <1>3, <1>4, <1>5

\* While the device stays no interface is removed by a call.
LEMMA AttachedKeepsList ==
    ASSUME IInv, NEW c \in Caller, Sound(c), Attached
    PROVE  UNCHANGED listed /\ \A o \in Caller \ {c} : call'[o] = call[o]
<1>1. ~Down
  BY AttachedUp
<1>2. call[c].pc = "finish" /\ call[c].p # Freed => Own(c).state # "WAIT_USER_DELETION"
  <2>1. call[c].pc = "finish" /\ call[c].p # Freed => call[c].p \in listed
    BY GoodPointer DEF CallSteps
  <2> QED
    BY <1>1, <2>1 DEF IInv, ShutWhenDown, Own
<1>3. UNCHANGED listed
  BY <1>2, CallLists
<1> QED
  BY <1>2, <1>3, OthersStay

\* The driver task closes nothing while the device stays.
LEMMA AttachedDriver ==
    ASSUME IInv, Attached
    PROVE  call[Driver].pc \in {"idle", "report"} /\ ~Sound(Driver)
<1>1. call[Driver].pc \in {"idle", "report"}
  BY AttachedUp DEF IInv, ShutWhenDown
<1>2. ASSUME Sound(Driver)
      PROVE  call[Driver].pc \in CallSteps
  <2>1. fault = "none" /\ UNCHANGED fault
    BY <1>2, Callers, CallLeaves DEF Sound
  <2> QED
    BY <1>2, <2>1, Callers, CallLeaves DEF Sound
<1> QED
  BY <1>1, <1>2 DEF CallSteps

LEMMA TaskPointer ==
    ASSUME IInv, NEW t \in Task, Sound(t), call[t].pc \in CallSteps
    PROVE  call'[t].p \in {call[t].p, <<>>}
<1>1. \A pc : Goto(t, pc) => call'[t].p = call[t].p
  BY TaskMoves
<1>2. \A ok \in BOOLEAN : Return(t, ok) => call'[t].p = <<>>
  BY TaskMoves, IdleState
<1>3. RemoveInterface(t, Returned(t, TRUE)) => call'[t].p = <<>>
  <2>1. t \in Caller /\ Returned(t, TRUE) = Idle
    BY Callers, ReturnedFits DEF IInv
  <2> QED
    BY <2>1, Removed, IdleState
<1>4. TRUE \in BOOLEAN /\ FALSE \in BOOLEAN
  OBVIOUS
<1> QED
  BY <1>1, <1>2, <1>3, <1>4
  DEF Sound, CallNext, CheckOpen, CheckStart, CheckClose, Claim, Release,
      AllocTransfer, AllocTransferFails, SetCallback, Activate, Disabled, FreeTransfer,
      SubmitIn, Disable, Finish, UseFreedTransfer, UseFreed, Crash, libVars

LEMMA SerialTask ==
    ASSUME IInv, SInv, NEW t \in Task, Sound(t)
    PROVE  OneTask' /\ AllAccounted'
<1>c. t \in Caller /\ \A u \in Task : u \in Caller
  BY Callers
<1>0. call[t].pc \in CallSteps /\ call[t].p # Freed /\ fault = "none"
  BY <1>c, CallLeaves DEF Sound
<1>1. call'[t].p \in {call[t].p, <<>>}
  BY <1>0, TaskPointer
<1>2. OneTask'
  <2>1. \A u \in Task \ {t} : call'[u] = call[u] \/ call'[u].p = Freed
    BY <1>c, OthersStay
  <2> QED
    BY <1>1, <2>1 DEF SInv, OneTask
<1>3. AllAccounted'
  <2> SUFFICES ASSUME Attached', fault' = "none"
               PROVE  \A p \in listed' : Accounted(p)'
    BY DEF AllAccounted
  <2>1. Attached
    BY <1>c, CallLeaves DEF Sound, Attached
  <2>2. UNCHANGED listed /\ \A u \in Task \ {t} : call'[u] = call[u]
    BY <1>c, <2>1, AttachedKeepsList
  <2>3. ASSUME NEW p \in listed
        PROVE  Accounted(p)'
    <3>0. p \in Pipe /\ Accounted(p) /\ p # <<>> /\ p # Freed
      BY <1>0, <2>1, <2>3, Pipes DEF IInv, Rest, SInv, AllAccounted
    <3>1. CASE p = call[t].p
      <4>1. Midway(p, call[t].pc)
        BY <3>0, <3>1 DEF Accounted
      <4>2. \A u \in Task : u # t => call[u].p # p
        BY <3>0, <3>1 DEF SInv, OneTask
      <4>3. \A u \in Task \ {t} : call'[u].p # p
        BY <2>2, <4>2
      <4>4. \/ call'[t] = Idle /\ Resting(p)'
            \/ \E pc \in CallSteps : /\ call'[t].pc = pc /\ call'[t].p = p
                                     /\ Midway(p, pc)'
        BY <2>1, <3>1, <4>1, TaskAccounts
      <4>5. CASE call'[t] = Idle /\ Resting(p)'
        BY <3>0, <4>3, <4>5, IdleState DEF Accounted
      <4>6. ASSUME NEW pc \in CallSteps, call'[t].pc = pc, call'[t].p = p, Midway(p, pc)'
            PROVE  Accounted(p)'
        BY <4>3, <4>6 DEF Accounted
      <4> QED
        BY <4>4, <4>5, <4>6
    <3>2. CASE p # call[t].p
      <4>1. iface'[p] = iface[p] /\ pipe'[p] = pipe[p] /\ (p \in claimed' <=> p \in claimed)
        BY <3>0, <3>2, TaskElsewhere
      <4>2. call'[t].p # p
        BY <1>1, <3>0, <3>2
      <4>3. \A u \in Task : /\ call'[u].p = p <=> call[u].p = p
                            /\ call'[u].p = p => call'[u].pc = call[u].pc
        BY <2>2, <3>2, <4>2
      <4>4. Resting(p)' <=> Resting(p)
        BY <4>1 DEF Resting
      <4>5. \A pc \in PC : Midway(p, pc)' <=> Midway(p, pc)
        BY <4>1, <4>4 DEF Midway
      <4>6. \A u \in Task : call[u].pc \in PC
        BY <1>c DEF IInv, Calls, CallState
      <4>7. (\A u \in Task : call'[u].p # p) => Resting(p)'
        BY <3>0, <4>3, <4>4 DEF Accounted
      <4>8. ASSUME NEW u \in Task, call'[u].p = p, NEW pc, pc = call'[u].pc
            PROVE  Midway(p, pc)'
        <5>1. call[u].p = p /\ pc = call[u].pc /\ pc \in PC
          BY <4>3, <4>6, <4>8
        <5>2. Midway(p, pc)
          BY <3>0, <4>8, <5>1 DEF Accounted
        <5> QED
          BY <4>5, <5>1, <5>2
      <4> QED
        BY <4>7, <4>8 DEF Accounted
    <3> QED
      BY <3>1, <3>2
  <2> QED
    BY <2>2, <2>3
<1> QED
  BY <1>2, <1>3

\* The driver task closes interfaces only when the device has left.
LEMMA SerialDriver ==
    ASSUME IInv, SInv, Sound(Driver)
    PROVE  OneTask' /\ AllAccounted'
<1>1. ~Attached
  BY AttachedDriver
<1>2. ~Attached'
  BY <1>1, Callers, CallLeaves DEF Sound, Attached
<1>3. \A t \in Task : call'[t] = call[t] \/ call'[t].p = Freed
  BY Callers, OthersStay
<1> QED
  BY <1>2, <1>3 DEF SInv, OneTask, AllAccounted

\* The fault of a freed transfer is the driver task's after a report.
LEMMA FaultIsReport ==
    ASSUME IInv, SInv, NEW c \in Caller, CallNext(c), ~UNCHANGED fault
    PROVE  SInv'
<1>1. fault = "none" /\ UNCHANGED <<libVars, iface, listed, call>>
      /\ fault' \in {"freed_xfer", "dangling"}
  BY CallLeaves
<1>2. OneTask' /\ AllAccounted'
  BY <1>1 DEF SInv, OneTask, AllAccounted
<1>3. ASSUME fault' = "freed_xfer", Attached', call'[Driver].pc # "report"
      PROVE  FALSE
  <2>1. Attached /\ call[Driver].pc # "report"
    BY <1>1, <1>3 DEF Attached, libVars
  <2>2. UseFreedTransfer(c)
    BY <1>3, <1>1 DEF CallNext, CheckOpen, CheckStart, CheckClose, Claim, Release,
       AllocTransfer, AllocTransferFails, SetCallback, Activate, Disabled, FreeTransfer,
       SubmitIn, Disable, Finish, UseFreed, Crash
  <2>3. /\ call[c].pc \in {"activate", "submit", "report", "free"}
        /\ call[c].p # Freed /\ Own(c).xfer # "alloc"
    BY <2>2 DEF UseFreedTransfer, At
  <2>4. CASE c = Driver
    BY <2>1, <2>3, <2>4, AttachedDriver
  <2>5. CASE c \in Task
    <3>1. call[c].p \in listed
      BY <2>3, GoodPointer DEF CallSteps
    <3>2. Accounted(call[c].p)
      BY <1>1, <2>1, <3>1 DEF SInv, AllAccounted
    <3>3. Midway(call[c].p, call[c].pc)
      BY <2>5, <3>2 DEF Accounted
    <3>4. call[c].pc # "report"
      BY <2>5 DEF IInv, Calls, TaskAt, Idle, CallSteps
    <3> QED
      BY <2>3, <3>3, <3>4 DEF Midway, Resting, Own
  <2> QED
    BY <2>4, <2>5 DEF Caller
<1> QED
  BY <1>2, <1>3 DEF SInv, OnlyReportsRace

LEMMA SerialCall ==
    ASSUME IInv, SInv, NEW c \in Caller, CallNext(c)
    PROVE  SInv'
<1>1. CASE ~UNCHANGED fault
  BY <1>1, FaultIsReport
<1>2. CASE UNCHANGED fault
  <2>1. Sound(c) /\ fault = "none"
    BY <1>2, CallLeaves DEF Sound
  <2>2. OneTask' /\ AllAccounted'
    BY <2>1, SerialTask, SerialDriver DEF Caller
  <2> QED
    BY <1>2, <2>1, <2>2 DEF SInv, OnlyReportsRace
<1> QED
  BY <1>1, <1>2

\* A step after which the device is not attached, and tasks are where they were.
LEMMA SerialAway ==
    ASSUME SInv, ~Attached', \A t \in Task : call'[t] = call[t] \/ call'[t].p = Freed
    PROVE  SInv'
BY DEF SInv, OneTask, AllAccounted, OnlyReportsRace

\* A step that touches no task and no claim, and pipes only of interfaces that
\* hold a claim and a transfer.
LEMMA SerialPipes ==
    ASSUME IInv, SInv, UNCHANGED <<port, claimed, iface, listed>>,
           fault' \in {"none", fault}, fault = "none",
           \A t \in Task : call'[t] = call[t],
           \A p \in listed : \/ pipe'[p] = pipe[p]
                             \/ pipe'[p] = "idle"
                             \/ p \in claimed /\ iface[p].xfer = "alloc"
                             \/ pipe[p] # "idle"
    PROVE  SInv'
<1>1. OneTask'
  BY DEF SInv, OneTask
<1>2. ASSUME NEW p \in listed, Accounted(p)
      PROVE  Accounted(p)'
  <2>1. Resting(p) => Resting(p)'
    BY DEF Resting
  <2>2. \A pc : Midway(p, pc) => Midway(p, pc)'
    BY <2>1 DEF Midway
  <2>3. ASSUME NEW t \in Task, call'[t].p = p, NEW pc, pc = call'[t].pc
        PROVE  Midway(p, pc)'
    <3>1. Midway(p, pc)
      BY <1>2, <2>3 DEF Accounted
    <3> QED
      BY <2>2, <3>1
  <2>4. (\A t \in Task : call'[t].p # p) => Resting(p)'
    BY <1>2, <2>1 DEF Accounted
  <2> QED
    BY <2>3, <2>4 DEF Accounted
<1>3. Attached' => Attached
  BY DEF Attached
<1>4. AllAccounted'
  BY <1>2, <1>3 DEF SInv, AllAccounted
<1> QED
  BY <1>1, <1>4 DEF SInv, OnlyReportsRace

LEMMA SerialAsk ==
    ASSUME Serial, IInv, SInv, NEW t \in Task, NEW op \in Op, NEW p \in Pipe,
           Ask(t, op, p)
    PROVE  SInv'
<1> DEFINE pc == FirstStep[op]
<1>1. /\ UNCHANGED <<libVars, iface, listed, fault>> /\ fault = "none"
      /\ p \in listed /\ \A u \in Task : call[u].p # p
      /\ call' = [call EXCEPT ![t] = [pc |-> pc, op |-> op, p |-> p]]
  BY DEF Ask
<1>2. \A u \in Task : call'[u] = IF u = t THEN [pc |-> pc, op |-> op, p |-> p] ELSE call[u]
  BY <1>1, Callers DEF IInv, Calls
<1>3. pc \in {"check_open", "check_start", "disable", "check_close"}
  BY DEF FirstStep, Op
<1>4. OneTask'
  BY <1>1, <1>2 DEF SInv, OneTask
<1>5. ASSUME NEW q \in listed, Accounted(q)
      PROVE  Accounted(q)'
  <2>1. Resting(q)' <=> Resting(q)
    BY <1>1 DEF Resting, libVars
  <2>2. \A c : Midway(q, c)' <=> Midway(q, c)
    BY <1>1, <2>1 DEF Midway, libVars
  <2>3. CASE q = p
    <3>1. Resting(q)'
      BY <1>1, <1>5, <2>1, <2>3 DEF Accounted
    <3>2. Midway(q, pc)'
      BY <1>3, <3>1 DEF Midway
    <3>3. \A u \in Task : call'[u].p = q => call'[u].pc = pc
      BY <1>1, <1>2, <2>3
    <3>4. ASSUME NEW u \in Task, call'[u].p = q, NEW c, c = call'[u].pc
          PROVE  Midway(q, c)'
      BY <3>2, <3>3, <3>4
    <3> QED
      BY <3>1, <3>4 DEF Accounted
  <2>4. CASE q # p
    <3>1. ASSUME NEW u \in Task, call'[u].p = q, NEW c, c = call'[u].pc
          PROVE  Midway(q, c)'
      <4>1. u # t /\ call[u].p = q /\ c = call[u].pc
        BY <1>2, <2>4, <3>1
      <4>2. Midway(q, c)
        BY <1>5, <4>1 DEF Accounted
      <4> QED
        BY <2>2, <4>2
    <3>2. (\A u \in Task : call'[u].p # q) => Resting(q)'
      <4>1. call[t].p # q
        BY IdleState, Pipes DEF Ask, IInv, Rest
      <4> QED
        BY <1>2, <1>5, <2>1, <4>1 DEF Accounted
    <3> QED
      BY <3>1, <3>2 DEF Accounted
  <2> QED
    BY <2>3, <2>4
<1>6. AllAccounted'
  BY <1>1, <1>5 DEF SInv, AllAccounted, Attached, libVars
<1> QED
  BY <1>1, <1>4, <1>6 DEF SInv, OnlyReportsRace

LEMMA SerialNewDevice ==
    ASSUME IInv, SInv, NewDevice
    PROVE  SInv'
<1> DEFINE e == Head(msgs).dev
           found == {p \in Pipe : p[1] = e /\ Desc(p).hid /\ Desc(p).usable}
<1>1. UNCHANGED <<port, claimed, pipe, plugs, call, fault>> /\ fault = "none"
  BY DEF NewDevice, At
<1>2. \/ UNCHANGED <<listed, iface>>
      \/ /\ OpenOk(e)
         /\ listed' = listed \cup found
         /\ iface' = [p \in Pipe |-> IF p \in found THEN NewIface ELSE iface[p]]
  BY DEF NewDevice
<1>3. CASE UNCHANGED <<listed, iface>>
  BY <1>1, <1>3, SerialPipes
<1>4. CASE /\ OpenOk(e)
           /\ listed' = listed \cup found
           /\ iface' = [p \in Pipe |-> IF p \in found THEN NewIface ELSE iface[p]]
  <2>1. e \in Device
    <3>1. msgs \in Seq(Message) /\ msgs # <<>>
      BY DEF IInv, Rest, LibTypeOK, NewDevice, Deliverable
    <3>2. Head(msgs) \in Message
      BY <3>1
    <3> QED
      BY <3>2 DEF Message
  <2>2. opened = {}
    BY <1>4, <2>1, Alone DEF OpenOk, IInv, Rest, LibTypeOK
  <2>3. claimed = {} /\ listed = {}
    BY <2>2 DEF IInv, OpenDevice
  <2>4. \A p \in Pipe : pipe[p] = "idle"
    BY <2>3 DEF IInv, PipesListed
  <2>5. \A t \in Task : call[t].p \in {<<>>, Freed}
    <3>1. ASSUME NEW t \in Task
          PROVE  call[t].p \in {<<>>, Freed}
      <4>1. call[t].pc # "shutdown"
        BY DEF IInv, Calls, TaskAt, Idle, CallSteps
      <4> QED
        BY <2>3, <4>1, Callers DEF IInv, Calls, PointsAt
    <3> QED
      BY <3>1
  <2>6. ASSUME NEW p \in found
        PROVE  Accounted(p)'
    <3>1. iface'[p] = NewIface /\ p \in Pipe
      BY <1>4
    <3>2. Resting(p)'
      BY <1>1, <2>3, <2>4, <3>1 DEF Resting, NewIface
    <3>3. \A t \in Task : call'[t].p # p
      BY <1>1, <2>5, <3>1, Pipes
    <3> QED
      BY <3>2, <3>3 DEF Accounted
  <2>7. AllAccounted'
    BY <1>4, <2>3, <2>6 DEF AllAccounted
  <2> QED
    BY <1>1, <2>7 DEF SInv, OneTask, OnlyReportsRace
<1> QED
  BY <1>2, <1>3, <1>4

LEMMA SerialStep ==
    ASSUME Serial, IInv, SInv, [Next]_vars
    PROVE  SInv'
<1>t. \A t \in Task : t # Driver /\ t \in Caller
  BY Callers
<1>c. call \in [Caller -> CallState]
  BY DEF IInv, Calls
<1>1. CASE UNCHANGED vars
  BY <1>1 DEF vars, libVars, SInv, OneTask, AllAccounted, OnlyReportsRace, Accounted,
     Midway, Resting, Attached
<1>2. CASE NewDevice
  BY <1>2, SerialNewDevice
<1>3. CASE DeviceGone
  <2>1. IInv' /\ call'[Driver] = LookAtList
    BY <1>3, <1>c, Callers, GoneState, DeviceGoneStep DEF DeviceGone
  <2>2. ~Attached'
    BY <2>1, GoneState, OneDevice DEF IInv, ShutWhenDown, Down, Attached
  <2>3. \A t \in Task : call'[t] = call[t]
    BY <1>3, <1>c, <1>t DEF DeviceGone
  <2> QED
    BY <2>2, <2>3, SerialAway
<1>4. CASE GoneFirst \/ Shutdown \/ GoneEmpty
  <2>1. Down
    BY <1>4 DEF IInv, ShutWhenDown, GoneFirst, Shutdown, GoneEmpty, At
  <2>2. \A d \in Device : port'[d] # "attached"
    <3>1. CASE UNCHANGED port
      BY <2>1, <3>1 DEF Down
    <3>2. CASE \E d \in Device : port' = [port EXCEPT ![d] = "absent"]
      BY <2>1, <3>2 DEF Down, IInv, Rest, LibTypeOK
    <3> QED
      BY <1>4, <3>1, <3>2 DEF GoneFirst, Shutdown, GoneEmpty, libVars
  <2>3. ~Attached'
    BY <2>2, OneDevice DEF Attached
  <2>4. \A t \in Task : call'[t] = call[t] \/ call'[t].p = Freed
    <3>1. CASE GoneFirst \/ GoneEmpty
      BY <1>c, <1>t, <3>1 DEF GoneFirst, GoneEmpty
    <3>2. CASE Shutdown
      <4>1. call' = [call EXCEPT ![Driver].pc = "check_close", ![Driver].op = "user"]
            => \A t \in Task : call'[t] = call[t]
        BY <1>c, <1>t
      <4>2. \A where : RemoveInterface(Driver, where) =>
               \A t \in Task : call'[t] = call[t] \/ call'[t].p = Freed
        <5>1. \A t \in Task : [call[t] EXCEPT !.p = Freed].p = Freed
          BY <1>c, <1>t DEF CallState
        <5> QED
          BY <1>t, <5>1 DEF RemoveInterface
      <4>3. call' = [call EXCEPT ![Driver] = Idle] => \A t \in Task : call'[t] = call[t]
        BY <1>c, <1>t
      <4> QED
        BY <3>2, <4>1, <4>2, <4>3 DEF Shutdown
    <3> QED
      BY <1>4, <3>1, <3>2
  <2> QED
    BY <2>3, <2>4, SerialAway
<1>5. CASE Resubmit
  <2> DEFINE p == call[Driver].p
  <2>1. /\ call[Driver].pc = "report" /\ p # Freed /\ Own(Driver).xfer = "alloc"
        /\ UNCHANGED <<port, claimed, iface, listed, fault>> /\ fault = "none"
        /\ \/ UNCHANGED pipe
           \/ SubmitOk(p) /\ pipe' = [pipe EXCEPT ![p] = "pending"]
        /\ Return(Driver, TRUE)
    BY <1>5 DEF Resubmit, At
  <2>2. \A t \in Task : call'[t] = call[t]
    BY <1>c, <1>t, <2>1 DEF Return
  <2>3. pipe \in [Pipe -> {"idle", "pending"} \cup Finished] /\ listed \subseteq Pipe
    BY DEF IInv, Rest, LibTypeOK
  <2>4. \A q \in listed : pipe'[q] = pipe[q] \/ (q \in claimed /\ iface[q].xfer = "alloc")
    BY <2>1, <2>3 DEF SubmitOk, Own
  <2> QED
    BY <2>1, <2>2, <2>4, SerialPipes
<1>6. ASSUME NEW p \in Pipe, InXferDone(p)
      PROVE  SInv'
  <2>1. /\ pipe' = [pipe EXCEPT ![p] = "idle"] /\ pipe[p] \in Finished
        /\ UNCHANGED <<port, claimed, iface, listed>> /\ fault = "none"
    BY <1>6 DEF InXferDone, At
  <2>2. p \in listed
    BY <2>1 DEF IInv, PipesListed, Finished
  <2>3. \A t \in Task : call'[t] = call[t]
    BY <1>6, <1>c, <1>t, <2>2 DEF InXferDone
  <2>4. UNCHANGED fault
    BY <1>6, <2>2 DEF InXferDone
  <2>5. \A q \in listed : pipe'[q] = pipe[q] \/ pipe'[q] = "idle"
    BY <2>1 DEF IInv, Rest, LibTypeOK
  <2> QED
    BY <2>1, <2>3, <2>4, <2>5, SerialPipes
<1>7. ASSUME NEW c \in Caller, CallNext(c)
      PROVE  SInv'
  BY <1>7, SerialCall
<1>8. ASSUME NEW t \in Task, NEW op \in Op, NEW p \in Pipe, Ask(t, op, p)
      PROVE  SInv'
  BY <1>8, SerialAsk
<1>9. CASE Bus
  <2>1. UNCHANGED <<iface, listed, call, fault>> /\ fault = "none"
    BY <1>9 DEF Bus
  <2>2. port \in [Device -> {"absent", "attached", "gone"}]
        /\ pipe \in [Pipe -> {"idle", "pending"} \cup Finished] /\ listed \subseteq Pipe
    BY DEF IInv, Rest, LibTypeOK
  <2>3. ASSUME NEW d \in Device, Attach(d)
        PROVE  SInv'
    <3>1. listed = {}
      BY <2>3 DEF IInv, OpenDevice, Attach
    <3> QED
      BY <2>1, <3>1 DEF SInv, OneTask, AllAccounted, OnlyReportsRace
  <2>4. ASSUME NEW d \in Device, DetachOpen(d) \/ DetachUnopened(d)
        PROVE  SInv'
    <3>1. port'[d] # "attached"
      BY <2>2, <2>4 DEF DetachOpen, DetachUnopened
    <3>2. ~Attached'
      BY <3>1 DEF Attached
    <3> QED
      BY <2>1, <3>2, SerialAway
  <2>5. ASSUME NEW p \in Pipe, Complete(p)
        PROVE  SInv'
    <3>1. /\ UNCHANGED <<port, claimed>> /\ pipe[p] = "pending"
          /\ \A q \in listed : pipe'[q] = pipe[q] \/ pipe[q] # "idle"
      BY <2>2, <2>5 DEF Complete
    <3> QED
      BY <2>1, <3>1, SerialPipes
  <2> QED
    BY <1>9, <2>3, <2>4, <2>5 DEF Bus
<1> QED
  BY <1>1, <1>2, <1>3, <1>4, <1>5, <1>6, <1>7, <1>8, <1>9, Callers
  DEF Next, DriverNext, TaskNext

LEMMA SerialInvariance == Serial => (Spec => [](IInv /\ SInv))
<1> SUFFICES ASSUME Serial
             PROVE  Spec => [](IInv /\ SInv)
  OBVIOUS
<1>1. Init => IInv /\ SInv
  <2>1. ASSUME Init
        PROVE  SInv
    BY <2>1, IdleState, Callers DEF Init, SInv, OneTask, AllAccounted, OnlyReportsRace
  <2> QED
    BY <2>1, InitInv
<1>2. IInv /\ SInv /\ [Next]_vars => (IInv /\ SInv)'
  BY StepInv, SerialStep
<1> QED
  BY <1>1, <1>2, PTL DEF Spec

\* In the calls of an application that is Serial, in any order and whichever of
\* them fail, the state of an interface that nobody is in tells what it holds:
\* READY and ACTIVE a claim, a transfer and a callback, and IDLE nothing, but
\* for the claim of an open that could not allocate its transfer.
THEOREM StateTells == Serial => (Spec => []StateTellsClaim)
<1> SUFFICES ASSUME Serial
             PROVE  Spec => []StateTellsClaim
  OBVIOUS
<1>1. IInv /\ SInv => StateTellsClaim
  <2>1. ASSUME IInv, SInv, NEW p \in listed, Attached, In(p) = {}, fault = "none"
        PROVE  Resting(p)
    <3>1. \A t \in Task : call[t].p # p
      BY <2>1, Callers DEF In
    <3> QED
      BY <2>1, <3>1 DEF SInv, AllAccounted, Accounted
  <2>2. \A p : Resting(p) => IF iface[p].state = "IDLE"
                            THEN /\ p \in claimed <=> iface[p].leaked
                                 /\ pipe[p] = "idle" /\ iface[p].xfer # "alloc"
                            ELSE /\ p \in claimed /\ ~iface[p].leaked
                                 /\ iface[p].xfer = "alloc" /\ iface[p].cb
    BY DEF Resting
  <2> QED
    BY <2>1, <2>2 DEF StateTellsClaim
<1> QED
  BY <1>1, SerialInvariance, PTL

\* While the device stays, such an application makes the driver use a freed
\* transfer in one way only: by a close during the callback of a report.
THEOREM FreedOnlyInReport == Serial => (Spec => []OnlyReportsRace)
<1> SUFFICES ASSUME Serial
             PROVE  Spec => []OnlyReportsRace
  OBVIOUS
<1>1. IInv /\ SInv => OnlyReportsRace
  BY DEF SInv
<1> QED
  BY <1>1, SerialInvariance, PTL

-----------------------------------------------------------------------------
(* The life of an interface.                                               *)

Held(p) == p \in Present(claimed)

Awaited(p) == p \in Present({q \in Pipe : pipe[q] # "idle"})

SameLife(p) ==
    Phase(p)' = Phase(p) /\ (Held(p)' <=> Held(p)) /\ (Awaited(p)' <=> Awaited(p))

PhaseMoves(p, from, to) ==
    /\ Phase(p) = from /\ Phase(p)' = to
    /\ (Held(p)' <=> Held(p)) /\ (Awaited(p)' <=> Awaited(p))

\* What the actions of InterfaceLife do with one interface.
LivesOn(p) ==
    \/ PhaseMoves(p, "closed", "open") /\ Held(p)
    \/ PhaseMoves(p, "open", "started") /\ Held(p)
    \/ PhaseMoves(p, "started", "open") /\ Held(p)
    \/ PhaseMoves(p, "open", "closed") /\ ~Held(p)
    \/ /\ Phase(p)' = Phase(p) /\ (Awaited(p)' <=> Awaited(p))
       /\ \/ Phase(p) = "closed" /\ ~Held(p) /\ Held(p)'
          \/ Phase(p) = "open" /\ Held(p) /\ ~Awaited(p) /\ ~Held(p)'
    \/ /\ Phase(p)' = Phase(p) /\ (Held(p)' <=> Held(p))
       /\ \/ /\ Phase(p) \in {"open", "started"} /\ Held(p)
             /\ ~Awaited(p) /\ Awaited(p)'
          \/ Awaited(p) /\ ~Awaited(p)'

LEMMA SamePipes ==
    \A A, B \in SUBSET Pipe : (\A q \in Pipe : q \in A <=> q \in B) => A = B
OBVIOUS

LEMMA LifeImplemented ==
    ASSUME listed \subseteq Pipe, listed' \subseteq Pipe, NEW p \in Pipe, LivesOn(p),
           \A q \in Pipe : q # p => SameLife(q)
    PROVE  Life!Next
<1> DEFINE phase == [q \in Pipe |-> Phase(q)]
           held == Present(claimed)
           awaited == Present({q \in Pipe : pipe[q] # "idle"})
<1>1. held \subseteq Pipe /\ held' \subseteq Pipe
      /\ awaited \subseteq Pipe /\ awaited' \subseteq Pipe
  BY DEF Present
<1>2. \A q \in Pipe : q # p => /\ Phase(q)' = Phase(q)
                               /\ q \in held' <=> q \in held
                               /\ q \in awaited' <=> q \in awaited
  BY DEF SameLife, Held, Awaited
<1>3. ASSUME Held(p)' <=> Held(p)
      PROVE  held' = held
  <2>1. \A q \in Pipe : q \in held' <=> q \in held
    BY <1>2, <1>3 DEF Held
  <2> QED
    BY <1>1, <2>1, SamePipes
<1>4. ASSUME Awaited(p)' <=> Awaited(p)
      PROVE  awaited' = awaited
  <2>1. \A q \in Pipe : q \in awaited' <=> q \in awaited
    BY <1>2, <1>4 DEF Awaited
  <2> QED
    BY <1>1, <2>1, SamePipes
<1>5. phase' = [phase EXCEPT ![p] = Phase(p)']
  BY <1>2
<1>6. phase[p] = Phase(p)
  OBVIOUS
<1>7. Phase(p)' = Phase(p) => phase' = phase
  BY <1>5
<1>8. ASSUME NEW from, NEW to, PhaseMoves(p, from, to)
      PROVE  Life!Step(p, from, to)
  <2>1. /\ phase[p] = from /\ phase' = [phase EXCEPT ![p] = to]
        /\ held' = held /\ awaited' = awaited
    BY <1>3, <1>4, <1>5, <1>6, <1>8 DEF PhaseMoves
  <2> QED
    BY <2>1 DEF Life!Step
<1>9. CASE PhaseMoves(p, "closed", "open") /\ Held(p)
  BY <1>8, <1>9 DEF Life!Next, Life!Open, Held
<1>10. CASE PhaseMoves(p, "open", "started") /\ Held(p)
  BY <1>8, <1>10 DEF Life!Next, Life!Start, Held
<1>11. CASE PhaseMoves(p, "started", "open") /\ Held(p)
  BY <1>8, <1>11 DEF Life!Next, Life!Stop, Held
<1>12. CASE PhaseMoves(p, "open", "closed") /\ ~Held(p)
  BY <1>8, <1>12 DEF Life!Next, Life!Close, Held
<1>13. ASSUME Phase(p)' = Phase(p), Awaited(p)' <=> Awaited(p),
              Phase(p) = "closed", ~Held(p), Held(p)'
       PROVE  Life!Next
  <2>1. /\ phase[p] = "closed" /\ p \notin held /\ held' = held \cup {p}
        /\ phase' = phase /\ awaited' = awaited
    BY <1>1, <1>2, <1>4, <1>6, <1>7, <1>13 DEF Held
  <2> QED
    BY <2>1 DEF Life!Next, Life!Claim
<1>14. ASSUME Phase(p)' = Phase(p), Awaited(p)' <=> Awaited(p),
              Phase(p) = "open", Held(p), ~Awaited(p), ~Held(p)'
       PROVE  Life!Next
  <2>1. /\ phase[p] = "open" /\ p \in held \ awaited /\ held' = held \ {p}
        /\ phase' = phase /\ awaited' = awaited
    BY <1>1, <1>2, <1>4, <1>6, <1>7, <1>14 DEF Held, Awaited
  <2> QED
    BY <2>1 DEF Life!Next, Life!Release
<1>15. ASSUME Phase(p)' = Phase(p), Held(p)' <=> Held(p),
              Phase(p) \in {"open", "started"}, Held(p), ~Awaited(p), Awaited(p)'
       PROVE  Life!Next
  <2>1. /\ phase[p] \in {"open", "started"} /\ p \in held \ awaited
        /\ awaited' = awaited \cup {p} /\ phase' = phase /\ held' = held
    BY <1>1, <1>2, <1>3, <1>6, <1>7, <1>15 DEF Held, Awaited
  <2> QED
    BY <2>1 DEF Life!Next, Life!Await
<1>16. ASSUME Phase(p)' = Phase(p), Held(p)' <=> Held(p), Awaited(p), ~Awaited(p)'
       PROVE  Life!Next
  <2>1. /\ p \in awaited /\ awaited' = awaited \ {p} /\ phase' = phase /\ held' = held
    BY <1>1, <1>2, <1>3, <1>7, <1>16 DEF Awaited
  <2> QED
    BY <2>1 DEF Life!Next, Life!Return
<1> QED
  BY <1>9, <1>10, <1>11, <1>12, <1>13, <1>14, <1>15, <1>16 DEF LivesOn

LEMMA LifeStutters ==
    ASSUME listed \subseteq Pipe, listed' \subseteq Pipe, \A q \in Pipe : SameLife(q)
    PROVE  UNCHANGED Life!vars
<1>1. \A q \in Pipe : Phase(q)' = Phase(q)
  BY DEF SameLife
<1>2. Present(claimed)' = Present(claimed)
  BY DEF SameLife, Held, Present
<1>3. Present({q \in Pipe : pipe[q] # "idle"})' = Present({q \in Pipe : pipe[q] # "idle"})
  BY DEF SameLife, Awaited, Present
<1> QED
  BY <1>1, <1>2, <1>3 DEF Life!vars

LEMMA LifeAway ==
    ASSUME listed \subseteq Pipe, listed' \subseteq Pipe, ~Attached'
    PROVE  [Life!Next]_(Life!vars)
<1> DEFINE phase == [q \in Pipe |-> Phase(q)]
           held == Present(claimed)
           awaited == Present({q \in Pipe : pipe[q] # "idle"})
<1>1. phase' = [q \in Pipe |-> IF q \in Pipe THEN "away" ELSE phase[q]]
  BY DEF Phase
<1>2. held' = {} /\ awaited' = {}
  BY DEF Present
<1>3. held \subseteq Pipe /\ awaited \subseteq Pipe
  BY DEF Present
<1>4. held' = held \ Pipe /\ awaited' = awaited \ Pipe
  BY <1>2, <1>3
<1>5. Life!Leave(Pipe)
  BY <1>1, <1>4 DEF Life!Leave
<1> QED
  BY <1>5 DEF Life!Next

\* A step of a call in an interface of a device that is there.
LEMMA TaskLives ==
    ASSUME IInv, NEW t \in Task, Sound(t), Attached, Attached',
           NEW p \in Pipe, p = call[t].p, p \in listed, p \in listed',
           Midway(p, call[t].pc)
    PROVE  SameLife(p) \/ LivesOn(p)
<1>c. t \in Caller /\ t # Driver
  BY Callers
<1>0. call[t].pc \in CallSteps /\ Own(t) = iface[p]
      /\ iface[p] \in Iface /\ iface \in [Pipe -> Iface]
  BY <1>c, CallLeaves DEF Sound, Own, IInv, Rest
<1>p. pipe \in [Pipe -> {"idle", "pending"} \cup Finished]
  BY DEF IInv, Rest, LibTypeOK
<1>s. UNCHANGED <<iface, claimed, pipe>> => SameLife(p)
  BY DEF SameLife, Phase, Held, Awaited, Present
<1> USE DEF At
<1>1. CASE CheckOpen(t) \/ CheckStart(t) \/ CheckClose(t)
  BY <1>1, <1>s DEF CheckOpen, CheckStart, CheckClose, libVars
<1>2. CASE Claim(t)
  <2>1. iface[p].state = "IDLE" /\ UNCHANGED <<iface, pipe>>
    BY <1>2 DEF Claim, Midway
  <2>2. CASE UNCHANGED claimed
    BY <1>s, <2>1, <2>2
  <2>3. CASE ClaimOk(p) /\ claimed' = claimed \cup {p}
    <3>1. ~Held(p) /\ Held(p)'
      BY <2>3 DEF Held, Present, ClaimOk
    <3>2. Phase(p) = "closed" /\ Phase(p)' = Phase(p)
      BY <2>1 DEF Phase
    <3>3. Awaited(p)' <=> Awaited(p)
      BY <2>1 DEF Awaited, Present
    <3> QED
      BY <3>1, <3>2, <3>3 DEF LivesOn
  <2> QED
    BY <1>2, <2>2, <2>3 DEF Claim
<1>3. CASE AllocTransfer(t)
  <2>1. /\ iface[p].state = "IDLE" /\ p \in claimed /\ iface'[p].state = "READY"
        /\ UNCHANGED <<claimed, pipe>>
    BY <1>0, <1>3 DEF AllocTransfer, Midway, Set, libVars, Iface
  <2>2. PhaseMoves(p, "closed", "open") /\ Held(p)
    BY <2>1 DEF PhaseMoves, Phase, Held, Awaited, Present
  <2> QED
    BY <2>2 DEF LivesOn
<1>4. CASE SetCallback(t)
  <2>1. iface'[p].state = iface[p].state /\ UNCHANGED <<claimed, pipe>>
    BY <1>0, <1>4 DEF SetCallback, Set, libVars, Iface
  <2> QED
    BY <2>1 DEF SameLife, Phase, Held, Awaited, Present
<1>5. CASE Activate(t)
  <2>1. /\ iface[p].state = "READY" /\ p \in claimed /\ iface'[p].state = "ACTIVE"
        /\ UNCHANGED <<claimed, pipe>>
    BY <1>0, <1>5 DEF Activate, Midway, Resting, Set, libVars, Iface
  <2>2. PhaseMoves(p, "open", "started") /\ Held(p)
    BY <2>1 DEF PhaseMoves, Phase, Held, Awaited, Present
  <2> QED
    BY <2>2 DEF LivesOn
<1>6. CASE SubmitIn(t)
  <2>1. /\ iface[p].state = "ACTIVE" /\ p \in claimed /\ UNCHANGED <<claimed, iface>>
    BY <1>6 DEF SubmitIn, Midway, Resting
  <2>2. CASE UNCHANGED pipe
    BY <1>s, <2>1, <2>2
  <2>3. CASE SubmitOk(p) /\ pipe' = [pipe EXCEPT ![p] = "pending"]
    <3>1. ~Awaited(p) /\ Awaited(p)'
      BY <1>p, <2>3 DEF Awaited, Present, SubmitOk
    <3>2. Phase(p) = "started" /\ Phase(p)' = Phase(p) /\ Held(p) /\ Held(p)'
      BY <2>1 DEF Phase, Held, Present
    <3> QED
      BY <3>1, <3>2 DEF LivesOn
  <2> QED
    BY <1>6, <2>2, <2>3 DEF SubmitIn
<1>7. CASE Disable(t)
  <2>1. UNCHANGED <<claimed, iface>> /\ (pipe'[p] = "idle" <=> pipe[p] = "idle")
    BY <1>p, <1>7 DEF Disable
  <2> QED
    BY <2>1 DEF SameLife, Phase, Held, Awaited, Present
<1>8. CASE Disabled(t)
  <2>1. /\ iface[p].state = "ACTIVE" /\ p \in claimed /\ iface'[p].state = "READY"
        /\ UNCHANGED <<claimed, pipe>>
    BY <1>0, <1>8 DEF Disabled, Midway, Resting, Set, libVars, Iface
  <2>2. PhaseMoves(p, "started", "open") /\ Held(p)
    BY <2>1 DEF PhaseMoves, Phase, Held, Awaited, Present
  <2> QED
    BY <2>2 DEF LivesOn
<1>9. CASE Release(t)
  <2>1. UNCHANGED <<pipe, iface>>
    BY <1>9 DEF Release
  <2>2. CASE UNCHANGED claimed
    BY <1>s, <2>1, <2>2
  <2>3. CASE iface[p].state = "READY" /\ ReleaseOk(p) /\ claimed' = claimed \ {p}
    <3>1. Held(p) /\ ~Held(p)' /\ ~Awaited(p)
      BY <2>3 DEF Held, Awaited, Present, ReleaseOk
    <3>2. Phase(p) = "open" /\ Phase(p)' = Phase(p)
      BY <2>1, <2>3 DEF Phase
    <3>3. Awaited(p)' <=> Awaited(p)
      BY <2>1 DEF Awaited, Present
    <3> QED
      BY <3>1, <3>2, <3>3 DEF LivesOn
  <2> QED
    BY <1>0, <1>9, <2>2, <2>3 DEF Release
<1>10. CASE FreeTransfer(t)
  <2>1. /\ iface[p].state = "READY" /\ p \notin claimed /\ iface'[p].state = "IDLE"
        /\ UNCHANGED <<claimed, pipe>>
    BY <1>0, <1>10 DEF FreeTransfer, Midway, Set, libVars, Iface
  <2>2. PhaseMoves(p, "open", "closed") /\ ~Held(p)
    BY <2>1 DEF PhaseMoves, Phase, Held, Awaited, Present
  <2> QED
    BY <2>2 DEF LivesOn
<1>11. CASE Finish(t) \/ UseFreedTransfer(t) \/ UseFreed(t)
  BY <1>11, <1>s DEF Finish, UseFreedTransfer, UseFreed, Crash, libVars
<1>12. CASE AllocTransferFails(t)
  <2>1. iface'[p].state = iface[p].state /\ UNCHANGED <<claimed, pipe>>
    BY <1>0, <1>12 DEF AllocTransferFails, Set, libVars, Iface
  <2> QED
    BY <2>1 DEF SameLife, Phase, Held, Awaited, Present
<1> QED
  BY <1>1, <1>2, <1>3, <1>4, <1>5, <1>6, <1>7, <1>8, <1>9, <1>10, <1>11, <1>12
  DEF Sound, CallNext

\* Of a device that stays, the driver task submits a transfer again only of an
\* interface that is open, whatever the tasks have done since it came back.
LEMMA ResubmitLives ==
    ASSUME IInv, SInv, Resubmit, Attached, NEW p, p = call[Driver].p
    PROVE  SameLife(p) \/ LivesOn(p)
<1>1. /\ call[Driver].pc = "report" /\ p # Freed /\ Own(Driver).xfer = "alloc"
      /\ UNCHANGED <<port, claimed, iface, listed, fault>> /\ fault = "none"
      /\ \/ UNCHANGED pipe
         \/ SubmitOk(p) /\ pipe' = [pipe EXCEPT ![p] = "pending"]
  BY DEF Resubmit, At
<1>2. p \in listed /\ p \in Pipe
  BY <1>1, Callers, GoodPointer
<1>3. Attached'
  BY <1>1 DEF Attached
<1>4. CASE UNCHANGED pipe
  BY <1>1, <1>4 DEF SameLife, Phase, Held, Awaited, Present, Attached
<1>5. CASE SubmitOk(p) /\ pipe' = [pipe EXCEPT ![p] = "pending"]
  <2>1. iface[p].state \in {"READY", "ACTIVE"}
    <3>1. Accounted(p) /\ iface[p].xfer = "alloc" /\ p \in claimed
      BY <1>1, <1>2, <1>5 DEF SInv, AllAccounted, SubmitOk, Own
    <3>2. CASE Resting(p)
      BY <3>1, <3>2 DEF Resting
    <3>3. ASSUME NEW t \in Task, call[t].p = p, NEW pc, pc = call[t].pc, ~Resting(p)
          PROVE  iface[p].state \in {"READY", "ACTIVE"}
      <4>1. Midway(p, pc)
        BY <3>1, <3>3 DEF Accounted
      <4> QED
        BY <3>1, <3>3, <4>1 DEF Midway
    <3> QED
      BY <3>1, <3>2, <3>3 DEF Accounted
  <2>2. Phase(p) \in {"open", "started"} /\ Phase(p)' = Phase(p) /\ Held(p) /\ Held(p)'
    BY <1>1, <1>2, <1>3, <1>5, <2>1 DEF Phase, Held, Present, SubmitOk
  <2>3. ~Awaited(p) /\ Awaited(p)'
    BY <1>1, <1>2, <1>3, <1>5 DEF Awaited, Present, SubmitOk, IInv, Rest, LibTypeOK
  <2> QED
    BY <2>2, <2>3 DEF LivesOn
<1> QED
  BY <1>1, <1>4, <1>5

LEMMA NewDeviceAppears ==
    ASSUME IInv, NewDevice, listed' \subseteq Pipe
    PROVE  [Life!Next]_(Life!vars)
<1> DEFINE e == Head(msgs).dev
           found == {p \in Pipe : p[1] = e /\ Desc(p).hid /\ Desc(p).usable}
           phase == [q \in Pipe |-> Phase(q)]
           held == Present(claimed)
           awaited == Present({q \in Pipe : pipe[q] # "idle"})
<1>0. UNCHANGED <<port, claimed, pipe>> /\ listed \subseteq Pipe
  BY DEF NewDevice, IInv, Rest
<1>1. CASE UNCHANGED <<listed, iface>>
  <2>1. \A q \in Pipe : SameLife(q)
    BY <1>0, <1>1 DEF SameLife, Phase, Held, Awaited, Present, Attached
  <2> QED
    BY <1>0, <2>1, LifeStutters
<1>2. CASE /\ OpenOk(e)
           /\ listed' = listed \cup found
           /\ iface' = [p \in Pipe |-> IF p \in found THEN NewIface ELSE iface[p]]
  <2>1. e \in Device
    <3>1. msgs \in Seq(Message) /\ msgs # <<>>
      BY DEF IInv, Rest, LibTypeOK, NewDevice, Deliverable
    <3>2. Head(msgs) \in Message
      BY <3>1
    <3> QED
      BY <3>2 DEF Message
  <2>2. claimed = {} /\ listed = {}
    BY <1>2, <2>1, Alone DEF OpenOk, IInv, Rest, LibTypeOK, OpenDevice
  <2>3. \A p \in Pipe : pipe[p] = "idle"
    BY <2>2 DEF IInv, PipesListed
  <2>4. Attached'
    BY <1>0, <1>2, <2>1, Alone DEF Attached, OpenOk
  <2>5. \A q \in Pipe : phase[q] = "away"
    BY <2>2 DEF Phase
  <2>6. \A q \in Pipe : Phase(q)' = IF q \in found THEN "closed" ELSE "away"
    BY <1>2, <2>2, <2>4 DEF Phase, NewIface
  <2>7. phase' = [q \in Pipe |-> IF q \in found THEN "closed" ELSE phase[q]]
    BY <2>5, <2>6
  <2>8. held = {} /\ held' = {} /\ awaited = {} /\ awaited' = {}
    BY <1>0, <2>2, <2>3 DEF Present
  <2>9. Life!Appear(found)
    BY <2>5, <2>7, <2>8 DEF Life!Appear
  <2> QED
    BY <2>9 DEF Life!Next
<1> QED
  BY <1>1, <1>2 DEF NewDevice

LEMMA LifeOfOne ==
    ASSUME listed \subseteq Pipe, listed' \subseteq Pipe, NEW p \in Pipe,
           SameLife(p) \/ LivesOn(p), \A q \in Pipe : q # p => SameLife(q)
    PROVE  [Life!Next]_(Life!vars)
<1>1. CASE SameLife(p)
  BY <1>1, LifeStutters
<1>2. CASE LivesOn(p)
  BY <1>2, LifeImplemented
<1> QED
  BY <1>1, <1>2

LEMMA CallLives ==
    ASSUME IInv, SInv, IInv', NEW c \in Caller, CallNext(c)
    PROVE  [Life!Next]_(Life!vars)
<1>0. listed \subseteq Pipe /\ listed' \subseteq Pipe
  BY DEF IInv, Rest
<1>1. CASE ~Attached
  <2>1. ~Attached'
    BY <1>1, CallLeaves DEF Attached
  <2> QED
    BY <1>0, <2>1, LifeAway
<1>2. CASE Attached /\ ~UNCHANGED fault
  <2>1. UNCHANGED <<libVars, iface, listed>>
    BY <1>2, CallLeaves
  <2>2. \A q \in Pipe : SameLife(q)
    BY <2>1 DEF SameLife, Phase, Held, Awaited, Present, Attached, libVars
  <2> QED
    BY <1>0, <2>2, LifeStutters
<1>3. CASE Attached /\ UNCHANGED fault
  <2>1. Sound(c) /\ fault = "none" /\ UNCHANGED port
    BY <1>3, CallLeaves DEF Sound
  <2>2. c \in Task
    BY <1>3, <2>1, AttachedDriver DEF Caller
  <2>3. Attached' /\ UNCHANGED listed
    BY <1>3, <2>1, AttachedKeepsList DEF Attached
  <2>4. call[c].pc \in CallSteps /\ call[c].p # Freed
    BY <2>1, CallLeaves DEF Sound
  <2> PICK p \in Pipe : p = call[c].p
    BY <2>4, GoodPointer
  <2>5. p \in listed
    BY <2>4, GoodPointer
  <2>6. Accounted(p)
    BY <1>3, <2>1, <2>5 DEF SInv, AllAccounted
  <2>7. Midway(p, call[c].pc)
    BY <2>2, <2>6 DEF Accounted
  <2>8. SameLife(p) \/ LivesOn(p)
    BY <1>3, <2>1, <2>2, <2>3, <2>5, <2>7, TaskLives
  <2>9. ASSUME NEW q \in Pipe, q # p
        PROVE  SameLife(q)
    <3>1. /\ iface'[q] = iface[q] /\ pipe'[q] = pipe[q]
          /\ q \in claimed' <=> q \in claimed
      BY <2>1, <2>2, <2>9, TaskElsewhere
    <3> QED
      BY <1>3, <2>3, <3>1 DEF SameLife, Phase, Held, Awaited, Present
  <2> QED
    BY <1>0, <2>8, <2>9, LifeOfOne
<1> QED
  BY <1>1, <1>2, <1>3

LEMMA StepLives ==
    ASSUME Serial, IInv, SInv, IInv', [Next]_vars
    PROVE  [Life!Next]_(Life!vars)
<1>0. listed \subseteq Pipe /\ listed' \subseteq Pipe
  BY DEF IInv, Rest
<1>p. pipe \in [Pipe -> {"idle", "pending"} \cup Finished]
  BY DEF IInv, Rest, LibTypeOK
<1> DEFINE Unseen == UNCHANGED <<port, claimed, pipe, iface, listed>>
<1>u. ASSUME Unseen
      PROVE  [Life!Next]_(Life!vars)
  <2>1. \A q \in Pipe : SameLife(q)
    BY <1>u DEF SameLife, Phase, Held, Awaited, Present, Attached
  <2> QED
    BY <1>0, <2>1, LifeStutters
<1>1. CASE UNCHANGED vars \/ DeviceGone \/ GoneFirst
  BY <1>1, <1>u DEF vars, libVars, DeviceGone, GoneFirst
<1>2. CASE NewDevice
  BY <1>0, <1>2, NewDeviceAppears
<1>3. CASE Shutdown \/ GoneEmpty
  <2>1. Down
    BY <1>3 DEF IInv, ShutWhenDown, Shutdown, GoneEmpty, At
  <2>2. \A d \in Device : port'[d] # "attached"
    BY <1>3, <2>1 DEF Down, Shutdown, GoneEmpty, libVars, IInv, Rest, LibTypeOK
  <2>3. ~Attached'
    BY <2>2, OneDevice DEF Attached
  <2> QED
    BY <1>0, <2>3, LifeAway
<1>4. CASE Resubmit
  <2>0. call[Driver].pc = "report" /\ call[Driver].p # Freed
    BY <1>4 DEF Resubmit, At
  <2> PICK p \in Pipe : p = call[Driver].p
    BY <2>0, Callers, GoodPointer
  <2>1. /\ UNCHANGED <<port, claimed, iface, listed>>
        /\ UNCHANGED pipe \/ pipe' = [pipe EXCEPT ![p] = "pending"]
    BY <1>4 DEF Resubmit
  <2>3. CASE Attached
    <3>1. \A q \in Pipe : q # p => SameLife(q)
      BY <1>p, <2>1 DEF SameLife, Phase, Held, Awaited, Present, Attached
    <3> QED
      BY <1>0, <1>4, <2>3, <3>1, ResubmitLives, LifeOfOne
  <2>4. CASE ~Attached
    BY <1>0, <2>1, <2>4, LifeAway DEF Attached
  <2> QED
    BY <2>3, <2>4
<1>5. ASSUME NEW p \in Pipe, InXferDone(p)
      PROVE  [Life!Next]_(Life!vars)
  <2>1. /\ pipe' = [pipe EXCEPT ![p] = "idle"] /\ pipe[p] \in Finished
        /\ UNCHANGED <<port, claimed, iface, listed>>
    BY <1>5 DEF InXferDone
  <2>2. \A q \in Pipe : q # p => SameLife(q)
    BY <1>p, <2>1 DEF SameLife, Phase, Held, Awaited, Present, Attached
  <2>3. SameLife(p) \/ LivesOn(p)
    <3>1. Phase(p)' = Phase(p) /\ (Held(p)' <=> Held(p)) /\ ~Awaited(p)'
      BY <1>p, <2>1 DEF Phase, Held, Awaited, Present, Attached
    <3> QED
      BY <3>1 DEF SameLife, LivesOn
  <2> QED
    BY <1>0, <2>2, <2>3, LifeOfOne
<1>6. ASSUME NEW c \in Caller, CallNext(c)
      PROVE  [Life!Next]_(Life!vars)
  BY <1>6, CallLives
<1>7. ASSUME NEW t \in Task, NEW op \in Op, NEW p \in Pipe, Ask(t, op, p)
      PROVE  [Life!Next]_(Life!vars)
  BY <1>7, <1>u DEF Ask, libVars
<1>8. CASE Bus
  <2>1. UNCHANGED <<iface, listed>>
    BY <1>8 DEF Bus
  <2>2. ASSUME NEW d \in Device, Attach(d)
        PROVE  [Life!Next]_(Life!vars)
    <3>1. listed = {}
      BY <2>2 DEF IInv, OpenDevice, Attach
    <3>2. \A q \in Pipe : SameLife(q)
      BY <2>1, <3>1 DEF SameLife, Phase, Held, Awaited, Present
    <3> QED
      BY <1>0, <3>2, LifeStutters
  <2>3. ASSUME NEW d \in Device, DetachOpen(d) \/ DetachUnopened(d)
        PROVE  [Life!Next]_(Life!vars)
    <3>1. port'[d] # "attached"
      BY <2>3 DEF DetachOpen, DetachUnopened, IInv, Rest, LibTypeOK
    <3>2. ~Attached'
      BY <3>1 DEF Attached
    <3> QED
      BY <1>0, <3>2, LifeAway
  <2>4. ASSUME NEW p \in Pipe, Complete(p)
        PROVE  [Life!Next]_(Life!vars)
    <3>1. /\ UNCHANGED <<port, claimed>>
          /\ \A q \in Pipe : pipe'[q] = "idle" <=> pipe[q] = "idle"
      BY <1>p, <2>4 DEF Complete
    <3>2. \A q \in Pipe : SameLife(q)
      BY <2>1, <3>1 DEF SameLife, Phase, Held, Awaited, Present, Attached
    <3> QED
      BY <1>0, <3>2, LifeStutters
  <2> QED
    BY <1>8, <2>2, <2>3, <2>4 DEF Bus
<1> QED
  BY <1>1, <1>2, <1>3, <1>4, <1>5, <1>6, <1>7, <1>8, Callers
  DEF Next, DriverNext, TaskNext

\* In the calls of an application that is Serial, every interface of a device
\* that is there lives as InterfaceLife says: whatever order the calls come in,
\* whatever fails, and whenever the driver task submits a transfer again.
THEOREM LifeIsKept == Serial => (Spec => ImplementsLife)
<1> SUFFICES ASSUME Serial
             PROVE  Spec => ImplementsLife
  OBVIOUS
<1>1. Init => Life!Init
  BY DEF Init, LibInit, Life!Init, Phase, Present
<1>2. IInv /\ SInv /\ IInv' /\ [Next]_vars => [Life!Next]_(Life!vars)
  BY StepLives
<1> QED
  BY <1>1, <1>2, SerialInvariance, PTL DEF Spec, ImplementsLife, Life!Spec

=============================================================================

------------------------ MODULE HidHostQueueProofs --------------------------
(***************************************************************************)
(* No interface of HidHost is forgotten or gets out of step, for every set *)
(* of devices, configurations and addresses: the CONNECTED event of an     *)
(* interface that waits to be opened is never used up without an attempt   *)
(* that must succeed while the device is there, as long as no event is     *)
(* dropped; and each interface lives as the module InterfaceLife says.     *)
(***************************************************************************)
EXTENDS HidHostTransferProofs

-----------------------------------------------------------------------------
(* The hypotheses.                                                         *)

\* The application leaves the processor task alone, and an interface that is
\* free can be claimed and gets its transfer; any other call may fail.
OpensWhenFree == ~Stops /\ {"claim", "alloc"} \cap Failing = {}

\* When the driver task is about to notify an interface, the queue has room, or
\* has a handle that names it already.
RoomToNotify ==
    hid.pc = "notify" /\ hid.n \in DOMAIN ifaces =>
        Len(queue) < QueueCap \/ ifaces[hid.n] \in ToSet(queue)

-----------------------------------------------------------------------------
(* The inductive invariant.                                                *)

\* The interface is listed and will be notified in this handler.
BeingAdded(a) ==
    /\ hid.dev = obj[a].dev
    /\ \/ hid.pc = "add"
       \/ hid.pc = "notify" /\ \E i \in DOMAIN ifaces : ifaces[i] = a /\ i >= hid.n

\* The processor task is on its way to open the interface.
AtHand(a) ==
    /\ proc.h = a
    /\ \/ proc.pc = "get_params"
       \/ proc.pc = "params" /\ proc.ptr = a
       \/ /\ Desc(PipeOf(a)).kind # "badproto"
          /\ \/ proc.pc = "open"
             \/ proc.pc \in {"check", "claim", "alloc"} /\ proc.ptr = a

Waiting(a) == obj[a].state = "IDLE" /\ port[obj[a].dev] = "attached"

NoneForgotten ==
    \A a \in Listed : Waiting(a) => a \in ToSet(queue) \/ BeingAdded(a) \/ AtHand(a)

ClaimedAreOpened == \A p \in claimed : p[1] \in opened

\* A claim on a device that is there is not leaked.
OwnsClaim(a) ==
    obj[a].state \in {"READY", "ACTIVE"} \/ (proc.pc = "alloc" /\ proc.ptr = a)

ClaimHasOwner ==
    \A p \in claimed : port[p[1]] = "attached" =>
        \E a \in Listed : PipeOf(a) = p /\ OwnsClaim(a)

NotifiesFromFirst == hid.pc = "notify" => hid.n >= 1

QInv == NoneForgotten /\ ClaimedAreOpened /\ ClaimHasOwner /\ NotifiesFromFirst

-----------------------------------------------------------------------------
(* The claims.                                                             *)

LEMMA ClaimsGrow ==
    ASSUME Next, ~Reboot, ~ClaimInterface
    PROVE  claimed' \subseteq claimed
<1>1. CASE CloseRelease
  BY <1>1 DEF CloseRelease
<1>2. CASE HidNext /\ ~CloseRelease
  BY <1>2, HidKeeps
<1>3. CASE ProcNext \/ Stop \/ Start
  BY <1>3, ProcLeaves
<1>4. CASE Bus
  BY <1>4 DEF Bus, Plug, Unplug, Transfer, Attach, DetachOpen, DetachUnopened,
              Complete
<1> QED
  BY <1>1, <1>2, <1>3, <1>4 DEF Next

LEMMA OpenedStays ==
    ASSUME Next, ~Reboot, ~UninstallClose
    PROVE  opened \subseteq opened'
<1>1. CASE NewDevice \/ NotHidDevice \/ OpenFailed \/ DeviceGone
  BY <1>1 DEF NewDevice, NotHidDevice, OpenFailed, DeviceGone
<1>2. CASE HidNext /\ ~(NewDevice \/ NotHidDevice \/ OpenFailed \/ DeviceGone)
  BY <1>2, HidLeaves
<1>3. CASE ProcNext \/ Stop \/ Start
  BY <1>3, ProcLeaves
<1>4. CASE Bus
  BY <1>4 DEF Bus, Plug, Unplug, Transfer, Attach, DetachOpen, DetachUnopened,
              Complete
<1> QED
  BY <1>1, <1>2, <1>3, <1>4 DEF Next

\* What the processor task claims is an interface of a device that is there.
LEMMA ClaimEffect ==
    ASSUME IInv, ClaimInterface
    PROVE  /\ proc.pc = "claim" /\ proc.ptr \in Listed
           /\ UNCHANGED <<port, opened, ifaces, obj, queue, hid, fault>>
           /\ \/ /\ ClaimOk(PipeOf(proc.ptr))
                 /\ claimed' = claimed \cup {PipeOf(proc.ptr)}
                 /\ proc' = [proc EXCEPT !.pc = "alloc"]
              \/ /\ ~ClaimOk(PipeOf(proc.ptr)) \/ MayFail("claim")
                 /\ claimed' = claimed
                 /\ proc' = ProcIdle
BY Pointers DEF ClaimInterface, ProcAt, ProcReturn, driverVars

LEMMA OpenedStep ==
    ASSUME KInv, ClaimedAreOpened, Next
    PROVE  ClaimedAreOpened'
<1>1. CASE Reboot
  BY <1>1 DEF Reboot, LibReset, ClaimedAreOpened
<1>2. CASE UninstallClose
  <2>1. /\ \A p \in claimed : p[1] # hid.dev
        /\ opened' = opened \ {hid.dev} /\ claimed' = claimed
    BY <1>2 DEF UninstallClose, CloseOk
  <2> QED
    BY <2>1 DEF ClaimedAreOpened
<1>3. CASE ClaimInterface
  BY <1>3, ClaimEffect DEF KInv, ClaimedAreOpened, ClaimOk
<1>4. CASE ~Reboot /\ ~UninstallClose /\ ~ClaimInterface
  BY <1>4, ClaimsGrow, OpenedStays DEF ClaimedAreOpened
<1> QED
  BY <1>1, <1>2, <1>3, <1>4

-----------------------------------------------------------------------------
(* The steps of the processor task about an interface.                     *)

\* An interface of a device that is there is not being taken down.
LEMMA NotTakenDown ==
    ASSUME KInv, NEW a \in Listed, port[obj[a].dev] = "attached"
    PROVE  ~(hid.pc \in Closing /\ hid.ptr = a)
BY DEF KInv, LInv, ListShape, TakesOwn, OpenShape, Closing, Teardown

\* An interface that waits after a step waited before it, or is the new one: no
\* close sets an interface of a device that is there back to IDLE, and a device
\* does not come back while its interfaces are listed.
LEMMA WaitedBefore ==
    ASSUME KInv, Next, ~Reboot, ~AddInterface, NEW a \in Listed', Waiting(a)'
    PROVE  /\ a \in Listed /\ Waiting(a)
           /\ PipeOf(a)' = PipeOf(a) /\ obj'[a].dev = obj[a].dev
<1>1. /\ a \in Listed /\ PipeOf(a)' = PipeOf(a) /\ obj'[a].dev = obj[a].dev
      /\ IfaceEffect(a)
  BY PlacesKept, IfaceSteps DEF KInv
<1>2. port[obj[a].dev] = "attached"
  <2>1. obj[a].dev \in opened /\ port'[obj[a].dev] = "attached"
    BY <1>1 DEF KInv, ListShape, ListedOpen, Waiting
  <2> QED
    BY <2>1, PortStays DEF KInv, LInv
<1>3. ~(hid.pc \in Closing /\ hid.ptr = a)
  BY <1>1, <1>2, NotTakenDown
<1>4. ~(CloseFreeTransfer /\ a = hid.ptr)
  BY <1>3, ClosingSteps
<1>5. obj'[a].state = "IDLE"
  BY DEF Waiting
<1>6. obj[a].state = "IDLE"
  BY <1>1, <1>4, <1>5 DEF IfaceEffect
<1> QED
  BY <1>1, <1>2, <1>6 DEF Waiting

\* What the driver task and the bus do to the processor task.
LEMMA HidOnProc ==
    ASSUME IInv, HidNext \/ Bus
    PROVE  /\ proc'.h = proc.h
           /\ proc'.pc = proc.pc \/ proc.pc = "ctrl_wait"
           /\ proc'.ptr = proc.ptr \/ (hid.pc \in Closing /\ hid.ptr = proc.ptr)
<1>q. proc \in ProcTask
  BY DEF IInv, TypeOK
<1>1. CASE CloseFinish \/ ShutdownRemove
  <2>1. \/ proc' = proc
        \/ proc' = [proc EXCEPT !.ptr = IF @ = hid.ptr THEN Dangling ELSE @]
    BY <1>1 DEF CloseFinish, ShutdownRemove, RemoveInterface
  <2>2. hid.pc \in Closing
    BY <1>1, ClosingSteps
  <2> QED
    BY <1>q, <2>1, <2>2 DEF ProcTask
<1>2. CASE UninstallUnlist
  BY <1>q, <1>2 DEF UninstallUnlist, ProcTask
<1>3. CASE CtrlXferDone
  BY <1>q, <1>3 DEF CtrlXferDone, ProcTask
<1>4. CASE HidNext /\ ~CloseFinish /\ ~ShutdownRemove /\ ~UninstallUnlist /\ ~CtrlXferDone
  <2>1. CASE \/ NewDevice \/ NotHidDevice \/ OpenFailed \/ InstallDevice
             \/ AddInterface \/ SkipInterface \/ ListCreated \/ InstallFails
             \/ CallbackFails
    BY <2>1 DEF NewDevice, NotHidDevice, OpenFailed, InstallDevice,
                AddInterface, SkipInterface, ListCreated, InstallFails,
                CallbackFails, Fail
  <2>2. CASE \/ NotifyConnected \/ AllNotified \/ DeviceGone \/ GoneFirst
             \/ GoneEmpty \/ CloseDisable \/ CloseDisableFails
    BY <2>2 DEF NotifyConnected, AllNotified, DeviceGone, GoneFirst,
                GoneEmpty, CloseDisable, CloseDisableFails
  <2>3. CASE CloseRelease \/ CloseReleaseFails \/ CloseFreeTransfer \/ Shutdown
    BY <2>3 DEF CloseRelease, CloseReleaseFails, CloseFreeTransfer, Shutdown
  <2>4. CASE \/ UninstallFreeCtrl \/ UninstallClose \/ UninstallCloseFails
             \/ Resubmit \/ \E p \in Pipe : InXferDone(p)
    BY <2>4 DEF UninstallFreeCtrl, UninstallClose, UninstallCloseFails,
                Resubmit, InXferDone
  <2> QED
    BY <1>4, <2>1, <2>2, <2>3, <2>4 DEF HidNext
<1>5. CASE Bus
  BY <1>5 DEF Bus, Plug, Unplug, Transfer
<1> QED
  BY <1>1, <1>2, <1>3, <1>4, <1>5

\* From the claim to the buffer the processor task does nothing else.
LEMMA AllocNext ==
    ASSUME IInv, OpensWhenFree, Next, ~Reboot, proc.pc = "alloc",
           ~(hid.pc \in Closing /\ hid.ptr = proc.ptr)
    PROVE  \/ PrepareTransfer
           \/ proc'.pc = "alloc" /\ proc'.ptr = proc.ptr
<1>1. CASE HidNext \/ Bus
  BY <1>1, HidOnProc
<1>2. CASE Stop \/ Start
  BY <1>2 DEF OpensWhenFree, Stop, Start
<1>3. CASE ProcNext
  <2>1. ~PrepareTransferFails
    BY DEF PrepareTransferFails, MayFail, OpensWhenFree
  <2>2. CASE UseAfterFree
    BY <2>2 DEF UseAfterFree, Fail
  <2>3. CASE \/ Receive \/ GetParams \/ CopyParams \/ DeviceOpen \/ CheckOpen
             \/ ClaimInterface \/ SetCallback
    BY <2>3 DEF Receive, GetParams, CopyParams, DeviceOpen, CheckOpen,
                ClaimInterface, SetCallback, Lookup, ProcAt
  <2>4. CASE \/ ClassRequest \/ TakeParent \/ SubmitControl \/ ControlDone
             \/ ControlFails
    BY <2>4 DEF ClassRequest, TakeParent, SubmitControl, ControlDone,
                ControlFails, Lookup, ProcAt
  <2>5. CASE DeviceStart \/ CheckStart \/ Activate \/ SubmitIn
    BY <2>5 DEF DeviceStart, CheckStart, Activate, SubmitIn, Lookup, ProcAt
  <2> QED
    BY <1>3, <2>1, <2>2, <2>3, <2>4, <2>5 DEF ProcNext
<1> QED
  BY <1>1, <1>2, <1>3 DEF Next

\* The owner of a claim keeps it while its device is there.
LEMMA OwnerKept ==
    ASSUME KInv, OpensWhenFree, Next, ~Reboot,
           NEW a \in Listed, port[obj[a].dev] = "attached", OwnsClaim(a)
    PROVE  a \in Listed' /\ PipeOf(a)' = PipeOf(a) /\ OwnsClaim(a)'
<1>1. ~(hid.pc \in Closing /\ hid.ptr = a)
  BY NotTakenDown
<1>2. a \in Listed' /\ PipeOf(a)' = PipeOf(a)
  BY <1>1, StaysListed DEF KInv
<1>3. AddInterface => obj'[a] = obj[a]
  BY AddLeaves DEF KInv
<1>4. ~AddInterface => IfaceEffect(a)
  BY <1>2, IfaceSteps DEF KInv
<1>5. ~(CloseFreeTransfer /\ a = hid.ptr) /\ ~(Shutdown /\ a = hid.ptr)
  BY <1>1, ClosingSteps
<1>6. obj[a].state \in {"READY", "ACTIVE"} => obj'[a].state \in {"READY", "ACTIVE"}
  BY <1>3, <1>4, <1>5 DEF IfaceEffect
<1>7. ASSUME proc.pc = "alloc" /\ proc.ptr = a
      PROVE  OwnsClaim(a)'
  <2>1. CASE PrepareTransfer
    <3>1. obj'[a].state = "READY"
      <4>1. obj \in [Addr -> Iface] /\ a \in Addr
        BY Pointers DEF KInv, IInv, TypeOK
      <4>2. obj' = [obj EXCEPT ![a].xfer = "alloc", ![a].state = "READY"]
        BY <1>7, <2>1 DEF PrepareTransfer
      <4> QED
        BY <4>1, <4>2 DEF Iface
    <3> QED
      BY <3>1 DEF OwnsClaim
  <2>2. CASE proc'.pc = "alloc" /\ proc'.ptr = proc.ptr
    BY <1>7, <2>2 DEF OwnsClaim
  <2> QED
    BY <1>1, <1>7, <2>1, <2>2, AllocNext DEF KInv
<1> QED
  BY <1>2, <1>6, <1>7 DEF OwnsClaim

LEMMA OwnerStep ==
    ASSUME KInv, ClaimedAreOpened, ClaimHasOwner, OpensWhenFree, Next
    PROVE  ClaimHasOwner'
<1>1. CASE Reboot
  BY <1>1 DEF Reboot, LibReset, ClaimHasOwner
<1>2. CASE ~Reboot
  <2> SUFFICES ASSUME NEW p \in claimed', port'[p[1]] = "attached"
               PROVE  \E a \in Listed' : PipeOf(a)' = p /\ OwnsClaim(a)'
    BY DEF ClaimHasOwner
  <2>1. CASE p \in claimed
    <3>1. port[p[1]] = "attached"
      BY <1>2, <2>1, PortStays DEF ClaimedAreOpened, KInv, LInv
    <3>2. PICK a \in Listed : PipeOf(a) = p /\ OwnsClaim(a)
      BY <2>1, <3>1 DEF ClaimHasOwner
    <3>3. obj[a].dev = p[1]
      BY <3>2 DEF PipeOf
    <3> QED
      BY <1>2, <3>1, <3>2, <3>3, OwnerKept
  <2>2. CASE p \notin claimed
    <3>1. ClaimInterface
      BY <1>2, <2>2, ClaimsGrow
    <3>2. PICK a \in Listed :
             /\ a = proc.ptr /\ UNCHANGED <<ifaces, obj>>
             /\ p = PipeOf(a) /\ proc' = [proc EXCEPT !.pc = "alloc"]
      BY <2>2, <3>1, ClaimEffect DEF KInv
    <3>3. proc'.pc = "alloc" /\ proc'.ptr = a
      BY <3>2 DEF KInv, IInv, TypeOK, ProcTask
    <3>4. a \in Listed' /\ PipeOf(a)' = p
      BY <3>2 DEF Listed, PipeOf
    <3>5. OwnsClaim(a)'
      BY <3>3 DEF OwnsClaim
    <3> QED
      BY <3>4, <3>5
  <2> QED
    BY <2>1, <2>2
<1> QED
  BY <1>1, <1>2

\* An interface that waits can be claimed: nobody else holds its claim.
LEMMA ClaimSucceeds ==
    ASSUME KInv, ClaimHasOwner, NEW a \in Listed, Waiting(a),
           proc.pc = "claim"
    PROVE  ClaimOk(PipeOf(a))
<1>1. obj[a].dev \in opened
  BY DEF KInv, ListShape, ListedOpen
<1>2. ASSUME PipeOf(a) \in claimed
      PROVE  FALSE
  <2>1. PICK b \in Listed : PipeOf(b) = PipeOf(a) /\ OwnsClaim(b)
    BY <1>2 DEF ClaimHasOwner, Waiting, PipeOf
  <2>2. b = a
    BY <2>1 DEF KInv, ListShape, OneListing
  <2> QED
    BY <2>1, <2>2 DEF OwnsClaim, Waiting
<1> QED
  BY <1>1, <1>2 DEF ClaimOk, PipeOf, Waiting

-----------------------------------------------------------------------------
(* The queue and the notifications.                                        *)

\* An event in the queue stays there until it is received.
LEMMA QueueKept ==
    ASSUME IInv, Next, ~Reboot, NEW a, a \in ToSet(queue)
    PROVE  a \in ToSet(queue') \/ (Receive /\ a = Head(queue))
<1>1. queue \in Seq(Addr)
  BY DEF IInv, TypeOK
<1>2. CASE Receive
  <2>1. queue' = Tail(queue) /\ queue # <<>>
    BY <1>2 DEF Receive
  <2>2. PICK i \in 1..Len(queue) : queue[i] = a
    BY <1>1 DEF ToSet
  <2>3. CASE i = 1
    BY <1>1, <1>2, <2>1, <2>2, <2>3
  <2>4. CASE i # 1
    <3>1. i - 1 \in 1..Len(Tail(queue)) /\ Tail(queue)[i - 1] = a
      BY <1>1, <2>1, <2>2, <2>4
    <3>2. DOMAIN Tail(queue) = 1..Len(Tail(queue))
      BY <1>1, <2>1
    <3>3. a \in {Tail(queue)[j] : j \in DOMAIN Tail(queue)}
      BY <3>1, <3>2
    <3> QED
      BY <2>1, <3>3 DEF ToSet
  <2> QED
    BY <2>3, <2>4
<1>3. CASE NotifyConnected
  <2>1. queue' = queue \/ \E b \in Addr : queue' = Append(queue, b)
    <3>1. hid.n \in DOMAIN ifaces => ifaces[hid.n] \in Addr
      BY DEF IInv, TypeOK
    <3> QED
      BY <1>3, <3>1 DEF NotifyConnected, addEventToQueue
  <2> QED
    BY <1>1, <2>1 DEF ToSet
<1>4. CASE (ProcNext \/ Stop \/ Start) /\ ~Receive
  <2>1. CASE \/ GetParams \/ CopyParams \/ DeviceOpen \/ CheckOpen
             \/ ClaimInterface \/ PrepareTransfer \/ PrepareTransferFails
             \/ SetCallback
    BY <2>1 DEF GetParams, CopyParams, DeviceOpen, CheckOpen, ClaimInterface,
                PrepareTransfer, PrepareTransferFails, SetCallback, Lookup
  <2>2. CASE \/ ClassRequest \/ TakeParent \/ SubmitControl \/ ControlDone
             \/ ControlFails \/ Stop \/ Start
    BY <2>2 DEF ClassRequest, TakeParent, SubmitControl, ControlDone,
                ControlFails, Stop, Start, Lookup
  <2>3. CASE DeviceStart \/ CheckStart \/ Activate \/ SubmitIn \/ UseAfterFree
    BY <2>3 DEF DeviceStart, CheckStart, Activate, SubmitIn, UseAfterFree,
                Fail, Lookup
  <2> QED
    BY <1>4, <2>1, <2>2, <2>3 DEF ProcNext
<1>5. CASE HidNext /\ ~NotifyConnected
  <2>1. CASE \/ NewDevice \/ NotHidDevice \/ OpenFailed \/ InstallDevice
             \/ AddInterface \/ SkipInterface \/ ListCreated \/ InstallFails
             \/ CallbackFails \/ AllNotified
    BY <2>1 DEF NewDevice, NotHidDevice, OpenFailed, InstallDevice,
                AddInterface, SkipInterface, ListCreated, InstallFails,
                CallbackFails, Fail,
                AllNotified
  <2>2. CASE \/ DeviceGone \/ GoneFirst \/ GoneEmpty \/ CloseDisable
             \/ CloseDisableFails \/ CloseRelease \/ CloseReleaseFails
    BY <2>2 DEF DeviceGone, GoneFirst, GoneEmpty, CloseDisable,
                CloseDisableFails, CloseRelease, CloseReleaseFails
  <2>3. CASE \/ CloseFreeTransfer \/ CloseFinish \/ Shutdown \/ ShutdownRemove
             \/ UninstallFreeCtrl \/ UninstallClose \/ UninstallCloseFails
    BY <2>3 DEF CloseFreeTransfer, CloseFinish, Shutdown, ShutdownRemove,
                UninstallFreeCtrl, UninstallClose, UninstallCloseFails
  <2>4. CASE \/ UninstallUnlist \/ Resubmit \/ CtrlXferDone
             \/ \E p \in Pipe : InXferDone(p)
    BY <2>4 DEF UninstallUnlist, Resubmit, CtrlXferDone, InXferDone
  <2> QED
    BY <1>5, <2>1, <2>2, <2>3, <2>4 DEF HidNext
<1>6. CASE Bus
  BY <1>6 DEF Bus, Plug, Unplug, Transfer
<1> QED
  BY <1>2, <1>3, <1>4, <1>5, <1>6 DEF Next

\* While a device is added, the driver task does nothing else.
LEMMA AddingNext ==
    ASSUME IInv, Next, ~Reboot, hid.pc \in {"add", "notify"}
    PROVE  \/ UNCHANGED <<hid, ifaces>>
           \/ AddInterface \/ SkipInterface \/ ListCreated
           \/ NotifyConnected \/ AllNotified
<1>1. CASE ProcNext \/ Stop \/ Start
  BY <1>1, ProcLeaves
<1>2. CASE Bus
  BY <1>2 DEF Bus, Plug, Unplug, Transfer, driverVars
<1>3. CASE HidNext
  <2>1. CASE \/ NewDevice \/ NotHidDevice \/ OpenFailed \/ InstallDevice
             \/ InstallFails \/ CallbackFails
    BY <2>1 DEF NewDevice, NotHidDevice, OpenFailed, InstallDevice,
                InstallFails, CallbackFails, Fail, HidAt, driverVars
  <2>2. ~CloseDisable /\ ~CloseFreeTransfer /\ ~Shutdown /\ ~CloseFinish
        /\ ~ShutdownRemove /\ ~CloseRelease
    BY ClosingSteps DEF Closing
  <2>3. CASE \/ DeviceGone \/ GoneFirst \/ GoneEmpty
             \/ CloseDisableFails \/ CloseReleaseFails
    BY <2>3 DEF DeviceGone, GoneFirst, GoneEmpty, CloseDisableFails,
                CloseReleaseFails, HidAt
  <2>4. CASE \/ UninstallFreeCtrl \/ UninstallClose \/ UninstallCloseFails
             \/ UninstallUnlist \/ Resubmit \/ CtrlXferDone
             \/ \E p \in Pipe : InXferDone(p)
    BY <2>4 DEF UninstallFreeCtrl, UninstallClose, UninstallCloseFails,
                UninstallUnlist, Resubmit, CtrlXferDone, InXferDone, HidAt
  <2> QED
    BY <1>3, <2>1, <2>2, <2>3, <2>4 DEF HidNext
<1> QED
  BY <1>1, <1>2, <1>3 DEF Next

\* An interface on the list of the device that is being added is notified.
LEMMA AddedNext ==
    ASSUME KInv, NotifiesFromFirst, RoomToNotify, Next, ~Reboot, ~AddInterface,
           NEW a \in Listed, BeingAdded(a), obj'[a].dev = obj[a].dev
    PROVE  BeingAdded(a)' \/ a \in ToSet(queue')
<1>1. /\ hid \in HidTask /\ hid.n \in Nat /\ ifaces \in Seq(Addr)
      /\ queue \in Seq(Addr) /\ DOMAIN ifaces = 1..Len(ifaces)
  BY DEF KInv, IInv, TypeOK, HidTask
<1>2. PICK i \in DOMAIN ifaces : ifaces[i] = a
  BY DEF Listed
<1>3. CASE UNCHANGED <<hid, ifaces>>
  BY <1>3 DEF BeingAdded
<1>4. CASE SkipInterface
  <2>1. hid'.pc = "add" /\ hid'.dev = hid.dev
    BY <1>1, <1>4 DEF SkipInterface, HidAt, HidTask
  <2> QED
    BY <2>1 DEF BeingAdded
<1>5. CASE ListCreated
  <2>1. hid'.pc = "notify" /\ hid'.dev = hid.dev /\ hid'.n = 1 /\ ifaces' = ifaces
    BY <1>1, <1>5 DEF ListCreated, HidTask, driverVars
  <2>2. i >= 1
    BY <1>1
  <2> QED
    BY <1>2, <2>1, <2>2 DEF BeingAdded
<1>6. CASE NotifyConnected
  <2>1. /\ hid.pc = "notify" /\ hid.n \in DOMAIN ifaces /\ ifaces' = ifaces
        /\ hid'.pc = "notify" /\ hid'.dev = hid.dev /\ hid'.n = hid.n + 1
    BY <1>1, <1>6 DEF NotifyConnected, HidAt, HidTask, driverVars
  <2>2. PICK j \in DOMAIN ifaces : ifaces[j] = a /\ j >= hid.n
    BY <2>1 DEF BeingAdded
  <2>3. CASE j = hid.n
    <3>1. queue' = IF Len(queue) < QueueCap THEN Append(queue, a) ELSE queue
      BY <1>6, <2>1, <2>2, <2>3 DEF NotifyConnected, addEventToQueue, BeingAdded
    <3>2. Len(queue) < QueueCap \/ a \in ToSet(queue)
      BY <2>1, <2>2, <2>3 DEF RoomToNotify
    <3>3. a \in Addr
      BY Pointers DEF KInv
    <3>4. CASE Len(queue) < QueueCap
      BY <1>1, <3>1, <3>3, <3>4 DEF ToSet
    <3>5. CASE ~(Len(queue) < QueueCap)
      BY <3>1, <3>2, <3>5
    <3> QED
      BY <3>4, <3>5
  <2>4. CASE j # hid.n
    <3>1. j >= hid'.n
      BY <1>1, <2>1, <2>2, <2>4
    <3> QED
      BY <2>1, <2>2, <3>1 DEF BeingAdded
  <2> QED
    BY <2>3, <2>4
<1>7. ~AllNotified
  <2> SUFFICES ASSUME AllNotified
               PROVE  FALSE
    OBVIOUS
  <2>1. hid.pc = "notify" /\ hid.n \notin DOMAIN ifaces /\ hid.n >= 1
    BY DEF AllNotified, HidAt, NotifiesFromFirst
  <2>2. PICK j \in DOMAIN ifaces : j >= hid.n
    BY <2>1 DEF BeingAdded
  <2> QED
    BY <1>1, <2>1, <2>2
<1>8. hid.pc \in {"add", "notify"}
  BY DEF BeingAdded
<1> QED
  BY <1>3, <1>4, <1>5, <1>6, <1>7, <1>8, AddingNext DEF KInv

-----------------------------------------------------------------------------
(* The processor task on its way to an open.                               *)

LEMMA AtHandNext ==
    ASSUME KInv, ClaimHasOwner, OpensWhenFree, Next, ~Reboot,
           NEW a \in Listed, Waiting(a), AtHand(a), PipeOf(a)' = PipeOf(a)
    PROVE  AtHand(a)' \/ obj'[a].state # "IDLE"
<1> DEFINE kind == Desc(PipeOf(a)).kind
<1>1. /\ proc \in ProcTask /\ obj \in [Addr -> Iface] /\ a \in Addr
      /\ a # Dangling /\ a # Null
  BY Pointers DEF KInv, IInv, TypeOK
<1>2. CASE HidNext \/ Bus
  <2>1. ~(hid.pc \in Closing /\ hid.ptr = a)
    BY NotTakenDown DEF Waiting
  <2>2. proc'.h = proc.h /\ proc'.pc = proc.pc
    BY <1>2, HidOnProc DEF AtHand, KInv
  <2>3. proc.ptr = a => proc'.ptr = a
    BY <1>2, <2>1, HidOnProc DEF KInv
  <2> QED
    BY <2>2, <2>3 DEF AtHand
<1>3. CASE Stop \/ Start
  BY <1>3 DEF OpensWhenFree, Stop, Start, AtHand
<1>4. CASE UseAfterFree
  BY <1>4 DEF UseAfterFree, Fail, AtHand
<1>5. CASE GetParams
  <2>1. proc.pc = "get_params" /\ proc.h = a
        /\ proc' = [proc EXCEPT !.pc = "params", !.ptr = a]
    BY <1>5 DEF GetParams, Lookup, ProcAt, AtHand
  <2>2. proc'.pc = "params" /\ proc'.h = a /\ proc'.ptr = a
    BY <1>1, <2>1 DEF ProcTask
  <2> QED
    BY <2>2 DEF AtHand
<1>6. CASE DeviceOpen
  <2>1. /\ proc.pc = "open" /\ proc.h = a /\ kind # "badproto"
        /\ proc' = [proc EXCEPT !.pc = "check", !.ptr = a]
    BY <1>6 DEF DeviceOpen, Lookup, ProcAt, AtHand
  <2>2. proc'.pc = "check" /\ proc'.h = a /\ proc'.ptr = a
    BY <1>1, <2>1 DEF ProcTask
  <2> QED
    BY <2>1, <2>2 DEF AtHand
<1>7. CASE CopyParams
  <2>1. proc.pc = "params" /\ proc.ptr = a /\ proc.h = a
    BY <1>7 DEF CopyParams, ProcAt, AtHand
  <2>2. CASE kind = "badproto"
    BY <1>7, <2>1, <2>2 DEF CopyParams, AtHand
  <2>3. CASE kind # "badproto"
    <3>1. proc' = [proc EXCEPT !.pc = "open", !.ptr = Null, !.kind = kind]
      BY <1>7, <2>1, <2>3 DEF CopyParams
    <3>2. proc'.pc = "open" /\ proc'.h = a
      BY <1>1, <2>1, <3>1 DEF ProcTask
    <3> QED
      BY <2>3, <3>2 DEF AtHand
  <2> QED
    BY <2>2, <2>3
<1>8. CASE CheckOpen
  <2>1. proc.pc = "check" /\ proc.ptr = a /\ proc.h = a /\ kind # "badproto"
    BY <1>8 DEF CheckOpen, ProcAt, AtHand
  <2>2. proc' = [proc EXCEPT !.pc = "claim"]
    BY <1>8, <2>1 DEF CheckOpen, Waiting
  <2>3. proc'.pc = "claim" /\ proc'.h = a /\ proc'.ptr = a
    BY <1>1, <2>1, <2>2 DEF ProcTask
  <2> QED
    BY <2>1, <2>3 DEF AtHand
<1>9. CASE ClaimInterface
  <2>1. proc.pc = "claim" /\ proc.ptr = a /\ proc.h = a /\ kind # "badproto"
    BY <1>9 DEF ClaimInterface, ProcAt, AtHand
  <2>2. ClaimOk(PipeOf(a)) /\ ~MayFail("claim")
    BY <2>1, ClaimSucceeds DEF MayFail, OpensWhenFree
  <2>3. proc' = [proc EXCEPT !.pc = "alloc"]
    BY <1>9, <2>1, <2>2, ClaimEffect DEF KInv
  <2>4. proc'.pc = "alloc" /\ proc'.h = a /\ proc'.ptr = a
    BY <1>1, <2>1, <2>3 DEF ProcTask
  <2> QED
    BY <2>1, <2>4 DEF AtHand
<1>10. CASE PrepareTransfer
  <2>1. obj' = [obj EXCEPT ![a].xfer = "alloc", ![a].state = "READY"]
    BY <1>10 DEF PrepareTransfer, ProcAt, AtHand
  <2> QED
    BY <1>1, <2>1 DEF Iface
<1>11. ~PrepareTransferFails
  BY DEF PrepareTransferFails, MayFail, OpensWhenFree
<1>12. CASE \/ Receive \/ SetCallback \/ ClassRequest \/ TakeParent
            \/ SubmitControl \/ ControlDone \/ ControlFails
  BY <1>12 DEF Receive, SetCallback, ClassRequest, TakeParent, SubmitControl,
               ControlDone, ControlFails, Lookup, ProcAt, AtHand
<1>13. CASE DeviceStart \/ CheckStart \/ Activate \/ SubmitIn
  BY <1>13 DEF DeviceStart, CheckStart, Activate, SubmitIn, Lookup, ProcAt, AtHand
<1> QED
  BY <1>2, <1>3, <1>4, <1>5, <1>6, <1>7, <1>8, <1>9, <1>10, <1>11, <1>12, <1>13
  DEF Next, ProcNext

-----------------------------------------------------------------------------
(* The invariant and the theorem.                                          *)

LEMMA ForgottenStep ==
    ASSUME KInv, QInv, OpensWhenFree, RoomToNotify, Next
    PROVE  NoneForgotten'
<1>1. CASE Reboot
  BY <1>1 DEF Reboot, NoneForgotten, Listed
<1>2. CASE AddInterface
  <2>1. PICK b \in Addr \ Listed :
           /\ Listed' = Listed \cup {b} /\ obj'[b].dev = hid.dev
           /\ \A a \in Listed : obj'[a] = obj[a] /\ PipeOf(a)' = PipeOf(a)
    BY <1>2, AddLeaves DEF KInv
  <2>2. /\ hid.pc = "add" /\ hid'.pc = "add" /\ hid'.dev = hid.dev
        /\ UNCHANGED <<port, queue, proc>>
    BY <1>2 DEF AddInterface, HidAt, HidTask, KInv, IInv, TypeOK, libVars
  <2>3. BeingAdded(b)'
    BY <2>1, <2>2 DEF BeingAdded
  <2>4. ASSUME NEW a \in Listed, Waiting(a)'
        PROVE  a \in ToSet(queue)' \/ BeingAdded(a)' \/ AtHand(a)'
    <3>1. Waiting(a)
      BY <2>1, <2>2, <2>4 DEF Waiting
    <3>2. a \in ToSet(queue) \/ BeingAdded(a) \/ AtHand(a)
      BY <3>1 DEF QInv, NoneForgotten
    <3>3. BeingAdded(a) => BeingAdded(a)'
      BY <2>1, <2>2 DEF BeingAdded
    <3>4. AtHand(a) => AtHand(a)'
      BY <2>1, <2>2 DEF AtHand
    <3> QED
      BY <2>2, <3>2, <3>3, <3>4
  <2> QED
    BY <2>1, <2>3, <2>4 DEF NoneForgotten
<1>3. CASE ~Reboot /\ ~AddInterface
  <2> SUFFICES ASSUME NEW a \in Listed', Waiting(a)'
               PROVE  a \in ToSet(queue)' \/ BeingAdded(a)' \/ AtHand(a)'
    BY DEF NoneForgotten
  <2>1. /\ a \in Listed /\ Waiting(a) /\ obj'[a].dev = obj[a].dev
        /\ PipeOf(a)' = PipeOf(a)
    BY <1>3, WaitedBefore
  <2>2. CASE a \in ToSet(queue)
    <3>1. CASE Receive /\ a = Head(queue)
      <4>1. proc' = [ProcIdle EXCEPT !.pc = "get_params", !.h = a]
        BY <3>1 DEF Receive
      <4>2. proc'.pc = "get_params" /\ proc'.h = a
        BY <4>1 DEF ProcIdle
      <4> QED
        BY <4>2 DEF AtHand
    <3> QED
      BY <1>3, <2>2, <3>1, QueueKept DEF KInv
  <2>3. CASE BeingAdded(a)
    BY <1>3, <2>1, <2>3, AddedNext DEF QInv
  <2>4. CASE AtHand(a)
    BY <1>3, <2>1, <2>4, AtHandNext DEF QInv, Waiting
  <2> QED
    BY <2>1, <2>2, <2>3, <2>4 DEF QInv, NoneForgotten
<1> QED
  BY <1>1, <1>2, <1>3

LEMMA FirstStep ==
    ASSUME KInv, NotifiesFromFirst, Next
    PROVE  NotifiesFromFirst'
<1>1. hid \in HidTask /\ hid.n \in Nat
  BY DEF KInv, IInv, TypeOK, HidTask
<1>2. CASE Reboot
  BY <1>2 DEF Reboot, HidIdle, NotifiesFromFirst
<1>3. CASE hid.pc \in {"add", "notify"} /\ ~Reboot
  <2>1. CASE UNCHANGED <<hid, ifaces>>
    BY <2>1 DEF NotifiesFromFirst
  <2>2. CASE AddInterface \/ SkipInterface
    BY <1>1, <2>2 DEF AddInterface, SkipInterface, HidAt, HidTask, NotifiesFromFirst
  <2>3. CASE ListCreated
    BY <1>1, <2>3 DEF ListCreated, HidTask, NotifiesFromFirst
  <2>4. CASE NotifyConnected
    BY <1>1, <2>4 DEF NotifyConnected, HidAt, HidTask, NotifiesFromFirst
  <2>5. CASE AllNotified
    BY <2>5 DEF AllNotified, HidReturn, HidIdle, NotifiesFromFirst
  <2> QED
    BY <1>3, <2>1, <2>2, <2>3, <2>4, <2>5, AddingNext DEF KInv
<1>4. CASE hid.pc \notin {"add", "notify"} /\ ~Reboot
  <2>1. CASE (ProcNext \/ Stop \/ Start) \/ Bus
    BY <1>4, <2>1, ProcLeaves DEF Bus, Plug, Unplug, Transfer, NotifiesFromFirst
  <2>2. CASE NewDevice \/ InstallDevice \/ DeviceGone \/ UninstallClose
    <3>1. hid'.pc # "notify"
      BY <1>1, <1>4, <2>2
         DEF NewDevice, InstallDevice, DeviceGone, UninstallClose, HidGoto,
             HidIdle, HidTask
    <3> QED
      BY <3>1 DEF NotifiesFromFirst
  <2>3. CASE HidNext /\ ~(NewDevice \/ InstallDevice \/ DeviceGone \/ UninstallClose)
    BY <1>4, <2>3, HidMoves DEF NotifiesFromFirst, Teardown, KInv, IInv
  <2> QED
    BY <1>4, <2>1, <2>2, <2>3 DEF Next
<1> QED
  BY <1>2, <1>3, <1>4

\* QInv holds as long as the queue has room for what is notified.
LEMMA QueueInvariance ==
    OpensWhenFree => (Spec /\ []RoomToNotify => []QInv)
<1> SUFFICES ASSUME OpensWhenFree
             PROVE  Spec /\ []RoomToNotify => []QInv
  OBVIOUS
<1>1. Init => QInv
  BY DEF Init, LibInit, QInv, NoneForgotten, Listed, ClaimedAreOpened,
         ClaimHasOwner, NotifiesFromFirst, HidIdle
<1>2. KInv /\ QInv /\ RoomToNotify /\ [Next]_vars => QInv'
  <2>1. KInv /\ QInv /\ RoomToNotify /\ Next => QInv'
    BY ForgottenStep, OpenedStep, OwnerStep, FirstStep DEF QInv
  <2>2. QInv /\ UNCHANGED vars => QInv'
    BY DEF QInv, NoneForgotten, Waiting, BeingAdded, AtHand, ClaimedAreOpened,
           ClaimHasOwner, OwnsClaim, NotifiesFromFirst, Listed, PipeOf, vars,
           libVars, driverVars
  <2> QED
    BY <2>1, <2>2
<1> QED
  BY <1>1, <1>2, TransferInvariance, PTL DEF Spec

\* The interface of a device that is there is never forgotten: as long as it waits
\* to be opened, its CONNECTED event is in eventQueue, about to be put there, or in
\* the hands of hidEventProcessorTask. This needs room in the queue, which drops
\* what it cannot take, or another event of the same handle in it; an application
\* that does not stop the task; and a claim and an allocation that do not fail
\* without a reason, for no event is repeated.
THEOREM IdleNotForgotten ==
    OpensWhenFree => (Spec /\ []RoomToNotify => []IdleIsQueued)
<1> SUFFICES ASSUME OpensWhenFree
             PROVE  Spec /\ []RoomToNotify => []IdleIsQueued
  OBVIOUS
<1>1. QInv => IdleIsQueued
  BY DEF QInv, NoneForgotten, IdleIsQueued, Waiting, BeingAdded, AtHand
<1> QED
  BY <1>1, QueueInvariance, PTL

-----------------------------------------------------------------------------
(* The life of an interface.                                               *)

\* What the processor task found when it checked an open holds until the open,
\* as long as the device stays.
FoundIdle ==
    /\ proc.pc \in {"claim", "alloc"} /\ proc.ptr \in Listed
    /\ port[obj[proc.ptr].dev] = "attached"
    => obj[proc.ptr].state = "IDLE"

\* A claim on a device that is there, leaked or not, is on a listed interface.
ClaimedListed ==
    \A p \in claimed : port[p[1]] = "attached" => \E a \in Listed : PipeOf(a) = p

FInv == ClaimedAreOpened /\ FoundIdle /\ ClaimedListed

LEMMA ClaimArrives ==
    ASSUME IInv, Next, ~Reboot, proc'.pc = "claim", proc'.ptr \in Addr
    PROVE  CheckOpen \/ (proc.pc = "claim" /\ proc'.ptr = proc.ptr)
<1>q. proc \in ProcTask /\ Dangling \notin Addr
  BY AddrAssumption DEF IInv, TypeOK
<1>1. CASE HidNext \/ Bus
  <2>1. \/ proc' = proc \/ CtrlXferDone
        \/ CloseFinish \/ ShutdownRemove \/ UninstallUnlist
    <3>1. CASE \/ NewDevice \/ NotHidDevice \/ OpenFailed \/ InstallDevice
               \/ AddInterface \/ SkipInterface \/ ListCreated \/ InstallFails
               \/ CallbackFails
      BY <3>1 DEF NewDevice, NotHidDevice, OpenFailed, InstallDevice,
                  AddInterface, SkipInterface, ListCreated, InstallFails,
                CallbackFails, Fail
    <3>2. CASE \/ NotifyConnected \/ AllNotified \/ DeviceGone \/ GoneFirst
               \/ GoneEmpty \/ CloseDisable \/ CloseDisableFails
      BY <3>2 DEF NotifyConnected, AllNotified, DeviceGone, GoneFirst,
                  GoneEmpty, CloseDisable, CloseDisableFails
    <3>3. CASE CloseRelease \/ CloseReleaseFails \/ CloseFreeTransfer \/ Shutdown
      BY <3>3 DEF CloseRelease, CloseReleaseFails, CloseFreeTransfer, Shutdown
    <3>4. CASE \/ UninstallFreeCtrl \/ UninstallClose \/ UninstallCloseFails
               \/ Resubmit \/ \E p \in Pipe : InXferDone(p)
      <4>1. CASE UninstallFreeCtrl \/ UninstallClose \/ UninstallCloseFails
        BY <4>1 DEF UninstallFreeCtrl, UninstallClose, UninstallCloseFails
      <4>2. CASE Resubmit
        BY <4>2 DEF Resubmit
      <4>3. CASE \E p \in Pipe : InXferDone(p)
        <5>1. \A p \in Pipe : InXferDone(p) => proc' = proc
          BY Zenon DEF InXferDone
        <5> QED
          BY <4>3, <5>1
      <4> QED
        BY <3>4, <4>1, <4>2, <4>3
    <3>5. CASE Bus
      BY <3>5 DEF Bus, Plug, Unplug, Transfer
    <3> QED
      BY <1>1, <3>1, <3>2, <3>3, <3>4, <3>5 DEF HidNext
  <2>2. ~CtrlXferDone
    BY <1>q DEF CtrlXferDone, ProcTask
  <2>3. CASE CloseFinish \/ ShutdownRemove
    <3>1. \/ proc' = proc
          \/ proc' = [proc EXCEPT !.ptr = IF @ = hid.ptr THEN Dangling ELSE @]
      BY <2>3 DEF CloseFinish, ShutdownRemove, RemoveInterface
    <3> QED
      BY <1>q, <3>1 DEF ProcTask
  <2>4. CASE UninstallUnlist
    BY <1>q, <2>4 DEF UninstallUnlist, ProcTask
  <2> QED
    BY <2>1, <2>2, <2>3, <2>4
<1>2. CASE ProcNext \/ Stop \/ Start
  <2>1. CASE Receive
    <3>1. proc' = [ProcIdle EXCEPT !.pc = "get_params", !.h = Head(queue)]
      BY <2>1 DEF Receive
    <3>2. proc'.pc = "get_params"
      BY <3>1 DEF ProcIdle
    <3> QED
      BY <3>2
  <2>l. ASSUME NEW pc, NEW next \in {"params", "check", "parent", "prepare"},
               Lookup(pc, next)
        PROVE  FALSE
    <3>1. proc' = ProcIdle \/ proc' = [proc EXCEPT !.pc = next, !.ptr = proc.h]
      BY <2>l DEF Lookup
    <3>2. CASE proc' = ProcIdle
      BY <3>2 DEF ProcIdle
    <3>3. CASE proc' = [proc EXCEPT !.pc = next, !.ptr = proc.h]
      <4>1. proc'.pc = next
        BY <1>q, <3>3 DEF ProcTask
      <4> QED
        BY <4>1
    <3> QED
      BY <3>1, <3>2, <3>3
  <2>g. CASE GetParams \/ DeviceOpen \/ ClassRequest \/ DeviceStart
    BY <2>l, <2>g DEF GetParams, DeviceOpen, ClassRequest, DeviceStart
  <2>2. CASE CopyParams
    BY <1>q, <2>2 DEF CopyParams, ProcAt, ProcTask
  <2>3. CASE ClaimInterface \/ PrepareTransfer \/ PrepareTransferFails
    BY <1>q, <2>3 DEF ClaimInterface, PrepareTransfer, PrepareTransferFails,
                      ProcReturn, ProcIdle, ProcTask
  <2>4. CASE SetCallback
    BY <1>q, <2>4 DEF SetCallback, ProcGoto, ProcTask
  <2>5. CASE TakeParent
    BY <1>q, <2>5 DEF TakeParent, ProcTask
  <2>f. CASE ControlFails \/ Start
    BY <2>f DEF ControlFails, Start, ProcReturn, ProcIdle
  <2>d. CASE ControlDone
    BY <1>q, <2>d DEF ControlDone, ProcTask
  <2>s. CASE Stop
    <3>1. proc' = [ProcIdle EXCEPT !.pc = "stopped"]
      BY <2>s DEF Stop
    <3> QED
      BY <3>1 DEF ProcIdle
  <2>6. CASE SubmitControl
    BY <1>q, <2>6 DEF SubmitControl, ProcReturn, ProcAt, ProcIdle, ProcTask
  <2>7. CASE CheckStart
    BY <1>q, <2>7 DEF CheckStart, ProcIdle, ProcTask
  <2>8. CASE Activate \/ SubmitIn \/ UseAfterFree
    BY <1>q, <2>8 DEF Activate, SubmitIn, UseAfterFree, Fail, ProcAt, ProcReturn,
                      ProcIdle, ProcTask
  <2>9. CASE CheckOpen
    BY <2>9
  <2> QED
    BY <1>2, <2>1, <2>g, <2>2, <2>3, <2>4, <2>5, <2>f, <2>d, <2>s, <2>6, <2>7,
       <2>8, <2>9 DEF ProcNext
<1> QED
  BY <1>1, <1>2 DEF Next

LEMMA FoundStep ==
    ASSUME KInv, FoundIdle, Next
    PROVE  FoundIdle'
<1>q. proc \in ProcTask /\ IInv /\ FollowsHandle /\ ListedOpen /\ OpenShape /\ TypeOK
  BY DEF KInv, IInv, TypeOK, Started, ListShape, LInv
<1>1. CASE Reboot
  BY <1>1 DEF Reboot, ProcIdle, FoundIdle
<1>2. CASE ~Reboot
  <2> SUFFICES ASSUME proc'.pc \in {"claim", "alloc"}, proc'.ptr \in Listed',
                      port'[obj'[proc'.ptr].dev] = "attached"
               PROVE  obj'[proc'.ptr].state = "IDLE"
    BY DEF FoundIdle
  <2>t. proc'.ptr \in Addr
    <3>1. IInv'
      BY <1>q, TypeStep, ShapeStep DEF IInv
    <3>2. ifaces' \in Seq(Addr)
      BY <3>1 DEF IInv, TypeOK
    <3> QED
      BY <3>2, LenProperties, ElementOfSeq DEF Listed
  <2>1. CASE CheckOpen
    <3>1. /\ obj[proc.ptr].state = "IDLE" /\ obj' = obj
          /\ proc' = [proc EXCEPT !.pc = "claim"]
      BY <2>1 DEF CheckOpen, ProcIdle, driverVars
    <3> QED
      BY <1>q, <3>1 DEF ProcTask
  <2>2. CASE ClaimInterface
    <3>1. /\ proc.pc = "claim" /\ proc.ptr \in Listed
          /\ UNCHANGED <<port, obj>>
          /\ proc' = [proc EXCEPT !.pc = "alloc"]
      BY <1>q, <2>2, ClaimEffect DEF ProcIdle
    <3>2. proc'.ptr = proc.ptr
      BY <1>q, <3>1 DEF ProcTask
    <3> QED
      BY <3>1, <3>2 DEF FoundIdle
  <2>3. CASE ~CheckOpen /\ ~ClaimInterface
    <3>1. proc.pc = proc'.pc /\ proc'.ptr = proc.ptr
      BY <1>2, <1>q, <2>t, <2>3, ClaimArrives, ProcArrives
    <3>2. PICK a \in Listed : a = proc.ptr
      BY <1>q, <2>t, <3>1, Pointers
    <3>3. a \in Listed' /\ obj'[a].dev = obj[a].dev
      <4>1. CASE AddInterface
        BY <3>1, <3>2, <4>1, <1>q, AddLeaves
      <4>2. CASE ~AddInterface
        BY <1>2, <1>q, <3>1, <3>2, <4>2, PlacesKept
      <4> QED
        BY <4>1, <4>2
    <3>4. port[obj[a].dev] = "attached"
      BY <1>2, <1>q, <3>1, <3>2, <3>3, PortStays DEF ListedOpen
    <3>5. obj[a].state = "IDLE"
      BY <3>1, <3>2, <3>4 DEF FoundIdle
    <3>6. CASE AddInterface
      BY <1>q, <3>1, <3>2, <3>5, <3>6, AddLeaves
    <3>7. CASE ~AddInterface
      <4>1. IfaceEffect(a)
        BY <1>2, <1>q, <3>3, <3>7, IfaceSteps
      <4>2. ~(hid.pc \in Closing /\ hid.ptr = a)
        BY <3>4, NotTakenDown
      <4>3. ~PrepareTransfer /\ ~Activate
        BY <1>q, <3>1 DEF PrepareTransfer, Activate, ProcAt, ProcTask
      <4> QED
        BY <3>1, <3>2, <3>5, <4>1, <4>2, <4>3, ClosingSteps DEF IfaceEffect
    <3> QED
      BY <3>6, <3>7
  <2> QED
    BY <2>1, <2>2, <2>3
<1> QED
  BY <1>1, <1>2

LEMMA ClaimedListedStep ==
    ASSUME KInv, ClaimedAreOpened, ClaimedListed, Next
    PROVE  ClaimedListed'
<1>1. CASE Reboot
  BY <1>1 DEF Reboot, LibReset, ClaimedListed
<1>2. CASE ~Reboot
  <2> SUFFICES ASSUME NEW p \in claimed', port'[p[1]] = "attached"
               PROVE  \E a \in Listed' : PipeOf(a)' = p
    BY DEF ClaimedListed
  <2>1. CASE p \in claimed
    <3>1. port[p[1]] = "attached"
      BY <1>2, <2>1, PortStays DEF ClaimedAreOpened, KInv, LInv
    <3>2. PICK a \in Listed : PipeOf(a) = p
      BY <2>1, <3>1 DEF ClaimedListed
    <3>3. obj[a].dev = p[1]
      BY <3>2 DEF PipeOf
    <3> QED
      BY <1>2, <3>1, <3>2, <3>3, NotTakenDown, StaysListed DEF KInv
  <2>2. CASE p \notin claimed
    <3>1. ClaimInterface
      BY <1>2, <2>2, ClaimsGrow
    <3>2. proc.ptr \in Listed /\ UNCHANGED <<ifaces, obj>> /\ p = PipeOf(proc.ptr)
      BY <2>2, <3>1, ClaimEffect DEF KInv
    <3>3. Listed' = Listed /\ \A a : PipeOf(a)' = PipeOf(a)
      BY <3>2 DEF Listed, PipeOf
    <3> QED
      BY <3>2, <3>3
  <2> QED
    BY <2>1, <2>2
<1> QED
  BY <1>1, <1>2

LEMMA FoundInvariance == Spec => [](KInv /\ FInv)
<1>1. Init => FInv
  BY DEF Init, LibInit, FInv, ClaimedAreOpened, FoundIdle, ClaimedListed, ProcIdle
<1>2. KInv /\ FInv /\ [Next]_vars => FInv'
  <2>1. KInv /\ FInv /\ Next => FInv'
    BY OpenedStep, FoundStep, ClaimedListedStep DEF FInv
  <2>2. FInv /\ UNCHANGED vars => FInv'
    BY DEF FInv, ClaimedAreOpened, FoundIdle, ClaimedListed, Listed, PipeOf, vars,
           libVars, driverVars
  <2> QED
    BY <2>1, <2>2
<1> QED
  BY <1>1, <1>2, TransferInvariance, PTL DEF Spec

Held(p) == p \in claimed /\ Present(p)

Awaited(p) == pipe[p] # "idle" /\ Present(p)

SameLife(p) ==
    Phase(p)' = Phase(p) /\ (Held(p)' <=> Held(p)) /\ (Awaited(p)' <=> Awaited(p))

PhaseMoves(p, from, to) ==
    /\ Phase(p) = from /\ Phase(p)' = to
    /\ (Held(p)' <=> Held(p)) /\ (Awaited(p)' <=> Awaited(p))

\* What the actions of InterfaceLife that this driver takes do with one interface.
LivesOn(p) ==
    \/ PhaseMoves(p, "closed", "open") /\ Held(p)
    \/ PhaseMoves(p, "open", "started") /\ Held(p)
    \/ /\ Phase(p)' = Phase(p) /\ (Awaited(p)' <=> Awaited(p))
       /\ Phase(p) = "closed" /\ ~Held(p) /\ Held(p)'
    \/ /\ Phase(p)' = Phase(p) /\ (Held(p)' <=> Held(p))
       /\ \/ Phase(p) = "started" /\ Held(p) /\ ~Awaited(p) /\ Awaited(p)'
          \/ Awaited(p) /\ ~Awaited(p)'

LEMMA SamePipes ==
    \A A, B \in SUBSET Pipe : (\A q \in Pipe : q \in A <=> q \in B) => A = B
OBVIOUS

LEMMA LifeImplemented ==
    ASSUME claimed \subseteq Pipe, claimed' \subseteq Pipe, NEW p \in Pipe,
           LivesOn(p), \A q \in Pipe : q # p => SameLife(q)
    PROVE  Life!Next
<1> DEFINE phase == [q \in Pipe |-> Phase(q)]
           held == {q \in claimed : Present(q)}
           awaited == {q \in Pipe : pipe[q] # "idle" /\ Present(q)}
<1>1. /\ held \subseteq Pipe /\ held' \subseteq Pipe
      /\ awaited \subseteq Pipe /\ awaited' \subseteq Pipe
  OBVIOUS
<1>h. \A q \in Pipe : (q \in held <=> Held(q)) /\ (q \in held' <=> Held(q)')
  BY DEF Held
<1>a. \A q \in Pipe : (q \in awaited <=> Awaited(q)) /\ (q \in awaited' <=> Awaited(q)')
  BY DEF Awaited
<1>2. \A q \in Pipe : q # p => /\ Phase(q)' = Phase(q)
                               /\ q \in held' <=> q \in held
                               /\ q \in awaited' <=> q \in awaited
  BY <1>h, <1>a DEF SameLife
<1> HIDE DEF held, awaited
<1>3. ASSUME Held(p)' <=> Held(p)
      PROVE  held' = held
  <2>1. \A q \in Pipe : q \in held' <=> q \in held
    BY <1>2, <1>3, <1>h
  <2> QED
    BY <1>1, <2>1, SamePipes
<1>4. ASSUME Awaited(p)' <=> Awaited(p)
      PROVE  awaited' = awaited
  <2>1. \A q \in Pipe : q \in awaited' <=> q \in awaited
    BY <1>2, <1>4, <1>a
  <2> QED
    BY <1>1, <2>1, SamePipes
<1>5. phase' = [phase EXCEPT ![p] = Phase(p)']
  BY <1>2
<1>6. phase[p] = Phase(p)
  OBVIOUS
<1>7. Phase(p)' = Phase(p) => phase' = phase
  BY <1>5
<1>8. ASSUME NEW from, NEW to, PhaseMoves(p, from, to)
      PROVE  Life!Step(p, from, to)
  <2>1. /\ phase[p] = from /\ phase' = [phase EXCEPT ![p] = to]
        /\ held' = held /\ awaited' = awaited
    BY <1>3, <1>4, <1>5, <1>6, <1>8 DEF PhaseMoves
  <2> QED
    BY <2>1 DEF Life!Step, held, awaited
<1>9. CASE PhaseMoves(p, "closed", "open") /\ Held(p)
  <2>1. p \in held /\ Life!Step(p, "closed", "open")
    BY <1>8, <1>9, <1>h
  <2> QED
    BY <2>1 DEF Life!Next, Life!Open, held
<1>10. CASE PhaseMoves(p, "open", "started") /\ Held(p)
  <2>1. p \in held /\ Life!Step(p, "open", "started")
    BY <1>8, <1>10, <1>h
  <2> QED
    BY <2>1 DEF Life!Next, Life!Start, held
<1>11. ASSUME Phase(p)' = Phase(p), Awaited(p)' <=> Awaited(p),
              Phase(p) = "closed", ~Held(p), Held(p)'
       PROVE  Life!Next
  <2>1. held' = held \cup {p}
    <3>1. \A q \in Pipe : q \in held' <=> q \in held \cup {p}
      BY <1>2, <1>11, <1>h
    <3>2. held \cup {p} \in SUBSET Pipe
      BY <1>1
    <3> QED
      BY <1>1, <3>1, <3>2, SamePipes
  <2>2. /\ phase[p] = "closed" /\ p \notin held
        /\ phase' = phase /\ awaited' = awaited
    BY <1>4, <1>6, <1>7, <1>11, <1>h
  <2> QED
    BY <2>1, <2>2 DEF Life!Next, Life!Claim, held, awaited
<1>12. ASSUME Phase(p)' = Phase(p), Held(p)' <=> Held(p),
              Phase(p) = "started", Held(p), ~Awaited(p), Awaited(p)'
       PROVE  Life!Next
  <2>1. awaited' = awaited \cup {p}
    <3>1. \A q \in Pipe : q \in awaited' <=> q \in awaited \cup {p}
      BY <1>2, <1>12, <1>a
    <3>2. awaited \cup {p} \in SUBSET Pipe
      BY <1>1
    <3> QED
      BY <1>1, <3>1, <3>2, SamePipes
  <2>2. /\ phase[p] \in {"open", "started"} /\ p \in held \ awaited
        /\ phase' = phase /\ held' = held
    BY <1>3, <1>6, <1>7, <1>12, <1>h, <1>a
  <2> QED
    BY <2>1, <2>2 DEF Life!Next, Life!Await, held, awaited
<1>13. ASSUME Phase(p)' = Phase(p), Held(p)' <=> Held(p), Awaited(p), ~Awaited(p)'
       PROVE  Life!Next
  <2>1. awaited' = awaited \ {p}
    <3>1. \A q \in Pipe : q \in awaited' <=> q \in awaited \ {p}
      BY <1>2, <1>13, <1>a
    <3>2. awaited \ {p} \in SUBSET Pipe
      BY <1>1
    <3> QED
      BY <1>1, <3>1, <3>2, SamePipes
  <2>2. p \in awaited /\ phase' = phase /\ held' = held
    BY <1>3, <1>7, <1>13, <1>a
  <2> QED
    BY <2>1, <2>2 DEF Life!Next, Life!Return, held, awaited
<1> QED
  BY <1>9, <1>10, <1>11, <1>12, <1>13 DEF LivesOn

LEMMA LifeStutters ==
    ASSUME claimed \subseteq Pipe, claimed' \subseteq Pipe,
           \A q \in Pipe : SameLife(q)
    PROVE  UNCHANGED Life!vars
<1> DEFINE held == {q \in claimed : Present(q)}
           awaited == {q \in Pipe : pipe[q] # "idle" /\ Present(q)}
<1>1. \A q \in Pipe : Phase(q)' = Phase(q)
  BY DEF SameLife
<1>2. held' = held
  BY DEF SameLife, Held
<1>3. awaited' = awaited
  BY DEF SameLife, Awaited
<1> QED
  BY <1>1, <1>2, <1>3 DEF Life!vars

LEMMA LifeOfOne ==
    ASSUME claimed \subseteq Pipe, claimed' \subseteq Pipe, NEW p \in Pipe,
           SameLife(p) \/ LivesOn(p), \A q \in Pipe : q # p => SameLife(q)
    PROVE  [Life!Next]_(Life!vars)
<1>1. CASE SameLife(p)
  BY <1>1, LifeStutters
<1>2. CASE LivesOn(p)
  BY <1>2, LifeImplemented
<1> QED
  BY <1>1, <1>2

LEMMA LifeLeaves ==
    ASSUME claimed \subseteq Pipe, claimed' \subseteq Pipe, NEW S \in SUBSET Pipe,
           \A q \in S : ~Present(q)', \A q \in Pipe \ S : SameLife(q)
    PROVE  Life!Next
<1> DEFINE phase == [q \in Pipe |-> Phase(q)]
           held == {q \in claimed : Present(q)}
           awaited == {q \in Pipe : pipe[q] # "idle" /\ Present(q)}
<1>1. \A q \in S : Phase(q)' = "away"
  BY DEF Phase
<1>2. phase' = [q \in Pipe |-> IF q \in S THEN "away" ELSE phase[q]]
  BY <1>1 DEF SameLife
<1>3. held' = held \ S
  <2>1. \A q \in Pipe : q \in held' <=> q \in held \ S
    BY DEF SameLife, Held
  <2> QED
    BY <2>1
<1>4. awaited' = awaited \ S
  <2>1. \A q \in Pipe : q \in awaited' <=> q \in awaited \ S
    BY DEF SameLife, Awaited
  <2> QED
    BY <2>1
<1>5. Life!Leave(S)
  BY <1>2, <1>3, <1>4 DEF Life!Leave
<1> QED
  BY <1>5 DEF Life!Next

LEMMA LifeAppears ==
    ASSUME claimed \subseteq Pipe, claimed' \subseteq Pipe, NEW p \in Pipe,
           PhaseMoves(p, "away", "closed"), \A q \in Pipe : q # p => SameLife(q)
    PROVE  Life!Next
<1> DEFINE phase == [q \in Pipe |-> Phase(q)]
           held == {q \in claimed : Present(q)}
           awaited == {q \in Pipe : pipe[q] # "idle" /\ Present(q)}
<1>1. phase' = [q \in Pipe |-> IF q \in {p} THEN "closed" ELSE phase[q]]
  BY DEF SameLife, PhaseMoves
<1>2. held' = held
  <2>1. \A q \in Pipe : q \in held' <=> q \in held
    BY DEF SameLife, PhaseMoves, Held
  <2> QED
    BY <2>1
<1>3. awaited' = awaited
  <2>1. \A q \in Pipe : q \in awaited' <=> q \in awaited
    BY DEF SameLife, PhaseMoves, Awaited
  <2> QED
    BY <2>1
<1>4. \A q \in {p} : phase[q] = "away"
  BY DEF PhaseMoves
<1>5. Life!Appear({p})
  BY <1>1, <1>2, <1>3, <1>4 DEF Life!Appear
<1> QED
  BY <1>5 DEF Life!Next

PhaseOf(state) ==
    CASE state = "IDLE" -> "closed"
      [] state = "READY" -> "open"
      [] OTHER -> "started"

\* The steps in which no interface appears or leaves.
Remaining == Next /\ ~Reboot /\ ~AddInterface /\ \A d \in Device : ~Unplug(d)

\* A device stays where it is until it is unplugged.
LEMMA StaysPlugged ==
    ASSUME IInv, Remaining, NEW d \in Device, port[d] = "attached"
    PROVE  port'[d] = "attached"
<1>1. port \in [Device -> {"absent", "attached", "gone"}] /\ HidShape
  BY DEF IInv, TypeOK, LibTypeOK
<1>2. CASE UninstallClose
  BY <1>1, <1>2 DEF UninstallClose
<1>3. CASE NewDevice \/ NotHidDevice \/ OpenFailed \/ DeviceGone
  BY <1>3 DEF NewDevice, NotHidDevice, OpenFailed, DeviceGone
<1>4. CASE /\ HidNext /\ ~UninstallClose
           /\ ~NewDevice /\ ~NotHidDevice /\ ~OpenFailed /\ ~DeviceGone
  BY <1>4, HidLeaves
<1>5. CASE ProcNext \/ Stop \/ Start
  BY <1>5, ProcLeaves
<1>6. CASE Bus
  <2>1. ASSUME NEW e \in Device, Attach(e)
        PROVE  port'[d] = "attached"
    BY <1>1, <2>1 DEF Attach
  <2>2. ASSUME NEW p \in Pipe, Complete(p)
        PROVE  port'[d] = "attached"
    BY <2>2 DEF Complete
  <2> QED
    BY <1>6, <2>1, <2>2 DEF Bus, Plug, Transfer, Remaining
<1> QED
  BY <1>2, <1>3, <1>4, <1>5, <1>6 DEF Next, Remaining

\* In these steps the same interfaces are there, at the same addresses.
LEMMA PresentStays ==
    ASSUME KInv, Remaining, NEW p \in Pipe
    PROVE  /\ Present(p)' <=> Present(p)
           /\ \A a \in Listed :
                 PipeOf(a) = p /\ Present(p) => a \in Listed' /\ PipeOf(a)' = p
<1>1. p[1] \in Device /\ IInv
  BY PipeProperties DEF KInv
<1>2. ASSUME NEW a \in Listed, PipeOf(a) = p, port[p[1]] = "attached"
      PROVE  a \in Listed' /\ PipeOf(a)' = p /\ port'[p[1]] = "attached"
  <2>1. obj[a].dev = p[1]
    BY <1>2 DEF PipeOf
  <2> QED
    BY <1>1, <1>2, <2>1, NotTakenDown, StaysListed, StaysPlugged DEF Remaining
<1>3. ASSUME NEW a \in Listed', PipeOf(a)' = p, port'[p[1]] = "attached"
      PROVE  a \in Listed /\ PipeOf(a) = p /\ port[p[1]] = "attached"
  <2>1. a \in Listed /\ PipeOf(a) = p
    BY <1>1, <1>3, PlacesKept DEF Remaining
  <2>2. p[1] \in opened
    BY <2>1 DEF KInv, ListShape, ListedOpen, PipeOf
  <2> QED
    BY <1>1, <1>3, <2>1, <2>2, PortStays DEF KInv, LInv, Remaining
<1> QED
  BY <1>2, <1>3 DEF Present

\* The phase of an interface that is there is that of the one listed object.
LEMMA PhaseHere ==
    ASSUME KInv, KInv', Remaining, NEW p \in Pipe, NEW a \in Listed,
           PipeOf(a) = p, Present(p)
    PROVE  Phase(p) = PhaseOf(obj[a].state) /\ Phase(p)' = PhaseOf(obj'[a].state)
<1>1. Present(p)' /\ a \in Listed' /\ PipeOf(a)' = p
  BY PresentStays
<1>2. {obj[b].state : b \in {c \in Listed : PipeOf(c) = p}} = {obj[a].state}
  BY DEF KInv, ListShape, OneListing
<1>3. {obj'[b].state : b \in {c \in Listed' : PipeOf(c)' = p}} = {obj'[a].state}
  BY <1>1 DEF KInv, ListShape, OneListing
<1>4. Phase(p) = PhaseOf(obj[a].state)
  BY <1>2 DEF Phase, PhaseOf
<1>5. Phase(p)' = PhaseOf(obj'[a].state)
  BY <1>1, <1>3 DEF Phase, PhaseOf
<1> QED
  BY <1>4, <1>5

\* The step does nothing to the interface, or its device is not there.
Untouched(p) ==
    port[p[1]] = "attached" =>
        /\ \A a \in Listed : PipeOf(a) = p => obj'[a].state = obj[a].state
        /\ p \in claimed' <=> p \in claimed
        /\ pipe'[p] = "idle" <=> pipe[p] = "idle"

LEMMA LifeKept ==
    ASSUME KInv, KInv', Remaining, NEW p \in Pipe, Untouched(p)
    PROVE  SameLife(p)
<1>1. Present(p)' <=> Present(p)
  BY PresentStays
<1>2. CASE ~Present(p)
  BY <1>1, <1>2 DEF SameLife, Phase, Held, Awaited
<1>3. CASE Present(p)
  <2>1. PICK a \in Listed : PipeOf(a) = p /\ port[p[1]] = "attached"
    BY <1>3 DEF Present
  <2>2. /\ obj'[a].state = obj[a].state
        /\ p \in claimed' <=> p \in claimed
        /\ pipe'[p] = "idle" <=> pipe[p] = "idle"
    BY <2>1 DEF Untouched
  <2>3. Phase(p)' = Phase(p)
    BY <1>3, <2>1, <2>2, PhaseHere
  <2> QED
    BY <1>1, <2>2, <2>3 DEF SameLife, Held, Awaited
<1> QED
  BY <1>2, <1>3

\* The processor task, in the interface it opens and starts.
LEMMA ProcLives ==
    ASSUME KInv, KInv', FInv, Remaining,
           ClaimInterface \/ PrepareTransfer \/ Activate,
           NEW a \in Listed, a = proc.ptr, NEW p \in Pipe, PipeOf(a) = p, Present(p)
    PROVE  SameLife(p) \/ LivesOn(p)
<1>1. /\ Present(p)' /\ port[obj[a].dev] = "attached" /\ obj[a].dev = p[1]
      /\ Phase(p) = PhaseOf(obj[a].state) /\ Phase(p)' = PhaseOf(obj'[a].state)
  BY PresentStays, PhaseHere DEF Present, PipeOf
<1>o. obj \in [Addr -> Iface] /\ a \in Addr
  BY Pointers DEF KInv, IInv, TypeOK
<1>2. CASE ClaimInterface
  <2>1. obj[a].state = "IDLE"
    BY <1>1, <1>2, ClaimEffect DEF FInv, FoundIdle, KInv
  <2>2. UNCHANGED <<obj, pipe>>
    BY <1>2 DEF ClaimInterface, driverVars
  <2>3. Phase(p) = "closed" /\ Phase(p)' = Phase(p) /\ (Awaited(p)' <=> Awaited(p))
    BY <1>1, <2>1, <2>2 DEF PhaseOf, Awaited
  <2>4. CASE claimed' = claimed
    BY <1>1, <2>3, <2>4 DEF SameLife, Held
  <2>5. CASE ClaimOk(p) /\ claimed' = claimed \cup {p}
    BY <1>1, <2>3, <2>5 DEF LivesOn, Held, ClaimOk
  <2> QED
    BY <1>2, <2>4, <2>5, ClaimEffect DEF KInv
<1>3. CASE PrepareTransfer
  <2>1. /\ proc.pc = "alloc" /\ UNCHANGED <<claimed, pipe>>
        /\ obj' = [obj EXCEPT ![a].xfer = "alloc", ![a].state = "READY"]
    BY <1>3 DEF PrepareTransfer, ProcAt, libVars
  <2>2. obj[a].state = "IDLE" /\ p \in claimed
    BY <1>1, <1>o, <2>1 DEF FInv, FoundIdle, KInv, Owned, AllocatesUnderClaim
  <2>3. obj'[a].state = "READY"
    BY <1>o, <2>1 DEF Iface
  <2> QED
    BY <1>1, <2>1, <2>2, <2>3 DEF LivesOn, PhaseMoves, PhaseOf, Held, Awaited
<1>4. CASE Activate
  <2>1. proc.pc = "activate" /\ UNCHANGED <<claimed, pipe>>
    BY <1>4 DEF Activate, ProcAt, libVars
  <2>2. CASE obj' = obj
    BY <1>1, <2>1, <2>2 DEF SameLife, Held, Awaited
  <2>3. CASE obj' = [obj EXCEPT ![a].state = "ACTIVE"]
    <3>1. obj'[a].state = "ACTIVE"
      BY <1>o, <2>3 DEF Iface
    <3>2. obj[a].state = "READY"
      BY <1>1, <1>o, <2>1 DEF KInv, Started, StartsReady
    <3>3. ~(hid.pc = "free" /\ hid.ptr = a)
      BY <1>1, NotTakenDown DEF Closing
    <3>4. p \in claimed
      BY <3>2, <3>3 DEF KInv, Owned, OpenHasBuffer, BufferClaimed
    <3> QED
      BY <1>1, <2>1, <3>1, <3>2, <3>4
      DEF LivesOn, PhaseMoves, PhaseOf, Held, Awaited
  <2> QED
    BY <1>4, <2>2, <2>3 DEF Activate
<1> QED
  BY <1>2, <1>3, <1>4

\* A transfer is submitted to an interface that is started, and comes back.
LEMMA PipeLives ==
    ASSUME KInv, KInv', Remaining, NEW p \in Pipe, UNCHANGED <<claimed, obj, ifaces>>
    PROVE  SameLife(p) \/ LivesOn(p)
<1>1. Present(p)' <=> Present(p)
  BY PresentStays
<1>2. CASE ~Present(p) \/ (pipe'[p] = "idle" <=> pipe[p] = "idle")
  <2>1. Untouched(p) \/ ~Present(p)
    BY <1>2 DEF Untouched
  <2> QED
    BY <1>1, <2>1, LifeKept DEF SameLife, Phase, Held, Awaited
<1>3. ASSUME Present(p), ~(pipe'[p] = "idle" <=> pipe[p] = "idle")
      PROVE  LivesOn(p)
  <2>1. PICK a \in Listed : /\ PipeOf(a) = p /\ obj[a].state = "ACTIVE"
                            /\ p \in claimed
    <3>1. CASE pipe[p] # "idle"
      BY <3>1 DEF KInv, OutstandingListed
    <3>2. CASE pipe'[p] # "idle"
      <4>1. /\ p \in claimed'
            /\ \E a \in Listed' : PipeOf(a)' = p /\ obj'[a].state = "ACTIVE"
        BY <3>2 DEF KInv, OutstandingListed
      <4>2. Listed' = Listed /\ \A a : PipeOf(a)' = PipeOf(a)
        BY DEF Listed, PipeOf
      <4> QED
        BY <4>1, <4>2
    <3> QED
      BY <1>3, <3>1, <3>2
  <2>2. Phase(p) = "started" /\ Phase(p)' = Phase(p)
    BY <1>3, <2>1, PhaseHere DEF PhaseOf
  <2>3. Held(p) /\ Held(p)'
    BY <1>1, <1>3, <2>1 DEF Held
  <2> QED
    BY <1>1, <1>3, <2>2, <2>3 DEF LivesOn, Awaited
<1> QED
  BY <1>2, <1>3

LEMMA ProcStepLives ==
    ASSUME KInv, KInv', FInv, Remaining,
           ClaimInterface \/ PrepareTransfer \/ Activate
    PROVE  [Life!Next]_(Life!vars)
<1>1. /\ claimed \subseteq Pipe /\ claimed' \subseteq Pipe
      /\ obj \in [Addr -> Iface]
  BY DEF KInv, IInv, TypeOK, LibTypeOK
<1>2. PICK a \in Listed : a = proc.ptr
  BY Pointers DEF KInv, ClaimInterface, PrepareTransfer, Activate, ProcAt
<1>3. PICK p \in Pipe : p = PipeOf(a)
  BY DEF KInv, IInv, ListedInstalled
<1>4. ASSUME NEW q \in Pipe, q # p
      PROVE  Untouched(q)
  <2>1. CASE ClaimInterface
    <3>1. UNCHANGED <<obj, pipe>>
      BY <2>1 DEF ClaimInterface, driverVars
    <3>2. q \in claimed' <=> q \in claimed
      BY <1>2, <1>3, <1>4, <2>1, ClaimEffect DEF KInv
    <3> QED
      BY <3>1, <3>2 DEF Untouched
  <2>2. CASE PrepareTransfer \/ Activate
    <3>1. UNCHANGED <<claimed, pipe>>
      BY <2>2 DEF PrepareTransfer, Activate, libVars
    <3>2. \A b \in Addr : b # a => obj'[b] = obj[b]
      BY <1>1, <1>2, <2>2 DEF PrepareTransfer, Activate
    <3>3. \A b \in Listed : PipeOf(b) = q => b # a /\ b \in Addr
      BY <1>3, <1>4, Pointers DEF KInv
    <3> QED
      BY <3>1, <3>2, <3>3 DEF Untouched
  <2> QED
    BY <2>1, <2>2
<1>5. \A q \in Pipe : q # p => SameLife(q)
  BY <1>4, LifeKept
<1>6. CASE Present(p)
  BY <1>1, <1>2, <1>3, <1>5, <1>6, ProcLives, LifeOfOne
<1>7. CASE ~Present(p)
  <2>1. SameLife(p)
    BY <1>7, PresentStays DEF SameLife, Phase, Held, Awaited
  <2> QED
    BY <1>1, <1>5, <2>1, LifeOfOne
<1> QED
  BY <1>6, <1>7

LEMMA PipeStepLives ==
    ASSUME KInv, KInv', Remaining,
           SubmitIn \/ Resubmit \/ \E p \in Pipe : InXferDone(p)
    PROVE  [Life!Next]_(Life!vars)
<1>1. claimed \subseteq Pipe /\ claimed' \subseteq Pipe
      /\ pipe \in [Pipe -> {"idle", "pending"} \cup Finished]
  BY DEF KInv, IInv, TypeOK, LibTypeOK
<1>2. UNCHANGED <<claimed, obj, ifaces>>
  <2>1. CASE SubmitIn \/ Resubmit
    BY <2>1 DEF SubmitIn, Resubmit, driverVars
  <2>2. CASE \E p \in Pipe : InXferDone(p)
    BY <2>2 DEF InXferDone, driverVars
  <2> QED
    BY <2>1, <2>2
<1>3. \/ pipe' = pipe
      \/ \E p \in Pipe, x \in {"idle", "pending"} : pipe' = [pipe EXCEPT ![p] = x]
  <2>1. CASE SubmitIn
    <3>1. PipeOf(proc.ptr) \in Pipe
      BY <2>1, Pointers DEF KInv, IInv, ListedInstalled, SubmitIn, ProcAt
    <3> QED
      BY <2>1, <3>1 DEF SubmitIn
  <2>2. CASE Resubmit
    <3>1. <<hid.dev, hid.n>> \in Pipe
      BY <2>2 DEF KInv, IInv, ListedInstalled, Started, ResubmitsServed, Resubmit,
                  HidAt
    <3> QED
      BY <2>2, <3>1 DEF Resubmit
  <2>3. CASE \E p \in Pipe : InXferDone(p)
    BY <2>3 DEF InXferDone
  <2> QED
    BY <2>1, <2>2, <2>3
<1>4. \A q \in Pipe : SameLife(q) \/ LivesOn(q)
  BY <1>2, PipeLives
<1>5. ASSUME NEW q \in Pipe, pipe'[q] = pipe[q]
      PROVE  SameLife(q)
  BY <1>2, <1>5, LifeKept DEF Untouched
<1>6. CASE pipe' = pipe
  BY <1>1, <1>5, <1>6, LifeStutters
<1>7. ASSUME NEW p \in Pipe, NEW x, pipe' = [pipe EXCEPT ![p] = x]
      PROVE  [Life!Next]_(Life!vars)
  <2>1. \A q \in Pipe : q # p => SameLife(q)
    BY <1>1, <1>5, <1>7
  <2> QED
    BY <1>1, <1>4, <2>1, LifeOfOne
<1> QED
  BY <1>3, <1>6, <1>7

\* The other steps do nothing to an interface of a device that is there.
LEMMA OtherStepLives ==
    ASSUME KInv, KInv', Remaining,
           ~ClaimInterface, ~PrepareTransfer, ~Activate,
           ~SubmitIn, ~Resubmit, \A p \in Pipe : ~InXferDone(p)
    PROVE  [Life!Next]_(Life!vars)
<1>1. /\ claimed \subseteq Pipe /\ claimed' \subseteq Pipe
      /\ pipe \in [Pipe -> {"idle", "pending"} \cup Finished]
  BY DEF KInv, IInv, TypeOK, LibTypeOK
<1>2. ASSUME NEW p \in Pipe
      PROVE  pipe'[p] = "idle" <=> pipe[p] = "idle"
  <2>1. CASE HidNext
    <3>1. pipe' = pipe
      BY <2>1, HidKeeps, DisableLeavesPipes DEF KInv, LInv, ListShape
    <3> QED
      BY <3>1
  <2>2. CASE ProcNext \/ Stop \/ Start
    BY <2>2, ProcLeaves
  <2>3. CASE Bus
    <3>1. ASSUME NEW d \in Device, Attach(d)
          PROVE  pipe' = pipe
      BY <3>1 DEF Attach
    <3>2. ASSUME NEW q \in Pipe, Complete(q)
          PROVE  pipe'[p] = "idle" <=> pipe[p] = "idle"
      BY <1>1, <3>2 DEF Complete
    <3> QED
      BY <2>3, <3>1, <3>2 DEF Bus, Plug, Transfer, Remaining
  <2> QED
    BY <2>1, <2>2, <2>3 DEF Next, Remaining
<1>3. ASSUME NEW p \in Pipe, NEW a \in Listed, PipeOf(a) = p, port[p[1]] = "attached"
      PROVE  /\ obj'[a].state = obj[a].state
             /\ p \in claimed' <=> p \in claimed
  <2>1. ~(hid.pc \in Closing /\ hid.ptr = a)
    BY <1>3, NotTakenDown DEF PipeOf
  <2>2. IfaceEffect(a)
    BY <1>3, <2>1, StaysListed, IfaceSteps DEF KInv, Remaining
  <2>3. obj'[a].state = obj[a].state
    BY <2>1, <2>2, ClosingSteps DEF IfaceEffect
  <2>4. claimed' \subseteq claimed
    BY ClaimsGrow DEF Remaining
  <2>5. p \in claimed => p \in claimed'
    <3>1. CASE CloseRelease
      <4>1. hid.ptr \in Listed /\ hid.ptr # a
        BY <2>1, <3>1, ClosingSteps, Pointers DEF CloseRelease, HidAt, KInv
      <4>2. PipeOf(hid.ptr) # p
        BY <1>3, <4>1 DEF KInv, ListShape, OneListing
      <4> QED
        BY <3>1, <4>2 DEF CloseRelease
    <3>2. CASE ~CloseRelease
      BY <3>2, ClaimSteps DEF Remaining
    <3> QED
      BY <3>1, <3>2
  <2> QED
    BY <2>3, <2>4, <2>5
<1>4. ASSUME NEW p \in Pipe
      PROVE  SameLife(p)
  <2>1. CASE Present(p)
    <3>1. PICK a \in Listed : PipeOf(a) = p /\ port[p[1]] = "attached"
      BY <2>1 DEF Present
    <3>2. Untouched(p)
      BY <1>2, <1>3, <3>1 DEF Untouched
    <3> QED
      BY <3>2, LifeKept
  <2>2. CASE ~Present(p)
    BY <2>2, PresentStays DEF SameLife, Phase, Held, Awaited
  <2> QED
    BY <2>1, <2>2
<1> QED
  BY <1>1, <1>4, LifeStutters

\* A new interface of a device that is still there appears: nobody has claimed
\* it, and no transfer is in flight to it.
LEMMA AddLives ==
    ASSUME KInv, KInv', FInv, AddInterface
    PROVE  [Life!Next]_(Life!vars)
<1>1. /\ claimed \subseteq Pipe /\ claimed' \subseteq Pipe
      /\ UNCHANGED <<port, claimed, pipe>>
  BY DEF AddInterface, libVars, KInv, IInv, TypeOK, LibTypeOK
<1>2. PICK a \in Addr \ Listed :
         /\ Listed' = Listed \cup {a}
         /\ PipeOf(a)' = <<hid.dev, hid.n>> /\ obj'[a].state = "IDLE"
         /\ \A b \in Listed : obj'[b] = obj[b] /\ PipeOf(b)' = PipeOf(b)
  BY AddLeaves DEF KInv
<1>3. PICK p \in Pipe : p = <<hid.dev, hid.n>>
  BY <1>2 DEF KInv, IInv, ListedInstalled
<1>4. \A b \in Listed : PipeOf(b) # p
  <2> SUFFICES ASSUME NEW b \in Listed, PipeOf(b) = p
               PROVE  FALSE
    OBVIOUS
  <2>1. obj[b].dev = hid.dev /\ obj[b].n = hid.n /\ hid.pc = "add"
    BY <1>3 DEF PipeOf, AddInterface, HidAt
  <2>2. obj[b].n < hid.n /\ hid.n \in Nat
    BY <2>1 DEF KInv, ListShape, ListedBefore, IInv, TypeOK, HidTask
  <2> QED
    BY <2>1, <2>2
<1>5. ASSUME NEW q \in Pipe, q # p
      PROVE  SameLife(q)
  <2>1. {b \in Listed' : PipeOf(b)' = q} = {b \in Listed : PipeOf(b) = q}
    BY <1>2, <1>3, <1>5
  <2>2. {obj'[b].state : b \in {c \in Listed' : PipeOf(c)' = q}}
        = {obj[b].state : b \in {c \in Listed : PipeOf(c) = q}}
    BY <1>2, <2>1
  <2>3. Present(q)' <=> Present(q)
    BY <1>1, <2>1 DEF Present
  <2> QED
    BY <1>1, <2>2, <2>3 DEF SameLife, Phase, Held, Awaited
<1>6. ~Present(p)
  BY <1>4 DEF Present
<1>7. CASE port[p[1]] = "attached"
  <2>1. Present(p)'
    BY <1>1, <1>2, <1>3, <1>7 DEF Present
  <2>2. {obj'[b].state : b \in {c \in Listed' : PipeOf(c)' = p}} = {"IDLE"}
    BY <1>2, <1>3, <1>4
  <2>3. Phase(p) = "away" /\ Phase(p)' = "closed"
    BY <1>6, <2>1, <2>2 DEF Phase
  <2>4. ~Held(p)'
    BY <1>1, <1>4, <1>7 DEF FInv, ClaimedListed, Held
  <2>5. ~Awaited(p)'
    BY <1>1, <1>4 DEF KInv, OutstandingListed, Awaited
  <2>6. PhaseMoves(p, "away", "closed")
    BY <1>6, <2>3, <2>4, <2>5 DEF PhaseMoves, Held, Awaited
  <2> QED
    BY <1>1, <1>5, <2>6, LifeAppears
<1>8. CASE port[p[1]] # "attached"
  <2>1. ~Present(p)'
    BY <1>1, <1>8 DEF Present
  <2>2. SameLife(p)
    BY <1>6, <2>1 DEF SameLife, Phase, Held, Awaited
  <2> QED
    BY <1>1, <1>5, <2>2, LifeStutters
<1> QED
  BY <1>7, <1>8

LEMMA UnplugLives ==
    ASSUME KInv, KInv', NEW d \in Device, Unplug(d)
    PROVE  [Life!Next]_(Life!vars)
<1> DEFINE S == {p \in Pipe : p[1] = d}
<1>1. /\ claimed \subseteq Pipe /\ claimed' \subseteq Pipe
      /\ port \in [Device -> {"absent", "attached", "gone"}]
      /\ pipe \in [Pipe -> {"idle", "pending"} \cup Finished]
  BY DEF KInv, IInv, TypeOK, LibTypeOK
<1>2. UNCHANGED <<ifaces, obj, claimed>>
  BY DEF Unplug, DetachOpen, DetachUnopened, driverVars
<1>3. port'[d] # "attached" /\ \A e \in Device : e # d => port'[e] = port[e]
  BY <1>1 DEF Unplug, DetachOpen, DetachUnopened
<1>4. \A q \in Pipe \ S : pipe'[q] = pipe[q]
  BY <1>1 DEF Unplug, DetachOpen, DetachUnopened
<1>5. \A q \in S : ~Present(q)'
  BY <1>3 DEF Present
<1>6. ASSUME NEW q \in Pipe \ S
      PROVE  SameLife(q)
  <2>1. port'[q[1]] = port[q[1]]
    BY <1>3, PipeProperties
  <2> QED
    BY <1>2, <1>4, <2>1 DEF SameLife, Phase, Present, Held, Awaited, Listed, PipeOf
<1>7. S \in SUBSET Pipe
  OBVIOUS
<1> QED
  BY <1>1, <1>5, <1>6, <1>7, LifeLeaves

LEMMA StepLives ==
    ASSUME KInv, KInv', FInv, [Next]_vars
    PROVE  [Life!Next]_(Life!vars)
<1>1. claimed \subseteq Pipe /\ claimed' \subseteq Pipe
  BY DEF KInv, IInv, TypeOK, LibTypeOK
<1>2. CASE Reboot
  <2>1. \A p \in Pipe : ~Present(p)'
    BY <1>2, PipeProperties DEF Reboot, LibReset, Present
  <2>2. Pipe \in SUBSET Pipe /\ \A q \in Pipe \ Pipe : SameLife(q)
    OBVIOUS
  <2> QED
    BY <1>1, <2>1, <2>2, LifeLeaves
<1>3. CASE AddInterface
  BY <1>3, AddLives
<1>4. CASE \E d \in Device : Unplug(d)
  BY <1>4, UnplugLives
<1>5. CASE Remaining
  BY <1>5, ProcStepLives, PipeStepLives, OtherStepLives
<1>6. CASE UNCHANGED vars
  <2>1. \A q \in Pipe : SameLife(q)
    BY <1>6 DEF vars, libVars, driverVars, SameLife, Phase, Present, Held, Awaited,
                Listed, PipeOf
  <2> QED
    BY <1>1, <2>1, LifeStutters
<1> QED
  BY <1>2, <1>3, <1>4, <1>5, <1>6 DEF Remaining

\* However unplugs and stops cut short what hidEventProcessorTask does, and
\* whatever call fails, every interface of a device that is there lives as
\* InterfaceLife says: it is claimed once, opened under its claim, started after
\* that, and has one transfer at a time from then on; it leaves with its device
\* and comes back unclaimed.
THEOREM LifeIsKept == Spec => ImplementsLife
<1>1. Init => Life!Init
  <2> SUFFICES ASSUME Init
               PROVE  Life!Init
    OBVIOUS
  <2>1. claimed = {} /\ \A p \in Pipe : pipe[p] = "idle" /\ ~Present(p)
    BY DEF Init, LibInit, Present, Listed
  <2>2. \A p \in Pipe : Phase(p) = "away"
    BY <2>1 DEF Phase
  <2> QED
    BY <2>1, <2>2 DEF Life!Init
<1>2. KInv /\ FInv /\ KInv' /\ [Next]_vars => [Life!Next]_(Life!vars)
  BY StepLives
<1> QED
  BY <1>1, <1>2, FoundInvariance, PTL DEF Spec, ImplementsLife, Life!Spec
=============================================================================

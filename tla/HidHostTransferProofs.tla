----------------------- MODULE HidHostTransferProofs ------------------------
(***************************************************************************)
(* Theorems about the transfers of HidHost, for every set of devices,      *)
(* configurations, addresses, queue length and choice of failing calls.    *)
(*                                                                         *)
(* A transfer that is on its way always finds its interface listed,        *)
(* claimed and with its buffer, although neither task locks anything while *)
(* it opens, starts or takes down an interface.  What keeps them apart is  *)
(* the library: the driver task takes down a device only once it is gone   *)
(* and its pipes are idle, and a device that is gone grants no claim and   *)
(* takes no transfer.  KInv says so for every point the tasks can be at.   *)
(***************************************************************************)
EXTENDS HidHostProofs, FiniteSetTheorems

-----------------------------------------------------------------------------
(* The inductive invariant: the devices and their pipes.                   *)

\* The steps at which the driver task takes down a device that is gone.
Teardown == {"gone", "disable", "release", "free", "finish", "shutdown",
             "remove", "uninstall", "close"}

\* A device is gone only while it is held open, and it is held open from
\* before it is installed until the driver task has taken it down.
OpenShape ==
    /\ \A d \in opened : port[d] # "absent"
    /\ \A d \in Device : port[d] = "gone" => d \in opened
    /\ \A d \in opened : d \in devs \/ (hid.pc = "install" /\ d = hid.dev)
    /\ hid.pc \in {"install", "add", "notify"} => hid.dev \in opened
    /\ hid.pc = "unlist" => hid.dev \notin opened
    /\ hid.pc \in Teardown => port[hid.dev] = "gone"

\* Nothing is in flight to a device that is not there, and nothing is left of
\* a transfer once its device is being taken down.
PipesIdle ==
    \A p \in Pipe :
        /\ port[p[1]] # "attached" => pipe[p] # "pending"
        /\ hid.pc \in Teardown /\ hid.dev = p[1] => pipe[p] = "idle"

\* A device is said to be gone once, while it is, and before it is taken down.
GoneMsgs ==
    /\ \A i \in DOMAIN msgs : msgs[i].event = "DEV_GONE" =>
          /\ port[msgs[i].dev] = "gone"
          /\ hid.pc \in Teardown => hid.dev # msgs[i].dev
    /\ \A i, j \in DOMAIN msgs :
          msgs[i].event = "DEV_GONE" /\ msgs[j] = msgs[i] => i = j

-----------------------------------------------------------------------------
(* The list of interfaces.                                                 *)

\* A listed interface is a HID interface with an endpoint, of an open device.
ListedOpen ==
    \A a \in Listed : /\ obj[a].dev \in opened
                      /\ Desc(PipeOf(a)).hid /\ Desc(PipeOf(a)).usable

\* While a device is installed its interfaces are listed up to hid.n.
ListedBefore ==
    \A a \in Listed : obj[a].dev = hid.dev =>
        hid.pc # "install" /\ (hid.pc = "add" => obj[a].n < hid.n)

\* The steps at which the driver task takes down an interface.
Closing == {"disable", "release", "free", "finish", "shutdown", "remove"}

\* The driver task takes down interfaces of the device that is gone.
TakesOwn ==
    hid.pc \in Closing /\ hid.ptr \in Listed => obj[hid.ptr].dev = hid.dev

OneListing == \A a, b \in Listed : PipeOf(a) = PipeOf(b) => a = b

ListShape == ListedOpen /\ ListedBefore /\ TakesOwn /\ OneListing

-----------------------------------------------------------------------------
(* The transfers and their buffers.                                        *)

\* An interface that has a buffer is claimed; between the release and the free
\* it has the buffer only.
BufferClaimed ==
    \A a \in Listed : obj[a].xfer = "alloc" =>
        PipeOf(a) \in claimed \/ (hid.pc = "free" /\ hid.ptr = a)

\* A READY or ACTIVE interface has its buffer.
OpenHasBuffer ==
    \A a \in Listed : obj[a].state \in {"READY", "ACTIVE"} =>
        obj[a].xfer = "alloc"

\* A buffer is freed once.
FreesOwn == hid.pc = "free" => obj[hid.ptr].xfer = "alloc"

\* The processor task allocates under the claim it has got.
AllocatesUnderClaim ==
    proc.pc = "alloc" /\ proc.ptr \in Addr =>
        PipeOf(proc.ptr) \in claimed /\ obj[proc.ptr].xfer # "alloc"

\* The pointer of the processor task is that of its handle.
FollowsHandle == proc.ptr \in {proc.h, Null, Dangling}

\* The steps of the processor task past an open.
PastOpen == {"request", "parent", "ctrl", "ctrl_wait", "ctrl_done", "start",
             "prepare"}

\* Past the open, an open interface at the handle has its callback.
OpenHasCallback ==
    proc.pc \in PastOpen =>
        (proc.h \in Listed /\ obj[proc.h].state \in {"READY", "ACTIVE"}
         => obj[proc.h].cb)

\* What the processor task found when it checked holds while the device stays.
StartsReady ==
    proc.pc \in {"activate", "submit"} /\ proc.ptr \in Addr =>
        /\ obj[proc.ptr].cb /\ obj[proc.ptr].xfer # "null"
        /\ port[obj[proc.ptr].dev] = "attached" =>
              obj[proc.ptr].state =
                  (IF proc.pc = "activate" THEN "READY" ELSE "ACTIVE")

\* Interface a is served: transfers to it may be on their way.
Serving(a) ==
    obj[a].state = "ACTIVE" /\ obj[a].xfer = "alloc" /\ obj[a].cb

ResubmitsServed ==
    hid.pc = "resubmit" => /\ hid.ptr \in Listed /\ Serving(hid.ptr)
                           /\ PipeOf(hid.ptr) = <<hid.dev, hid.n>>

Owned == BufferClaimed /\ OpenHasBuffer /\ FreesOwn /\ AllocatesUnderClaim

Started ==
    FollowsHandle /\ OpenHasCallback /\ StartsReady /\ ResubmitsServed

LInv == OpenShape /\ PipesIdle /\ GoneMsgs

KInv ==
    /\ IInv /\ LInv /\ ListShape /\ Owned /\ Started
    /\ OutstandingListed

-----------------------------------------------------------------------------
(* What the steps leave alone.                                             *)

\* A step of the driver task to the next one of its handler.
LEMMA GotoEffect ==
    ASSUME hid \in HidTask, NEW pc, HidGoto(pc)
    PROVE  /\ hid'.pc = pc /\ hid'.dev = hid.dev /\ hid'.ptr = hid.ptr
           /\ hid'.n = hid.n
BY DEF HidGoto, HidTask

\* The driver task: the steps inside one handler, and the returns from it.
LEMMA HidMoves ==
    ASSUME TypeOK, HidNext,
           ~NewDevice, ~InstallDevice, ~DeviceGone, ~UninstallClose
    PROVE  \/ hid' = hid
           \/ hid.pc # "install" /\ hid'.pc \in {"wait", "resubmit"}
           \/ /\ hid'.dev = hid.dev
              /\ hid.pc \in {"add", "notify"} /\ hid'.pc \in {"add", "notify"}
           \/ /\ hid'.dev = hid.dev
              /\ hid.pc \in Teardown /\ hid'.pc \in Teardown
<1>h. hid \in HidTask
  BY DEF TypeOK
<1>1. CASE \/ NotHidDevice \/ OpenFailed \/ InstallFails \/ CallbackFails
           \/ CtrlXferDone
  BY <1>1 DEF NotHidDevice, OpenFailed, InstallFails, CallbackFails, Fail,
              CtrlXferDone
<1>2. CASE AddInterface \/ SkipInterface \/ ListCreated \/ NotifyConnected
  BY <1>h, <1>2 DEF AddInterface, SkipInterface, ListCreated, NotifyConnected,
                    HidAt, HidTask
<1>3. CASE \/ AllNotified \/ CloseDisableFails \/ CloseReleaseFails
           \/ UninstallCloseFails \/ UninstallUnlist \/ Resubmit
  BY <1>3 DEF AllNotified, CloseDisableFails, CloseReleaseFails, Resubmit,
              UninstallCloseFails, UninstallUnlist, CloseReturnsError,
              HidReturn, HidIdle, HidAt
<1>4. CASE GoneFirst \/ GoneEmpty
  BY <1>h, <1>4 DEF GoneFirst, GoneEmpty, HidGoto, HidAt, HidTask, Teardown
<1>5. CASE CloseDisable \/ CloseRelease \/ CloseFreeTransfer
  BY <1>h, <1>5 DEF CloseDisable, CloseRelease, CloseFreeTransfer, HidGoto,
                    HidAt, HidTask, Teardown
<1>6. CASE CloseFinish \/ ShutdownRemove \/ UninstallFreeCtrl
  BY <1>h, <1>6 DEF CloseFinish, CloseReturnsOk, ShutdownRemove,
                    UninstallFreeCtrl, HidGoto, HidAt, HidTask, Teardown
<1>7. CASE Shutdown
  <2>1. \/ hid' = HidIdle
        \/ hid' = [hid EXCEPT !.pc = "remove"]
        \/ hid' = [hid EXCEPT !.pc = "disable", !.ctx = "user"]
    BY <1>7 DEF Shutdown, HidReturn, HidGoto
  <2>2. hid.pc = "shutdown"
    BY <1>7 DEF Shutdown, HidAt
  <2>3. \/ hid'.pc = "wait"
        \/ hid'.pc \in {"remove", "disable"} /\ hid'.dev = hid.dev
    <3>1. CASE hid' = HidIdle
      BY <3>1 DEF HidIdle
    <3>2. CASE hid' = [hid EXCEPT !.pc = "remove"]
      BY <3>2, <1>h DEF HidTask
    <3>3. CASE hid' = [hid EXCEPT !.pc = "disable", !.ctx = "user"]
      BY <3>3, <1>h DEF HidTask
    <3> QED
      BY <2>1, <3>1, <3>2, <3>3
  <2> QED
    BY <2>2, <2>3 DEF Teardown
<1>8. CASE \E p \in Pipe : InXferDone(p)
  <2>1. hid' = hid \/ hid'.pc = "resubmit"
    BY <1>8 DEF InXferDone, HidIdle
  <2> QED
    BY <1>8, <2>1 DEF InXferDone, HidAt
<1> QED
  BY <1>1, <1>2, <1>3, <1>4, <1>5, <1>6, <1>7, <1>8 DEF HidNext

\* The driver task: what it does to the devices and the messages.
LEMMA HidLeaves ==
    ASSUME HidNext,
           ~NewDevice, ~NotHidDevice, ~OpenFailed, ~DeviceGone
    PROVE  /\ msgs' = msgs
           /\ ~UninstallClose => UNCHANGED <<port, opened>>
           /\ ~InstallDevice /\ ~UninstallUnlist => devs' = devs
<1> USE DEF libVars, driverVars
<1>1. CASE InstallDevice \/ AddInterface \/ SkipInterface \/ ListCreated
  BY <1>1 DEF InstallDevice, AddInterface, SkipInterface, ListCreated
<1>2. CASE \/ InstallFails \/ CallbackFails \/ NotifyConnected \/ AllNotified
           \/ CtrlXferDone
  BY <1>2 DEF InstallFails, CallbackFails, Fail, NotifyConnected, AllNotified,
              CtrlXferDone
<1>3. CASE GoneFirst \/ GoneEmpty \/ CloseDisable \/ CloseDisableFails
  BY <1>3 DEF GoneFirst, GoneEmpty, CloseDisable, CloseDisableFails
<1>4. CASE \/ CloseRelease \/ CloseReleaseFails \/ CloseFreeTransfer
           \/ CloseFinish
  BY <1>4 DEF CloseRelease, CloseReleaseFails, CloseFreeTransfer, CloseFinish
<1>5. CASE Shutdown \/ ShutdownRemove
  BY <1>5 DEF Shutdown, ShutdownRemove
<1>6. CASE \/ UninstallFreeCtrl \/ UninstallClose \/ UninstallCloseFails
           \/ UninstallUnlist
  BY <1>6 DEF UninstallFreeCtrl, UninstallClose, UninstallCloseFails,
              UninstallUnlist
<1>7. CASE Resubmit \/ \E p \in Pipe : InXferDone(p)
  BY <1>7 DEF Resubmit, InXferDone
<1> QED
  BY <1>1, <1>2, <1>3, <1>4, <1>5, <1>6, <1>7 DEF HidNext

\* The driver task: the transfers in flight, the claims and the interfaces.
LEMMA HidKeeps ==
    ASSUME HidNext
    PROVE  /\ ~CloseDisable /\ (\A p \in Pipe : ~InXferDone(p)) /\ ~Resubmit
              => pipe' = pipe
           /\ ~CloseRelease => claimed' = claimed
           /\ ~AddInterface /\ ~CloseFinish /\ ~ShutdownRemove
              => ifaces' = ifaces
           /\ /\ ~AddInterface /\ ~CloseDisable /\ ~CloseFreeTransfer
              /\ ~CloseFinish /\ ~Shutdown /\ ~ShutdownRemove
              => obj' = obj
<1> USE DEF libVars, driverVars
<1>1. CASE InstallDevice \/ AddInterface \/ SkipInterface \/ ListCreated
  BY <1>1 DEF InstallDevice, AddInterface, SkipInterface, ListCreated
<1>2. CASE \/ InstallFails \/ CallbackFails \/ NotifyConnected \/ AllNotified
           \/ CtrlXferDone
  BY <1>2 DEF InstallFails, CallbackFails, Fail, NotifyConnected, AllNotified,
              CtrlXferDone
<1>3. CASE GoneFirst \/ GoneEmpty \/ CloseDisable \/ CloseDisableFails
  BY <1>3 DEF GoneFirst, GoneEmpty, CloseDisable, CloseDisableFails
<1>4. CASE \/ CloseRelease \/ CloseReleaseFails \/ CloseFreeTransfer
           \/ CloseFinish
  BY <1>4 DEF CloseRelease, CloseReleaseFails, CloseFreeTransfer, CloseFinish
<1>5. CASE Shutdown \/ ShutdownRemove
  BY <1>5 DEF Shutdown, ShutdownRemove
<1>6. CASE \/ UninstallFreeCtrl \/ UninstallClose \/ UninstallCloseFails
           \/ UninstallUnlist
  BY <1>6 DEF UninstallFreeCtrl, UninstallClose, UninstallCloseFails,
              UninstallUnlist
<1>7. CASE Resubmit \/ \E p \in Pipe : InXferDone(p)
  BY <1>7 DEF Resubmit, InXferDone
<1>8. CASE NewDevice \/ NotHidDevice \/ OpenFailed \/ DeviceGone
  BY <1>8 DEF NewDevice, NotHidDevice, OpenFailed, DeviceGone
<1> QED
  BY <1>1, <1>2, <1>3, <1>4, <1>5, <1>6, <1>7, <1>8 DEF HidNext

\* The processor task, deleted and started again or not.
LEMMA ProcLeaves ==
    ASSUME ProcNext \/ Stop \/ Start
    PROVE  /\ UNCHANGED <<port, opened, msgs, plugs, ifaces, devs, hid>>
           /\ ~SubmitIn => pipe' = pipe
           /\ ~ClaimInterface => claimed' = claimed
           /\ ~PrepareTransfer /\ ~SetCallback /\ ~Activate => obj' = obj
<1> USE DEF libVars, driverVars
<1>1. CASE \/ Receive \/ GetParams \/ CopyParams \/ DeviceOpen \/ CheckOpen
           \/ ClassRequest \/ TakeParent
  BY <1>1 DEF Receive, GetParams, CopyParams, DeviceOpen, CheckOpen,
              ClassRequest, TakeParent, Lookup
<1>2. CASE \/ ClaimInterface \/ PrepareTransfer \/ PrepareTransferFails
           \/ SetCallback \/ Stop \/ Start
  BY <1>2 DEF ClaimInterface, PrepareTransfer, PrepareTransferFails,
              SetCallback, Stop, Start
<1>3. CASE SubmitControl \/ ControlDone \/ ControlFails \/ DeviceStart
  BY <1>3 DEF SubmitControl, ControlDone, ControlFails, DeviceStart, Lookup
<1>4. CASE CheckStart \/ Activate \/ SubmitIn \/ UseAfterFree
  BY <1>4 DEF CheckStart, Activate, SubmitIn, UseAfterFree, Fail
<1> QED
  BY <1>1, <1>2, <1>3, <1>4 DEF ProcNext

-----------------------------------------------------------------------------
(* The devices and their pipes: every step keeps LInv.                     *)

\* The messages behind the first one move up.
LEMMA TailMsgs ==
    ASSUME msgs \in Seq(Message), msgs # <<>>, msgs' = Tail(msgs)
    PROVE  /\ 1 \in DOMAIN msgs /\ msgs[1] = Head(msgs)
           /\ \A i \in DOMAIN msgs' :
                 /\ i + 1 \in DOMAIN msgs /\ i + 1 # 1
                 /\ msgs'[i] = msgs[i + 1]
           /\ \A i, j \in DOMAIN msgs' : i + 1 = j + 1 => i = j
BY HeadTailProperties, LenProperties

LEMMA AppendMsgs ==
    ASSUME msgs \in Seq(Message), NEW m \in Message, msgs' = Append(msgs, m)
    PROVE  \A i \in DOMAIN msgs' :
              \/ i \in DOMAIN msgs /\ msgs'[i] = msgs[i]
              \/ i = Len(msgs) + 1 /\ msgs'[i] = m
BY AppendProperties, LenProperties

\* A device whose removal is being told has not been closed.
LEMMA HeadGone ==
    ASSUME TypeOK, GoneMsgs, Deliverable("DEV_GONE")
    PROVE  Head(msgs).dev \in Device /\ port[Head(msgs).dev] = "gone"
<1>1. msgs # <<>> /\ Head(msgs).event = "DEV_GONE"
  BY DEF Deliverable
<1>2. 1 \in DOMAIN msgs /\ msgs[1] = Head(msgs) /\ Head(msgs) \in Message
  BY <1>1, HeadTailProperties, LenProperties DEF TypeOK, LibTypeOK
<1> QED
  BY <1>1, <1>2 DEF GoneMsgs, Message

LEMMA OpenStep ==
    ASSUME IInv, OpenShape, GoneMsgs, Next
    PROVE  OpenShape'
<1>1. TypeOK /\ HidShape
  BY DEF IInv
<1>p. port \in [Device -> {"absent", "attached", "gone"}] /\ opened \subseteq Device
  BY <1>1 DEF TypeOK, LibTypeOK
<1>h. hid \in HidTask
  BY <1>1 DEF TypeOK
<1>2. CASE ProcNext \/ Stop \/ Start
  BY <1>2, ProcLeaves DEF OpenShape
<1>3. CASE NewDevice
  <2>1. PICK d \in Device :
           /\ d = Head(msgs).dev /\ OpenOk(d) /\ opened' = opened \cup {d}
           /\ hid'.pc = "install" /\ hid'.dev = d
    BY <1>1, <1>3, MsgsTail DEF NewDevice, Deliverable, Message, HidIdle
  <2> QED
    BY <1>3, <1>p, <2>1
       DEF NewDevice, OpenOk, OpenShape, HidAt, driverVars, Teardown
<1>4. CASE NotHidDevice \/ OpenFailed
  BY <1>4 DEF NotHidDevice, OpenFailed, OpenShape, driverVars
<1>5. CASE InstallDevice
  <2>1. hid'.pc = "add" /\ hid'.dev = hid.dev /\ devs' = devs \cup {hid.dev}
    BY <1>h, <1>5 DEF InstallDevice, HidTask
  <2>2. hid.pc = "install" /\ UNCHANGED <<port, opened>>
    BY <1>5 DEF InstallDevice, HidAt, libVars
  <2> QED
    BY <2>1, <2>2 DEF OpenShape, Teardown
<1>6. CASE DeviceGone
  <2>1. UNCHANGED <<port, opened, devs>> /\ hid.pc = "wait"
    BY <1>6 DEF DeviceGone, HidAt, driverVars
  <2>2. \/ hid' = hid
        \/ hid'.pc = "gone" /\ hid'.dev = Head(msgs).dev
    BY <1>6 DEF DeviceGone, HidIdle
  <2>3. port[Head(msgs).dev] = "gone"
    BY <1>1, <1>6, HeadGone DEF DeviceGone
  <2> QED
    BY <2>1, <2>2, <2>3 DEF OpenShape
<1>7. CASE UninstallClose
  <2>1. hid'.pc = "unlist" /\ hid'.dev = hid.dev /\ hid.dev \in Device
    BY <1>1, <1>h, <1>7, GotoEffect DEF UninstallClose, HidAt, HidShape
  <2>2. /\ opened' = opened \ {hid.dev} /\ devs' = devs /\ hid.pc = "close"
        /\ port' = [port EXCEPT ![hid.dev] = IF @ = "gone" THEN "absent" ELSE @]
    BY <1>7 DEF UninstallClose, HidAt, driverVars
  <2> QED
    BY <1>p, <2>1, <2>2 DEF OpenShape, Teardown
<1>8. CASE UninstallUnlist
  <2>1. /\ UNCHANGED <<port, opened>> /\ devs' = devs \ {hid.dev}
        /\ hid.pc = "unlist" /\ hid'.pc = "wait"
    BY <1>8 DEF UninstallUnlist, HidReturn, HidIdle, HidAt, libVars
  <2> QED
    BY <2>1 DEF OpenShape, Teardown
<1>9. CASE /\ HidNext /\ ~NewDevice /\ ~NotHidDevice /\ ~OpenFailed
           /\ ~InstallDevice /\ ~DeviceGone /\ ~UninstallClose
           /\ ~UninstallUnlist
  <2>1. UNCHANGED <<port, opened, devs>>
    BY <1>9, HidLeaves
  <2>2. \/ hid' = hid
        \/ hid.pc # "install" /\ hid'.pc \in {"wait", "resubmit"}
        \/ /\ hid'.dev = hid.dev
           /\ hid.pc \in {"add", "notify"} /\ hid'.pc \in {"add", "notify"}
        \/ /\ hid'.dev = hid.dev
           /\ hid.pc \in Teardown /\ hid'.pc \in Teardown
    BY <1>1, <1>9, HidMoves
  <2> QED
    BY <2>1, <2>2 DEF OpenShape, Teardown
<1>10. CASE Bus
  <2>1. UNCHANGED <<hid, devs>>
    BY <1>10 DEF Bus, Plug, Unplug, Transfer, driverVars
  <2>2. ASSUME NEW d \in Device, Attach(d)
        PROVE  OpenShape'
    BY <1>p, <2>1, <2>2 DEF Attach, OpenShape
  <2>3. ASSUME NEW d \in Device, DetachOpen(d) \/ DetachUnopened(d)
        PROVE  OpenShape'
    BY <1>1, <1>p, <2>1, <2>3
       DEF DetachOpen, DetachUnopened, OpenShape, HidShape, Teardown
  <2>4. ASSUME NEW p \in Pipe, Complete(p)
        PROVE  OpenShape'
    BY <2>1, <2>4 DEF Complete, OpenShape
  <2> QED
    BY <1>10, <2>2, <2>3, <2>4 DEF Bus, Plug, Unplug, Transfer
<1>11. CASE Reboot
  BY <1>11 DEF Reboot, LibReset, HidIdle, OpenShape, Teardown
<1> QED
  BY <1>2, <1>3, <1>4, <1>5, <1>6, <1>7, <1>8, <1>9, <1>10, <1>11
     DEF Next

LEMMA GoneStep ==
    ASSUME IInv, OpenShape, GoneMsgs, Next
    PROVE  GoneMsgs'
<1>1. TypeOK /\ HidShape
  BY DEF IInv
<1>p. port \in [Device -> {"absent", "attached", "gone"}]
  BY <1>1 DEF TypeOK, LibTypeOK
<1>m. msgs \in Seq(Message) /\ \A i \in DOMAIN msgs : msgs[i] \in Message
  BY <1>1, LenProperties, ElementOfSeq DEF TypeOK, LibTypeOK
<1>d. hid.pc \in Teardown => hid.dev \in Device
  BY <1>1 DEF HidShape, Teardown
<1>2. CASE ProcNext \/ Stop \/ Start
  BY <1>2, ProcLeaves DEF GoneMsgs
<1>3. CASE NewDevice \/ NotHidDevice \/ OpenFailed
  <2>1. /\ msgs # <<>> /\ msgs' = Tail(msgs) /\ port' = port
        /\ hid'.pc \notin Teardown
    <3>1. hid'.pc = "wait" \/ hid'.pc = "install"
      BY <1>3 DEF NewDevice, NotHidDevice, OpenFailed, HidAt, HidIdle
    <3> QED
      BY <1>3, <3>1
         DEF NewDevice, NotHidDevice, OpenFailed, Deliverable, Teardown
  <2>2. \A i \in DOMAIN msgs' : i + 1 \in DOMAIN msgs /\ msgs'[i] = msgs[i + 1]
    BY <1>m, <2>1, TailMsgs
  <2>3. \A i, j \in DOMAIN msgs' : i + 1 = j + 1 => i = j
    BY <1>m, <2>1, TailMsgs
  <2> QED
    BY <2>1, <2>2, <2>3 DEF GoneMsgs
<1>4. CASE DeviceGone
  <2>1. msgs # <<>> /\ msgs' = Tail(msgs) /\ port' = port
    BY <1>4 DEF DeviceGone, Deliverable
  <2>2. \/ hid'.pc = "wait"
        \/ hid'.pc = "gone" /\ hid'.dev = Head(msgs).dev
    BY <1>4 DEF DeviceGone, HidAt, HidIdle
  <2>3. 1 \in DOMAIN msgs /\ msgs[1] = Head(msgs)
    BY <1>m, <2>1, TailMsgs
  <2>4. \A i \in DOMAIN msgs' :
           i + 1 \in DOMAIN msgs /\ i + 1 # 1 /\ msgs'[i] = msgs[i + 1]
    BY <1>m, <2>1, TailMsgs
  <2>5. \A i, j \in DOMAIN msgs' : i + 1 = j + 1 => i = j
    BY <1>m, <2>1, TailMsgs
  <2>6. msgs[1].event = "DEV_GONE"
    BY <1>4, <2>3 DEF DeviceGone, Deliverable
  <2>7. ASSUME NEW i \in DOMAIN msgs, i # 1, msgs[i].event = "DEV_GONE"
        PROVE  msgs[i].dev # msgs[1].dev
    <3>1. msgs[i] # msgs[1]
      BY <2>3, <2>6, <2>7 DEF GoneMsgs
    <3> QED
      BY <1>m, <2>3, <2>6, <2>7, <3>1 DEF Message
  <2>8. "wait" \notin Teardown
    BY DEF Teardown
  <2> QED
    BY <2>1, <2>2, <2>3, <2>4, <2>5, <2>7, <2>8 DEF GoneMsgs
<1>5. CASE UninstallClose
  <2>1. hid'.pc = "unlist" /\ msgs' = msgs /\ hid.dev \in Device
    BY <1>1, <1>5, GotoEffect
       DEF UninstallClose, HidAt, HidShape, TypeOK
  <2>2. /\ hid.pc \in Teardown
        /\ port' = [port EXCEPT ![hid.dev] = IF @ = "gone" THEN "absent" ELSE @]
    BY <1>5 DEF UninstallClose, HidAt, Teardown
  <2>3. "unlist" \notin Teardown
    BY DEF Teardown
  <2> QED
    BY <1>p, <1>m, <2>1, <2>2, <2>3 DEF GoneMsgs, Message
<1>6. CASE InstallDevice
  <2>1. hid'.pc = "add" /\ UNCHANGED <<msgs, port>>
    BY <1>1, <1>6 DEF InstallDevice, TypeOK, HidTask, libVars
  <2>2. "add" \notin Teardown
    BY DEF Teardown
  <2> QED
    BY <2>1, <2>2 DEF GoneMsgs
<1>7. CASE /\ HidNext /\ ~NewDevice /\ ~NotHidDevice /\ ~OpenFailed
           /\ ~InstallDevice /\ ~DeviceGone /\ ~UninstallClose
  <2>1. UNCHANGED <<port, msgs>>
    BY <1>7, HidLeaves
  <2>2. \/ hid' = hid
        \/ hid'.pc \in {"wait", "resubmit", "add", "notify"}
        \/ hid'.dev = hid.dev /\ hid.pc \in Teardown /\ hid'.pc \in Teardown
    BY <1>1, <1>7, HidMoves
  <2>3. \A pc \in {"wait", "resubmit", "add", "notify"} : pc \notin Teardown
    BY DEF Teardown
  <2> QED
    BY <2>1, <2>2, <2>3 DEF GoneMsgs
<1>8. CASE Bus
  <2>1. UNCHANGED hid
    BY <1>8 DEF Bus, Plug, Unplug, Transfer
  <2>2. ASSUME NEW d \in Device, Attach(d)
        PROVE  GoneMsgs'
    <3>1. PICK m \in Message : m.event = "NEW_DEV" /\ msgs' = Append(msgs, m)
      BY <2>2 DEF Attach, Message
    <3>2. \A i \in DOMAIN msgs' :
             \/ i \in DOMAIN msgs /\ msgs'[i] = msgs[i]
             \/ i = Len(msgs) + 1 /\ msgs'[i] = m
      BY <1>m, <3>1, AppendMsgs
    <3>3. port[d] = "absent" /\ port' = [port EXCEPT ![d] = "attached"]
      BY <2>2 DEF Attach
    <3> QED
      BY <1>p, <1>m, <2>1, <3>1, <3>2, <3>3 DEF GoneMsgs, Message
  <2>3. ASSUME NEW d \in Device, DetachOpen(d)
        PROVE  GoneMsgs'
    <3>1. PICK m \in Message : /\ m.event = "DEV_GONE" /\ m.dev = d
                               /\ msgs' = Append(msgs, m)
      BY <2>3 DEF DetachOpen, Message
    <3>2. \A i \in DOMAIN msgs' :
             \/ i \in DOMAIN msgs /\ msgs'[i] = msgs[i]
             \/ i = Len(msgs) + 1 /\ msgs'[i] = m
      BY <1>m, <3>1, AppendMsgs
    <3>3. port[d] = "attached" /\ port' = [port EXCEPT ![d] = "gone"]
      BY <2>3 DEF DetachOpen
    <3>4. hid.pc \in Teardown => hid.dev # d
      BY <3>3 DEF OpenShape
    <3> QED
      BY <1>p, <1>m, <2>1, <3>1, <3>2, <3>3, <3>4 DEF GoneMsgs, Message
  <2>4. ASSUME NEW d \in Device, DetachUnopened(d)
        PROVE  GoneMsgs'
    BY <1>p, <1>m, <2>1, <2>4 DEF DetachUnopened, GoneMsgs, Message
  <2>5. ASSUME NEW p \in Pipe, Complete(p)
        PROVE  GoneMsgs'
    BY <2>1, <2>5 DEF Complete, GoneMsgs
  <2> QED
    BY <1>8, <2>2, <2>3, <2>4, <2>5 DEF Bus, Plug, Unplug, Transfer
<1>9. CASE Reboot
  BY <1>9 DEF Reboot, LibReset, GoneMsgs
<1> QED
  BY <1>2, <1>3, <1>4, <1>5, <1>6, <1>7, <1>8, <1>9 DEF Next

\* Disabling an interface of a device that is gone finds nothing in flight.
LEMMA DisableLeavesPipes ==
    ASSUME IInv, PipesIdle, TakesOwn, CloseDisable
    PROVE  pipe' = pipe
<1>1. TypeOK /\ ListedInstalled /\ HidShape
  BY DEF IInv
<1>2. hid.ptr \in Listed /\ hid.pc = "disable"
  BY <1>1 DEF CloseDisable, HidAt, HidShape
<1>3. PipeOf(hid.ptr) \in Pipe /\ PipeOf(hid.ptr)[1] = hid.dev
  BY <1>1, <1>2 DEF ListedInstalled, TakesOwn, Closing, PipeOf
<1>4. pipe[PipeOf(hid.ptr)] = "idle"
  BY <1>2, <1>3 DEF PipesIdle, Teardown
<1>5. pipe \in [Pipe -> {"idle", "pending"} \cup Finished]
  BY <1>1 DEF TypeOK, LibTypeOK
<1>6. \A p \in Pipe : ~(p = PipeOf(hid.ptr) /\ pipe[p] = "pending")
  BY <1>4
<1> QED
  BY <1>5, <1>6 DEF CloseDisable

LEMMA PipesStep ==
    ASSUME IInv, OpenShape, PipesIdle, GoneMsgs, ListedOpen, TakesOwn,
           OutstandingListed, Next
    PROVE  PipesIdle'
<1>1. TypeOK /\ HidShape
  BY DEF IInv
<1>p. port \in [Device -> {"absent", "attached", "gone"}]
  BY <1>1 DEF TypeOK, LibTypeOK
<1>q. pipe \in [Pipe -> {"idle", "pending"} \cup Finished]
  BY <1>1 DEF TypeOK, LibTypeOK
<1>d. hid.pc \in Teardown => hid.dev \in Device /\ port[hid.dev] = "gone"
  BY <1>1 DEF HidShape, OpenShape, Teardown
<1>2. ASSUME UNCHANGED <<port, pipe>>,
             \/ hid'.pc \notin Teardown
             \/ hid'.dev = hid.dev /\ hid.pc \in Teardown
      PROVE  PipesIdle'
  BY <1>2 DEF PipesIdle
<1>3. CASE /\ ProcNext \/ Stop \/ Start
           /\ ~SubmitIn
  BY <1>2, <1>3, ProcLeaves
<1>4. CASE SubmitIn
  <2>1. PICK p \in Pipe \cup {PipeOf(proc.ptr)} :
           \/ pipe' = pipe
           \/ SubmitOk(p) /\ pipe' = [pipe EXCEPT ![p] = "pending"]
    BY <1>4 DEF SubmitIn
  <2>2. UNCHANGED <<port, hid>>
    BY <1>4 DEF SubmitIn
  <2> QED
    BY <1>d, <1>q, <2>1, <2>2 DEF PipesIdle, SubmitOk
<1>5. CASE Resubmit
  <2>1. UNCHANGED port /\ hid'.pc = "wait"
    BY <1>5 DEF Resubmit, HidReturn, HidIdle
  <2>2. \/ pipe' = pipe
        \/ /\ SubmitOk(<<hid.dev, hid.n>>)
           /\ pipe' = [pipe EXCEPT ![<<hid.dev, hid.n>>] = "pending"]
    BY <1>5 DEF Resubmit
  <2> QED
    BY <1>q, <2>1, <2>2 DEF PipesIdle, SubmitOk, Teardown
<1>6. CASE \E p \in Pipe : InXferDone(p)
  <2>1. PICK p \in Pipe : InXferDone(p)
    BY <1>6
  <2>2. UNCHANGED port /\ pipe' = [pipe EXCEPT ![p] = "idle"]
    BY <2>1 DEF InXferDone
  <2>3. hid'.pc = "wait" \/ hid'.pc = "resubmit"
    BY <2>1 DEF InXferDone, HidAt, HidIdle
  <2> QED
    BY <1>q, <2>2, <2>3 DEF PipesIdle, Teardown
<1>7. CASE DeviceGone
  <2>1. UNCHANGED <<port, pipe>>
    BY <1>7 DEF DeviceGone
  <2>2. \/ hid'.pc = "wait"
        \/ hid'.pc = "gone" /\ hid'.dev = Head(msgs).dev
    BY <1>7 DEF DeviceGone, HidAt, HidIdle
  <2>3. port[Head(msgs).dev] = "gone"
    BY <1>1, <1>7, HeadGone DEF DeviceGone
  <2>4. \A p \in Pipe : p[1] = Head(msgs).dev => pipe[p] \notin Finished
    BY <1>7 DEF DeviceGone, Deliverable
  <2>5. \A p \in Pipe : p[1] = Head(msgs).dev => pipe[p] = "idle"
    BY <1>q, <2>3, <2>4 DEF PipesIdle
  <2> QED
    BY <2>1, <2>2, <2>5 DEF PipesIdle, Teardown
<1>8. CASE UninstallClose
  <2>1. hid'.pc = "unlist" /\ pipe' = pipe /\ hid.dev \in Device
    BY <1>1, <1>8, GotoEffect
       DEF UninstallClose, HidAt, HidShape, TypeOK
  <2>2. /\ hid.pc \in Teardown
        /\ port' = [port EXCEPT ![hid.dev] = IF @ = "gone" THEN "absent" ELSE @]
    BY <1>8 DEF UninstallClose, HidAt, Teardown
  <2>3. "unlist" \notin Teardown
    BY DEF Teardown
  <2>4. \A p \in Pipe : p[1] \in Device
    BY PipeProperties
  <2> QED
    BY <1>p, <1>d, <2>1, <2>2, <2>3, <2>4 DEF PipesIdle
<1>9. CASE NewDevice \/ NotHidDevice \/ OpenFailed \/ InstallDevice
  <2>1. hid'.pc \in {"wait", "install", "add"} /\ UNCHANGED <<port, pipe>>
    BY <1>1, <1>9 DEF NewDevice, NotHidDevice, OpenFailed, InstallDevice,
                      HidAt, HidIdle, TypeOK, HidTask, libVars
  <2> QED
    BY <1>2, <2>1 DEF Teardown
<1>10. CASE /\ HidNext /\ ~NewDevice /\ ~NotHidDevice /\ ~OpenFailed
            /\ ~InstallDevice /\ ~DeviceGone /\ ~UninstallClose /\ ~Resubmit
            /\ \A p \in Pipe : ~InXferDone(p)
  <2>1. UNCHANGED <<port, pipe>>
    BY <1>10, HidLeaves, HidKeeps, DisableLeavesPipes
  <2>2. \/ hid' = hid
        \/ hid'.pc \in {"wait", "resubmit", "add", "notify"}
        \/ hid'.dev = hid.dev /\ hid.pc \in Teardown /\ hid'.pc \in Teardown
    BY <1>1, <1>10, HidMoves
  <2> QED
    BY <1>2, <2>1, <2>2 DEF Teardown
<1>11. CASE Bus
  <2>1. UNCHANGED hid
    BY <1>11 DEF Bus, Plug, Unplug, Transfer
  <2>2. \A p \in Pipe : p[1] \in Device
    BY PipeProperties
  <2>3. ASSUME NEW d \in Device, Attach(d)
        PROVE  PipesIdle'
    <3>1. /\ port' = [port EXCEPT ![d] = "attached"] /\ pipe' = pipe
          /\ port[d] = "absent"
      BY <2>3 DEF Attach
    <3> QED
      BY <1>p, <2>1, <2>2, <3>1 DEF PipesIdle
  <2>4. ASSUME NEW d \in Device, DetachOpen(d)
        PROVE  PipesIdle'
    <3>1. /\ port' = [port EXCEPT ![d] = "gone"] /\ port[d] = "attached"
          /\ pipe' = [p \in Pipe |-> IF p[1] = d /\ pipe[p] = "pending"
                                     THEN "no_device" ELSE pipe[p]]
      BY <2>4 DEF DetachOpen
    <3> QED
      BY <1>p, <1>d, <2>1, <2>2, <3>1 DEF PipesIdle
  <2>5. ASSUME NEW d \in Device, DetachUnopened(d)
        PROVE  PipesIdle'
    <3>1. /\ port' = [port EXCEPT ![d] = "absent"] /\ pipe' = pipe
          /\ d \notin opened
      BY <2>5 DEF DetachUnopened
    <3>2. ASSUME NEW p \in Pipe, p[1] = d
          PROVE  pipe[p] = "idle"
      <4>1. ASSUME NEW a \in Listed, PipeOf(a) = p
            PROVE  obj[a].dev = d
        BY <3>2, <4>1 DEF PipeOf
      <4> QED
        BY <3>1, <4>1 DEF OutstandingListed, ListedOpen
    <3> QED
      BY <1>p, <2>1, <2>2, <3>1, <3>2 DEF PipesIdle
  <2>6. ASSUME NEW p \in Pipe, Complete(p)
        PROVE  PipesIdle'
    <3>1. /\ pipe[p] = "pending" /\ port' = port
          /\ \/ pipe' = [pipe EXCEPT ![p] = "completed"]
             \/ pipe' = [pipe EXCEPT ![p] = "error"]
      BY <2>6 DEF Complete
    <3> QED
      BY <1>q, <2>1, <3>1 DEF PipesIdle
  <2> QED
    BY <1>11, <2>3, <2>4, <2>5, <2>6 DEF Bus, Plug, Unplug, Transfer
<1>12. CASE Reboot
  BY <1>12 DEF Reboot, LibReset, PipesIdle, HidIdle, Teardown
<1> QED
  BY <1>3, <1>4, <1>5, <1>6, <1>7, <1>8, <1>9, <1>10, <1>11, <1>12 DEF Next

-----------------------------------------------------------------------------
(* The list of interfaces: every step keeps ListShape.                     *)

\* How the driver task comes to a step at which it holds an interface, or to
\* one at which it installs a device.
LEMMA HidArrives ==
    ASSUME TypeOK, HidNext
    PROVE  /\ hid'.pc \in Closing /\ ~GoneFirst =>
                /\ hid.pc \in Closing
                /\ hid'.ptr = hid.ptr /\ hid'.dev = hid.dev
           /\ hid'.pc \in {"install", "add"} =>
                \/ NewDevice \/ InstallDevice \/ AddInterface \/ SkipInterface
                \/ hid' = hid
           /\ hid'.pc = "free" => CloseRelease \/ hid' = hid
           /\ hid'.pc = "resubmit" =>
                (\E p \in Pipe : InXferDone(p)) \/ hid' = hid
<1>h. hid \in HidTask
  BY DEF TypeOK
<1>1. CASE \/ NotHidDevice \/ OpenFailed \/ InstallFails \/ CallbackFails
           \/ CtrlXferDone
  <2>1. hid' = hid
    BY <1>1 DEF NotHidDevice, OpenFailed, InstallFails, CallbackFails, Fail,
                CtrlXferDone
  <2>2. ~GoneFirst \/ hid'.pc \notin Closing
    BY <2>1 DEF GoneFirst, HidAt, Closing
  <2> QED
    BY <2>1, <2>2
<1>2. CASE NewDevice \/ InstallDevice \/ AddInterface \/ SkipInterface
  <2>1. hid'.pc = "install" \/ hid'.pc = "add"
    BY <1>h, <1>2 DEF NewDevice, InstallDevice, AddInterface, SkipInterface,
                      HidAt, HidIdle, HidTask
  <2> QED
    BY <1>2, <2>1 DEF Closing
<1>3. CASE ListCreated \/ NotifyConnected
  <2>1. hid'.pc = "notify"
    BY <1>h, <1>3 DEF ListCreated, NotifyConnected, HidAt, HidTask
  <2> QED
    BY <2>1 DEF Closing
<1>4. CASE \/ AllNotified \/ CloseDisableFails \/ CloseReleaseFails
           \/ UninstallCloseFails \/ UninstallUnlist \/ Resubmit
  <2>1. \/ hid'.pc = "wait"
        \/ hid' = hid /\ (hid.pc = "disable" \/ hid.pc = "release")
    BY <1>4 DEF AllNotified, CloseDisableFails, CloseReleaseFails, Resubmit,
                UninstallCloseFails, UninstallUnlist, CloseReturnsError,
                HidReturn, HidIdle, HidAt
  <2> QED
    BY <2>1 DEF Closing
<1>5. CASE DeviceGone \/ GoneEmpty \/ UninstallFreeCtrl \/ UninstallClose
  <2>1. hid'.pc \in {"wait", "gone", "uninstall", "close", "unlist"}
    BY <1>h, <1>5 DEF DeviceGone, GoneEmpty, UninstallFreeCtrl, UninstallClose,
                      HidAt, HidGoto, HidIdle, HidTask
  <2> QED
    BY <2>1 DEF Closing
<1>6. CASE GoneFirst
  <2>1. hid'.pc = "disable"
    BY <1>h, <1>6 DEF GoneFirst, HidTask
  <2> QED
    BY <1>6, <2>1
<1>7. CASE \/ CloseDisable \/ CloseRelease \/ CloseFreeTransfer \/ CloseFinish
           \/ ShutdownRemove
  <2>1. /\ hid'.pc \in {"release", "free", "finish", "shutdown", "gone"} \cup
                       {hid.pc}
        /\ hid'.ptr = hid.ptr /\ hid'.dev = hid.dev
        /\ hid.pc \in {"disable", "release", "free", "finish", "remove"}
    BY <1>h, <1>7
       DEF CloseDisable, CloseRelease, CloseFreeTransfer, CloseFinish,
           CloseReturnsOk, ShutdownRemove, HidAt, HidGoto, HidTask
  <2>2. hid'.pc = "free" => CloseRelease \/ hid' = hid
    BY <1>h, <1>7
       DEF CloseDisable, CloseFreeTransfer, CloseFinish,
           CloseReturnsOk, ShutdownRemove, HidAt, HidGoto, HidTask
  <2> QED
    BY <2>1, <2>2 DEF Closing
<1>8. CASE Shutdown
  <2>1. \/ hid' = HidIdle
        \/ hid' = [hid EXCEPT !.pc = "remove"]
        \/ hid' = [hid EXCEPT !.pc = "disable", !.ctx = "user"]
    BY <1>8 DEF Shutdown, HidReturn, HidGoto
  <2>2. hid.pc = "shutdown"
    BY <1>8 DEF Shutdown, HidAt
  <2>3. \/ hid'.pc = "wait"
        \/ /\ hid'.pc \in {"remove", "disable"}
           /\ hid'.ptr = hid.ptr /\ hid'.dev = hid.dev
    <3>1. CASE hid' = HidIdle
      BY <3>1 DEF HidIdle
    <3>2. CASE hid' = [hid EXCEPT !.pc = "remove"]
      BY <3>2, <1>h DEF HidTask
    <3>3. CASE hid' = [hid EXCEPT !.pc = "disable", !.ctx = "user"]
      BY <3>3, <1>h DEF HidTask
    <3> QED
      BY <2>1, <3>1, <3>2, <3>3
  <2> QED
    BY <2>2, <2>3 DEF Closing
<1>9. CASE \E p \in Pipe : InXferDone(p)
  <2>1. hid'.pc = "wait" \/ hid'.pc = "resubmit"
    BY <1>9 DEF InXferDone, HidAt, HidIdle
  <2> QED
    BY <1>9, <2>1 DEF Closing
<1> QED
  BY <1>1, <1>2, <1>3, <1>4, <1>5, <1>6, <1>7, <1>8, <1>9 DEF HidNext

\* What is left after an interface was removed is as it was.
LEMMA RemoveLeaves ==
    ASSUME IInv, NEW a \in Addr, RemoveInterface(a)
    PROVE  /\ Listed' = Listed \ {a}
           /\ \A b \in Listed' : obj'[b] = obj[b] /\ PipeOf(b)' = PipeOf(b)
<1>1. ifaces \in Seq(Addr) /\ obj \in [Addr -> Iface] /\ ListedOnce
  BY DEF IInv, TypeOK
<1>2. Listed' = Listed \ {a}
  BY <1>1, RemoveListed DEF RemoveInterface
<1>3. Listed \subseteq Addr
  BY <1>1, LenProperties, ElementOfSeq DEF Listed
<1> QED
  BY <1>1, <1>2, <1>3 DEF RemoveInterface, PipeOf

\* An interface that was listed is as before, but for the new one.
LEMMA AddLeaves ==
    ASSUME IInv, AddInterface
    PROVE  \E a \in Addr \ Listed :
              /\ Listed' = Listed \cup {a}
              /\ PipeOf(a)' = <<hid.dev, hid.n>>
              /\ obj'[a].dev = hid.dev /\ obj'[a].n = hid.n
              /\ obj'[a].state = "IDLE" /\ obj'[a].xfer = "null"
              /\ \A b \in Listed : obj'[b] = obj[b] /\ PipeOf(b)' = PipeOf(b)
<1>1. ifaces \in Seq(Addr) /\ obj \in [Addr -> Iface] /\ ListedOnce
  BY DEF IInv, TypeOK
<1>2. PICK a \in Addr \ Listed :
         /\ ifaces' = Append(ifaces, a)
         /\ obj' = [obj EXCEPT ![a] =
              [NoIface EXCEPT !.dev = hid.dev, !.n = hid.n, !.state = "IDLE"]]
  BY DEF AddInterface
<1>3. Listed' = Listed \cup {a}
  BY <1>1, <1>2, AddListed
<1>4. /\ PipeOf(a)' = <<hid.dev, hid.n>>
      /\ obj'[a].dev = hid.dev /\ obj'[a].n = hid.n
      /\ obj'[a].state = "IDLE" /\ obj'[a].xfer = "null"
  BY <1>1, <1>2 DEF PipeOf, NoIface
<1>5. \A b \in Listed : obj'[b] = obj[b] /\ PipeOf(b)' = PipeOf(b)
  BY <1>1, <1>2 DEF PipeOf
<1> QED
  BY <1>3, <1>4, <1>5

\* No other step changes what is listed or which interface it is.
LEMMA PlacesKept ==
    ASSUME IInv, Next, ~AddInterface, ~Reboot
    PROVE  /\ Listed' \subseteq Listed
           /\ \A b \in Listed' : /\ obj'[b].dev = obj[b].dev
                                 /\ obj'[b].n = obj[b].n
                                 /\ PipeOf(b)' = PipeOf(b)
<1>o. /\ obj \in [Addr -> Iface] /\ TypeOK /\ HidShape
      /\ Listed \subseteq Addr
  BY LenProperties, ElementOfSeq DEF IInv, TypeOK, Listed
<1>1. ASSUME ifaces' = ifaces,
             \A b \in Addr : obj'[b].dev = obj[b].dev /\ obj'[b].n = obj[b].n
      PROVE  /\ Listed' \subseteq Listed
             /\ \A b \in Listed' : /\ obj'[b].dev = obj[b].dev
                                   /\ obj'[b].n = obj[b].n
                                   /\ PipeOf(b)' = PipeOf(b)
  <2>1. Listed' = Listed
    BY <1>1 DEF Listed
  <2> QED
    BY <1>o, <1>1, <2>1 DEF PipeOf
<1>2. CASE Bus
  BY <1>1, <1>2 DEF Bus, Plug, Unplug, Transfer, driverVars
<1>3. CASE ProcNext \/ Stop \/ Start
  <2>1. ifaces' = ifaces
    BY <1>3, ProcLeaves
  <2>2. CASE PrepareTransfer
    BY <1>1, <1>o, <2>1, <2>2 DEF PrepareTransfer, Iface
  <2>3. CASE SetCallback
    BY <1>1, <1>o, <2>1, <2>3 DEF SetCallback, Iface
  <2>4. CASE Activate
    BY <1>1, <1>o, <2>1, <2>4 DEF Activate, Iface
  <2>5. CASE ~PrepareTransfer /\ ~SetCallback /\ ~Activate
    BY <1>1, <1>3, <2>1, <2>5, ProcLeaves
  <2> QED
    BY <2>2, <2>3, <2>4, <2>5
<1>4. CASE CloseFinish \/ ShutdownRemove
  <2>1. \/ RemoveInterface(hid.ptr) /\ hid.ptr \in Addr
        \/ UNCHANGED <<ifaces, obj>>
    BY <1>4, <1>o DEF CloseFinish, ShutdownRemove, HidAt, HidShape
  <2> QED
    BY <1>1, <2>1, RemoveLeaves
<1>5. CASE CloseDisable
  <2>1. ifaces' = ifaces
    BY <1>5 DEF CloseDisable
  <2> QED
    BY <1>1, <1>o, <1>5, <2>1 DEF CloseDisable, Iface
<1>6. CASE CloseFreeTransfer
  <2>1. ifaces' = ifaces
    BY <1>6 DEF CloseFreeTransfer
  <2> QED
    BY <1>1, <1>o, <1>6, <2>1 DEF CloseFreeTransfer, Iface
<1>7. CASE Shutdown
  <2>1. /\ ifaces' = ifaces
        /\ \/ obj' = obj
           \/ obj' = [obj EXCEPT ![hid.ptr].state = "WAIT_USER_DELETION"]
    BY <1>7 DEF Shutdown
  <2> QED
    BY <1>1, <1>o, <2>1 DEF Iface
<1>8. CASE /\ HidNext /\ ~CloseFinish /\ ~ShutdownRemove /\ ~CloseDisable
           /\ ~CloseFreeTransfer /\ ~Shutdown
  BY <1>1, <1>8, HidKeeps
<1> QED
  BY <1>2, <1>3, <1>4, <1>5, <1>6, <1>7, <1>8 DEF Next

LEMMA ListStep ==
    ASSUME IInv, OpenShape, ListShape, Next
    PROVE  ListShape'
<1>1. /\ ListedOpen /\ ListedBefore /\ TakesOwn /\ OneListing
      /\ TypeOK /\ HidShape
  BY DEF ListShape, IInv
<1>h. hid \in HidTask
  BY <1>1 DEF TypeOK
<1>2. CASE AddInterface
  <2>1. PICK a \in Addr \ Listed :
           /\ Listed' = Listed \cup {a}
           /\ PipeOf(a)' = <<hid.dev, hid.n>>
           /\ obj'[a].dev = hid.dev /\ obj'[a].n = hid.n
           /\ \A b \in Listed : obj'[b] = obj[b] /\ PipeOf(b)' = PipeOf(b)
    BY <1>2, AddLeaves
  <2>2. /\ hid.pc = "add" /\ opened' = opened
        /\ LET desc == Config[hid.dev][hid.n] IN desc.hid /\ desc.usable
    BY <1>2 DEF AddInterface, HidAt, libVars
  <2>3. hid'.pc = "add" /\ hid'.dev = hid.dev /\ hid'.n = hid.n + 1
    BY <1>h, <1>2, <2>2 DEF AddInterface, HidTask
  <2>4. /\ hid.dev \in opened /\ hid.n \in Nat
        /\ \A b \in Listed : obj[b].dev = hid.dev => obj[b].n < hid.n
    BY <1>1, <1>h, <2>2 DEF OpenShape, ListedBefore, HidTask
  <2>5. ListedOpen'
    BY <1>1, <2>1, <2>2, <2>4 DEF ListedOpen, Desc
  <2>6. ListedBefore'
    <3>1. ASSUME NEW b \in Listed', obj'[b].dev = hid'.dev
          PROVE  obj'[b].n < hid'.n
      <4>1. CASE b = a
        BY <2>1, <2>3, <2>4, <4>1
      <4>2. CASE b \in Listed
        <5>1. obj[b].n < hid.n /\ obj[b].n \in Nat
          <6>1. b \in Addr
            BY <1>1, <4>2, LenProperties, ElementOfSeq DEF TypeOK, Listed
          <6> QED
            BY <1>1, <2>1, <2>3, <2>4, <3>1, <4>2, <6>1 DEF TypeOK, Iface
        <5> QED
          BY <2>1, <2>3, <2>4, <4>2, <5>1
      <4> QED
        BY <2>1, <4>1, <4>2
    <3> QED
      BY <2>3, <3>1 DEF ListedBefore
  <2>7. TakesOwn'
    BY <2>3 DEF TakesOwn, Closing
  <2>8. OneListing'
    <3>1. ASSUME NEW b \in Listed, PipeOf(b) = <<hid.dev, hid.n>>
          PROVE  FALSE
      <4>1. obj[b].dev = hid.dev /\ obj[b].n = hid.n
        BY <3>1 DEF PipeOf
      <4> QED
        BY <2>4, <4>1
    <3> QED
      BY <1>1, <2>1, <3>1 DEF OneListing
  <2> QED
    BY <2>5, <2>6, <2>7, <2>8 DEF ListShape
<1>3. CASE Reboot
  <2>1. Listed' = {} /\ hid' = HidIdle
    BY <1>3 DEF Reboot, Listed
  <2> QED
    BY <2>1 DEF ListShape, ListedOpen, ListedBefore, TakesOwn, OneListing
<1>4. CASE ~AddInterface /\ ~Reboot
  <2>1. /\ Listed' \subseteq Listed
        /\ \A b \in Listed' : /\ obj'[b].dev = obj[b].dev
                              /\ obj'[b].n = obj[b].n
                              /\ PipeOf(b)' = PipeOf(b)
    BY <1>4, PlacesKept
  <2>2. OneListing'
    BY <1>1, <2>1 DEF OneListing
  <2>3. ListedOpen'
    <3>1. CASE UninstallClose
      BY <1>1, <3>1 DEF UninstallClose, HidAt, HidShape, driverVars, Listed,
                        ListedOpen
    <3>2. opened \subseteq opened' \/ UninstallClose
      <4>1. CASE NewDevice \/ NotHidDevice \/ OpenFailed \/ DeviceGone
        BY <4>1 DEF NewDevice, NotHidDevice, OpenFailed, DeviceGone
      <4>2. CASE /\ HidNext /\ ~NewDevice /\ ~NotHidDevice /\ ~OpenFailed
                 /\ ~DeviceGone
        BY <4>2, HidLeaves
      <4>3. CASE ProcNext \/ Stop \/ Start
        BY <4>3, ProcLeaves
      <4>4. CASE Bus
        BY <4>4 DEF Bus, Plug, Unplug, Transfer, Attach, DetachOpen,
                    DetachUnopened, Complete
      <4> QED
        BY <1>4, <4>1, <4>2, <4>3, <4>4 DEF Next
    <3>3. CASE opened \subseteq opened'
      BY <1>1, <2>1, <3>3 DEF ListedOpen, Desc
    <3> QED
      BY <3>1, <3>2, <3>3
  <2>4. ListedBefore'
    <3>1. CASE NewDevice
      <4>1. /\ hid'.pc = "install" /\ hid'.dev \notin opened
        BY <3>1 DEF NewDevice, OpenOk, HidIdle
      <4> QED
        BY <1>1, <2>1, <4>1 DEF ListedBefore, ListedOpen
    <3>2. CASE InstallDevice
      <4>1. hid'.pc = "add" /\ hid'.dev = hid.dev /\ hid.pc = "install"
        BY <1>h, <3>2 DEF InstallDevice, HidAt, HidTask
      <4> QED
        BY <1>1, <2>1, <4>1 DEF ListedBefore
    <3>3. CASE SkipInterface
      <4>1. /\ hid'.pc = "add" /\ hid'.dev = hid.dev /\ hid.pc = "add"
            /\ hid.n \in Nat /\ hid'.n = hid.n + 1 /\ obj' = obj
        BY <1>h, <3>3 DEF SkipInterface, HidAt, HidTask, driverVars
      <4>2. \A b \in Listed' : b \in Listed /\ obj[b].n \in Nat
        <5>1. Listed \subseteq Addr
          BY <1>1, LenProperties, ElementOfSeq DEF TypeOK, Listed
        <5> QED
          BY <1>1, <2>1, <5>1 DEF TypeOK, Iface
      <4>3. \A b \in Listed' : obj[b].dev = hid.dev => obj[b].n < hid.n + 1
        BY <1>1, <2>1, <4>1, <4>2 DEF ListedBefore
      <4> QED
        BY <4>1, <4>3 DEF ListedBefore
    <3>4. CASE ~NewDevice /\ ~InstallDevice /\ ~SkipInterface
      <4>1. hid'.pc \in {"install", "add"} => hid' = hid
        <5>1. CASE HidNext
          BY <1>1, <1>4, <3>4, <5>1, HidArrives
        <5>2. CASE (ProcNext \/ Stop \/ Start) \/ Bus
          BY <5>2, ProcLeaves DEF Bus, Plug, Unplug, Transfer
        <5> QED
          BY <1>4, <5>1, <5>2 DEF Next
      <4> QED
        BY <1>1, <2>1, <4>1 DEF ListedBefore
    <3> QED
      BY <3>1, <3>2, <3>3, <3>4
  <2>5. TakesOwn'
    <3>1. CASE GoneFirst
      <4>1. /\ hid'.ptr = Head(ifaces) /\ hid'.dev = hid.dev
            /\ obj[Head(ifaces)].dev = hid.dev /\ obj' = obj
        BY <1>h, <3>1 DEF GoneFirst, HidTask, driverVars
      <4> QED
        BY <4>1 DEF TakesOwn
    <3>2. CASE ~GoneFirst
      <4>1. hid'.pc \in Closing => /\ hid.pc \in Closing
                                   /\ hid'.ptr = hid.ptr /\ hid'.dev = hid.dev
        <5>1. CASE HidNext
          BY <1>1, <3>2, <5>1, HidArrives
        <5>2. CASE (ProcNext \/ Stop \/ Start) \/ Bus
          BY <5>2, ProcLeaves DEF Bus, Plug, Unplug, Transfer
        <5> QED
          BY <1>4, <5>1, <5>2 DEF Next
      <4> QED
        BY <1>1, <2>1, <4>1 DEF TakesOwn
    <3> QED
      BY <3>1, <3>2
  <2> QED
    BY <2>2, <2>3, <2>4, <2>5 DEF ListShape
<1> QED
  BY <1>2, <1>3, <1>4

-----------------------------------------------------------------------------
(* The transfers: what the steps do to the interfaces.                     *)

\* How the processor task comes to a step at which it relies on what it found
\* at the step before: from that step, or it was there already.
LEMMA ProcArrives ==
    ASSUME TypeOK, FollowsHandle, Next
    PROVE  /\ FollowsHandle'
           /\ \A pc \in {"alloc", "activate", "submit"} :
                proc'.pc = pc /\ proc'.ptr \in Addr =>
                  \/ proc.pc = pc /\ proc'.ptr = proc.ptr
                  \/ pc = "alloc" /\ ClaimInterface
                  \/ pc = "activate" /\ CheckStart
                  \/ pc = "submit" /\ Activate
           /\ proc'.pc \in PastOpen =>
                \/ proc.pc \in PastOpen /\ proc'.h = proc.h
                \/ SetCallback
<1>q. proc \in ProcTask
  BY DEF TypeOK
<1>a. Dangling \notin Addr /\ Null \notin Addr
  BY AddrAssumption
<1>1. ASSUME proc' = proc
      PROVE  /\ FollowsHandle'
             /\ \A pc \in {"alloc", "activate", "submit"} :
                  proc'.pc = pc => proc.pc = pc /\ proc'.ptr = proc.ptr
             /\ proc'.pc \in PastOpen => proc.pc \in PastOpen /\ proc'.h = proc.h
  BY <1>1 DEF FollowsHandle
<1>2. ASSUME proc'.ptr = Null,
             proc'.pc \notin {"alloc", "activate", "submit"} \cup PastOpen
      PROVE  /\ FollowsHandle'
             /\ \A pc \in {"alloc", "activate", "submit"} : proc'.pc # pc
             /\ proc'.pc \notin PastOpen
  BY <1>2 DEF FollowsHandle
<1>3. CASE proc' = ProcIdle \/ Stop \/ Start \/ Receive \/ Reboot
  <2>1. proc'.ptr = Null /\ proc'.pc \in {"receive", "stopped", "get_params"}
    <3>1. CASE Receive
      <4>1. PICK h : proc' = [ProcIdle EXCEPT !.pc = "get_params", !.h = h]
        BY <3>1 DEF Receive
      <4> QED
        BY <4>1 DEF ProcIdle
    <3>2. CASE proc' = ProcIdle \/ Stop \/ Start \/ Reboot
      BY <3>2 DEF Stop, Start, Reboot, ProcIdle
    <3> QED
      BY <1>3, <3>1, <3>2
  <2> QED
    BY <1>2, <2>1 DEF PastOpen
<1>4. CASE Bus
  BY <1>1, <1>4 DEF Bus, Plug, Unplug, Transfer
<1>5. CASE CloseFinish \/ ShutdownRemove
  <2>1. proc' = proc \/ RemoveInterface(hid.ptr)
    BY <1>5 DEF CloseFinish, ShutdownRemove
  <2>2. \/ proc' = proc
        \/ /\ proc'.pc = proc.pc /\ proc'.h = proc.h
           /\ proc'.ptr = proc.ptr \/ proc'.ptr = Dangling
    BY <1>q, <2>1 DEF RemoveInterface, ProcTask
  <2> QED
    BY <1>a, <2>2 DEF FollowsHandle
<1>6. CASE UninstallUnlist
  <2>1. proc'.pc = proc.pc /\ proc'.h = proc.h /\ proc'.ptr = proc.ptr
    BY <1>q, <1>6 DEF UninstallUnlist, ProcTask
  <2> QED
    BY <2>1 DEF FollowsHandle
<1>7. CASE CtrlXferDone
  <2>1. /\ proc'.pc = "ctrl_done" /\ proc.pc = "ctrl_wait"
        /\ proc'.h = proc.h /\ proc'.ptr = proc.ptr
    BY <1>q, <1>7 DEF CtrlXferDone, ProcTask
  <2> QED
    BY <2>1 DEF FollowsHandle, PastOpen
<1>8. CASE GetParams \/ CopyParams \/ DeviceOpen
  <2>1. \/ proc' = ProcIdle \/ proc' = proc
        \/ proc' = [proc EXCEPT !.pc = "params", !.ptr = proc.h]
        \/ proc' = [proc EXCEPT !.pc = "check", !.ptr = proc.h]
        \/ \E k : proc' = [proc EXCEPT !.pc = "open", !.ptr = Null, !.kind = k]
    BY <1>8 DEF GetParams, CopyParams, DeviceOpen, Lookup
  <2>2. \/ proc' = ProcIdle \/ proc' = proc
        \/ /\ proc'.pc \in {"params", "check", "open"}
           /\ proc'.ptr = proc'.h \/ proc'.ptr = Null
    BY <1>q, <2>1 DEF ProcTask
  <2> QED
    BY <1>1, <1>3, <2>2 DEF FollowsHandle, PastOpen
<1>9. CASE CheckOpen \/ PrepareTransfer
  <2>1. \/ proc' = ProcIdle
        \/ proc' = [proc EXCEPT !.pc = "claim"]
        \/ proc' = [proc EXCEPT !.pc = "set_cb"]
    BY <1>9 DEF CheckOpen, PrepareTransfer
  <2>2. \/ proc' = ProcIdle
        \/ /\ proc'.pc \in {"claim", "set_cb"}
           /\ proc'.ptr = proc.ptr /\ proc'.h = proc.h
    BY <1>q, <2>1 DEF ProcTask
  <2> QED
    BY <1>3, <2>2 DEF FollowsHandle, PastOpen
<1>10. CASE ClaimInterface
  <2>1. \/ proc' = ProcIdle
        \/ proc' = [proc EXCEPT !.pc = "alloc"]
    BY <1>10 DEF ClaimInterface, ProcReturn
  <2>2. \/ proc' = ProcIdle
        \/ proc'.pc = "alloc" /\ proc'.ptr = proc.ptr /\ proc'.h = proc.h
    BY <1>q, <2>1 DEF ProcTask
  <2> QED
    BY <1>3, <1>10, <2>2 DEF FollowsHandle, PastOpen
<1>11. CASE SetCallback
  <2>1. /\ proc'.ptr = Null /\ proc'.pc \in {"request", "start"}
    BY <1>q, <1>11 DEF SetCallback, ProcGoto, ProcTask
  <2> QED
    BY <1>11, <2>1 DEF FollowsHandle
<1>12. CASE ClassRequest \/ DeviceStart
  <2>1. \/ proc' = ProcIdle
        \/ /\ proc.pc = "request" \/ proc.pc = "start"
           /\ \/ proc' = [proc EXCEPT !.pc = "parent", !.ptr = proc.h]
              \/ proc' = [proc EXCEPT !.pc = "prepare", !.ptr = proc.h]
    BY <1>12 DEF ClassRequest, DeviceStart, Lookup, ProcAt
  <2>2. \/ proc' = ProcIdle
        \/ /\ proc.pc = "request" \/ proc.pc = "start"
           /\ proc'.pc = "parent" \/ proc'.pc = "prepare"
           /\ proc'.ptr = proc.h /\ proc'.h = proc.h
    BY <1>q, <2>1 DEF ProcTask
  <2> QED
    BY <1>3, <2>2 DEF FollowsHandle, PastOpen
<1>13. CASE TakeParent
  <2>1. /\ proc.pc = "parent" /\ proc'.pc = "ctrl" /\ proc'.ptr = Null
        /\ proc'.h = proc.h
    BY <1>q, <1>13 DEF TakeParent, ProcAt, ProcTask
  <2> QED
    BY <2>1 DEF FollowsHandle, PastOpen
<1>14. CASE SubmitControl \/ ControlDone
  <2>1. \/ proc' = ProcIdle \/ proc' = proc
        \/ /\ proc.pc = "ctrl" \/ proc.pc = "ctrl_done"
           /\ \/ proc' = [proc EXCEPT !.pc = "ctrl_wait"]
              \/ proc' = [proc EXCEPT !.pc = "request", !.req = "idle",
                                      !.dev = Null]
              \/ proc' = [proc EXCEPT !.pc = "start", !.dev = Null]
    BY <1>14 DEF SubmitControl, ControlDone, ProcReturn, ProcAt
  <2>2. \/ proc' = ProcIdle \/ proc' = proc
        \/ /\ proc.pc = "ctrl" \/ proc.pc = "ctrl_done"
           /\ proc'.pc \in {"ctrl_wait", "request", "start"}
           /\ proc'.ptr = proc.ptr /\ proc'.h = proc.h
    BY <1>q, <2>1 DEF ProcTask
  <2> QED
    BY <1>1, <1>3, <2>2 DEF FollowsHandle, PastOpen
<1>15. CASE CheckStart \/ Activate
  <2>1. \/ proc' = ProcIdle \/ proc' = proc
        \/ CheckStart /\ proc' = [proc EXCEPT !.pc = "activate"]
        \/ Activate /\ proc' = [proc EXCEPT !.pc = "submit"]
    BY <1>15 DEF CheckStart, Activate
  <2>2. \/ proc' = ProcIdle \/ proc' = proc
        \/ /\ \/ CheckStart /\ proc'.pc = "activate"
              \/ Activate /\ proc'.pc = "submit"
           /\ proc'.ptr = proc.ptr /\ proc'.h = proc.h
    BY <1>q, <2>1 DEF ProcTask
  <2> QED
    BY <1>1, <1>3, <2>2 DEF FollowsHandle, PastOpen
<1>16. CASE PrepareTransferFails \/ ControlFails \/ SubmitIn \/ UseAfterFree
  <2>1. proc' = ProcIdle \/ proc' = proc
    BY <1>16 DEF PrepareTransferFails, ControlFails, SubmitIn, UseAfterFree,
                 ProcReturn, Fail
  <2> QED
    BY <1>1, <1>3, <2>1
<1>17. CASE /\ HidNext /\ ~CloseFinish /\ ~ShutdownRemove
            /\ ~UninstallUnlist /\ ~CtrlXferDone
  <2>1. CASE \/ NewDevice \/ NotHidDevice \/ OpenFailed \/ InstallDevice
             \/ AddInterface \/ SkipInterface \/ ListCreated \/ InstallFails
             \/ CallbackFails
    BY <1>1, <2>1 DEF NewDevice, NotHidDevice, OpenFailed, InstallDevice,
                 AddInterface, SkipInterface, ListCreated, InstallFails,
                 CallbackFails, Fail
  <2>2. CASE \/ NotifyConnected \/ AllNotified \/ DeviceGone \/ GoneFirst
             \/ GoneEmpty \/ CloseDisable \/ CloseDisableFails
    BY <1>1, <2>2 DEF NotifyConnected, AllNotified, DeviceGone, GoneFirst,
                 GoneEmpty, CloseDisable, CloseDisableFails
  <2>3. CASE \/ CloseRelease \/ CloseReleaseFails \/ CloseFreeTransfer
             \/ Shutdown \/ UninstallFreeCtrl \/ UninstallClose
             \/ UninstallCloseFails
    BY <1>1, <2>3 DEF CloseRelease, CloseReleaseFails, CloseFreeTransfer,
                 Shutdown, UninstallFreeCtrl, UninstallClose,
                 UninstallCloseFails
  <2>4. CASE Resubmit \/ \E p \in Pipe : InXferDone(p)
    BY <1>1, <2>4 DEF Resubmit, InXferDone
  <2> QED
    BY <1>17, <2>1, <2>2, <2>3, <2>4 DEF HidNext
<1> QED
  BY <1>3, <1>4, <1>5, <1>6, <1>7, <1>8, <1>9, <1>10, <1>11, <1>12,
     <1>13, <1>14, <1>15, <1>16, <1>17 DEF Next, ProcNext

\* The only changes of a listed interface, and the steps that make them.
IfaceEffect(b) ==
    \/ obj'[b] = obj[b]
    \/ /\ CloseDisable /\ b = hid.ptr
       /\ obj[b].state = "ACTIVE" /\ obj'[b].state = "READY"
       /\ obj'[b].xfer = obj[b].xfer /\ obj'[b].cb = obj[b].cb
    \/ /\ CloseFreeTransfer /\ b = hid.ptr
       /\ obj'[b].state = "IDLE" /\ obj'[b].xfer = "freed"
       /\ obj'[b].cb = obj[b].cb
    \/ /\ Shutdown /\ b = hid.ptr
       /\ obj'[b].state = "WAIT_USER_DELETION"
       /\ obj'[b].xfer = obj[b].xfer /\ obj'[b].cb = obj[b].cb
    \/ /\ PrepareTransfer /\ b = proc.ptr
       /\ obj'[b].state = "READY" /\ obj'[b].xfer = "alloc"
       /\ obj'[b].cb = obj[b].cb
    \/ /\ SetCallback /\ b = proc.ptr
       /\ obj'[b].cb = TRUE
       /\ obj'[b].state = obj[b].state /\ obj'[b].xfer = obj[b].xfer
    \/ /\ Activate /\ b = proc.ptr
       /\ obj[b].xfer # "freed" /\ obj'[b].state = "ACTIVE"
       /\ obj'[b].xfer = obj[b].xfer /\ obj'[b].cb = obj[b].cb

LEMMA IfaceSteps ==
    ASSUME IInv, Next, ~AddInterface, ~Reboot
    PROVE  \A b \in Listed' : IfaceEffect(b)
<1>1. /\ obj \in [Addr -> Iface] /\ TypeOK /\ HidShape
      /\ Listed \subseteq Addr
  BY LenProperties, ElementOfSeq DEF IInv, TypeOK, Listed
<1>2. Listed' \subseteq Addr
  BY <1>1, PlacesKept
<1>3. CASE CloseDisable
  <2>1. \/ obj' = obj
        \/ /\ obj[hid.ptr].state = "ACTIVE"
           /\ obj' = [obj EXCEPT ![hid.ptr].state = "READY"]
    BY <1>3 DEF CloseDisable
  <2> QED
    BY <1>1, <1>2, <1>3, <2>1 DEF IfaceEffect, Iface
<1>4. CASE CloseFreeTransfer
  <2>1. \/ obj' = obj
        \/ obj' = [obj EXCEPT ![hid.ptr].xfer = "freed",
                              ![hid.ptr].state = "IDLE"]
    BY <1>4 DEF CloseFreeTransfer
  <2> QED
    BY <1>1, <1>2, <1>4, <2>1 DEF IfaceEffect, Iface
<1>5. CASE Shutdown
  <2>1. \/ obj' = obj
        \/ obj' = [obj EXCEPT ![hid.ptr].state = "WAIT_USER_DELETION"]
    BY <1>5 DEF Shutdown
  <2> QED
    BY <1>1, <1>2, <1>5, <2>1 DEF IfaceEffect, Iface
<1>6. CASE PrepareTransfer
  <2>1. obj' = [obj EXCEPT ![proc.ptr].xfer = "alloc",
                           ![proc.ptr].state = "READY"]
    BY <1>6 DEF PrepareTransfer
  <2> QED
    BY <1>1, <1>2, <1>6, <2>1 DEF IfaceEffect, Iface
<1>7. CASE SetCallback
  <2>1. obj' = [obj EXCEPT ![proc.ptr].cb = TRUE]
    BY <1>7 DEF SetCallback
  <2> QED
    BY <1>1, <1>2, <1>7, <2>1 DEF IfaceEffect, Iface
<1>8. CASE Activate
  <2>1. \/ obj' = obj
        \/ /\ obj[proc.ptr].xfer # "freed"
           /\ obj' = [obj EXCEPT ![proc.ptr].state = "ACTIVE"]
    BY <1>8 DEF Activate
  <2> QED
    BY <1>1, <1>2, <1>8, <2>1 DEF IfaceEffect, Iface
<1>9. CASE CloseFinish \/ ShutdownRemove
  <2>1. \/ RemoveInterface(hid.ptr) /\ hid.ptr \in Addr
        \/ UNCHANGED obj
    BY <1>9, <1>1 DEF CloseFinish, ShutdownRemove, HidAt, HidShape
  <2> QED
    BY <2>1, RemoveLeaves DEF IfaceEffect
<1>10. CASE /\ HidNext /\ ~CloseFinish /\ ~ShutdownRemove /\ ~CloseDisable
            /\ ~CloseFreeTransfer /\ ~Shutdown
  BY <1>10, HidKeeps DEF IfaceEffect
<1>11. CASE /\ ProcNext \/ Stop \/ Start
            /\ ~PrepareTransfer /\ ~SetCallback /\ ~Activate
  BY <1>11, ProcLeaves DEF IfaceEffect
<1>12. CASE Bus
  BY <1>12 DEF Bus, Plug, Unplug, Transfer, driverVars, IfaceEffect
<1> QED
  BY <1>3, <1>4, <1>5, <1>6, <1>7, <1>8, <1>9, <1>10, <1>11, <1>12 DEF Next

\* The claims: who takes and who gives them up.
LEMMA ClaimSteps ==
    ASSUME Next, ~CloseRelease, ~Reboot
    PROVE  claimed \subseteq claimed'
<1>1. CASE HidNext
  BY <1>1, HidKeeps
<1>2. CASE ClaimInterface
  BY <1>2 DEF ClaimInterface
<1>3. CASE (ProcNext \/ Stop \/ Start) /\ ~ClaimInterface
  BY <1>3, ProcLeaves
<1>4. CASE Bus
  BY <1>4 DEF Bus, Plug, Unplug, Transfer, Attach, DetachOpen,
              DetachUnopened, Complete
<1> QED
  BY <1>1, <1>2, <1>3, <1>4 DEF Next

\* The driver task is at one step at a time.
LEMMA HidAlone ==
    ASSUME Next, ~Reboot
    PROVE  /\ hid.pc = "free" => hid' = hid \/ CloseFreeTransfer
           /\ hid.pc = "resubmit" => hid' = hid \/ Resubmit
<1>1. CASE (ProcNext \/ Stop \/ Start) \/ Bus
  BY <1>1, ProcLeaves DEF Bus, Plug, Unplug, Transfer
<1>2. CASE HidNext
  <2>1. CASE \/ NewDevice \/ NotHidDevice \/ OpenFailed \/ InstallDevice
             \/ AddInterface \/ SkipInterface \/ ListCreated \/ InstallFails
             \/ CallbackFails
    BY <2>1 DEF NewDevice, NotHidDevice, OpenFailed, InstallDevice,
                AddInterface, SkipInterface, ListCreated, InstallFails,
                CallbackFails, Fail, HidAt
  <2>2. CASE \/ NotifyConnected \/ AllNotified \/ DeviceGone \/ GoneFirst
             \/ GoneEmpty \/ CloseDisable \/ CloseDisableFails
    BY <2>2 DEF NotifyConnected, AllNotified, DeviceGone, GoneFirst,
                GoneEmpty, CloseDisable, CloseDisableFails, HidAt
  <2>3. CASE \/ CloseRelease \/ CloseReleaseFails \/ CloseFinish \/ Shutdown
             \/ ShutdownRemove
    BY <2>3 DEF CloseRelease, CloseReleaseFails, CloseFinish, Shutdown,
                ShutdownRemove, HidAt
  <2>4. CASE \/ UninstallFreeCtrl \/ UninstallClose \/ UninstallCloseFails
             \/ UninstallUnlist \/ CtrlXferDone
             \/ \E p \in Pipe : InXferDone(p)
    BY <2>4 DEF UninstallFreeCtrl, UninstallClose, UninstallCloseFails,
                UninstallUnlist, CtrlXferDone, InXferDone, HidAt
  <2>5. CASE CloseFreeTransfer \/ Resubmit
    BY <2>5 DEF CloseFreeTransfer, Resubmit, HidAt
  <2> QED
    BY <1>2, <2>1, <2>2, <2>3, <2>4, <2>5 DEF HidNext
<1> QED
  BY <1>1, <1>2 DEF Next

-----------------------------------------------------------------------------
(* The buffers and the claims: every step keeps Owned.                     *)

\* The pointers of the two tasks, at the steps at which they hold one.
LEMMA Pointers ==
    ASSUME IInv
    PROVE  /\ Listed \subseteq Addr
           /\ hid.pc \in {"disable", "release", "free", "finish", "remove"}
              => hid.ptr \in Listed
           /\ /\ proc.pc \in {"params", "check", "claim", "alloc", "set_cb",
                              "parent", "prepare", "activate", "submit"}
              /\ proc.ptr # Dangling
              => proc.ptr \in Listed
           /\ Dangling \notin Addr /\ Null \notin Addr
BY LenProperties, ElementOfSeq, AddrAssumption
   DEF IInv, TypeOK, HidShape, ProcShape, Listed

\* A claim is granted for an interface that has no buffer.
LEMMA ClaimFindsNoBuffer ==
    ASSUME IInv, OpenShape, TakesOwn, BufferClaimed,
           proc.ptr \in Listed, ClaimOk(PipeOf(proc.ptr))
    PROVE  obj[proc.ptr].xfer # "alloc"
<1> SUFFICES ASSUME obj[proc.ptr].xfer = "alloc"
             PROVE  FALSE
  OBVIOUS
<1>1. /\ PipeOf(proc.ptr) \notin claimed
      /\ port[obj[proc.ptr].dev] = "attached"
  BY DEF ClaimOk, PipeOf
<1>2. hid.pc = "free" /\ hid.ptr = proc.ptr
  BY <1>1 DEF BufferClaimed
<1>3. obj[proc.ptr].dev = hid.dev /\ port[hid.dev] = "gone"
  BY <1>2 DEF TakesOwn, OpenShape, Closing, Teardown
<1> QED
  BY <1>1, <1>3

LEMMA OwnedStep ==
    ASSUME IInv, OpenShape, ListShape, Owned, FollowsHandle, StartsReady, Next
    PROVE  Owned'
<1>1. /\ TakesOwn /\ OneListing
      /\ BufferClaimed /\ OpenHasBuffer /\ FreesOwn /\ AllocatesUnderClaim
      /\ TypeOK
  BY DEF ListShape, Owned, IInv
<1>h. hid \in HidTask
  BY <1>1 DEF TypeOK
<1>2. CASE AddInterface
  <2>1. PICK a \in Addr \ Listed :
           /\ Listed' = Listed \cup {a}
           /\ obj'[a].state = "IDLE" /\ obj'[a].xfer = "null"
           /\ \A b \in Listed : obj'[b] = obj[b] /\ PipeOf(b)' = PipeOf(b)
    BY <1>2, AddLeaves
  <2>2. claimed' = claimed /\ hid.pc = "add" /\ hid'.pc = "add" /\ proc' = proc
    BY <1>h, <1>2 DEF AddInterface, HidAt, HidTask, libVars
  <2>3. BufferClaimed' /\ OpenHasBuffer' /\ FreesOwn'
    BY <1>1, <2>1, <2>2 DEF BufferClaimed, OpenHasBuffer, FreesOwn
  <2>4. AllocatesUnderClaim'
    BY <1>1, <2>1, <2>2, Pointers DEF AllocatesUnderClaim
  <2> QED
    BY <2>3, <2>4 DEF Owned
<1>3. CASE Reboot
  <2>1. Listed' = {} /\ hid'.pc = "wait" /\ proc'.pc = "receive"
    BY <1>3 DEF Reboot, Listed, HidIdle, ProcIdle
  <2> QED
    BY <2>1 DEF Owned, BufferClaimed, OpenHasBuffer, FreesOwn,
                AllocatesUnderClaim
<1>4. CASE ~AddInterface /\ ~Reboot
  <2>1. /\ Listed' \subseteq Listed
        /\ \A b \in Listed' : PipeOf(b)' = PipeOf(b)
    BY <1>4, PlacesKept
  <2>2. \A b \in Listed' : IfaceEffect(b)
    BY <1>4, IfaceSteps
  <2>r. ASSUME CloseRelease
        PROVE  /\ hid.pc = "release" /\ hid.ptr \in Listed
               /\ hid'.ptr = hid.ptr /\ ifaces' = ifaces /\ obj' = obj
               /\ proc' = proc
               /\ \/ /\ obj[hid.ptr].state = "READY" /\ hid'.pc = "free"
                     /\ claimed' = claimed \ {PipeOf(hid.ptr)}
                  \/ hid'.pc = "finish" /\ claimed' = claimed
    BY <1>h, <2>r, GotoEffect, Pointers DEF CloseRelease, HidAt, driverVars
  <2>3. BufferClaimed'
    <3>1. CASE CloseRelease
      BY <1>1, <2>1, <2>r, <3>1
         DEF BufferClaimed, OneListing, Listed, PipeOf
    <3>2. CASE CloseFreeTransfer
      <4>1. /\ hid.pc = "free" /\ hid.ptr \in Listed /\ claimed' = claimed
            /\ obj' = [obj EXCEPT ![hid.ptr].xfer = "freed",
                                  ![hid.ptr].state = "IDLE"]
        BY <1>1, <3>2, Pointers
           DEF CloseFreeTransfer, HidAt, FreesOwn, libVars
      <4>2. \A b \in Listed' : b # hid.ptr => obj'[b] = obj[b]
        BY <1>1, <2>1, <4>1, Pointers DEF TypeOK
      <4>3. obj'[hid.ptr].xfer = "freed"
        BY <1>1, <4>1, Pointers DEF TypeOK, Iface
      <4> QED
        BY <1>1, <2>1, <4>1, <4>2, <4>3 DEF BufferClaimed
    <3>3. CASE ~CloseRelease /\ ~CloseFreeTransfer
      <4>1. claimed \subseteq claimed'
        BY <1>4, <3>3, ClaimSteps
      <4>2. hid.pc = "free" => hid' = hid
        BY <1>4, <3>3, HidAlone
      <4>3. ASSUME NEW b \in Listed', obj'[b].xfer = "alloc"
            PROVE  \/ obj[b].xfer = "alloc"
                   \/ PipeOf(b) \in claimed
        <5>1. CASE PrepareTransfer /\ b = proc.ptr
          <6>1. proc.pc = "alloc" /\ proc.ptr \in Addr
            BY <2>1, <5>1, Pointers DEF PrepareTransfer, ProcAt
          <6> QED
            BY <1>1, <5>1, <6>1 DEF AllocatesUnderClaim
        <5>2. CASE ~(PrepareTransfer /\ b = proc.ptr)
          BY <2>2, <3>3, <4>3, <5>2 DEF IfaceEffect
        <5> QED
          BY <5>1, <5>2
      <4> QED
        BY <1>1, <2>1, <4>1, <4>2, <4>3 DEF BufferClaimed
    <3> QED
      BY <3>1, <3>2, <3>3
  <2>4. OpenHasBuffer'
    <3>1. ASSUME NEW b \in Listed', obj'[b].state \in {"READY", "ACTIVE"}
          PROVE  obj'[b].xfer = "alloc"
      <4>1. CASE Activate /\ b = proc.ptr /\ obj[b].xfer # "freed"
                 /\ obj'[b].xfer = obj[b].xfer
        <5>1. proc.pc = "activate" /\ proc.ptr \in Addr
          BY <2>1, <4>1, Pointers DEF Activate, ProcAt
        <5>2. obj[b].xfer # "null" /\ obj[b].xfer \in {"null", "alloc", "freed"}
          BY <1>1, <4>1, <5>1 DEF StartsReady, TypeOK, Iface
        <5> QED
          BY <4>1, <5>2
      <4>2. CASE ~(Activate /\ b = proc.ptr)
        BY <1>1, <2>1, <2>2, <3>1, <4>2 DEF IfaceEffect, OpenHasBuffer
      <4>3. CASE obj'[b] = obj[b]
        BY <1>1, <2>1, <3>1, <4>3 DEF OpenHasBuffer
      <4>4. CASE ~CloseDisable /\ ~CloseFreeTransfer /\ ~Shutdown
                 /\ ~PrepareTransfer /\ ~SetCallback
        BY <2>2, <4>1, <4>2, <4>3, <4>4 DEF IfaceEffect
      <4>5. CASE CloseDisable \/ CloseFreeTransfer \/ Shutdown
                 \/ PrepareTransfer \/ SetCallback
        BY <1>1, <2>1, <2>2, <3>1, <4>1, <4>5 DEF IfaceEffect, OpenHasBuffer
      <4> QED
        BY <4>4, <4>5
    <3> QED
      BY <3>1 DEF OpenHasBuffer
  <2>5. FreesOwn'
    <3>1. CASE CloseRelease
      BY <1>1, <2>r, <3>1 DEF FreesOwn, OpenHasBuffer
    <3>2. CASE ~CloseRelease
      <4> SUFFICES ASSUME hid'.pc = "free"
                   PROVE  obj'[hid'.ptr].xfer = "alloc"
        BY DEF FreesOwn
      <4>1. hid' = hid /\ hid.pc = "free"
        <5>1. CASE HidNext
          BY <1>1, <3>2, <5>1, HidArrives
        <5>2. CASE (ProcNext \/ Stop \/ Start) \/ Bus
          BY <5>2, ProcLeaves DEF Bus, Plug, Unplug, Transfer
        <5> QED
          BY <1>4, <5>1, <5>2 DEF Next
      <4>2. hid.ptr \in Listed /\ obj[hid.ptr].xfer = "alloc"
        BY <1>1, <4>1, Pointers DEF FreesOwn
      <4>3. ~CloseFreeTransfer
        BY <1>h, <4>1, <4>2, GotoEffect DEF CloseFreeTransfer
      <4>4. hid.ptr \in Listed'
        <5>1. ifaces' = ifaces
          <6>1. ~CloseFinish /\ ~ShutdownRemove
            BY <4>1 DEF CloseFinish, ShutdownRemove, HidAt
          <6>2. CASE HidNext
            BY <1>4, <6>1, <6>2, HidKeeps
          <6>3. CASE (ProcNext \/ Stop \/ Start) \/ Bus
            BY <6>3, ProcLeaves DEF Bus, Plug, Unplug, Transfer, driverVars
          <6> QED
            BY <1>4, <6>2, <6>3 DEF Next
        <5> QED
          BY <4>2, <5>1 DEF Listed
      <4> QED
        BY <2>2, <4>1, <4>2, <4>3, <4>4 DEF IfaceEffect
    <3> QED
      BY <3>1, <3>2
  <2>6. AllocatesUnderClaim'
    <3> SUFFICES ASSUME NEW a \in Addr, proc'.pc = "alloc", proc'.ptr = a
                 PROVE  PipeOf(a)' \in claimed' /\ obj'[a].xfer # "alloc"
      BY DEF AllocatesUnderClaim, PipeOf
    <3>1. CASE ClaimInterface
      <4>1. /\ ClaimOk(PipeOf(proc.ptr)) /\ obj' = obj
            /\ claimed' = claimed \cup {PipeOf(proc.ptr)}
            /\ a = proc.ptr /\ proc.ptr \in Listed
        <5>1. proc \in ProcTask
          BY <1>1 DEF TypeOK
        <5>2. /\ ClaimOk(PipeOf(proc.ptr)) /\ obj' = obj
              /\ claimed' = claimed \cup {PipeOf(proc.ptr)}
              /\ proc' = [proc EXCEPT !.pc = "alloc"]
          BY <3>1 DEF ClaimInterface, ProcReturn, ProcIdle, driverVars
        <5>3. proc.ptr \in Listed
          BY <3>1, Pointers DEF ClaimInterface, ProcAt
        <5> QED
          BY <5>1, <5>2, <5>3 DEF ProcTask
      <4>2. obj[proc.ptr].xfer # "alloc"
        BY <1>1, <4>1, ClaimFindsNoBuffer
      <4> QED
        BY <4>1, <4>2 DEF PipeOf
    <3>2. CASE ~ClaimInterface
      <4>1. proc.pc = "alloc" /\ proc.ptr = a
        BY <1>1, <3>2, ProcArrives
      <4>2. /\ PipeOf(a) \in claimed /\ obj[a].xfer # "alloc"
            /\ a \in Listed
        BY <1>1, <4>1, Pointers DEF AllocatesUnderClaim
      <4>3. a \in Listed'
        <5>1. ProcShape'
          BY ShapeStep
        <5> QED
          BY <5>1, AddrAssumption DEF ProcShape
      <4>4. PipeOf(a)' = PipeOf(a)
        BY <2>1, <4>3
      <4>5. PipeOf(a) \in claimed'
        <5>1. CASE CloseRelease
          <6>1. obj[hid.ptr].state = "READY" => hid.ptr # a
            BY <1>1, <2>r, <4>2, <5>1 DEF OpenHasBuffer
          <6>2. hid.ptr # a => PipeOf(hid.ptr) # PipeOf(a)
            BY <1>1, <2>r, <4>2, <5>1 DEF OneListing
          <6> QED
            BY <2>r, <4>2, <5>1, <6>1, <6>2
        <5>2. CASE ~CloseRelease
          BY <1>4, <4>2, <5>2, ClaimSteps
        <5> QED
          BY <5>1, <5>2
      <4>6. obj'[a].xfer # "alloc"
        <5>1. ~PrepareTransfer
          <6>1. ASSUME PrepareTransfer
                PROVE  proc'.pc = "set_cb"
            BY <1>1, <6>1 DEF PrepareTransfer, TypeOK, ProcTask
          <6> QED
            BY <6>1
        <5>2. IfaceEffect(a)
          BY <2>2, <4>3
        <5> QED
          BY <4>2, <5>1, <5>2 DEF IfaceEffect
      <4> QED
        BY <4>4, <4>5, <4>6
    <3> QED
      BY <3>1, <3>2
  <2> QED
    BY <2>3, <2>4, <2>5, <2>6 DEF Owned
<1> QED
  BY <1>2, <1>3, <1>4

-----------------------------------------------------------------------------
(* The interfaces that are served: every step keeps Started.               *)

\* What the driver task holds at the steps that change an interface.
LEMMA ClosingSteps ==
    ASSUME \/ CloseDisable \/ CloseFreeTransfer \/ Shutdown \/ CloseFinish
           \/ ShutdownRemove \/ CloseRelease
    PROVE  hid.pc \in Closing
BY DEF CloseDisable, CloseFreeTransfer, Shutdown, CloseFinish, ShutdownRemove,
       CloseRelease, HidAt, Closing

\* An interface stays listed unless it is removed.
LEMMA StaysListed ==
    ASSUME IInv, Next, ~Reboot, NEW a \in Listed,
           ~(hid.pc \in Closing /\ hid.ptr = a)
    PROVE  a \in Listed' /\ PipeOf(a)' = PipeOf(a)
<1>1. a \in Listed'
  <2>1. CASE AddInterface
    BY <2>1, AddLeaves
  <2>2. CASE CloseFinish \/ ShutdownRemove
    <3>1. \/ RemoveInterface(hid.ptr) /\ hid.ptr \in Addr
          \/ ifaces' = ifaces
      BY <2>2, Pointers DEF CloseFinish, ShutdownRemove, HidAt
    <3>2. hid.ptr # a
      BY <2>2, ClosingSteps
    <3>3. CASE RemoveInterface(hid.ptr) /\ hid.ptr \in Addr
      BY <3>2, <3>3, RemoveLeaves
    <3>4. CASE ifaces' = ifaces
      BY <3>4 DEF Listed
    <3> QED
      BY <3>1, <3>3, <3>4
  <2>3. CASE HidNext /\ ~AddInterface /\ ~CloseFinish /\ ~ShutdownRemove
    BY <2>3, HidKeeps DEF Listed
  <2>4. CASE (ProcNext \/ Stop \/ Start) \/ Bus
    BY <2>4, ProcLeaves DEF Bus, Plug, Unplug, Transfer, driverVars, Listed
  <2> QED
    BY <2>1, <2>2, <2>3, <2>4 DEF Next
<1>2. PipeOf(a)' = PipeOf(a)
  <2>1. CASE AddInterface
    BY <2>1, AddLeaves
  <2>2. CASE ~AddInterface
    BY <1>1, <2>2, PlacesKept
  <2> QED
    BY <2>1, <2>2
<1> QED
  BY <1>1, <1>2

\* A served interface stays served unless the driver task takes it down.
LEMMA ServingKept ==
    ASSUME IInv, Owned, Next, ~Reboot, NEW a \in Listed, Serving(a),
           ~(hid.pc \in Closing /\ hid.ptr = a)
    PROVE  a \in Listed' /\ PipeOf(a)' = PipeOf(a) /\ Serving(a)'
<1>1. a \in Listed' /\ PipeOf(a)' = PipeOf(a)
  BY StaysListed
<1>2. Serving(a)'
  <2>1. CASE AddInterface
    BY <2>1, AddLeaves DEF Serving
  <2>2. CASE ~AddInterface
    <3>1. IfaceEffect(a)
      BY <1>1, <2>2, IfaceSteps
    <3>2. ~(CloseDisable /\ a = hid.ptr) /\ ~(CloseFreeTransfer /\ a = hid.ptr)
          /\ ~(Shutdown /\ a = hid.ptr)
      BY ClosingSteps
    <3>3. ~(PrepareTransfer /\ a = proc.ptr)
      BY Pointers
         DEF PrepareTransfer, ProcAt, Owned, AllocatesUnderClaim, Serving
    <3> QED
      BY <3>1, <3>2, <3>3 DEF IfaceEffect, Serving
  <2> QED
    BY <2>1, <2>2
<1> QED
  BY <1>1, <1>2

\* The interface whose endpoint is that of a pipe of the same device.
LEMMA SameEndpointSamePipe ==
    ASSUME IInv, NEW a \in Listed, NEW p \in Pipe,
           Desc(PipeOf(a)).ep = Desc(p).ep, obj[a].dev = p[1]
    PROVE  PipeOf(a) = p
<1>1. PipeOf(a) \in Pipe
  BY DEF IInv, ListedInstalled
<1>2. /\ p = <<p[1], p[2]>> /\ p[1] \in Device /\ p[2] \in DOMAIN Config[p[1]]
      /\ PipeOf(a)[2] \in DOMAIN Config[PipeOf(a)[1]]
  BY <1>1, PipeProperties
<1>3. PipeOf(a) = <<p[1], obj[a].n>> /\ obj[a].n \in DOMAIN Config[p[1]]
  BY <1>2 DEF PipeOf
<1>4. Config[p[1]][obj[a].n].ep = Config[p[1]][p[2]].ep
  BY <1>3 DEF Desc
<1>5. obj[a].n = p[2]
  BY <1>2, <1>3, <1>4, EndpointAssumption
<1> QED
  BY <1>2, <1>3, <1>5

\* A device that is held open is not plugged in anew.
LEMMA PortStays ==
    ASSUME IInv, OpenShape, Next, ~Reboot, NEW d \in opened,
           port'[d] = "attached"
    PROVE  port[d] = "attached"
<1>1. /\ port \in [Device -> {"absent", "attached", "gone"}] /\ d \in Device
      /\ port[d] # "absent" /\ HidShape
  BY DEF IInv, TypeOK, LibTypeOK, OpenShape
<1>2. CASE UninstallClose
  <2>1. /\ hid.dev \in Device
        /\ port' = [port EXCEPT ![hid.dev] = IF @ = "gone" THEN "absent" ELSE @]
    BY <1>1, <1>2 DEF UninstallClose, HidAt, HidShape
  <2> QED
    BY <1>1, <2>1
<1>3. CASE NewDevice \/ NotHidDevice \/ OpenFailed \/ DeviceGone
  BY <1>3 DEF NewDevice, NotHidDevice, OpenFailed, DeviceGone
<1>4. CASE /\ HidNext /\ ~UninstallClose
           /\ ~NewDevice /\ ~NotHidDevice /\ ~OpenFailed /\ ~DeviceGone
  BY <1>4, HidLeaves
<1>5. CASE ProcNext \/ Stop \/ Start
  BY <1>5, ProcLeaves
<1>6. CASE Bus
  <2>1. ASSUME NEW e \in Device, Attach(e)
        PROVE  port[d] = "attached"
    BY <1>1, <2>1 DEF Attach
  <2>2. ASSUME NEW e \in Device, DetachOpen(e) \/ DetachUnopened(e)
        PROVE  port[d] = "attached"
    BY <1>1, <2>2 DEF DetachOpen, DetachUnopened
  <2>3. ASSUME NEW p \in Pipe, Complete(p)
        PROVE  port[d] = "attached"
    BY <2>3 DEF Complete
  <2> QED
    BY <1>6, <2>1, <2>2, <2>3 DEF Bus, Plug, Unplug, Transfer
<1> QED
  BY <1>2, <1>3, <1>4, <1>5, <1>6 DEF Next

LEMMA StartedStep ==
    ASSUME IInv, OpenShape, ListShape, Owned, Started, OutstandingListed, Next
    PROVE  Started'
<1>1. /\ FollowsHandle /\ OpenHasCallback /\ StartsReady /\ ResubmitsServed
      /\ ListedOpen /\ TakesOwn /\ OneListing
      /\ TypeOK
  BY DEF Started, ListShape, IInv
<1>p. port \in [Device -> {"absent", "attached", "gone"}]
  BY <1>1 DEF TypeOK, LibTypeOK
<1>2. FollowsHandle'
  BY <1>1, ProcArrives
<1>3. CASE Reboot
  <2>1. hid'.pc = "wait" /\ proc'.pc = "receive"
    BY <1>3 DEF Reboot, HidIdle, ProcIdle
  <2> QED
    BY <1>2, <2>1 DEF Started, OpenHasCallback, StartsReady, ResubmitsServed,
                      PastOpen
<1>4. CASE ~Reboot
  <2>1. OpenHasCallback'
    <3> SUFFICES ASSUME NEW a \in Listed', proc'.pc \in PastOpen, proc'.h = a,
                        obj'[a].state \in {"READY", "ACTIVE"}
                 PROVE  obj'[a].cb
      BY DEF OpenHasCallback
    <3>1. CASE AddInterface
      <4>1. proc' = proc
        BY <3>1 DEF AddInterface
      <4>2. a \in Listed /\ obj'[a] = obj[a]
        BY <3>1, AddLeaves
      <4> QED
        BY <1>1, <4>1, <4>2 DEF OpenHasCallback
    <3>2. CASE SetCallback
      <4>1. proc.ptr \in Listed /\ proc.ptr = proc.h
        BY <1>1, <3>2, Pointers DEF SetCallback, ProcAt, FollowsHandle
      <4>2. proc'.h = proc.h /\ obj' = [obj EXCEPT ![proc.ptr].cb = TRUE]
        BY <1>1, <3>2 DEF SetCallback, ProcGoto, TypeOK, ProcTask
      <4> QED
        BY <1>1, <4>1, <4>2, Pointers DEF TypeOK, Iface
    <3>3. CASE ~AddInterface /\ ~SetCallback
      <4>1. proc.pc \in PastOpen /\ proc.h = a
        BY <1>1, <3>3, ProcArrives
      <4>2. a \in Listed /\ IfaceEffect(a)
        BY <1>4, <3>3, PlacesKept, IfaceSteps
      <4>3. ~PrepareTransfer /\ ~Activate
        BY <4>1 DEF PrepareTransfer, Activate, ProcAt, PastOpen
      <4>4. obj[a].state \in {"READY", "ACTIVE"} /\ obj'[a].cb = obj[a].cb
        BY <3>3, <4>2, <4>3 DEF IfaceEffect
      <4> QED
        BY <1>1, <4>1, <4>2, <4>4 DEF OpenHasCallback
    <3> QED
      BY <3>1, <3>2, <3>3
  <2>2. StartsReady'
    <3> SUFFICES ASSUME NEW a \in Addr, NEW pc \in {"activate", "submit"},
                        proc'.pc = pc, proc'.ptr = a
                 PROVE  /\ obj'[a].cb /\ obj'[a].xfer # "null"
                        /\ port'[obj'[a].dev] = "attached" =>
                              obj'[a].state =
                                (IF pc = "activate" THEN "READY" ELSE "ACTIVE")
      BY DEF StartsReady
    <3>0. a \in Listed'
      <4>1. ProcShape'
        BY ShapeStep
      <4> QED
        BY <4>1, AddrAssumption DEF ProcShape
    <3>1. CASE CheckStart /\ pc = "activate"
      <4>1. /\ obj' = obj /\ port' = port /\ proc.pc = "prepare"
            /\ proc.ptr \in Listed
            /\ \/ proc' = ProcIdle
               \/ /\ obj[proc.ptr].xfer # "null" /\ obj[proc.ptr].state = "READY"
                  /\ proc' = [proc EXCEPT !.pc = "activate"]
        BY <3>1, Pointers
           DEF CheckStart, ProcAt, driverVars, libVars
      <4>2. ProcIdle.pc # "activate"
        BY DEF ProcIdle
      <4>3. /\ obj[proc.ptr].xfer # "null" /\ obj[proc.ptr].state = "READY"
            /\ a = proc.ptr
        BY <1>1, <3>1, <4>1, <4>2 DEF TypeOK, ProcTask
      <4>4. proc.ptr = proc.h
        BY <1>1, <4>1, Pointers DEF FollowsHandle
      <4>5. obj[a].cb
        BY <1>1, <4>1, <4>3, <4>4 DEF OpenHasCallback, PastOpen
      <4> QED
        BY <3>1, <4>1, <4>3, <4>5
    <3>2. CASE Activate /\ pc = "submit"
      <4>1. /\ proc.pc = "activate" /\ proc.ptr \in Listed
            /\ \/ proc' = proc
               \/ /\ obj' = [obj EXCEPT ![proc.ptr].state = "ACTIVE"]
                  /\ proc' = [proc EXCEPT !.pc = "submit"]
        BY <3>2, Pointers DEF Activate, ProcAt
      <4>2. /\ obj' = [obj EXCEPT ![proc.ptr].state = "ACTIVE"]
            /\ a = proc.ptr
        BY <1>1, <3>2, <4>1 DEF TypeOK, ProcTask
      <4>3. obj[a].cb /\ obj[a].xfer # "null"
        BY <1>1, <4>1, <4>2, Pointers DEF StartsReady
      <4> QED
        BY <1>1, <3>2, <4>2, <4>3 DEF TypeOK, Iface
    <3>3. CASE proc.pc = pc /\ proc.ptr = a
      <4>1. /\ a \in Listed /\ obj[a].cb /\ obj[a].xfer # "null"
            /\ obj[a].dev \in opened
            /\ port[obj[a].dev] = "attached" =>
                  obj[a].state = (IF pc = "activate" THEN "READY" ELSE "ACTIVE")
        BY <1>1, <3>3, Pointers DEF StartsReady, ListedOpen
      <4>2. port'[obj[a].dev] = "attached" => port[obj[a].dev] = "attached"
        BY <1>4, <4>1, PortStays
      <4>3. CASE AddInterface
        BY <4>1, <4>2, <4>3, AddLeaves
      <4>4. CASE ~AddInterface
        <5>1. IfaceEffect(a) /\ obj'[a].dev = obj[a].dev
          BY <1>4, <3>0, <4>4, IfaceSteps, PlacesKept
        <5>2. ~PrepareTransfer /\ ~SetCallback
          BY <3>3 DEF PrepareTransfer, SetCallback, ProcAt
        <5>3. Activate => obj' = obj
          <6>1. Activate => \/ obj' = obj
                            \/ proc' = [proc EXCEPT !.pc = "submit"]
            BY DEF Activate
          <6>2. Activate => pc = "activate"
            BY <3>3 DEF Activate, ProcAt
          <6> QED
            BY <1>1, <6>1, <6>2 DEF TypeOK, ProcTask
        <5>4. CASE obj'[a] = obj[a]
          BY <4>1, <4>2, <5>4
        <5>5. CASE hid.pc \in Closing /\ hid.ptr = a
          <6>1. port[obj[a].dev] = "gone"
            BY <1>1, <4>1, <5>5
               DEF TakesOwn, OpenShape, Closing, Teardown
          <6>2. obj'[a].cb /\ obj'[a].xfer # "null"
            BY <4>1, <5>1, <5>2, <5>3 DEF IfaceEffect
          <6> QED
            BY <4>2, <5>1, <6>1, <6>2
        <5> QED
          BY <5>1, <5>2, <5>3, <5>4, <5>5, ClosingSteps DEF IfaceEffect
      <4> QED
        BY <4>3, <4>4
    <3> QED
      BY <1>1, <3>1, <3>2, <3>3, ProcArrives
  <2>3. ResubmitsServed'
    <3> SUFFICES ASSUME hid'.pc = "resubmit"
                 PROVE  \E a \in Listed' :
                           /\ hid'.ptr = a /\ Serving(a)'
                           /\ PipeOf(a)' = <<hid'.dev, hid'.n>>
      BY DEF ResubmitsServed, Serving, PipeOf
    <3>1. CASE \E p \in Pipe : InXferDone(p)
      <4>1. PICK p \in Pipe : InXferDone(p)
        BY <3>1
      <4>2. /\ pipe[p] # "idle" /\ hid.pc = "wait"
            /\ UNCHANGED <<ifaces, obj>>
        BY <4>1 DEF InXferDone, HidAt, Finished, driverVars
      <4>3. PICK a \in Listed :
               /\ IsFirstByEp(a, Desc(p).ep) /\ obj[a].dev = p[1]
               /\ hid' = [HidIdle EXCEPT !.pc = "resubmit", !.ptr = a,
                                         !.dev = p[1], !.n = p[2]]
        <5>1. hid' # hid
          BY <4>2
        <5> QED
          BY <4>1, <5>1 DEF InXferDone
      <4>4. PipeOf(a) = p
        BY <4>3, SameEndpointSamePipe DEF IsFirstByEp
      <4>5. Serving(a)
        BY <1>1, <4>2, <4>3, <4>4 DEF OutstandingListed, OneListing, Serving
      <4>6. hid'.ptr = a /\ hid'.dev = p[1] /\ hid'.n = p[2]
        BY <4>3 DEF HidIdle
      <4>7. p = <<p[1], p[2]>>
        BY PipeProperties
      <4> QED
        BY <4>2, <4>3, <4>4, <4>5, <4>6, <4>7 DEF Serving, PipeOf, Listed
    <3>2. CASE \A p \in Pipe : ~InXferDone(p)
      <4>1. hid' = hid
        <5>1. CASE HidNext
          BY <1>1, <3>2, <5>1, HidArrives
        <5>2. CASE (ProcNext \/ Stop \/ Start) \/ Bus
          BY <5>2, ProcLeaves DEF Bus, Plug, Unplug, Transfer
        <5> QED
          BY <1>4, <5>1, <5>2 DEF Next
      <4>2. PICK a \in Listed :
               /\ a = hid.ptr /\ Serving(a) /\ PipeOf(a) = <<hid.dev, hid.n>>
        BY <1>1, <4>1 DEF ResubmitsServed
      <4>3. a \in Listed' /\ PipeOf(a)' = PipeOf(a) /\ Serving(a)'
        BY <1>4, <4>1, <4>2, ServingKept DEF Closing
      <4> QED
        BY <4>1, <4>2, <4>3
    <3> QED
      BY <3>1, <3>2
  <2> QED
    BY <1>2, <2>1, <2>2, <2>3 DEF Started
<1> QED
  BY <1>3, <1>4

-----------------------------------------------------------------------------
(* The transfers that have not come back.                                  *)

\* Who submits a transfer.
LEMMA SubmitSteps ==
    ASSUME IInv, PipesIdle, TakesOwn, Next,
           NEW p \in Pipe, pipe[p] = "idle", pipe'[p] # "idle"
    PROVE  /\ SubmitOk(p) /\ UNCHANGED <<claimed, ifaces, obj>>
           /\ \/ SubmitIn /\ p = PipeOf(proc.ptr) /\ obj[proc.ptr].xfer # "freed"
              \/ Resubmit /\ p = <<hid.dev, hid.n>>
<1>q. pipe \in [Pipe -> {"idle", "pending"} \cup Finished]
  BY DEF IInv, TypeOK, LibTypeOK
<1>1. CASE SubmitIn
  <2>1. /\ pipe' = [pipe EXCEPT ![PipeOf(proc.ptr)] = "pending"]
        /\ SubmitOk(PipeOf(proc.ptr)) /\ obj[proc.ptr].xfer # "freed"
    BY <1>1 DEF SubmitIn
  <2>2. p = PipeOf(proc.ptr)
    BY <1>q, <2>1
  <2> QED
    BY <1>1, <2>1, <2>2 DEF SubmitIn, driverVars
<1>2. CASE Resubmit
  <2>1. /\ pipe' = [pipe EXCEPT ![<<hid.dev, hid.n>>] = "pending"]
        /\ SubmitOk(<<hid.dev, hid.n>>)
    BY <1>2 DEF Resubmit
  <2>2. p = <<hid.dev, hid.n>>
    BY <1>q, <2>1
  <2> QED
    BY <1>2, <2>1, <2>2 DEF Resubmit, driverVars
<1>3. CASE /\ HidNext /\ ~Resubmit
           /\ \A r \in Pipe : ~InXferDone(r)
  <2>1. pipe' = pipe
    BY <1>3, HidKeeps, DisableLeavesPipes
  <2> QED
    BY <2>1
<1>4. CASE \E r \in Pipe : InXferDone(r)
  <2>1. PICK r \in Pipe : pipe' = [pipe EXCEPT ![r] = "idle"]
    BY <1>4 DEF InXferDone
  <2> QED
    BY <1>q, <2>1
<1>5. CASE (ProcNext \/ Stop \/ Start) /\ ~SubmitIn
  BY <1>5, ProcLeaves
<1>6. CASE Bus
  <2>1. ASSUME NEW d \in Device, Attach(d) \/ DetachUnopened(d)
        PROVE  FALSE
    BY <2>1 DEF Attach, DetachUnopened
  <2>2. ASSUME NEW d \in Device, DetachOpen(d)
        PROVE  FALSE
    BY <2>2 DEF DetachOpen
  <2>3. ASSUME NEW r \in Pipe, Complete(r)
        PROVE  FALSE
    BY <1>q, <2>3 DEF Complete
  <2> QED
    BY <1>6, <2>1, <2>2, <2>3 DEF Bus, Plug, Unplug, Transfer
<1>7. CASE Reboot
  BY <1>7 DEF Reboot, LibReset
<1> QED
  BY <1>1, <1>2, <1>3, <1>4, <1>5, <1>6, <1>7 DEF Next

LEMMA OutstandingStep ==
    ASSUME KInv, Next
    PROVE  OutstandingListed'
<1>1. /\ IInv /\ PipesIdle /\ OpenShape
      /\ ListedOpen /\ TakesOwn /\ OneListing
      /\ Owned /\ OpenHasBuffer /\ StartsReady /\ ResubmitsServed
      /\ OutstandingListed
  BY DEF KInv, LInv, ListShape, Owned, Started
<1>2. SUFFICES ASSUME NEW p \in Pipe, pipe'[p] # "idle"
               PROVE  /\ p \in claimed'
                      /\ \E a \in Listed' : PipeOf(a)' = p /\ Serving(a)'
  BY DEF OutstandingListed, Serving, PipeOf
<1>3. ~Reboot
  BY <1>2 DEF Reboot, LibReset
<1>4. CASE pipe[p] # "idle"
  <2>1. p \in claimed
    BY <1>1, <1>4 DEF OutstandingListed
  <2>2. PICK a \in Listed : PipeOf(a) = p /\ Serving(a)
    BY <1>1, <1>4 DEF OutstandingListed, Serving
  <2>3. ~(hid.pc \in Closing /\ hid.ptr = a)
    <3>1. obj[a].dev = p[1]
      BY <2>2 DEF PipeOf
    <3> QED
      BY <1>1, <1>4, <3>1 DEF TakesOwn, PipesIdle, Closing, Teardown
  <2>4. a \in Listed' /\ PipeOf(a)' = p /\ Serving(a)'
    BY <1>1, <1>3, <2>2, <2>3, ServingKept
  <2>5. p \in claimed'
    <3>1. CASE CloseRelease
      <4>1. hid.ptr \in Listed /\ hid.ptr # a
        BY <1>1, <2>3, <3>1, ClosingSteps, Pointers DEF CloseRelease, HidAt
      <4>2. PipeOf(hid.ptr) # p
        BY <1>1, <2>2, <4>1 DEF OneListing
      <4> QED
        BY <2>1, <3>1, <4>2 DEF CloseRelease
    <3>2. CASE ~CloseRelease
      BY <1>3, <2>1, <3>2, ClaimSteps
    <3> QED
      BY <3>1, <3>2
  <2> QED
    BY <2>4, <2>5
<1>5. CASE pipe[p] = "idle"
  <2>1. /\ SubmitOk(p) /\ UNCHANGED <<claimed, ifaces, obj>>
        /\ \/ SubmitIn /\ p = PipeOf(proc.ptr) /\ obj[proc.ptr].xfer # "freed"
           \/ Resubmit /\ p = <<hid.dev, hid.n>>
    BY <1>1, <1>2, <1>5, SubmitSteps
  <2>2. \E a \in Listed : PipeOf(a) = p /\ Serving(a)
    <3>1. CASE Resubmit /\ p = <<hid.dev, hid.n>>
      BY <1>1, <3>1 DEF Resubmit, HidAt, ResubmitsServed
    <3>2. CASE SubmitIn /\ p = PipeOf(proc.ptr)
      <4>1. proc.pc = "submit" /\ proc.ptr \in Listed
        BY <1>1, <3>2, Pointers DEF SubmitIn, ProcAt
      <4>2. port[obj[proc.ptr].dev] = "attached"
        BY <2>1, <3>2 DEF SubmitOk, PipeOf
      <4>3. obj[proc.ptr].cb /\ obj[proc.ptr].state = "ACTIVE"
        BY <1>1, <4>1, <4>2, Pointers DEF StartsReady
      <4>4. Serving(proc.ptr)
        BY <1>1, <4>1, <4>3 DEF OpenHasBuffer, Serving
      <4> QED
        BY <3>2, <4>1, <4>4
    <3> QED
      BY <2>1, <3>1, <3>2
  <2> QED
    BY <2>1, <2>2 DEF SubmitOk, Listed, PipeOf, Serving
<1> QED
  BY <1>4, <1>5

-----------------------------------------------------------------------------
(* The theorems.                                                           *)

LEMMA InitKInv == Init => KInv
<1> SUFFICES ASSUME Init
             PROVE  KInv
  OBVIOUS
<1>1. IInv
  BY InitIInv
<1>2. /\ hid.pc = "wait" /\ proc.pc = "receive" /\ proc.ptr = Null
      /\ Listed = {} /\ opened = {} /\ msgs = <<>>
      /\ \A d \in Device : port[d] = "absent"
      /\ \A p \in Pipe : pipe[p] = "idle"
  BY DEF Init, LibInit, HidIdle, ProcIdle, Listed
<1>3. LInv
  BY <1>2 DEF LInv, OpenShape, PipesIdle, GoneMsgs, Teardown
<1>4. ListShape
  BY <1>2 DEF ListShape, ListedOpen, ListedBefore, TakesOwn, OneListing
<1>5. Owned
  BY <1>2 DEF Owned, BufferClaimed, OpenHasBuffer, FreesOwn,
              AllocatesUnderClaim
<1>6. Started
  BY <1>2 DEF Started, FollowsHandle, OpenHasCallback, StartsReady,
              ResubmitsServed, PastOpen
<1>7. OutstandingListed
  BY <1>2 DEF OutstandingListed
<1> QED
  BY <1>1, <1>3, <1>4, <1>5, <1>6, <1>7 DEF KInv

LEMMA TransferInvariance == Spec => []KInv
<1>1. KInv /\ [Next]_vars => KInv'
  <2> SUFFICES ASSUME KInv, [Next]_vars
               PROVE  KInv'
    OBVIOUS
  <2>1. CASE Next
    <3>1. IInv'
      BY <2>1, TypeStep, ShapeStep DEF KInv, IInv
    <3>2. OpenShape' /\ GoneMsgs'
      BY <2>1, OpenStep, GoneStep DEF KInv, LInv
    <3>3. PipesIdle'
      BY <2>1, PipesStep DEF KInv, LInv, ListShape
    <3>4. ListShape'
      BY <2>1, ListStep DEF KInv, LInv
    <3>5. Owned'
      BY <2>1, OwnedStep DEF KInv, LInv, Started
    <3>6. Started'
      BY <2>1, StartedStep DEF KInv, LInv
    <3>7. OutstandingListed'
      BY <2>1, OutstandingStep
    <3> QED
      BY <3>1, <3>2, <3>3, <3>4, <3>5, <3>6, <3>7 DEF KInv, LInv
  <2>2. CASE UNCHANGED vars
    <3> USE <2>2 DEF vars, libVars, driverVars
    <3>1. Listed' = Listed /\ \A a : PipeOf(a)' = PipeOf(a)
      BY DEF Listed, PipeOf
    <3>2. IInv'
      BY <3>1 DEF KInv, IInv, TypeOK, LibTypeOK, ListedOnce, ListedInstalled,
                  HidShape, ProcShape
    <3>3. LInv'
      BY DEF KInv, LInv, OpenShape, PipesIdle, GoneMsgs
    <3>4. ListShape'
      BY <3>1 DEF KInv, ListShape, ListedOpen, ListedBefore, TakesOwn,
                  OneListing
    <3>5. Owned'
      BY <3>1 DEF KInv, Owned, BufferClaimed, OpenHasBuffer, FreesOwn,
                  AllocatesUnderClaim, PipeOf
    <3>6. Started'
      BY <3>1 DEF KInv, Started, FollowsHandle, OpenHasCallback, StartsReady,
                  ResubmitsServed, Serving, PipeOf
    <3>7. OutstandingListed'
      BY <3>1 DEF KInv, OutstandingListed
    <3> QED
      BY <3>2, <3>3, <3>4, <3>5, <3>6, <3>7 DEF KInv
  <2> QED
    BY <2>1, <2>2
<1> QED
  BY <1>1, InitKInv, PTL DEF Spec

\* A transfer that was submitted and has not come back belongs to a listed
\* interface that is ACTIVE, claimed, has a callback and has its buffer, for
\* any number of devices and interfaces, whatever call of the library fails and
\* whenever the processor task is deleted: in_xfer_done finds its interface.
THEOREM TransferHasInterface == Spec => []OutstandingListed
<1>1. KInv => OutstandingListed
  BY DEF KInv
<1> QED
  BY <1>1, TransferInvariance, PTL

\* A READY or ACTIVE interface is claimed and has its transfer, but for the
\* moment between the release and the free of a close: no close by the
\* disconnect handler finds a claim or a transfer that is not there.
THEOREM OpenIsClaimed == Spec => []OpenOwnsClaim
<1>1. KInv => OpenOwnsClaim
  BY DEF KInv, Owned, BufferClaimed, OpenHasBuffer, OpenOwnsClaim
<1> QED
  BY <1>1, TransferInvariance, PTL

\* However often a device leaves and comes back, each of its interfaces is in
\* hid_ifaces_tailq at most once.
THEOREM NoDuplicateInterface == Spec => []OnePerPipe
<1>1. KInv => OnePerPipe
  BY DEF KInv, IInv, ListedOnce, ListShape, OneListing, OnePerPipe, Listed
<1> QED
  BY <1>1, TransferInvariance, PTL

-----------------------------------------------------------------------------
(* The assertions of the driver.                                           *)

\* No two devices have HID interfaces with the same endpoint address: the code
\* looks an interface up by that address alone.
OwnEndpoints ==
    \A p, q \in Pipe :
        /\ Desc(p).hid /\ Desc(p).usable /\ Desc(q).hid /\ Desc(q).usable
        /\ Desc(p).ep = Desc(q).ep
        => p[1] = q[1]

\* There is memory for the interfaces of all devices at once.
EnoughMemory ==
    IsFiniteSet(Pipe) /\ IsFiniteSet(Addr) /\ Cardinality(Pipe) <= Cardinality(Addr)

\* With memory for all of them the allocation of an interface finds room.
LEMMA RoomForInterface ==
    ASSUME IInv, ListShape, EnoughMemory, HidAt("add"),
           hid.n \in DOMAIN Config[hid.dev]
    PROVE  Listed # Addr
<1> DEFINE here == <<hid.dev, hid.n>>
           f == [a \in Listed |-> PipeOf(a)]
<1>1. here \in Pipe
  BY PipeProperties DEF IInv, HidShape, HidAt
<1>2. \A a \in Listed : PipeOf(a) \in Pipe \ {here}
  <2> SUFFICES ASSUME NEW a \in Listed
               PROVE  PipeOf(a) \in Pipe /\ PipeOf(a) # here
    OBVIOUS
  <2>1. PipeOf(a) \in Pipe
    BY DEF IInv, ListedInstalled
  <2>2. hid.n \in Nat /\ (obj[a].dev = hid.dev => obj[a].n < hid.n)
    BY DEF IInv, TypeOK, HidTask, ListShape, ListedBefore, HidAt
  <2> QED
    BY <2>1, <2>2 DEF PipeOf
<1>3. f \in Injection(Listed, Pipe \ {here})
  BY <1>2 DEF ListShape, OneListing, Injection, IsInjective
<1>4. /\ IsFiniteSet(Pipe \ {here})
      /\ Cardinality(Pipe \ {here}) = Cardinality(Pipe) - 1
  BY <1>1, FS_RemoveElement DEF EnoughMemory
<1>5. Cardinality(Listed) <= Cardinality(Pipe) - 1
  BY <1>3, <1>4, FS_Injection
<1> QED
  BY <1>5, FS_CardinalityType DEF EnoughMemory

LEMMA AssertStep ==
    ASSUME KInv, AssertsHold, OwnEndpoints, Failing # {} \/ EnoughMemory, Next
    PROVE  AssertsHold'
<1>1. /\ IInv /\ OpenShape /\ PipesIdle /\ GoneMsgs /\ ListShape
      /\ ListedOpen /\ TakesOwn /\ BufferClaimed /\ OpenHasBuffer
      /\ OutstandingListed /\ TypeOK
  BY DEF KInv, LInv, ListShape, Owned, IInv
<1>2. ASSUME fault' = fault
             \/ fault' \in {"none", "bad_handle", "bad_index", "freed_xfer",
                            "dangling"}
      PROVE  AssertsHold'
  BY <1>2 DEF AssertsHold
<1>3. ASSUME fault' = "abort", Failing # {}
      PROVE  AssertsHold'
  BY <1>3 DEF AssertsHold
<1>4. CASE DeviceGone
  <2>1. /\ Head(msgs).dev \in Device /\ port[Head(msgs).dev] = "gone"
    BY <1>1, <1>4, HeadGone DEF DeviceGone
  <2>2. Head(msgs).dev \in devs
    BY <1>1, <1>4, <2>1 DEF OpenShape, DeviceGone, HidAt
  <2> QED
    BY <1>2, <1>4, <2>2 DEF DeviceGone
<1>5. CASE InstallFails
  <2>1. /\ fault' = "abort"
        /\ MayFail("heap")
           \/ (HidAt("add") /\ hid.n \in DOMAIN Config[hid.dev] /\ Listed = Addr)
    BY <1>5 DEF InstallFails, Fail, HidAt
  <2>2. Failing # {}
    BY <1>1, <2>1, RoomForInterface DEF MayFail
  <2> QED
    BY <1>3, <2>1, <2>2
<1>6. CASE CloseDisableFails
  <2>1. Failing # {} /\ (fault' = fault \/ fault' = "abort")
    BY <1>6 DEF CloseDisableFails, CloseReturnsError, MayFail
  <2> QED
    BY <1>2, <1>3, <2>1
<1>7. CASE CloseReleaseFails
  <2>1. /\ hid.pc = "release" /\ hid.ptr \in Listed
        /\ obj[hid.ptr].state = "READY"
    BY <1>1, <1>7, Pointers DEF CloseReleaseFails, HidAt
  <2>2. PipeOf(hid.ptr) \in claimed
    BY <1>1, <2>1 DEF BufferClaimed, OpenHasBuffer
  <2>3. PipeOf(hid.ptr) \in Pipe /\ PipeOf(hid.ptr)[1] = hid.dev
    BY <1>1, <2>1 DEF IInv, ListedInstalled, TakesOwn, Closing, PipeOf
  <2>4. pipe[PipeOf(hid.ptr)] = "idle"
    BY <1>1, <2>1, <2>3 DEF PipesIdle, Teardown
  <2>5. Failing # {} /\ (fault' = fault \/ fault' = "abort")
    BY <1>7, <2>2, <2>4
       DEF CloseReleaseFails, CloseReturnsError, ReleaseOk, MayFail
  <2> QED
    BY <1>2, <1>3, <2>5
<1>8. CASE \E p \in Pipe : InXferDone(p)
  <2>1. PICK p \in Pipe : InXferDone(p)
    BY <1>8
  <2>2. PICK a \in Listed : PipeOf(a) = p
    BY <1>1, <2>1 DEF InXferDone, Finished, OutstandingListed
  <2>3. Desc(p).hid /\ Desc(p).usable
    BY <1>1, <2>2 DEF ListedOpen
  <2>4. ASSUME NEW b \in Listed, Desc(PipeOf(b)).ep = Desc(p).ep
        PROVE  obj[b].dev = p[1]
    <3>1. PipeOf(b) \in Pipe /\ Desc(PipeOf(b)).hid /\ Desc(PipeOf(b)).usable
      BY <1>1 DEF IInv, ListedInstalled, ListedOpen
    <3> QED
      BY <2>3, <2>4, <3>1 DEF OwnEndpoints, PipeOf
  <2>5. \/ fault' = "assert_iface" /\ \A b \in Listed : PipeOf(b) # p
        \/ \E b \in Listed : /\ IsFirstByEp(b, Desc(p).ep)
                             /\ \/ fault' = "assert_parent" /\ obj[b].dev # p[1]
                                \/ fault' \in {fault, "freed_xfer", "none"}
    BY <2>1 DEF InXferDone
  <2>6. \A b \in Listed : IsFirstByEp(b, Desc(p).ep) => obj[b].dev = p[1]
    BY <2>4 DEF IsFirstByEp
  <2> QED
    BY <1>2, <2>2, <2>5, <2>6
<1>9. CASE OpenFailed \/ CloseFreeTransfer \/ Reboot
  BY <1>2, <1>9 DEF OpenFailed, CloseFreeTransfer, Reboot
<1>15. CASE CallbackFails
  <2>1. fault' = "abort" /\ Failing # {}
    BY <1>15 DEF CallbackFails, Fail, MayFail
  <2> QED
    BY <1>3, <2>1
<1>10. CASE CopyParams \/ SubmitControl \/ Activate \/ SubmitIn \/ UseAfterFree
  BY <1>2, <1>10 DEF CopyParams, SubmitControl, Activate, SubmitIn,
                     UseAfterFree, Fail
<1>11. CASE \/ NewDevice \/ NotHidDevice \/ InstallDevice \/ AddInterface
            \/ SkipInterface \/ ListCreated \/ NotifyConnected \/ AllNotified
            \/ GoneFirst \/ GoneEmpty
  BY <1>2, <1>11 DEF NewDevice, NotHidDevice, InstallDevice, AddInterface,
       SkipInterface, ListCreated, NotifyConnected, AllNotified, GoneFirst,
       GoneEmpty
<1>12. CASE \/ CloseDisable \/ CloseRelease \/ CloseFinish \/ Shutdown
            \/ ShutdownRemove \/ UninstallFreeCtrl \/ UninstallClose
            \/ UninstallCloseFails \/ UninstallUnlist \/ Resubmit
            \/ CtrlXferDone
  BY <1>2, <1>12 DEF CloseDisable, CloseRelease, CloseFinish, Shutdown,
       ShutdownRemove, UninstallFreeCtrl, UninstallClose,
       UninstallCloseFails, UninstallUnlist, Resubmit, CtrlXferDone
<1>13. CASE \/ Receive \/ GetParams \/ DeviceOpen \/ CheckOpen
            \/ ClaimInterface \/ PrepareTransfer \/ PrepareTransferFails
            \/ SetCallback \/ ClassRequest \/ TakeParent
  BY <1>2, <1>13 DEF Receive, GetParams, DeviceOpen, CheckOpen, ClaimInterface,
       PrepareTransfer, PrepareTransferFails, SetCallback, ClassRequest,
       TakeParent, Lookup
<1>14. CASE \/ ControlDone \/ ControlFails \/ DeviceStart \/ CheckStart
            \/ Stop \/ Start \/ Bus
  BY <1>2, <1>14 DEF ControlDone, ControlFails, DeviceStart, CheckStart,
       Lookup, Stop, Start, Bus, Plug, Unplug, Transfer
<1> QED
  BY <1>4, <1>5, <1>6, <1>7, <1>8, <1>9, <1>10, <1>11, <1>12, <1>13, <1>14,
     <1>15
     DEF Next, HidNext, ProcNext

\* No assertion of the driver fails, whatever call fails; and no
\* ESP_ERROR_CHECK stops the program unless a call does.  This needs endpoint
\* addresses that differ between devices and memory for the interfaces of all
\* devices: with a shared address the assertion on the parent does fail.
THEOREM DriverAssertsHold ==
    OwnEndpoints /\ (Failing # {} \/ EnoughMemory)
    => (Spec => []AssertsHold)
<1> SUFFICES ASSUME OwnEndpoints, Failing # {} \/ EnoughMemory
             PROVE  Spec => []AssertsHold
  OBVIOUS
<1>1. Init => AssertsHold
  BY DEF Init, AssertsHold
<1>2. KInv /\ AssertsHold /\ [Next]_vars => AssertsHold'
  <2>1. KInv /\ AssertsHold /\ Next => AssertsHold'
    BY AssertStep
  <2>2. AssertsHold /\ UNCHANGED vars => AssertsHold'
    BY DEF AssertsHold, vars
  <2> QED
    BY <2>1, <2>2
<1> QED
  BY <1>1, <1>2, TransferInvariance, PTL DEF Spec
=============================================================================

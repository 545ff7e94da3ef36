--------------------------- MODULE HidHostProofs ----------------------------
(***************************************************************************)
(* Theorems about HidHost for every set of devices, configurations,        *)
(* addresses, queue length and choice of failing calls.                    *)
(*                                                                         *)
(* The parent pointer of a listed interface is safe because the driver     *)
(* task takes a device off its list only once hid_ifaces_tailq is empty,   *)
(* and a listed address is never handed out twice.  IInv says so for every *)
(* point the two tasks can be at.                                          *)
(***************************************************************************)
EXTENDS HidHost, SequenceTheorems, TLAPS

-----------------------------------------------------------------------------
(* The inductive invariant.                                                *)

\* No interface is listed twice.
ListedOnce == \A i, j \in DOMAIN ifaces : ifaces[i] = ifaces[j] => i = j

\* A listed interface is one of the configuration of an installed device.
ListedInstalled ==
    \A a \in Listed : PipeOf(a) \in Pipe /\ obj[a].dev \in devs

\* What the driver task holds at each of its steps.
HidShape ==
    /\ hid.pc # "wait" => hid.dev \in Device
    /\ hid.pc \notin {"wait", "install", "resubmit"} => hid.dev \in devs
    /\ hid.pc \in {"uninstall", "close", "unlist"} => ifaces = <<>>
    /\ hid.pc \in {"disable", "release", "free", "finish", "remove"} =>
           hid.ptr \in Listed

\* The pointer the processor task took from the list is listed or marked freed.
ProcShape ==
    proc.pc \in {"params", "check", "claim", "alloc", "set_cb", "parent",
                 "prepare", "activate", "submit"} =>
        proc.ptr \in Listed \cup {Dangling}

IInv == TypeOK /\ ListedOnce /\ ListedInstalled /\ HidShape /\ ProcShape

-----------------------------------------------------------------------------
(* Lemmas on sequences and on the configurations.                          *)

\* The concatenation of the parts before and after an element.
LEMMA ConcatElements ==
    ASSUME NEW S, NEW a \in Seq(S), NEW b \in Seq(S)
    PROVE  /\ a \o b \in Seq(S)
           /\ Len(a) \in Nat /\ Len(b) \in Nat
           /\ Len(a \o b) = Len(a) + Len(b)
           /\ \A j \in 1..(Len(a) + Len(b)) :
                 (a \o b)[j] = IF j <= Len(a) THEN a[j] ELSE b[j - Len(a)]
BY ConcatProperties, LenProperties

\* Removing one element of a sequence shifts those behind it by one.
LEMMA RemoveAtElements ==
    ASSUME NEW S, NEW s \in Seq(S), NEW i \in 1..Len(s)
    PROVE  /\ RemoveAt(s, i) \in Seq(S)
           /\ Len(RemoveAt(s, i)) = Len(s) - 1
           /\ \A j \in 1..(Len(s) - 1) :
                 RemoveAt(s, i)[j] = IF j < i THEN s[j] ELSE s[j + 1]
<1>a. /\ SubSeq(s, 1, i - 1) \in Seq(S)
      /\ Len(SubSeq(s, 1, i - 1)) = i - 1
      /\ \A j \in 1..(i - 1) : SubSeq(s, 1, i - 1)[j] = s[j]
  OBVIOUS
<1>b. /\ SubSeq(s, i + 1, Len(s)) \in Seq(S)
      /\ Len(SubSeq(s, i + 1, Len(s))) = Len(s) - i
      /\ \A j \in 1..(Len(s) - i) : SubSeq(s, i + 1, Len(s))[j] = s[i + j]
  OBVIOUS
<1>1. PICK a \in Seq(S) :
         /\ a = SubSeq(s, 1, i - 1)
         /\ Len(a) = i - 1
         /\ \A j \in 1..(i - 1) : a[j] = s[j]
  BY <1>a, Zenon
<1>2. PICK b \in Seq(S) :
         /\ b = SubSeq(s, i + 1, Len(s))
         /\ Len(b) = Len(s) - i
         /\ \A j \in 1..(Len(s) - i) : b[j] = s[i + j]
  BY <1>b, Zenon
<1>3. RemoveAt(s, i) = a \o b
  BY <1>1, <1>2 DEF RemoveAt
<1>4. Len(s) \in Nat /\ i \in Nat /\ Len(a) + Len(b) = Len(s) - 1
  <2>1. Len(s) \in Nat
    BY LenProperties
  <2>2. Len(a) = i - 1 /\ Len(b) = Len(s) - i
    BY <1>1, <1>2, Zenon
  <2> QED
    BY <2>1, <2>2
<1>5. ASSUME NEW j \in 1..(Len(s) - 1)
      PROVE  (a \o b)[j] = IF j < i THEN s[j] ELSE s[j + 1]
  <2>1. (a \o b)[j] = IF j <= i - 1 THEN a[j] ELSE b[j - (i - 1)]
    BY <1>1, <1>4, ConcatElements
  <2>2. CASE j < i
    BY <1>1, <1>4, <2>1, <2>2
  <2>3. CASE ~(j < i)
    <3>1. j - (i - 1) \in 1..(Len(s) - i) /\ i + (j - (i - 1)) = j + 1
      BY <1>4, <2>3
    <3> QED
      BY <1>2, <1>4, <2>1, <2>3, <3>1
  <2> QED
    BY <2>2, <2>3
<1> QED
  BY <1>3, <1>4, <1>5, ConcatElements

LEMMA RemoveTyped ==
    ASSUME NEW S, NEW s \in Seq(S)
    PROVE  \A i \in DOMAIN s : RemoveAt(s, i) \in Seq(S)
BY RemoveAtElements, LenProperties

\* What a pipe is, and that it has a descriptor.
LEMMA PipeProperties ==
    /\ \A d \in Device : \A n \in DOMAIN Config[d] :
           <<d, n>> \in Pipe /\ n \in Nat
    /\ \A p \in Pipe : /\ p = <<p[1], p[2]>>
                       /\ p[1] \in Device /\ p[2] \in DOMAIN Config[p[1]]
                       /\ Desc(p) \in Descriptor
<1> USE ConfigAssumption
<1>1. \A d \in Device : Config[d] \in Seq(Descriptor)
  OBVIOUS
<1>2. \A d \in Device : DOMAIN Config[d] = 1..Len(Config[d])
  BY <1>1, LenProperties
<1>3. ASSUME NEW d \in Device, NEW n \in DOMAIN Config[d]
      PROVE  <<d, n>> \in Pipe /\ n \in Nat /\ Config[d][n] \in Descriptor
  <2>1. <<d, n>> \in {d} \X DOMAIN Config[d]
    OBVIOUS
  <2> QED
    BY <1>1, <1>2, <2>1 DEF Pipe
<1>4. ASSUME NEW p \in Pipe
      PROVE  /\ p = <<p[1], p[2]>>
             /\ p[1] \in Device /\ p[2] \in DOMAIN Config[p[1]]
  <2>1. PICK d \in Device : p \in {d} \X DOMAIN Config[d]
    BY DEF Pipe
  <2> QED
    BY <2>1
<1> QED
  BY <1>3, <1>4 DEF Desc

-----------------------------------------------------------------------------
(* The list of interfaces.                                                 *)

LEMMA AddListed ==
    ASSUME ifaces \in Seq(Addr), ListedOnce,
           NEW a \in Addr \ Listed, ifaces' = Append(ifaces, a)
    PROVE  /\ ifaces' \in Seq(Addr) /\ ifaces' # <<>>
           /\ Listed' = Listed \cup {a}
           /\ ListedOnce'
<1>1. /\ DOMAIN ifaces = 1..Len(ifaces) /\ Len(ifaces) \in Nat
      /\ DOMAIN ifaces' = 1..(Len(ifaces) + 1)
  BY LenProperties, AppendProperties
<1>2. \A j \in 1..Len(ifaces) : ifaces'[j] = ifaces[j] /\ ifaces[j] # a
  BY <1>1, AppendProperties DEF Listed
<1>3. ifaces'[Len(ifaces) + 1] = a
  BY AppendProperties
<1>4. ifaces' \in Seq(Addr) /\ ifaces' # <<>>
  BY AppendProperties
<1>5. Listed' = Listed \cup {a}
  BY <1>1, <1>2, <1>3 DEF Listed
<1>6. ListedOnce'
  BY <1>1, <1>2, <1>3 DEF ListedOnce
<1> QED
  BY <1>4, <1>5, <1>6

LEMMA RemoveListed ==
    ASSUME ifaces \in Seq(Addr), ListedOnce,
           NEW i \in DOMAIN ifaces, ifaces' = RemoveAt(ifaces, i)
    PROVE  /\ ifaces' \in Seq(Addr)
           /\ Listed' = Listed \ {ifaces[i]}
           /\ ListedOnce'
<1>1. /\ DOMAIN ifaces = 1..Len(ifaces) /\ Len(ifaces) \in Nat
      /\ i \in 1..Len(ifaces)
  BY LenProperties
<1>2. /\ ifaces' \in Seq(Addr)
      /\ Len(ifaces') = Len(ifaces) - 1
      /\ \A j \in 1..(Len(ifaces) - 1) :
            ifaces'[j] = IF j < i THEN ifaces[j] ELSE ifaces[j + 1]
  BY <1>1, RemoveAtElements
<1>3. DOMAIN ifaces' = 1..(Len(ifaces) - 1)
  BY <1>2, LenProperties
<1>4. ASSUME NEW j \in DOMAIN ifaces, j # i
      PROVE  \E k \in DOMAIN ifaces' : ifaces'[k] = ifaces[j]
  <2>1. CASE j < i
    BY <1>1, <1>2, <1>3, <1>4, <2>1
  <2>2. CASE j > i
    <3>1. j - 1 \in DOMAIN ifaces' /\ ~(j - 1 < i) /\ (j - 1) + 1 = j
      BY <1>1, <1>3, <2>2
    <3> QED
      BY <1>2, <1>3, <3>1
  <2> QED
    BY <1>1, <1>4, <2>1, <2>2
<1>5. \A j \in DOMAIN ifaces' : \E k \in DOMAIN ifaces :
         k # i /\ ifaces'[j] = ifaces[k] /\ k = (IF j < i THEN j ELSE j + 1)
  BY <1>1, <1>2, <1>3
<1>6. Listed' = Listed \ {ifaces[i]}
  BY <1>4, <1>5 DEF Listed, ListedOnce
<1>7. ListedOnce'
  BY <1>1, <1>3, <1>5 DEF ListedOnce
<1> QED
  BY <1>2, <1>6, <1>7

-----------------------------------------------------------------------------
(* The messages of the library.                                            *)

LEMMA MsgsTail ==
    ASSUME TypeOK, msgs # <<>>
    PROVE  Tail(msgs) \in Seq(Message) /\ Head(msgs) \in Message
BY HeadTailProperties DEF TypeOK, LibTypeOK

-----------------------------------------------------------------------------
(* Updates of the records.                                                 *)

LEMMA HidUpdates ==
    ASSUME hid \in HidTask
    PROVE  /\ HidIdle \in HidTask
           /\ \A pc \in HidPC : [hid EXCEPT !.pc = pc] \in HidTask
           /\ [hid EXCEPT !.n = @ + 1] \in HidTask
           /\ \A pc \in HidPC, ctx \in {"loop", "user"} :
                 [hid EXCEPT !.pc = pc, !.ctx = ctx] \in HidTask
           /\ {"disable", "remove", "gone"} \subseteq HidPC
<1>1. HidIdle \in HidTask
  BY DEF HidTask, HidIdle, HidPC
<1>2. \A pc \in HidPC : [hid EXCEPT !.pc = pc] \in HidTask
  BY DEF HidTask
<1>3. [hid EXCEPT !.n = @ + 1] \in HidTask
  BY DEF HidTask
<1>4. \A pc \in HidPC, ctx \in {"loop", "user"} :
         [hid EXCEPT !.pc = pc, !.ctx = ctx] \in HidTask
  BY DEF HidTask
<1> QED
  BY <1>1, <1>2, <1>3, <1>4 DEF HidPC

LEMMA ProcUpdates ==
    ASSUME proc \in ProcTask
    PROVE  /\ ProcIdle \in ProcTask
           /\ \A pc \in ProcPC : [proc EXCEPT !.pc = pc] \in ProcTask
           /\ {"alloc", "ctrl_wait"} \subseteq ProcPC
BY DEF ProcTask, ProcIdle, ProcPC, Kind

LEMMA ObjUpdates ==
    ASSUME obj \in [Addr -> Iface], NEW a
    PROVE  /\ \A st \in State :
                 [obj EXCEPT ![a].state = st] \in [Addr -> Iface]
           /\ \A st \in State, x \in {"alloc", "freed"} :
                 [obj EXCEPT ![a].xfer = x, ![a].state = st]
                     \in [Addr -> Iface]
           /\ [obj EXCEPT ![a].cb = TRUE] \in [Addr -> Iface]
           /\ [obj EXCEPT ![a] = NoIface] \in [Addr -> Iface]
           /\ {"IDLE", "READY", "ACTIVE", "WAIT_USER_DELETION"} \subseteq State
<1>1. CASE a \in Addr
  <2>1. \A st \in State : [obj[a] EXCEPT !.state = st] \in Iface
    BY <1>1 DEF Iface
  <2>2. \A st \in State, x \in {"alloc", "freed"} :
           [obj[a] EXCEPT !.xfer = x, !.state = st] \in Iface
    BY <1>1 DEF Iface
  <2>3. [obj[a] EXCEPT !.cb = TRUE] \in Iface
    BY <1>1 DEF Iface
  <2>4. NoIface \in Iface
    BY DEF NoIface, Iface, State
  <2> QED
    BY <2>1, <2>2, <2>3, <2>4 DEF State
<1>2. CASE a \notin Addr
  BY <1>2 DEF Iface, State, NoIface
<1> QED
  BY <1>1, <1>2

-----------------------------------------------------------------------------
(* Initially, and after a reboot.                                          *)

LEMMA InitIInv == Init => IInv
<1> SUFFICES ASSUME Init
             PROVE  IInv
  OBVIOUS
<1> USE DEF Init, LibInit
<1>1. TypeOK
  BY LibAssumption, EmptySeq
     DEF TypeOK, LibTypeOK, Iface, NoIface, State, HidTask, HidIdle, ProcTask,
         ProcIdle, HidPC, ProcPC, Kind, Fault
<1>2. Listed = {}
  BY DEF Listed
<1> QED
  BY <1>1, <1>2
     DEF IInv, ListedOnce, ListedInstalled, HidShape, ProcShape, HidIdle,
         ProcIdle

-----------------------------------------------------------------------------
(* Every step                                                              *)

LEMMA TypeStep ==
    ASSUME IInv, Next
    PROVE  TypeOK'
<1> USE DEF TypeOK, LibTypeOK, libVars, driverVars
<1>0. /\ TypeOK /\ ListedInstalled /\ HidShape /\ ProcShape
  BY DEF IInv
<1>h. hid \in HidTask
  BY <1>0
<1>o. obj \in [Addr -> Iface]
  BY <1>0
<1>i. ifaces \in Seq(Addr)
  BY <1>0
<1>1. CASE NewDevice
  <2>1. hid' \in HidTask
    BY <1>0, <1>1, MsgsTail
       DEF NewDevice, HidIdle, HidTask, HidPC, Message, Deliverable
  <2>2. msgs' \in Seq(Message)
    BY <1>0, <1>1, MsgsTail
       DEF NewDevice, HidIdle, Deliverable
  <2>3. opened' \subseteq Device
    BY <1>0, <1>1, MsgsTail
       DEF NewDevice, HidIdle, Message, Deliverable
  <2> QED
    BY <1>0, <1>1, <2>1, <2>2, <2>3 DEF NewDevice
<1>2. CASE NotHidDevice
  <2>1. msgs' \in Seq(Message)
    BY <1>0, <1>2, MsgsTail
       DEF NotHidDevice, Deliverable
  <2> QED
    BY <1>0, <1>2, <2>1 DEF NotHidDevice
<1>3. CASE OpenFailed
  <2>1. fault' \in Fault
    BY <1>0, <1>3
       DEF OpenFailed, Fault
  <2>2. msgs' \in Seq(Message)
    BY <1>0, <1>3, MsgsTail
       DEF OpenFailed, Deliverable
  <2> QED
    BY <1>0, <1>3, <2>1, <2>2 DEF OpenFailed
<1>4. CASE InstallDevice
  <2>1. hid' \in HidTask
    BY <1>0, <1>4
       DEF InstallDevice, HidTask, HidPC
  <2>2. devs' \subseteq Device
    BY <1>0, <1>4
       DEF InstallDevice, HidAt, HidShape
  <2>3. ctrl' \in [Device -> {"null", "alloc", "freed", "held"}]
    BY <1>0, <1>4
       DEF InstallDevice
  <2> QED
    BY <1>0, <1>4, <2>1, <2>2, <2>3 DEF InstallDevice
<1>5. CASE AddInterface
  <2>1. hid' \in HidTask
    BY <1>h, <1>5, HidUpdates DEF AddInterface
  <2>2. obj' \in [Addr -> Iface]
    <3>1. PICK a \in Addr : obj' = [obj EXCEPT ![a] =
                [NoIface EXCEPT !.dev = hid.dev, !.n = hid.n, !.state = "IDLE"]]
      BY <1>5 DEF AddInterface
    <3>2. hid.dev \in Device \cup {Null} /\ hid.n \in Nat
      BY <1>0 DEF HidTask
    <3>3. [NoIface EXCEPT !.dev = hid.dev, !.n = hid.n, !.state = "IDLE"] \in Iface
      BY <3>2 DEF NoIface, Iface, State
    <3> QED
      BY <1>0, <3>1, <3>3
  <2>3. ifaces' \in Seq(Addr)
    BY <1>0, <1>5, AppendProperties
       DEF AddInterface, NoIface
  <2> QED
    BY <1>0, <1>5, <2>1, <2>2, <2>3 DEF AddInterface
<1>6. CASE SkipInterface
  <2>1. hid' \in HidTask
    BY <1>h, <1>6, HidUpdates DEF SkipInterface
  <2> QED
    BY <1>0, <1>6, <2>1 DEF SkipInterface
<1>7. CASE ListCreated
  BY <1>0, <1>7
     DEF ListCreated, HidTask, HidPC
<1>8. CASE InstallFails \/ CallbackFails
  BY <1>0, <1>8
     DEF InstallFails, CallbackFails, Fail, Fault
<1>9. CASE NotifyConnected
  <2>1. hid' \in HidTask
    BY <1>h, <1>9, HidUpdates DEF NotifyConnected
  <2>2. queue' \in Seq(Addr)
    <3>1. ifaces[hid.n] \in Addr
      BY <1>0, <1>9, ElementOfSeq, LenProperties DEF NotifyConnected
    <3>2. Append(queue, ifaces[hid.n]) \in Seq(Addr)
      BY <1>0, <3>1, AppendProperties
    <3> QED
      BY <1>0, <1>9, <3>2 DEF NotifyConnected, addEventToQueue
  <2> QED
    BY <1>0, <1>9, <2>1, <2>2 DEF NotifyConnected
<1>10. CASE AllNotified
  BY <1>0, <1>10
     DEF AllNotified, HidReturn, HidIdle, HidTask, HidPC
<1>11. CASE DeviceGone
  <2>1. hid' \in HidTask
    <3>1. Head(msgs).dev \in Device
      BY <1>0, <1>11, MsgsTail DEF DeviceGone, Deliverable, Message
    <3>2. [HidIdle EXCEPT !.pc = "gone", !.dev = Head(msgs).dev] \in HidTask
      BY <3>1 DEF HidIdle, HidTask, HidPC
    <3> QED
      BY <1>0, <1>11, <3>2 DEF DeviceGone
  <2>2. fault' \in Fault
    BY <1>0, <1>11
       DEF DeviceGone, HidIdle, Fault
  <2>3. msgs' \in Seq(Message)
    BY <1>0, <1>11, MsgsTail
       DEF DeviceGone, HidIdle, Deliverable
  <2> QED
    BY <1>0, <1>11, <2>1, <2>2, <2>3 DEF DeviceGone
<1>12. CASE GoneFirst
  <2>1. hid' \in HidTask
    BY <1>0, <1>12, HeadTailProperties
       DEF GoneFirst, HidTask, HidPC
  <2> QED
    BY <1>0, <1>12, <2>1 DEF GoneFirst
<1>13. CASE GoneEmpty
  BY <1>0, <1>13
     DEF GoneEmpty, HidGoto, HidTask, HidPC
<1>14. CASE CloseDisable
  <2>1. hid' \in HidTask
    BY <1>0, <1>14
       DEF CloseDisable, HidGoto, HidTask, HidPC
  <2>2. obj' \in [Addr -> Iface]
    <3>1. obj' = obj \/ obj' = [obj EXCEPT ![hid.ptr].state = "READY"]
      BY <1>14 DEF CloseDisable
    <3>2. [obj EXCEPT ![hid.ptr].state = "READY"]
              \in [Addr -> Iface]
      BY <1>o, ObjUpdates
    <3> QED
      BY <1>o, <3>1, <3>2, Zenon
  <2>3. pipe' \in [Pipe -> {"idle", "pending"} \cup Finished]
    BY <1>0, <1>14
       DEF CloseDisable, HidGoto, Finished
  <2> QED
    BY <1>0, <1>14, <2>1, <2>2, <2>3 DEF CloseDisable
<1>15. CASE CloseDisableFails
  BY <1>0, <1>15
     DEF CloseDisableFails, CloseReturnsError, HidReturn, HidIdle, HidTask,
         HidPC, Fault
<1>16. CASE CloseRelease
  BY <1>0, <1>16
     DEF CloseRelease, HidGoto, HidTask, HidPC
<1>17. CASE CloseReleaseFails
  BY <1>0, <1>17
     DEF CloseReleaseFails, CloseReturnsError, HidReturn, HidIdle, HidTask,
         HidPC, Fault
<1>18. CASE CloseFreeTransfer
  <2>1. hid' \in HidTask
    BY <1>0, <1>18
       DEF CloseFreeTransfer, HidGoto, HidTask, HidPC
  <2>2. fault' \in Fault
    BY <1>0, <1>18
       DEF CloseFreeTransfer, HidGoto, Fault
  <2>3. obj' \in [Addr -> Iface]
    <3>1. obj' = obj \/ obj' = [obj EXCEPT ![hid.ptr].xfer = "freed",
                                         ![hid.ptr].state = "IDLE"]
      BY <1>18 DEF CloseFreeTransfer
    <3>2. [obj EXCEPT ![hid.ptr].xfer = "freed",
                                         ![hid.ptr].state = "IDLE"]
              \in [Addr -> Iface]
      BY <1>o, ObjUpdates
    <3> QED
      BY <1>o, <3>1, <3>2, Zenon
  <2> QED
    BY <1>0, <1>18, <2>1, <2>2, <2>3 DEF CloseFreeTransfer
<1>19. CASE CloseFinish
  <2>1. hid' \in HidTask
    BY <1>0, <1>19
       DEF CloseFinish, CloseReturnsOk, RemoveInterface, HidGoto, NoIface,
           HidTask, HidPC
  <2>2. proc' \in ProcTask
    BY <1>0, <1>19
       DEF CloseFinish, CloseReturnsOk, RemoveInterface, HidGoto, NoIface,
           ProcTask, ProcPC
  <2>3. obj' \in [Addr -> Iface]
    BY <1>0, <1>19, ObjUpdates DEF CloseFinish, RemoveInterface
  <2>4. ifaces' \in Seq(Addr)
    BY <1>i, <1>19, RemoveTyped DEF CloseFinish, RemoveInterface
  <2> QED
    BY <1>0, <1>19, <2>1, <2>2, <2>3, <2>4
       DEF CloseFinish, CloseReturnsOk, RemoveInterface
<1>20. CASE Shutdown
  <2>1. hid' \in HidTask
    BY <1>0, <1>20, HidUpdates DEF Shutdown, HidReturn, HidGoto
  <2>2. obj' \in [Addr -> Iface]
    <3>1. obj' = obj \/ obj' = [obj EXCEPT ![hid.ptr].state = "WAIT_USER_DELETION"]
      BY <1>20 DEF Shutdown
    <3>2. [obj EXCEPT ![hid.ptr].state = "WAIT_USER_DELETION"]
              \in [Addr -> Iface]
      BY <1>o, ObjUpdates
    <3> QED
      BY <1>o, <3>1, <3>2, Zenon
  <2> QED
    BY <1>0, <1>20, <2>1, <2>2 DEF Shutdown
<1>21. CASE ShutdownRemove
  <2>1. hid' \in HidTask
    BY <1>0, <1>21
       DEF ShutdownRemove, HidGoto, RemoveInterface, NoIface, HidTask, HidPC
  <2>2. proc' \in ProcTask
    BY <1>0, <1>21
       DEF ShutdownRemove, HidGoto, RemoveInterface, NoIface, ProcTask, ProcPC
  <2>3. obj' \in [Addr -> Iface]
    BY <1>0, <1>21
       DEF ShutdownRemove, HidGoto, RemoveInterface, NoIface, Iface, State
  <2>4. ifaces' \in Seq(Addr)
    BY <1>i, <1>21, RemoveTyped DEF ShutdownRemove, RemoveInterface
  <2> QED
    BY <1>0, <1>21, <2>1, <2>2, <2>3, <2>4 DEF ShutdownRemove, RemoveInterface
<1>22. CASE UninstallFreeCtrl
  BY <1>0, <1>22
     DEF UninstallFreeCtrl, HidGoto, HidTask, HidPC
<1>23. CASE UninstallClose
  BY <1>0, <1>23
     DEF UninstallClose, HidGoto, HidTask, HidPC
<1>24. CASE UninstallCloseFails
  BY <1>0, <1>24
     DEF UninstallCloseFails, HidReturn, HidIdle, HidTask, HidPC, Fault
<1>25. CASE UninstallUnlist
  BY <1>0, <1>25
     DEF UninstallUnlist, HidReturn, HidIdle, HidTask, HidPC, ProcTask, ProcPC
<1>26. CASE \E p \in Pipe : InXferDone(p)
  <2>1. hid' \in HidTask
    <3>1. PICK p \in Pipe : InXferDone(p)
      BY <1>26
    <3>2. \A a \in Listed : a \in Addr
      BY <1>0, LenProperties, ElementOfSeq DEF Listed
    <3>3. ASSUME NEW a \in Listed
          PROVE  [HidIdle EXCEPT !.pc = "resubmit", !.ptr = a,
                                 !.dev = p[1], !.n = p[2]] \in HidTask
      BY <3>2, PipeProperties DEF HidIdle, HidTask, HidPC
    <3> QED
      BY <1>0, <3>1, <3>3 DEF InXferDone
  <2>2. fault' \in Fault
    BY <1>0, <1>26
       DEF InXferDone, HidIdle, Fault
  <2>3. pipe' \in [Pipe -> {"idle", "pending"} \cup Finished]
    BY <1>0, <1>26
       DEF InXferDone, HidIdle, Finished
  <2> QED
    BY <1>0, <1>26, <2>1, <2>2, <2>3 DEF InXferDone
<1>27. CASE Resubmit
  BY <1>0, <1>27
     DEF Resubmit, HidReturn, HidIdle, HidTask, HidPC, Fault, Finished
<1>28. CASE CtrlXferDone
  BY <1>0, <1>28
     DEF CtrlXferDone, ProcTask, ProcPC
<1>29. CASE Receive
  <2>1. proc' \in ProcTask
    BY <1>0, <1>29, HeadTailProperties
       DEF Receive, ProcIdle, ProcTask, ProcPC, Kind
  <2>2. queue' \in Seq(Addr)
    BY <1>0, <1>29, HeadTailProperties
       DEF Receive, ProcIdle
  <2> QED
    BY <1>0, <1>29, <2>1, <2>2 DEF Receive
<1>30. CASE GetParams
  BY <1>0, <1>30
     DEF GetParams, Lookup, ProcIdle, ProcTask, ProcPC, Kind
<1>31. CASE CopyParams
  <2>1. proc' \in ProcTask
    BY <1>0, <1>31, PipeProperties
       DEF CopyParams, ProcTask, ProcPC, ProcShape, ListedInstalled, ProcAt,
           Descriptor
  <2>2. fault' \in Fault
    BY <1>0, <1>31
       DEF CopyParams, Fault
  <2> QED
    BY <1>0, <1>31, <2>1, <2>2 DEF CopyParams
<1>32. CASE DeviceOpen
  BY <1>0, <1>32
     DEF DeviceOpen, Lookup, ProcIdle, ProcTask, ProcPC, Kind
<1>33. CASE CheckOpen
  BY <1>0, <1>33
     DEF CheckOpen, ProcIdle, ProcTask, ProcPC, Kind
<1>34. CASE ClaimInterface
  <2>1. proc' \in ProcTask
    BY <1>0, <1>34, ProcUpdates DEF ClaimInterface, ProcReturn
  <2>2. fault' \in Fault
    BY <1>0, <1>34
       DEF ClaimInterface, ProcReturn, ProcIdle, Fault
  <2>3. claimed' \subseteq Pipe
    BY <1>0, <1>34, PipeProperties
       DEF ClaimInterface, ProcReturn, ProcIdle, ProcShape, ListedInstalled,
           ProcAt
  <2> QED
    BY <1>0, <1>34, <2>1, <2>2, <2>3 DEF ClaimInterface
<1>35. CASE PrepareTransfer
  <2>1. proc' \in ProcTask
    BY <1>0, <1>35
       DEF PrepareTransfer, ProcTask, ProcPC
  <2>2. obj' \in [Addr -> Iface]
    BY <1>0, <1>35, ObjUpdates DEF PrepareTransfer
  <2> QED
    BY <1>0, <1>35, <2>1, <2>2 DEF PrepareTransfer
<1>36. CASE PrepareTransferFails
  BY <1>0, <1>36
     DEF PrepareTransferFails, ProcReturn, ProcIdle, ProcTask, ProcPC, Fault,
         Kind
<1>37. CASE SetCallback
  <2>1. proc' \in ProcTask
    BY <1>0, <1>37
       DEF SetCallback, ProcGoto, ProcTask, ProcPC
  <2>2. obj' \in [Addr -> Iface]
    BY <1>0, <1>37, ObjUpdates DEF SetCallback
  <2> QED
    BY <1>0, <1>37, <2>1, <2>2 DEF SetCallback
<1>38. CASE ClassRequest
  BY <1>0, <1>38
     DEF ClassRequest, Lookup, ProcIdle, ProcTask, ProcPC, Kind
<1>39. CASE TakeParent
  <2>1. proc' \in ProcTask
    BY <1>0, <1>39
       DEF TakeParent, ProcTask, ProcPC, ProcShape, ListedInstalled, ProcAt,
           Iface
  <2> QED
    BY <1>0, <1>39, <2>1 DEF TakeParent
<1>40. CASE SubmitControl
  <2>1. proc' \in ProcTask
    BY <1>0, <1>40, ProcUpdates DEF SubmitControl, ProcReturn
  <2>2. fault' \in Fault
    BY <1>0, <1>40
       DEF SubmitControl, ProcReturn, ProcIdle, Fault
  <2> QED
    BY <1>0, <1>40, <2>1, <2>2 DEF SubmitControl
<1>41. CASE ControlDone
  <2>1. proc' \in ProcTask
    BY <1>0, <1>41
       DEF ControlDone, ProcTask, ProcPC
  <2> QED
    BY <1>0, <1>41, <2>1 DEF ControlDone
<1>42. CASE ControlFails
  BY <1>0, <1>42
     DEF ControlFails, ProcReturn, ProcIdle, ProcTask, ProcPC, Fault, Kind
<1>43. CASE DeviceStart
  BY <1>0, <1>43
     DEF DeviceStart, Lookup, ProcIdle, ProcTask, ProcPC, Kind
<1>44. CASE CheckStart
  BY <1>0, <1>44
     DEF CheckStart, ProcIdle, ProcTask, ProcPC, Kind
<1>45. CASE Activate
  <2>1. proc' \in ProcTask
    BY <1>0, <1>45
       DEF Activate, ProcTask, ProcPC
  <2>2. fault' \in Fault
    BY <1>0, <1>45
       DEF Activate, Fault
  <2>3. obj' \in [Addr -> Iface]
    <3>1. obj' = obj \/ obj' = [obj EXCEPT ![proc.ptr].state = "ACTIVE"]
      BY <1>45 DEF Activate
    <3>2. [obj EXCEPT ![proc.ptr].state = "ACTIVE"]
              \in [Addr -> Iface]
      BY <1>o, ObjUpdates
    <3> QED
      BY <1>o, <3>1, <3>2, Zenon
  <2> QED
    BY <1>0, <1>45, <2>1, <2>2, <2>3 DEF Activate
<1>46. CASE SubmitIn
  BY <1>0, <1>46
     DEF SubmitIn, ProcReturn, ProcIdle, ProcTask, ProcPC, Fault, Finished,
         Kind
<1>47. CASE UseAfterFree
  BY <1>0, <1>47
     DEF UseAfterFree, Fail, Fault
<1>48. CASE Reboot
  BY <1>48, LibAssumption, EmptySeq
     DEF Reboot, LibReset, Iface, NoIface, State, HidTask, HidIdle, ProcTask,
         ProcIdle, HidPC, ProcPC, Kind, Fault
<1>49. CASE Bus
  <2>1. ASSUME NEW d \in Device, Plug(d)
        PROVE  TypeOK'
    <3>1. [event |-> "NEW_DEV", dev |-> d] \in Message
      BY DEF Message
    <3>2. msgs' \in Seq(Message)
      BY <1>0, <2>1, <3>1, AppendProperties DEF Plug, Attach
    <3>3. plugs' \in 0..MaxPlug
      BY <1>0, <2>1, LibAssumption DEF Plug, Attach
    <3> QED
      BY <1>0, <2>1, <3>2, <3>3 DEF Plug, Attach
  <2>2. ASSUME NEW d \in Device, Unplug(d)
        PROVE  TypeOK'
    <3>1. [event |-> "DEV_GONE", dev |-> d] \in Message
      BY DEF Message
    <3>2. msgs \in Seq(Message)
      BY <1>0
    <3>3. Append(msgs, [event |-> "DEV_GONE", dev |-> d]) \in Seq(Message)
      BY <3>1, <3>2, AppendProperties
    <3>4. msgs' \in Seq(Message)
      BY <2>2, <3>2, <3>3 DEF Unplug, DetachOpen, DetachUnopened
    <3> QED
      BY <1>0, <2>2, <3>4 DEF Unplug, DetachOpen, DetachUnopened, Finished
  <2>3. ASSUME NEW p \in Pipe, Transfer(p)
        PROVE  TypeOK'
    BY <1>0, <2>3 DEF Transfer, Complete, Finished
  <2> QED
    BY <1>49, <2>1, <2>2, <2>3 DEF Bus
<1>50. CASE Stop
  <2>1. proc' \in ProcTask
    BY <1>50 DEF Stop, ProcIdle, ProcTask, ProcPC, Kind
  <2>2. ctrl' \in [Device -> {"null", "alloc", "freed", "held"}]
    BY <1>0, <1>50 DEF Stop
  <2> QED
    BY <1>0, <1>50, <2>1, <2>2 DEF Stop
<1>51. CASE Start
  BY <1>0, <1>51 DEF Start, ProcIdle, ProcTask, ProcPC, Kind
<1> QED
  BY <1>1, <1>2, <1>3, <1>4, <1>5, <1>6, <1>7, <1>8, <1>9, <1>10, <1>11, <1>12,
     <1>13, <1>14, <1>15, <1>16, <1>17, <1>18, <1>19, <1>20, <1>21, <1>22,
     <1>23, <1>24, <1>25, <1>26, <1>27, <1>28, <1>29, <1>30, <1>31, <1>32,
     <1>33, <1>34, <1>35, <1>36, <1>37, <1>38, <1>39, <1>40, <1>41, <1>42,
     <1>43, <1>44, <1>45, <1>46, <1>47, <1>48, <1>49, <1>50, <1>51
     DEF Next, HidNext, ProcNext

LEMMA ShapeStep ==
    ASSUME IInv, Next
    PROVE  (ListedOnce /\ ListedInstalled /\ HidShape /\ ProcShape)'
<1> USE DEF libVars, driverVars
<1>1. ListedOnce /\ ListedInstalled /\ HidShape /\ ProcShape
  BY DEF IInv
<1>2. TypeOK
  BY DEF IInv
<1>3. UNCHANGED <<ifaces, obj, devs>> => (ListedOnce /\ ListedInstalled)'
  BY <1>1 DEF ListedOnce, ListedInstalled, Listed, PipeOf
<1>4. UNCHANGED <<ifaces, proc>> => ProcShape'
  BY <1>1 DEF ProcShape, Listed
<1>5. UNCHANGED <<ifaces, devs, hid>> => HidShape'
  BY <1>1 DEF HidShape, Listed
<1>h. hid \in HidTask
  BY <1>2 DEF TypeOK
<1>q. proc \in ProcTask
  BY <1>2 DEF TypeOK
<1>o. obj \in [Addr -> Iface]
  BY <1>2 DEF TypeOK
<1>i. ifaces \in Seq(Addr)
  BY <1>2 DEF TypeOK
<1>l. Listed \subseteq Addr
  BY <1>i, LenProperties, ElementOfSeq DEF Listed
<1>p. ASSUME UNCHANGED <<ifaces, devs>>,
             \A b \in Addr : obj'[b].dev = obj[b].dev /\ obj'[b].n = obj[b].n
      PROVE  (ListedOnce /\ ListedInstalled)'
  <2>1. Listed' = Listed /\ \A b \in Listed : PipeOf(b)' = PipeOf(b)
    BY <1>l, <1>p DEF Listed, PipeOf
  <2> QED
    BY <1>1, <1>l, <1>p, <2>1 DEF ListedOnce, ListedInstalled
<1>r. ASSUME NEW a \in Addr, RemoveInterface(a), UNCHANGED devs
      PROVE  (ListedOnce /\ ListedInstalled)' /\ ProcShape'
  <2>1. /\ Listed' = Listed \ {a}
        /\ ListedOnce'
    BY <1>1, <1>i, <1>r, RemoveListed DEF RemoveInterface
  <2>2. \A b \in Listed' : PipeOf(b)' = PipeOf(b) /\ obj'[b].dev = obj[b].dev
    BY <1>o, <1>l, <1>r, <2>1 DEF RemoveInterface, PipeOf
  <2>3. ListedInstalled'
    BY <1>1, <1>r, <2>1, <2>2 DEF ListedInstalled
  <2>4. ProcShape'
    BY <1>1, <1>q, <1>r, <2>1 DEF RemoveInterface, ProcShape, ProcTask
  <2> QED
    BY <2>1, <2>3, <2>4
<1>6. CASE NewDevice
  <2>1. Head(msgs).dev \in Device
    BY <1>2, <1>6, MsgsTail DEF NewDevice, Deliverable, Message
  <2>2. HidShape'
    BY <1>1, <1>6, <2>1 DEF NewDevice, HidIdle, HidShape, Listed
  <2> QED
    BY <1>3, <1>4, <1>6, <2>2 DEF NewDevice
<1>7. CASE NotHidDevice
  BY <1>1, <1>3, <1>4, <1>7
     DEF NotHidDevice, HidAt, HidShape, Listed
<1>8. CASE OpenFailed
  BY <1>1, <1>3, <1>4, <1>8
     DEF OpenFailed, HidAt, HidShape, Listed
<1>9. CASE InstallDevice
  <2>1. (ListedOnce /\ ListedInstalled)'
    BY <1>1, <1>9
       DEF InstallDevice, ListedOnce, ListedInstalled, Listed, PipeOf
  <2>2. HidShape'
    BY <1>1, <1>h, <1>9 DEF InstallDevice, HidAt, HidShape, HidTask
  <2> QED
    BY <1>4, <1>9, <2>1, <2>2 DEF InstallDevice
<1>10. CASE AddInterface
  <2>1. PICK a \in Addr \ Listed :
           /\ ifaces' = Append(ifaces, a)
           /\ obj' = [obj EXCEPT ![a] =
                [NoIface EXCEPT !.dev = hid.dev, !.n = hid.n, !.state = "IDLE"]]
    BY <1>10 DEF AddInterface
  <2>2. /\ Listed' = Listed \cup {a} /\ ifaces' # <<>>
        /\ ListedOnce'
    BY <1>1, <1>i, <2>1, AddListed
  <2>3. /\ hid.dev \in Device /\ hid.dev \in devs /\ <<hid.dev, hid.n>> \in Pipe
        /\ devs' = devs
    BY <1>1, <1>10, PipeProperties DEF AddInterface, HidAt, HidShape
  <2>4. PipeOf(a)' = <<hid.dev, hid.n>> /\ obj'[a].dev = hid.dev
    BY <1>o, <2>1 DEF PipeOf, NoIface
  <2>5. \A b \in Listed : PipeOf(b)' = PipeOf(b) /\ obj'[b].dev = obj[b].dev
    BY <1>o, <2>1 DEF PipeOf
  <2>6. ListedInstalled'
    BY <1>1, <2>2, <2>3, <2>4, <2>5 DEF ListedInstalled
  <2>7. HidShape'
    BY <1>1, <1>h, <1>10, <2>2, <2>3 DEF AddInterface, HidAt, HidShape, HidTask
  <2>8. ProcShape'
    BY <1>1, <1>10, <2>2 DEF AddInterface, ProcShape
  <2> QED
    BY <2>2, <2>6, <2>7, <2>8
<1>11. CASE SkipInterface
  BY <1>1, <1>3, <1>4, <1>11
     DEF SkipInterface, HidAt, HidShape, Listed
<1>12. CASE ListCreated
  BY <1>1, <1>3, <1>4, <1>12
     DEF ListCreated, HidAt, HidShape, Listed
<1>13. CASE InstallFails \/ CallbackFails
  BY <1>1, <1>3, <1>4, <1>13
     DEF InstallFails, CallbackFails, Fail, HidAt, HidShape, Listed
<1>14. CASE NotifyConnected
  BY <1>1, <1>3, <1>4, <1>14
     DEF NotifyConnected, addEventToQueue, HidAt, HidShape, Listed
<1>15. CASE AllNotified
  BY <1>1, <1>3, <1>4, <1>15
     DEF AllNotified, HidReturn, HidIdle, HidAt, HidShape, Listed
<1>16. CASE DeviceGone
  <2>1. Head(msgs).dev \in Device
    BY <1>2, <1>16, MsgsTail DEF DeviceGone, Deliverable, Message
  <2>2. HidShape'
    BY <1>1, <1>16, <2>1 DEF DeviceGone, HidIdle, HidShape, Listed
  <2> QED
    BY <1>3, <1>4, <1>16, <2>2 DEF DeviceGone
<1>17. CASE GoneFirst
  <2>1. Head(ifaces) \in Listed
    BY <1>i, <1>17, LenProperties DEF GoneFirst, Listed
  <2>2. HidShape'
    BY <1>1, <1>h, <1>17, <2>1 DEF GoneFirst, HidAt, HidShape, HidTask, Listed
  <2> QED
    BY <1>3, <1>4, <1>17, <2>2 DEF GoneFirst
<1>18. CASE GoneEmpty
  BY <1>1, <1>3, <1>4, <1>18
     DEF GoneEmpty, HidGoto, HidAt, HidShape, Listed
<1>19. CASE CloseDisable
  <2>1. \A b \in Addr : obj'[b].dev = obj[b].dev /\ obj'[b].n = obj[b].n
    BY <1>o, <1>19 DEF CloseDisable, Iface
  <2>2. (ListedOnce /\ ListedInstalled)'
    BY <1>p, <1>19, <2>1 DEF CloseDisable
  <2>3. HidShape'
    BY <1>1, <1>h, <1>19
       DEF CloseDisable, HidAt, HidGoto, HidReturn, HidIdle, HidShape,
       HidTask, Listed
  <2> QED
    BY <1>4, <1>19, <2>2, <2>3 DEF CloseDisable
<1>20. CASE CloseDisableFails
  BY <1>1, <1>3, <1>4, <1>20
     DEF CloseDisableFails, CloseReturnsError, HidReturn, HidIdle, HidAt,
         HidShape, Listed
<1>21. CASE CloseRelease
  <2>1. HidShape'
    BY <1>1, <1>h, <1>21
       DEF CloseRelease, HidAt, HidGoto, HidShape, HidTask, Listed
  <2> QED
    BY <1>3, <1>4, <1>21, <2>1 DEF CloseRelease
<1>22. CASE CloseReleaseFails
  BY <1>1, <1>3, <1>4, <1>22
     DEF CloseReleaseFails, CloseReturnsError, HidReturn, HidIdle, HidAt,
         HidShape, Listed
<1>23. CASE CloseFreeTransfer
  <2>1. \A b \in Addr : obj'[b].dev = obj[b].dev /\ obj'[b].n = obj[b].n
    BY <1>o, <1>23 DEF CloseFreeTransfer, Iface
  <2>2. (ListedOnce /\ ListedInstalled)'
    BY <1>p, <1>23, <2>1 DEF CloseFreeTransfer
  <2>3. HidShape'
    BY <1>1, <1>h, <1>23
       DEF CloseFreeTransfer, HidAt, HidGoto, HidReturn, HidIdle, HidShape,
       HidTask, Listed
  <2> QED
    BY <1>4, <1>23, <2>2, <2>3 DEF CloseFreeTransfer
<1>24. CASE CloseFinish
  <2>1. hid.ptr \in Addr
    BY <1>1, <1>i, <1>24, LenProperties, ElementOfSeq
       DEF CloseFinish, HidAt, HidShape, Listed
  <2>2. (ListedOnce /\ ListedInstalled)' /\ ProcShape'
    <3>1. CASE obj[hid.ptr].state = "WAIT_USER_DELETION"
      BY <1>r, <1>24, <2>1, <3>1 DEF CloseFinish
    <3>2. CASE obj[hid.ptr].state # "WAIT_USER_DELETION"
      BY <1>3, <1>4, <1>24, <3>2 DEF CloseFinish
    <3> QED
      BY <3>1, <3>2
  <2>3. HidShape'
    BY <1>1, <1>h, <1>24
       DEF CloseFinish, CloseReturnsOk, HidAt, HidGoto, HidShape,
       HidTask
  <2> QED
    BY <2>2, <2>3
<1>25. CASE Shutdown
  <2>1. \/ hid' = HidIdle /\ obj' = obj
        \/ /\ hid.ptr \in Listed /\ obj' = obj
           /\ hid' = [hid EXCEPT !.pc = "remove"]
        \/ /\ hid.ptr \in Listed
           /\ hid' = [hid EXCEPT !.pc = "disable", !.ctx = "user"]
           /\ obj' = [obj EXCEPT ![hid.ptr].state = "WAIT_USER_DELETION"]
    BY <1>25 DEF Shutdown, HidReturn, HidGoto
  <2>2. \A b \in Addr : obj'[b].dev = obj[b].dev /\ obj'[b].n = obj[b].n
    BY <1>o, <2>1 DEF Iface
  <2>3. (ListedOnce /\ ListedInstalled)'
    BY <1>p, <1>25, <2>2 DEF Shutdown
  <2>4. HidShape'
    <3>1. UNCHANGED <<ifaces, devs>> /\ hid.pc = "shutdown"
      BY <1>25 DEF Shutdown, HidAt
    <3>2. \/ /\ hid'.dev = hid.dev /\ hid'.ptr = hid.ptr /\ hid.ptr \in Listed
             /\ hid'.pc \in {"remove", "disable"}
          \/ hid' = HidIdle
      BY <1>h, <2>1 DEF HidTask
    <3>3. hid.dev \in Device /\ hid.dev \in devs
      BY <1>1, <3>1 DEF HidShape
    <3>4. Listed' = Listed
      BY <3>1 DEF Listed
    <3> QED
      BY <3>1, <3>2, <3>3, <3>4 DEF HidIdle, HidShape
  <2> QED
    BY <1>4, <1>25, <2>3, <2>4 DEF Shutdown
<1>26. CASE ShutdownRemove
  <2>1. hid.ptr \in Addr /\ RemoveInterface(hid.ptr)
    BY <1>1, <1>i, <1>26, LenProperties, ElementOfSeq
       DEF ShutdownRemove, HidAt, HidShape, Listed
  <2>2. (ListedOnce /\ ListedInstalled)' /\ ProcShape'
    BY <1>r, <1>26, <2>1 DEF ShutdownRemove
  <2>3. HidShape'
    BY <1>1, <1>h, <1>26 DEF ShutdownRemove, HidAt, HidGoto, HidShape, HidTask
  <2> QED
    BY <2>2, <2>3
<1>27. CASE UninstallFreeCtrl
  BY <1>1, <1>3, <1>4, <1>27
     DEF UninstallFreeCtrl, HidGoto, HidAt, HidShape, Listed
<1>28. CASE UninstallClose
  BY <1>1, <1>3, <1>4, <1>28
     DEF UninstallClose, HidGoto, HidAt, HidShape, Listed
<1>29. CASE UninstallCloseFails
  BY <1>1, <1>3, <1>4, <1>29
     DEF UninstallCloseFails, HidReturn, HidIdle, HidAt, HidShape, Listed
<1>30. CASE UninstallUnlist
  <2>1. Listed = {} /\ Listed' = {}
    BY <1>1, <1>30 DEF UninstallUnlist, HidAt, HidShape, Listed
  <2>2. (ListedOnce /\ ListedInstalled)'
    BY <1>1, <1>30, <2>1 DEF UninstallUnlist, ListedOnce, ListedInstalled
  <2>3. HidShape'
    BY <1>30 DEF UninstallUnlist, HidReturn, HidIdle, HidShape
  <2>4. ProcShape'
    BY <1>1, <1>q, <1>30, <2>1 DEF UninstallUnlist, ProcShape, ProcTask
  <2> QED
    BY <2>2, <2>3, <2>4
<1>31. CASE \E p \in Pipe : InXferDone(p)
  <2>1. PICK p \in Pipe : InXferDone(p)
    BY <1>31
  <2>2. p[1] \in Device
    BY PipeProperties
  <2>3. HidShape'
    BY <1>1, <2>1, <2>2 DEF InXferDone, HidIdle, HidShape, Listed
  <2> QED
    BY <1>3, <1>4, <2>1, <2>3 DEF InXferDone
<1>32. CASE Resubmit
  BY <1>1, <1>3, <1>4, <1>32
     DEF Resubmit, HidReturn, HidIdle, HidAt, HidShape, Listed
<1>33. CASE CtrlXferDone
  <2>1. ProcShape'
    BY <1>1, <1>q, <1>33 DEF CtrlXferDone, ProcShape, ProcTask, Listed
  <2> QED
    BY <1>3, <1>5, <1>33, <2>1 DEF CtrlXferDone
<1>34. CASE Receive
  BY <1>1, <1>3, <1>5, <1>34
     DEF Receive, ProcIdle, ProcAt, ProcShape, Listed
<1>35. CASE GetParams
  BY <1>1, <1>3, <1>5, <1>35
     DEF GetParams, Lookup, ProcIdle, ProcAt, ProcShape, Listed
<1>36. CASE CopyParams
  <2>1. proc' = proc \/ proc'.pc = "open"
    BY <1>q, <1>36 DEF CopyParams, ProcTask
  <2>2. UNCHANGED ifaces
    BY <1>36 DEF CopyParams
  <2>3. ProcShape'
    BY <1>1, <2>1, <2>2 DEF ProcShape, Listed
  <2> QED
    BY <1>3, <1>5, <1>36, <2>3 DEF CopyParams
<1>37. CASE DeviceOpen
  BY <1>1, <1>3, <1>5, <1>37
     DEF DeviceOpen, Lookup, ProcIdle, ProcAt, ProcShape, Listed
<1>38. CASE CheckOpen
  BY <1>1, <1>3, <1>5, <1>38
     DEF CheckOpen, ProcIdle, ProcAt, ProcShape, Listed
<1>39. CASE ClaimInterface
  <2>1. ProcShape'
    BY <1>1, <1>q, <1>39
       DEF ClaimInterface, ProcAt, ProcReturn, ProcIdle, ProcShape,
       ProcTask, Listed
  <2> QED
    BY <1>3, <1>5, <1>39, <2>1 DEF ClaimInterface
<1>40. CASE PrepareTransfer
  <2>1. \A b \in Addr : obj'[b].dev = obj[b].dev /\ obj'[b].n = obj[b].n
    BY <1>o, <1>40 DEF PrepareTransfer, Iface
  <2>2. (ListedOnce /\ ListedInstalled)'
    BY <1>p, <1>40, <2>1 DEF PrepareTransfer
  <2>3. ProcShape'
    BY <1>1, <1>q, <1>40
       DEF PrepareTransfer, ProcAt, ProcGoto, ProcReturn, ProcIdle,
       ProcShape, ProcTask, Listed
  <2> QED
    BY <1>5, <1>40, <2>2, <2>3 DEF PrepareTransfer
<1>41. CASE PrepareTransferFails
  BY <1>1, <1>3, <1>5, <1>41
     DEF PrepareTransferFails, ProcReturn, ProcIdle, ProcAt, ProcShape, Listed
<1>42. CASE SetCallback
  <2>1. \A b \in Addr : obj'[b].dev = obj[b].dev /\ obj'[b].n = obj[b].n
    BY <1>o, <1>42 DEF SetCallback, Iface
  <2>2. (ListedOnce /\ ListedInstalled)'
    BY <1>p, <1>42, <2>1 DEF SetCallback
  <2>3. ProcShape'
    BY <1>1, <1>q, <1>42
       DEF SetCallback, ProcAt, ProcGoto, ProcReturn, ProcIdle,
       ProcShape, ProcTask, Listed
  <2> QED
    BY <1>5, <1>42, <2>2, <2>3 DEF SetCallback
<1>43. CASE ClassRequest
  BY <1>1, <1>3, <1>5, <1>43
     DEF ClassRequest, Lookup, ProcIdle, ProcAt, ProcShape, Listed
<1>44. CASE TakeParent
  BY <1>1, <1>3, <1>5, <1>44
     DEF TakeParent, ProcAt, ProcShape, Listed
<1>45. CASE SubmitControl
  <2>1. proc' = proc \/ proc'.pc \in {"ctrl_wait", "receive"}
    <3>1. \/ proc' = proc
          \/ proc' = [proc EXCEPT !.pc = "ctrl_wait"]
          \/ proc' = ProcIdle
      BY <1>45 DEF SubmitControl, ProcReturn
    <3> QED
      BY <1>q, <3>1 DEF ProcIdle, ProcTask
  <2>2. UNCHANGED ifaces
    BY <1>45 DEF SubmitControl
  <2>3. ProcShape'
    BY <1>1, <2>1, <2>2 DEF ProcShape, Listed
  <2> QED
    BY <1>3, <1>5, <1>45, <2>3 DEF SubmitControl
<1>46. CASE ControlDone
  BY <1>1, <1>3, <1>5, <1>46
     DEF ControlDone, ProcAt, ProcShape, Listed
<1>47. CASE ControlFails
  BY <1>1, <1>3, <1>5, <1>47
     DEF ControlFails, ProcReturn, ProcIdle, ProcAt, ProcShape, Listed
<1>48. CASE DeviceStart
  BY <1>1, <1>3, <1>5, <1>48
     DEF DeviceStart, Lookup, ProcIdle, ProcAt, ProcShape, Listed
<1>49. CASE CheckStart
  BY <1>1, <1>3, <1>5, <1>49
     DEF CheckStart, ProcIdle, ProcAt, ProcShape, Listed
<1>50. CASE Activate
  <2>1. \A b \in Addr : obj'[b].dev = obj[b].dev /\ obj'[b].n = obj[b].n
    BY <1>o, <1>50 DEF Activate, Iface
  <2>2. (ListedOnce /\ ListedInstalled)'
    BY <1>p, <1>50, <2>1 DEF Activate
  <2>3. ProcShape'
    BY <1>1, <1>q, <1>50 DEF Activate, ProcAt, ProcGoto, ProcReturn, ProcIdle,
       ProcShape, ProcTask, Listed
  <2> QED
    BY <1>5, <1>50, <2>2, <2>3 DEF Activate
<1>51. CASE SubmitIn
  BY <1>1, <1>3, <1>5, <1>51
     DEF SubmitIn, ProcReturn, ProcIdle, ProcAt, ProcShape, Listed
<1>52. CASE UseAfterFree
  BY <1>1, <1>3, <1>5, <1>52
     DEF UseAfterFree, Fail, ProcAt, ProcShape, Listed
<1>53. CASE Reboot
  BY <1>53 DEF Reboot, HidIdle, ProcIdle, ListedOnce, ListedInstalled, Listed,
              HidShape, ProcShape
<1>54. CASE Bus
  BY <1>3, <1>4, <1>5, <1>54 DEF Bus, Plug, Unplug, Transfer
<1>55. CASE Stop
  BY <1>3, <1>5, <1>55 DEF Stop, ProcIdle, ProcShape
<1>56. CASE Start
  BY <1>3, <1>5, <1>56 DEF Start, ProcIdle, ProcShape
<1> QED
  BY <1>6, <1>7, <1>8, <1>9, <1>10, <1>11, <1>12, <1>13, <1>14, <1>15, <1>16,
     <1>17, <1>18, <1>19, <1>20, <1>21, <1>22, <1>23, <1>24, <1>25, <1>26,
     <1>27, <1>28, <1>29, <1>30, <1>31, <1>32, <1>33, <1>34, <1>35, <1>36,
     <1>37, <1>38, <1>39, <1>40, <1>41, <1>42, <1>43, <1>44, <1>45, <1>46,
     <1>47, <1>48, <1>49, <1>50, <1>51, <1>52, <1>53, <1>54,
     <1>55, <1>56
     DEF Next, HidNext, ProcNext

-----------------------------------------------------------------------------
(* The theorems.                                                           *)

LEMMA Invariance == Spec => []IInv
<1>1. IInv /\ [Next]_vars => IInv'
  <2> SUFFICES ASSUME IInv, [Next]_vars
               PROVE  IInv'
    OBVIOUS
  <2>1. CASE Next
    BY <2>1, TypeStep, ShapeStep DEF IInv
  <2>2. CASE UNCHANGED vars
    BY <2>2 DEF vars, libVars, driverVars, IInv, TypeOK, LibTypeOK, ListedOnce,
                ListedInstalled, HidShape, ProcShape, Listed, PipeOf
  <2> QED
    BY <2>1, <2>2
<1> QED
  BY <1>1, InitIInv, PTL DEF Spec

\* Every variable of the driver, of the tasks and of the library keeps its
\* type: in particular no task ever holds an interface pointer that is neither
\* an address, null, nor known to be freed, and no CONNECTED event carries one.
THEOREM TypeCorrect == Spec => []TypeOK
<1>1. IInv => TypeOK
  BY DEF IInv
<1> QED
  BY <1>1, Invariance, PTL

\* The parent pointer of every interface in hid_ifaces_tailq leads to a device
\* in hid_devices_tailq, whatever is plugged, unplugged or fails in between:
\* hid_host_uninstall_device never frees a device that is still referred to.
THEOREM ParentNeverFreed == Spec => []ParentInstalled
<1>1. IInv => ParentInstalled
  BY DEF IInv, ListedInstalled, ParentInstalled
<1> QED
  BY <1>1, Invariance, PTL
=============================================================================


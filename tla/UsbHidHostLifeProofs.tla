------------------------ MODULE UsbHidHostLifeProofs ------------------------
(***************************************************************************)
(* Theorems about UsbHidHostLife for every set of tasks and every choice   *)
(* of what may fail.  What the object promises is proved for a careful     *)
(* application, as the runs check it, because it is not true otherwise.    *)
(***************************************************************************)
EXTENDS UsbHidHostLife, FiniteSetTheorems, TLAPS

-----------------------------------------------------------------------------
(* The types.                                                              *)

\* The usbLibTasks that may have notified.
Told == {l \in LibTask : lib[l].pc \notin {"none", "install", "notify"}}

\* A call that is under way after init created its task has the task's handle,
\* and no task notifies twice.
HandleShape ==
    /\ app \in {"notify", "timeout", "install", "wait"} =>
        usbLibTaskHandle # Null
    /\ notified <= Cardinality(Told)

Shape == TypeOK /\ HandleShape

LEMMA LibUpdates ==
    ASSUME lib \in [LibTask -> LibTaskState], NEW l \in LibTask
    PROVE  /\ \A pc \in LibPC : Goto(l, pc) => lib' \in [LibTask -> LibTaskState]
           /\ \A s \in LibTaskState :
                 lib' = [lib EXCEPT ![l] = s] => lib' \in [LibTask -> LibTaskState]
<1>1. \A pc \in LibPC : [lib[l] EXCEPT !.pc = pc] \in LibTaskState
  BY DEF LibTaskState
<1> QED
  BY <1>1 DEF Goto

LEMMA ToldGrows ==
    ASSUME Told \subseteq Told', NEW n \in Nat, n <= Cardinality(Told)
    PROVE  n <= Cardinality(Told') /\ n <= Cardinality(LibTask)
<1>1. IsFiniteSet(LibTask) /\ Told \subseteq LibTask /\ Told' \subseteq LibTask
  BY TaskAssumption DEF Told
<1>2. IsFiniteSet(Told) /\ IsFiniteSet(Told')
  BY <1>1, FS_Subset
<1>3. /\ Cardinality(Told) <= Cardinality(Told')
      /\ Cardinality(Told) <= Cardinality(LibTask)
  BY <1>1, <1>2, FS_Subset
<1>4. /\ Cardinality(Told) \in Nat /\ Cardinality(Told') \in Nat
      /\ Cardinality(LibTask) \in Nat
  BY <1>1, <1>2, FS_CardinalityType
<1> QED
  BY <1>3, <1>4

LEMMA ToldAdds ==
    ASSUME NEW l \in LibTask, l \notin Told, Told' = Told \cup {l},
           NEW n \in Nat, n <= Cardinality(Told)
    PROVE  n + 1 <= Cardinality(Told') /\ n + 1 <= Cardinality(LibTask)
<1>1. IsFiniteSet(LibTask) /\ Told \subseteq LibTask /\ Told' \subseteq LibTask
  BY TaskAssumption DEF Told
<1>2. IsFiniteSet(Told)
  BY <1>1, FS_Subset
<1>3. Cardinality(Told \cup {l}) = Cardinality(Told) + 1
  BY <1>2, FS_AddElement
<1>4. Cardinality(Told') <= Cardinality(LibTask)
  BY <1>1, FS_Subset
<1>5. Cardinality(Told) \in Nat /\ Cardinality(LibTask) \in Nat
  BY <1>1, <1>2, FS_CardinalityType
<1> QED
  BY <1>3, <1>4, <1>5

LEMMA ShapeInit == Init => Shape
<1> SUFFICES ASSUME Init
             PROVE  Shape
  OBVIOUS
<1>1. IsFiniteSet(LibTask) /\ Told \subseteq LibTask
  BY TaskAssumption DEF Told
<1>2. Cardinality(LibTask) \in Nat /\ Cardinality(Told) \in Nat
  BY <1>1, FS_Subset, FS_CardinalityType
<1>3. notified = 0 /\ notified <= Cardinality(Told) /\ notified \in 0..Cardinality(LibTask)
  BY <1>2 DEF Init
<1>4. lib \in [LibTask -> LibTaskState]
  BY DEF Init, LibTaskState, LibPC
<1> QED
  BY <1>3, <1>4 DEF Init, Shape, TypeOK, HandleShape

\* A step that leaves the tasks alone and gives no notification.
LEMMA ShapeAside ==
    ASSUME Shape, UNCHANGED lib,
           \/ UNCHANGED notified
           \/ notified > 0 /\ notified' = notified - 1
    PROVE  /\ lib' \in [LibTask -> LibTaskState]
           /\ notified' \in 0..Cardinality(LibTask)
           /\ notified' <= Cardinality(Told')
<1>1. Told' = Told
  BY DEF Told
<1>2. IsFiniteSet(LibTask) /\ IsFiniteSet(Told)
  BY TaskAssumption, FS_Subset DEF Told
<1>3. Cardinality(LibTask) \in Nat /\ Cardinality(Told) \in Nat
  BY <1>2, FS_CardinalityType
<1> QED
  BY <1>1, <1>3 DEF Shape, TypeOK, HandleShape

\* A step of the task l that gives no notification.
LEMMA ShapeTask ==
    ASSUME Shape, NEW l \in LibTask, UNCHANGED notified,
           lib' \in [LibTask -> LibTaskState],
           \A k \in LibTask \ {l} : lib'[k] = lib[k],
           l \in Told => l \in Told'
    PROVE  /\ notified' \in 0..Cardinality(LibTask)
           /\ notified' <= Cardinality(Told')
<1>1. Told \subseteq Told'
  BY DEF Told
<1>2. notified \in Nat /\ notified <= Cardinality(Told)
  BY DEF Shape, TypeOK, HandleShape
<1>3. IsFiniteSet(LibTask)
  BY TaskAssumption
<1>4. Cardinality(LibTask) \in Nat
  BY <1>3, FS_CardinalityType
<1> QED
  BY <1>1, <1>2, <1>4, ToldGrows

LEMMA ShapeStep ==
    ASSUME Shape, [Next]_vars
    PROVE  Shape'
<1> USE DEF object, usb
<1>l. lib \in [LibTask -> LibTaskState]
  BY DEF Shape, TypeOK
<1>h. app \in {"notify", "timeout", "install", "wait"} =>
         usbLibTaskHandle \in LibTask
  BY DEF Shape, TypeOK, HandleShape
<1>1. CASE Construct
  <2>1. eventQueue' \in {"live", "failed"}
    BY <1>1 DEF Construct
  <2> QED
    BY <1>1, <2>1, ShapeAside DEF Construct, App, Shape, TypeOK, HandleShape
<1>2. CASE CallInit
  <2> PICK l \in LibTask : /\ lib[l].pc = "none"
                           /\ Goto(l, "install")
                           /\ usbLibTaskHandle' = l
    BY <1>2 DEF CallInit
  <2>1. lib' \in [LibTask -> LibTaskState]
    BY <1>l, LibUpdates DEF LibPC
  <2>2. \A k \in LibTask \ {l} : lib'[k] = lib[k]
    BY <1>l DEF Goto
  <2>3. l \notin Told
    BY DEF Told
  <2>4. notified' \in 0..Cardinality(LibTask) /\ notified' <= Cardinality(Told')
    BY <1>2, <2>1, <2>2, <2>3, ShapeTask DEF CallInit
  <2> QED
    BY <1>2, <2>1, <2>4, TaskAssumption
    DEF CallInit, Shape, TypeOK, HandleShape
<1>3. CASE TakeNotification
  BY <1>3, <1>h, ShapeAside, TaskAssumption
  DEF TakeNotification, App, Shape, TypeOK, HandleShape
<1>4. CASE TakeTimeout
  BY <1>4, <1>h, ShapeAside, TaskAssumption
  DEF TakeTimeout, App, Shape, TypeOK, HandleShape
<1>5. CASE KillLibTask
  <2> DEFINE l == usbLibTaskHandle
  <2>0. l \in LibTask
    BY <1>5, <1>h DEF KillLibTask, App
  <2>1. lib' \in [LibTask -> LibTaskState]
    BY <1>5, <1>l, <2>0, LibUpdates DEF KillLibTask, LibPC
  <2>2. \A k \in LibTask \ {l} : lib'[k] = lib[k]
    BY <1>5, <1>l DEF KillLibTask, Goto
  <2>3. l \in Told'
    BY <1>5, <1>l, <2>0 DEF KillLibTask, Goto, Told, LibTaskState
  <2>4. notified' \in 0..Cardinality(LibTask) /\ notified' <= Cardinality(Told')
    BY <1>5, <2>0, <2>1, <2>2, <2>3, ShapeTask DEF KillLibTask
  <2> QED
    BY <1>5, <2>1, <2>4 DEF KillLibTask, Shape, TypeOK, HandleShape
<1>6. CASE InstallDriver
  BY <1>6, <1>h, ShapeAside, TaskAssumption
  DEF InstallDriver, App, Shape, TypeOK, HandleShape
<1>7. CASE CallStart
  BY <1>7, ShapeAside DEF CallStart, App, Shape, TypeOK, HandleShape
<1>8. CASE CallStop
  BY <1>8, ShapeAside DEF CallStop, DeleteProcessor, App, Shape, TypeOK, HandleShape
<1>9. CASE CallUninstall
  BY <1>9, ShapeAside
  DEF CallUninstall, UninstallDriver, Deregister, App, Shape, TypeOK, HandleShape
<1>10. CASE CallDeinit
  BY <1>10, ShapeAside
  DEF CallDeinit, DeleteProcessor, App, Shape, TypeOK, HandleShape
<1>11. CASE LibTaskDeleted
  BY <1>11, ShapeAside DEF LibTaskDeleted, App, Shape, TypeOK, HandleShape
<1>12. CASE LibTaskFreed
  BY <1>12, ShapeAside DEF LibTaskFreed, App, Shape, TypeOK, HandleShape
<1>13. CASE DeleteQueue
  BY <1>13, ShapeAside
  DEF DeleteQueue, UninstallDriver, Deregister, App, Shape, TypeOK, HandleShape
<1>14. CASE Destroy
  BY <1>14, ShapeAside DEF Destroy, App, Shape, TypeOK, HandleShape
<1>15. ASSUME NEW l \in LibTask, LibNext(l) \/ Reap(l)
       PROVE  Shape'
  <2>g. ASSUME lib' \in [LibTask -> LibTaskState], l \in Told => l \in Told',
               \A k \in LibTask \ {l} : lib'[k] = lib[k],
               UNCHANGED <<app, object, procs, notified, driver, device, listed>>,
               UNCHANGED fault, host' \in BOOLEAN, flags' \subseteq flags
        PROVE  Shape'
    <3>1. notified' \in 0..Cardinality(LibTask) /\ notified' <= Cardinality(Told')
      BY <2>g, ShapeTask
    <3> QED
      BY <2>g, <3>1 DEF Shape, TypeOK, HandleShape
  <2>1. CASE LibInstall(l)
    <3>1. PICK ok \in BOOLEAN :
             /\ host' = (host \/ ok)
             /\ lib' = [lib EXCEPT ![l] = [pc |-> "notify", failed |-> host \/ ~ok]]
      BY <2>1 DEF LibInstall
    <3>2. [pc |-> "notify", failed |-> host \/ ~ok] \in LibTaskState
      BY DEF LibTaskState, LibPC
    <3>3. lib' \in [LibTask -> LibTaskState]
      BY <1>l, <3>1, <3>2, LibUpdates
    <3>4. l \notin Told
      BY <2>1 DEF LibInstall, Lib, Told
    <3> QED
      BY <1>l, <2>1, <2>g, <3>1, <3>3, <3>4 DEF LibInstall
  <2>2. CASE LibNotify(l)
    <3>1. lib' \in [LibTask -> LibTaskState]
      BY <1>l, <2>2, LibUpdates DEF LibNotify, LibPC
    <3>2. l \notin Told /\ Told' = Told \cup {l}
      BY <1>l, <2>2 DEF LibNotify, Lib, Goto, Told, LibTaskState
    <3>3. notified \in Nat /\ notified <= Cardinality(Told)
      BY DEF Shape, TypeOK, HandleShape
    <3>4. /\ notified + 1 <= Cardinality(Told')
          /\ notified + 1 <= Cardinality(LibTask)
      BY <3>2, <3>3, ToldAdds
    <3>5. Cardinality(LibTask) \in Nat
      BY TaskAssumption, FS_CardinalityType
    <3> QED
      BY <2>2, <3>1, <3>3, <3>4, <3>5 DEF LibNotify, Shape, TypeOK, HandleShape
  <2>3. CASE LibEvents(l)
    <3>1. lib' \in [LibTask -> LibTaskState]
      BY <1>l, <2>3, LibUpdates DEF LibEvents, LibPC
    <3>2. l \in Told'
      BY <1>l, <2>3 DEF LibEvents, Goto, Told, LibTaskState
    <3> QED
      BY <1>l, <2>3, <2>g, <3>1, <3>2 DEF LibEvents, Goto, Shape, TypeOK
  <2>4. CASE LibNotInstalled(l)
    BY <2>4, ShapeAside DEF LibNotInstalled, Shape, TypeOK, HandleShape
  <2>5. CASE LibShutdown(l)
    <3>1. [pc |-> "ended", failed |-> TRUE] \in LibTaskState
      BY DEF LibTaskState, LibPC
    <3>2. lib' \in [LibTask -> LibTaskState]
      BY <1>l, <2>5, <3>1, LibUpdates DEF LibShutdown, LibPC
    <3>3. l \in Told'
      BY <1>l, <2>5 DEF LibShutdown, Goto, Told, LibTaskState
    <3> QED
      BY <1>l, <2>5, <2>g, <3>2, <3>3 DEF LibShutdown, Goto, Shape, TypeOK
  <2>6. CASE Reap(l)
    <3>1. lib' \in [LibTask -> LibTaskState]
      BY <1>l, <2>6, LibUpdates DEF Reap, LibPC
    <3>2. l \in Told'
      BY <1>l, <2>6 DEF Reap, Goto, Told, LibTaskState
    <3> QED
      BY <1>l, <2>6, <2>g, <3>1, <3>2 DEF Reap, Goto, Shape, TypeOK
  <2> QED
    BY <1>15, <2>1, <2>2, <2>3, <2>4, <2>5, <2>6 DEF LibNext
<1>16. CASE Attach
  BY <1>16, ShapeAside DEF Attach, Shape, TypeOK, HandleShape
<1>17. CASE Detach
  BY <1>17, ShapeAside DEF Detach, Shape, TypeOK, HandleShape
<1>18. CASE ConnectedCallback
  BY <1>18, ShapeAside DEF ConnectedCallback, Shape, TypeOK, HandleShape
<1>19. CASE UNCHANGED vars
  BY <1>19, ShapeAside DEF vars, Shape, TypeOK, HandleShape
<1> QED
  BY <1>1, <1>2, <1>3, <1>4, <1>5, <1>6, <1>7, <1>8, <1>9, <1>10, <1>11, <1>12,
     <1>13, <1>14, <1>15, <1>16, <1>17, <1>18, <1>19
  DEF Next, AppNext, AppReturns

LEMMA ShapeInvariance == Spec => []Shape
BY ShapeInit, ShapeStep, PTL DEF Spec

\* Every variable keeps its type; above all, no more notifications are pending
\* than usbLibTasks were created.
THEOREM TypeCorrect == Spec => []TypeOK
<1>1. Shape => TypeOK
  BY DEF Shape
<1> QED
  BY <1>1, ShapeInvariance, PTL
-----------------------------------------------------------------------------
(* A careful application.                                                  *)

\* It calls init and start once, and uninstalls the HID driver before deinit.
CarefulApp == {"once", "uninstall"} \subseteq Careful

Serving == {"install", "notify", "events"}

Alive == Serving \cup {"shutdown"}

\* The usbLibTask the object has the handle of.
MyTask == lib[usbLibTaskHandle]

\* Where a call of init or deinit is, and what it has put in order by then.
CallOrder ==
    /\ app \in {"notify", "timeout", "install"} =>
        MyTask.pc \in Serving /\ ~driver /\ "NO_CLIENTS" \notin flags
    /\ app \in {"wait", "delete"} => hidProcessorTaskHandle = Null /\ ~driver
    /\ app = "delete" => usbLibTaskHandle = Null
    /\ app = "none" => eventQueue = "deleted"
    /\ eventQueue = "deleted" =>
        /\ usbLibTaskHandle = Null /\ hidProcessorTaskHandle = Null
        /\ ~driver

\* The tasks that run are those the object has the handles of.
OneOfEach ==
    /\ procs = {hidProcessorTaskHandle} \ {Null}
    /\ \A l \in LibTask : lib[l].pc \in Alive => l = usbLibTaskHandle

\* While the driver is a client, and until the task has heard that it is none
\* any more, the task serves the library.
ClientServed ==
    /\ driver \/ "NO_CLIENTS" \in flags =>
        usbLibTaskHandle # Null /\ MyTask.pc \in Serving
    /\ driver => host /\ "NO_CLIENTS" \notin flags

\* A task that has not tried yet has not failed, so that failed, once set, is
\* never cleared.
Untried == \A l \in LibTask : lib[l].pc \in {"none", "install"} => ~lib[l].failed

\* No usbLibTask failed or was killed so far.
Smooth == \A l \in LibTask : ~lib[l].failed /\ lib[l].pc # "killed"

\* Then init and the tasks go hand in hand: a notification is taken by the call
\* it is meant for, and the library is installed as long as a task is there.
InStep ==
    Smooth =>
        /\ app = "notify" /\ notified > 0 =>
            MyTask.pc = "events" /\ notified = 1
        /\ app = "install" => MyTask.pc = "events"
        /\ app \notin {"notify", "timeout"} =>
            /\ notified = 0
            /\ \A l \in LibTask : lib[l].pc \notin {"install", "notify"}
        /\ host <=> \E l \in LibTask : lib[l].pc \in Alive \ {"install"}

IInv == Shape /\ CallOrder /\ OneOfEach /\ ClientServed /\ Untried /\ InStep

LEMMA IInvInit == Init => IInv
<1> SUFFICES ASSUME Init
             PROVE  IInv
  OBVIOUS
<1>1. Shape
  BY ShapeInit
<1>2. \A l \in LibTask : lib[l].pc = "none" /\ ~lib[l].failed
  BY DEF Init
<1> QED
  BY <1>1, <1>2
  DEF Init, IInv, CallOrder, OneOfEach, ClientServed, Untried, InStep, Alive,
      Serving

\* What the steps of the application that leave the tasks alone keep.
LEMMA TasksAside ==
    ASSUME IInv, UNCHANGED lib
    PROVE  /\ Untried'
           /\ Smooth' = Smooth
           /\ UNCHANGED usbLibTaskHandle => MyTask' = MyTask
BY DEF IInv, Untried, Smooth, MyTask

LEMMA IInvApp ==
    ASSUME CarefulApp, IInv, Shape', AppNext \/ AppReturns
    PROVE  IInv'
<1> USE DEF object, usb, Alive, Serving
<1>l. lib \in [LibTask -> LibTaskState]
  BY DEF IInv, Shape, TypeOK
<1>h. app \in {"notify", "timeout", "install", "wait"} =>
         usbLibTaskHandle \in LibTask
  BY DEF IInv, Shape, TypeOK, HandleShape
<1>1. CASE Construct
  <2>1. app = "none" /\ eventQueue = "deleted" /\ usbLibTaskHandle = Null
    BY <1>1 DEF Construct, App, IInv, CallOrder
  <2>2. UNCHANGED <<usbLibTaskHandle, hidProcessorTaskHandle, MyTask>>
    BY <1>1, <2>1 DEF Construct, IInv, CallOrder, MyTask
  <2> QED
    BY <1>1, <2>1, <2>2
    DEF Construct, IInv, CallOrder, OneOfEach, ClientServed, Untried, InStep,
        Smooth
<1>2. CASE CallInit
  <2> PICK l \in LibTask : /\ lib[l].pc = "none"
                           /\ Goto(l, "install")
                           /\ usbLibTaskHandle' = l
    BY <1>2 DEF CallInit
  <2>1. /\ app = "ready" /\ ~driver /\ eventQueue # "deleted"
        /\ \A k \in LibTask : lib[k].pc \notin Alive
    BY <1>2 DEF CallInit, App, CarefulApp
  <2>2. /\ lib'[l].pc = "install" /\ lib'[l].failed = lib[l].failed
        /\ \A k \in LibTask \ {l} : lib'[k] = lib[k]
    BY <1>l DEF Goto, LibTaskState
  <2>3. "NO_CLIENTS" \notin flags /\ ~lib[l].failed
    BY <2>1, <1>l DEF IInv, ClientServed, Untried, MyTask, Shape, TypeOK
  <2>4. l # Null
    BY TaskAssumption
  <2>5. CallOrder' /\ OneOfEach' /\ ClientServed' /\ Untried'
    BY <1>2, <2>1, <2>2, <2>3, <2>4
    DEF CallInit, IInv, CallOrder, OneOfEach, ClientServed, Untried, MyTask
  <2>6. Smooth' => Smooth
    BY <2>2, <2>3 DEF Smooth
  <2>7. InStep'
    BY <1>2, <2>1, <2>2, <2>6 DEF CallInit, IInv, InStep, MyTask
  <2> QED
    BY <2>5, <2>7 DEF IInv
<1>3. CASE TakeNotification
  <2>1. UNCHANGED lib /\ UNCHANGED usbLibTaskHandle
    BY <1>3 DEF TakeNotification
  <2>2. ASSUME Smooth
        PROVE  /\ notified = 1 /\ MyTask.pc = "events"
               /\ \A l \in LibTask : lib[l].pc \notin {"install", "notify"}
    BY <1>3, <2>2 DEF TakeNotification, App, IInv, InStep, OneOfEach, MyTask
  <2>3. InStep'
    <3>1. notified' = notified - 1 /\ app' = "install" /\ host' = host
      BY <1>3 DEF TakeNotification
    <3>2. Smooth' = Smooth /\ MyTask' = MyTask
      BY <2>1, TasksAside
    <3> QED
      BY <2>1, <2>2, <3>1, <3>2 DEF IInv, InStep
  <2> QED
    BY <1>3, <2>1, <2>3, TasksAside
    DEF TakeNotification, App, IInv, CallOrder, OneOfEach, ClientServed
<1>4. CASE TakeTimeout
  BY <1>4, TasksAside
  DEF TakeTimeout, App, IInv, CallOrder, OneOfEach, ClientServed, InStep
<1>5. CASE KillLibTask
  <2> DEFINE l == usbLibTaskHandle
  <2>0. app = "timeout" /\ l \in LibTask /\ l # Null
    BY <1>5, <1>h, TaskAssumption DEF KillLibTask, App
  <2>1. /\ lib'[l].pc = "killed"
        /\ \A k \in LibTask \ {l} : lib'[k] = lib[k]
    BY <1>5, <1>l, <2>0 DEF KillLibTask, Goto, LibTaskState
  <2>2. ~Smooth'
    BY <2>0, <2>1 DEF Smooth
  <2> QED
    BY <1>5, <2>0, <2>1, <2>2
    DEF KillLibTask, IInv, CallOrder, OneOfEach, ClientServed, Untried, InStep
<1>6. CASE InstallDriver
  <2>1. UNCHANGED lib /\ UNCHANGED usbLibTaskHandle /\ app = "install"
    BY <1>6 DEF InstallDriver, App
  <2>2. usbLibTaskHandle # Null /\ usbLibTaskHandle \in LibTask
    BY <1>h, <2>1, TaskAssumption
  <2> QED
    BY <1>6, <2>1, <2>2, TasksAside
    DEF InstallDriver, IInv, CallOrder, OneOfEach, ClientServed, InStep
<1>7. CASE CallStart
  BY <1>7, TasksAside, TaskAssumption
  DEF CallStart, App, CarefulApp, IInv, CallOrder, OneOfEach, ClientServed,
      InStep
<1>8. CASE CallStop
  BY <1>8, TasksAside
  DEF CallStop, DeleteProcessor, App, IInv, CallOrder, OneOfEach, ClientServed,
      InStep
<1>9. CASE CallUninstall
  <2>1. /\ app = "ready" /\ driver /\ eventQueue # "deleted"
        /\ UNCHANGED <<app, object, procs, lib, notified, host>>
        /\ driver' => driver /\ flags' = flags
    BY <1>9
    DEF CallUninstall, App, UninstallDriver, Deregister, IInv, CallOrder
  <2> QED
    BY <2>1, TasksAside
    DEF IInv, CallOrder, OneOfEach, ClientServed, InStep
<1>10. CASE CallDeinit
  BY <1>10, TasksAside
  DEF CallDeinit, DeleteProcessor, App, CarefulApp, IInv, CallOrder, OneOfEach,
      ClientServed, InStep
<1>11. CASE LibTaskDeleted
  <2>1. lib[usbLibTaskHandle].pc \notin Alive /\ app = "wait"
    BY <1>11 DEF LibTaskDeleted, App
  <2>2. \A l \in LibTask : lib[l].pc \notin Alive
    BY <2>1 DEF IInv, OneOfEach
  <2> QED
    BY <1>11, <2>1, <2>2, TasksAside
    DEF LibTaskDeleted, IInv, CallOrder, OneOfEach, ClientServed, InStep, MyTask
<1>12. CASE LibTaskFreed
  BY <1>12, TasksAside
  DEF LibTaskFreed, IInv, CallOrder, OneOfEach, ClientServed, InStep
<1>13. CASE DeleteQueue
  BY <1>13, TasksAside
  DEF DeleteQueue, UninstallDriver, App, IInv, CallOrder, OneOfEach,
      ClientServed, InStep
<1>14. CASE Destroy
  BY <1>14, TasksAside
  DEF Destroy, App, IInv, CallOrder, OneOfEach, ClientServed, InStep
<1> QED
  BY <1>1, <1>2, <1>3, <1>4, <1>5, <1>6, <1>7, <1>8, <1>9, <1>10, <1>11, <1>12,
     <1>13, <1>14 DEF AppNext, AppReturns

\* A task takes one step; the others are where they were.
LEMMA IInvTask ==
    ASSUME CarefulApp, IInv, Shape', NEW l \in LibTask, LibNext(l) \/ Reap(l)
    PROVE  IInv'
<1> USE DEF object, usb, Alive, Serving
<1>l. lib \in [LibTask -> LibTaskState]
  BY DEF IInv, Shape, TypeOK
<1>m. lib[l].pc \in Alive => l = usbLibTaskHandle /\ MyTask = lib[l] /\ l # Null
  BY TaskAssumption DEF IInv, OneOfEach, MyTask
<1>1. CASE LibInstall(l)
  <2>1. PICK ok \in BOOLEAN :
           /\ host' = (host \/ ok)
           /\ lib' = [lib EXCEPT ![l] = [pc |-> "notify", failed |-> host \/ ~ok]]
    BY <1>1 DEF LibInstall
  <2>2. /\ lib'[l].pc = "notify" /\ lib'[l].failed = (host \/ ~ok)
        /\ \A k \in LibTask \ {l} : lib'[k] = lib[k]
    BY <1>l, <2>1
  <2>3. lib[l].pc = "install" /\ ~lib[l].failed /\ lib[l].failed \in BOOLEAN
    BY <1>1, <1>l DEF LibInstall, Lib, IInv, Untried, LibTaskState
  <2>4. CallOrder' /\ OneOfEach' /\ ClientServed' /\ Untried'
    BY <1>1, <1>m, <2>1, <2>2, <2>3
    DEF LibInstall, IInv, CallOrder, OneOfEach, ClientServed, Untried, MyTask
  <2>5. Smooth' => Smooth /\ ~host /\ ok
    <3>1. ~lib'[l].failed => ~host /\ ok
      BY <2>2
    <3>2. Smooth' => ~lib'[l].failed
      BY DEF Smooth
    <3>3. Smooth' => Smooth
      BY <2>2, <2>3 DEF Smooth
    <3> QED
      BY <3>1, <3>2, <3>3
  <2>6. InStep'
    BY <1>1, <1>m, <2>1, <2>2, <2>3, <2>5 DEF LibInstall, IInv, InStep, MyTask
  <2> QED
    BY <2>4, <2>6 DEF IInv
<1>2. CASE LibNotify(l)
  <2>1. /\ lib[l].pc = "notify" /\ lib'[l].pc = "events"
        /\ lib'[l].failed = lib[l].failed
        /\ \A k \in LibTask \ {l} : lib'[k] = lib[k]
    BY <1>2, <1>l DEF LibNotify, Lib, Goto, LibTaskState
  <2>2. CallOrder' /\ OneOfEach' /\ ClientServed' /\ Untried'
    BY <1>2, <1>m, <2>1
    DEF LibNotify, IInv, CallOrder, OneOfEach, ClientServed, Untried, MyTask
  <2>3. Smooth' => Smooth
    BY <2>1 DEF Smooth
  <2>4. notified \in Nat /\ notified' = notified + 1
    BY <1>2 DEF LibNotify, IInv, Shape, TypeOK
  <2>5. InStep'
    BY <1>2, <1>m, <2>1, <2>3, <2>4 DEF LibNotify, IInv, InStep, MyTask
  <2> QED
    BY <2>2, <2>5 DEF IInv
<1>3. CASE LibEvents(l)
  <2>1. /\ lib[l].pc = "events" /\ lib'[l].failed = lib[l].failed
        /\ lib'[l].pc = IF "NO_CLIENTS" \in flags THEN "shutdown" ELSE "events"
        /\ \A k \in LibTask \ {l} : lib'[k] = lib[k]
    BY <1>3, <1>l DEF LibEvents, Lib, Goto, LibTaskState
  <2>2. CallOrder' /\ OneOfEach' /\ ClientServed' /\ Untried'
    BY <1>3, <1>m, <2>1
    DEF LibEvents, IInv, CallOrder, OneOfEach, ClientServed, Untried, MyTask
  <2>3. Smooth' => Smooth
    BY <2>1 DEF Smooth
  <2>4. "NO_CLIENTS" \in flags => app \notin {"notify", "timeout", "install"}
    BY DEF IInv, CallOrder
  <2>5. InStep'
    BY <1>3, <1>m, <2>1, <2>3, <2>4 DEF LibEvents, IInv, InStep, MyTask
  <2> QED
    BY <2>2, <2>5 DEF IInv
<1>4. CASE LibNotInstalled(l)
  BY <1>4, TasksAside
  DEF LibNotInstalled, IInv, CallOrder, OneOfEach, ClientServed, InStep
<1>5. CASE LibShutdown(l)
  <2>1. lib[l].pc = "shutdown" /\ l = usbLibTaskHandle /\ MyTask = lib[l]
    BY <1>5, <1>m DEF LibShutdown, Lib
  <2>2. /\ lib'[l].pc = "ended"
        /\ \A k \in LibTask \ {l} : lib'[k] = lib[k]
        /\ \/ ~host' /\ flags' = {} /\ lib'[l].failed = lib[l].failed
           \/ UNCHANGED <<host, flags>> /\ lib'[l].failed
    BY <1>5, <1>l DEF LibShutdown, Goto, LibTaskState
  <2>3. ~driver /\ "NO_CLIENTS" \notin flags
    BY <2>1 DEF IInv, ClientServed
  <2>4. CallOrder' /\ OneOfEach' /\ ClientServed' /\ Untried'
    BY <1>5, <2>1, <2>2, <2>3
    DEF LibShutdown, IInv, CallOrder, OneOfEach, ClientServed, Untried
  <2>5. Smooth' => Smooth /\ ~host'
    BY <2>1, <2>2 DEF Smooth
  <2>6. \A k \in LibTask \ {l} : lib[k].pc \notin Alive
    BY <2>1 DEF IInv, OneOfEach
  <2>7. InStep'
    BY <1>5, <2>1, <2>2, <2>5, <2>6 DEF LibShutdown, IInv, InStep, CallOrder
  <2> QED
    BY <2>4, <2>7 DEF IInv
<1>6. CASE Reap(l)
  <2>1. /\ lib[l].pc = "ended" /\ lib'[l].pc = "freed"
        /\ lib'[l].failed = lib[l].failed
        /\ \A k \in LibTask \ {l} : lib'[k] = lib[k]
    BY <1>6, <1>l DEF Reap, Lib, Goto, LibTaskState
  <2>2. usbLibTaskHandle \in LibTask \cup {Null}
    BY DEF IInv, Shape, TypeOK
  <2>3. MyTask.pc \in Alive /\ usbLibTaskHandle \in LibTask => MyTask' = MyTask
    BY <1>6, <2>1 DEF Reap, MyTask
  <2>4. /\ app \in {"notify", "timeout", "install"} \/ driver
              \/ "NO_CLIENTS" \in flags
           => usbLibTaskHandle \in LibTask
    BY <2>2 DEF IInv, Shape, HandleShape, ClientServed
  <2>5. CallOrder' /\ OneOfEach' /\ ClientServed' /\ Untried'
    BY <1>6, <2>1, <2>3, <2>4
    DEF Reap, IInv, CallOrder, OneOfEach, ClientServed, Untried
  <2>6. Smooth' => Smooth
    BY <2>1 DEF Smooth
  <2>7. InStep'
    BY <1>6, <2>1, <2>3, <2>4, <2>6 DEF Reap, IInv, InStep, CallOrder
  <2> QED
    BY <2>5, <2>7 DEF IInv
<1> QED
  BY <1>1, <1>2, <1>3, <1>4, <1>5, <1>6 DEF LibNext

LEMMA IInvStep ==
    ASSUME CarefulApp, IInv, [Next]_vars
    PROVE  IInv'
<1> USE DEF object, usb
<1>s. Shape'
  BY ShapeStep DEF IInv
<1>1. CASE AppNext \/ AppReturns
  BY <1>1, <1>s, IInvApp
<1>2. ASSUME NEW l \in LibTask, LibNext(l) \/ Reap(l)
      PROVE  IInv'
  BY <1>2, <1>s, IInvTask
<1>3. CASE Attach
  BY <1>3, <1>s, TasksAside
  DEF Attach, IInv, CallOrder, OneOfEach, ClientServed, InStep
<1>4. CASE Detach
  <2>1. "NO_CLIENTS" \in flags' <=> "NO_CLIENTS" \in flags
    BY <1>4 DEF Detach
  <2> QED
    BY <1>4, <1>s, <2>1, TasksAside
    DEF Detach, IInv, CallOrder, OneOfEach, ClientServed, InStep
<1>5. CASE ConnectedCallback
  BY <1>5, <1>s, TasksAside
  DEF ConnectedCallback, IInv, CallOrder, OneOfEach, ClientServed, InStep
<1>6. CASE UNCHANGED vars
  BY <1>6, <1>s, TasksAside
  DEF vars, IInv, CallOrder, OneOfEach, ClientServed, InStep
<1> QED
  BY <1>1, <1>2, <1>3, <1>4, <1>5, <1>6 DEF Next

LEMMA Invariance == CarefulApp => (Spec => []IInv)
<1> SUFFICES ASSUME CarefulApp
             PROVE  Spec => []IInv
  OBVIOUS
<1>1. IInv /\ [Next]_vars => IInv'
  BY IInvStep
<1> QED
  BY IInvInit, <1>1, PTL DEF Spec

\* When deinit deletes the queue, no processor task is left that waits for it
\* and no driver whose callback sends to it (UsbHidHost::deinit, stop).
THEOREM QueueOutlivesUsers == CarefulApp => (Spec => []QueueUsersGone)
<1> SUFFICES ASSUME CarefulApp
             PROVE  Spec => []QueueUsersGone
  OBVIOUS
<1>1. IInv => QueueUsersGone
  BY DEF IInv, CallOrder, OneOfEach, QueueUsersGone
<1> QED
  BY <1>1, Invariance, PTL

\* init installs the HID driver when usbLibTask has installed the library, but
\* after an installation that failed or an init that gave up
\* (UsbHidHost::init, usbLibTask).
THEOREM LibraryFirst == CarefulApp => (Spec => []InstallAfterLibrary)
<1> SUFFICES ASSUME CarefulApp
             PROVE  Spec => []InstallAfterLibrary
  OBVIOUS
<1>1. IInv => InstallAfterLibrary
  <2> SUFFICES ASSUME IInv, app = "install", ~host, Smooth
               PROVE  FALSE
    BY DEF InstallAfterLibrary, Smooth
  <2>1. usbLibTaskHandle \in LibTask
    BY DEF IInv, Shape, TypeOK, HandleShape
  <2>2. lib[usbLibTaskHandle].pc = "events"
    BY DEF IInv, InStep, MyTask
  <2> QED
    BY <2>1, <2>2 DEF IInv, InStep, Alive, Serving
<1> QED
  BY <1>1, Invariance, PTL

\* While the driver is installed the library is, and a usbLibTask serves it
\* (UsbHidHost::usbLibTask).
THEOREM ClientIsServed == CarefulApp => (Spec => []LibraryServed)
<1> SUFFICES ASSUME CarefulApp
             PROVE  Spec => []LibraryServed
  OBVIOUS
<1>1. IInv => LibraryServed
  BY DEF IInv, Shape, TypeOK, ClientServed, LibraryServed, MyTask, Serving
<1> QED
  BY <1>1, Invariance, PTL

\* The object that is gone has left no task, no driver and no library, but for a
\* library that was not uninstalled (UsbHidHost::~UsbHidHost, deinit).
THEOREM LeavesNothing == CarefulApp => (Spec => []EndsClean)
<1> SUFFICES ASSUME CarefulApp
             PROVE  Spec => []EndsClean
  OBVIOUS
<1>1. IInv => EndsClean
  <2> SUFFICES ASSUME IInv, app = "none"
               PROVE  /\ procs = {} /\ ~driver
                      /\ host => \E l \in LibTask :
                                    lib[l].failed \/ lib[l].pc = "killed"
                      /\ \A l \in LibTask :
                            lib[l].pc \in {"none", "ended", "killed", "freed"}
    BY DEF EndsClean
  <2>1. procs = {} /\ ~driver /\ usbLibTaskHandle = Null
    BY DEF IInv, CallOrder, OneOfEach
  <2>2. \A l \in LibTask : lib[l].pc \in LibPC \ Alive
    BY <2>1, TaskAssumption
    DEF IInv, Shape, TypeOK, LibTaskState, OneOfEach
  <2>3. host => ~Smooth
    BY <2>2 DEF IInv, InStep
  <2> QED
    BY <2>1, <2>2, <2>3 DEF Smooth, LibPC, Alive, Serving
<1> QED
  BY <1>1, Invariance, PTL
=============================================================================

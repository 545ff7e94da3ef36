------------------------- MODULE HidDriverLifeProofs -------------------------
(***************************************************************************)
(* Theorems about HidDriverLife for every set of tasks and addresses.      *)
(* That the driver outlives its users is proved for callers that wait for  *)
(* the background task to begin (Patient) and for one task that            *)
(* uninstalls, because it is not true otherwise.                           *)
(***************************************************************************)
EXTENDS HidDriverLife, TLAPS

-----------------------------------------------------------------------------
(* Updates of the records.                                                 *)

Calls == [pc : CallPC, drv : Heap \cup {Null}]

Loops == [pc : LoopPC, drv : Heap \cup {Null}]

\* What one field of the installed driver changes of it, and of the others.
LEMMA SetEffect ==
    ASSUME driver \in [Heap -> Driver], s_hid_driver \in Heap,
           NEW field \in {"client", "ending", "started", "handled", "unblocked"},
           NEW value \in BOOLEAN, driver' = Set(field, value)
    PROVE  /\ driver' \in [Heap -> Driver]
           /\ \A h \in Heap :
                 /\ driver'[h].live = driver[h].live
                 /\ driver[h].started /\ (field = "started" => value)
                        => driver'[h].started
                 /\ field # "handled" => driver'[h].handled = driver[h].handled
                 /\ driver'[h].device = driver[h].device
           /\ \A h \in Heap \ {s_hid_driver} : driver'[h] = driver[h]
<1>1. CASE field = "client"
  BY <1>1 DEF Set, Driver
<1>2. CASE field = "ending"
  BY <1>2 DEF Set, Driver
<1>3. CASE field = "started"
  BY <1>3 DEF Set, Driver
<1>4. CASE field = "handled"
  BY <1>4 DEF Set, Driver
<1>5. CASE field = "unblocked"
  BY <1>5 DEF Set, Driver
<1> QED
  BY <1>1, <1>2, <1>3, <1>4, <1>5

LEMMA CallEffect ==
    ASSUME call \in [Caller -> Calls], NEW t \in Caller,
           NEW pc \in CallPC, NEW d \in Heap \cup {Null},
           \/ call' = [call EXCEPT ![t] = [pc |-> pc, drv |-> d]]
           \/ Goto(t, pc) /\ d = call[t].drv
           \/ Return(t) /\ pc = "idle" /\ d = Null
    PROVE  /\ call' \in [Caller -> Calls]
           /\ call'[t].pc = pc /\ call'[t].drv = d
           /\ \A u \in Caller \ {t} : call'[u] = call[u]
<1>1. \A c \in Calls : [c EXCEPT !.pc = pc] = [pc |-> pc, drv |-> c.drv]
  BY DEF Calls
<1>2. call[t] \in Calls
  OBVIOUS
<1>3. call' = [call EXCEPT ![t] = [pc |-> pc, drv |-> d]]
  BY <1>1, <1>2 DEF Goto, Return, NoCall
<1>4. [pc |-> pc, drv |-> d] \in Calls
  BY DEF Calls
<1> QED
  BY <1>3, <1>4

LEMMA LoopEffect ==
    ASSUME loop \in [Loop -> Loops], NEW l \in Loop, NEW pc \in LoopPC,
           \/ LoopGoto(l, pc)
           \/ \E d \in Heap \cup {Null} :
                 loop' = [loop EXCEPT ![l] = [pc |-> pc, drv |-> d]]
    PROVE  /\ loop' \in [Loop -> Loops]
           /\ loop'[l].pc = pc
           /\ \A k \in Loop \ {l} : loop'[k] = loop[k]
<1>1. \A r \in Loops : [r EXCEPT !.pc = pc] = [pc |-> pc, drv |-> r.drv]
  BY DEF Loops
<1>2. loop[l] \in Loops
  OBVIOUS
<1>3. loop[l].drv \in Heap \cup {Null}
  BY <1>2 DEF Loops
<1>4. PICK d \in Heap \cup {Null} :
         loop' = [loop EXCEPT ![l] = [pc |-> pc, drv |-> d]]
  BY <1>1, <1>2, <1>3 DEF LoopGoto
<1>5. [pc |-> pc, drv |-> d] \in Loops
  BY DEF Loops
<1> QED
  BY <1>4, <1>5

\* A driver that is allocated, registered, handled or freed stays a driver.
LEMMA DriverUpdates ==
    ASSUME driver \in [Heap -> Driver], NEW h \in Heap
    PROVE  /\ [driver EXCEPT ![h] = NoDriver] \in [Heap -> Driver]
           /\ [driver EXCEPT ![h] = [NoDriver EXCEPT !.live = TRUE]]
                  \in [Heap -> Driver]
           /\ [driver EXCEPT ![h].client = TRUE] \in [Heap -> Driver]
           /\ [driver EXCEPT ![h].handled = FALSE] \in [Heap -> Driver]
           /\ [driver EXCEPT
                 ![h].unblocked = FALSE,
                 ![h].device = CASE @ = "new" -> "open"
                                 [] @ = "gone" -> "none"
                                 [] OTHER -> @] \in [Heap -> Driver]
<1>1. NoDriver \in Driver /\ [NoDriver EXCEPT !.live = TRUE] \in Driver
  BY DEF NoDriver, Driver
<1>2. /\ [driver[h] EXCEPT !.client = TRUE] \in Driver
      /\ [driver[h] EXCEPT !.handled = FALSE] \in Driver
  BY DEF Driver
<1>3. \A d \in {"none", "new", "open", "gone"} :
         (CASE d = "new" -> "open" [] d = "gone" -> "none" [] OTHER -> d)
             \in {"none", "new", "open", "gone"}
  OBVIOUS
<1>4. driver[h].device \in {"none", "new", "open", "gone"}
  BY DEF Driver
<1>5. \A d \in {"none", "new", "open", "gone"} :
         [driver[h] EXCEPT !.unblocked = FALSE, !.device = d] \in Driver
  BY DEF Driver
<1>6. [driver[h] EXCEPT !.unblocked = FALSE,
                        !.device = CASE @ = "new" -> "open"
                                     [] @ = "gone" -> "none"
                                     [] OTHER -> @] \in Driver
  BY <1>3, <1>4, <1>5
<1> QED
  BY <1>1, <1>2, <1>6

-----------------------------------------------------------------------------
(* The types.                                                              *)

\* A background task hands the library the client of a driver.
Shape ==
    /\ TypeOK
    /\ \A l \in Loop : loop[l].pc = "handle" => loop[l].drv \in Heap

LEMMA ShapeInit == Init => Shape
BY DEF Init, Shape, TypeOK, NoDriver, Driver, NoCall, NoLoop, CallPC, LoopPC

LEMMA BadNone == ASSUME Shape, Bad = "none"
                 PROVE  s_hid_driver \in Heap /\ driver[s_hid_driver].live
BY DEF Bad, Shape, TypeOK

\* One step of an installation.
InstallStep(t) ==
    \/ Install(t) \/ Register(t) \/ RegisterFails(t)
    \/ Publish(t) \/ PublishFails(t) \/ CreateTask(t) \/ CreateTaskFails(t)

LEMMA ShapeCall ==
    ASSUME Shape, NEW t \in Caller,
           InstallStep(t) \/ Uninstall(t) \/ UninstallStep(t)
    PROVE  Shape'
<1> DEFINE Typed == /\ call' \in [Caller -> Calls]
                    /\ call'[t].pc \in {"register", "publish", "task", "wait"}
                           => call'[t].drv \in Heap
                    /\ \A u \in Caller \ {t} : call'[u] = call[u]
<1>t. /\ call \in [Caller -> Calls] /\ driver \in [Heap -> Driver]
      /\ call[t].drv \in Heap \cup {Null}
  BY DEF Shape, TypeOK, Calls
<1>g. ASSUME Typed, driver' \in [Heap -> Driver], UNCHANGED <<loop, fault>>,
             s_hid_driver' \in Heap \cup {Null}
      PROVE  Shape'
  BY <1>g DEF Shape, TypeOK, Calls
<1>c. ASSUME NEW pc \in CallPC, Goto(t, pc),
             pc \in {"register", "publish", "task", "wait"} =>
                 call[t].pc \in {"register", "publish", "task", "wait"}
      PROVE  Typed
  <2>1. call'[t].pc = pc /\ call'[t].drv = call[t].drv
    BY <1>t, <1>c, CallEffect
  <2> QED
    BY <1>t, <1>c, <2>1, CallEffect DEF Shape, TypeOK
<1>p. ASSUME NEW pc \in CallPC, NEW h \in Heap,
             call' = [call EXCEPT ![t] = [pc |-> pc, drv |-> h]]
      PROVE  Typed
  BY <1>t, <1>p, CallEffect
<1>r. ASSUME Return(t)
      PROVE  Typed
  <2>1. call'[t].pc = "idle"
    BY <1>t, <1>r, CallEffect DEF CallPC
  <2> QED
    BY <1>t, <1>r, <2>1, CallEffect DEF CallPC
<1>f. ASSUME NEW f \in {"null", "freed", "abort"}, Fails(f)
      PROVE  Shape'
  BY <1>f DEF Fails, Shape, TypeOK
<1>u. ASSUME Undo(t), call[t].pc \in {"register", "publish", "task"}
      PROVE  Shape'
  <2>1. call[t].drv \in Heap
    BY <1>u DEF Shape, TypeOK
  <2>2. driver' \in [Heap -> Driver]
    BY <1>t, <1>u, <2>1, DriverUpdates DEF Undo
  <2> QED
    BY <1>u, <1>g, <1>r, <2>2 DEF Undo
<1>1. CASE Install(t)
  <2>1. PICK h \in Heap :
           /\ driver' = [driver EXCEPT ![h] = [NoDriver EXCEPT !.live = TRUE]]
           /\ call' = [call EXCEPT ![t] = [pc |-> "register", drv |-> h]]
    BY <1>1 DEF Install
  <2>2. Typed /\ driver' \in [Heap -> Driver]
    BY <1>t, <1>p, <2>1, DriverUpdates DEF CallPC
  <2> QED
    BY <1>1, <1>g, <2>2 DEF Install, Shape, TypeOK
<1>2. CASE Register(t)
  <2>1. call[t].pc = "register" /\ call[t].drv \in Heap
    BY <1>2 DEF Register, At, Shape, TypeOK
  <2>2. Typed /\ driver' \in [Heap -> Driver]
    BY <1>t, <1>2, <1>c, <2>1, DriverUpdates DEF Register, CallPC
  <2> QED
    BY <1>2, <1>g, <2>2 DEF Register, Shape, TypeOK
<1>3. CASE RegisterFails(t) \/ PublishFails(t) \/ CreateTaskFails(t)
  BY <1>3, <1>u DEF RegisterFails, PublishFails, CreateTaskFails, At
<1>4. CASE Publish(t)
  <2>1. call[t].pc = "publish" /\ call[t].drv \in Heap
    BY <1>4 DEF Publish, At, Shape, TypeOK
  <2>2. Typed
    BY <1>4, <1>c, <2>1 DEF Publish, CallPC
  <2> QED
    BY <1>t, <1>4, <1>g, <2>1, <2>2 DEF Publish
<1>5. CASE CreateTask(t)
  <2>1. PICK l \in Loop : loop' = [loop EXCEPT ![l] = [NoLoop EXCEPT !.pc = "check"]]
    BY <1>5 DEF CreateTask
  <2>2. [NoLoop EXCEPT !.pc = "check"] = [pc |-> "check", drv |-> Null]
    BY DEF NoLoop
  <2>3. loop \in [Loop -> Loops] /\ "check" \in LoopPC
    BY DEF Shape, TypeOK, Loops, LoopPC
  <2>4. /\ loop' \in [Loop -> Loops] /\ loop'[l].pc = "check"
        /\ \A k \in Loop \ {l} : loop'[k] = loop[k]
    BY <2>1, <2>2, <2>3, LoopEffect
  <2>5. Typed
    BY <1>5, <1>r DEF CreateTask
  <2> QED
    BY <1>5, <2>4, <2>5 DEF CreateTask, Shape, TypeOK, Calls, Loops
<1>6. CASE Uninstall(t)
  <2>1. Typed
    BY <1>6, <1>c DEF Uninstall, CallPC
  <2> QED
    BY <1>6, <1>g, <2>1 DEF Uninstall, Shape, TypeOK
<1>7. CASE Crash(t)
  BY <1>7, <1>f DEF Crash, Bad
<1>8. CASE End(t)
  <2>1. s_hid_driver \in Heap
    BY <1>8, BadNone DEF End
  <2>2. CASE Return(t) /\ UNCHANGED driver
    BY <1>8, <2>1, <2>2, <1>t, <1>g, <1>r DEF End
  <2>3. CASE Goto(t, "unblock") /\ driver' = Set("ending", TRUE)
    <3>1. driver' \in [Heap -> Driver]
      BY <1>t, <2>1, <2>3, SetEffect
    <3>2. Typed
      BY <2>3, <1>c DEF CallPC
    <3> QED
      BY <1>8, <2>1, <1>g, <3>1, <3>2 DEF End
  <2> QED
    BY <1>8, <2>2, <2>3 DEF End
<1>9. CASE Unblock(t)
  <2>1. s_hid_driver \in Heap
    BY <1>9, BadNone DEF Unblock
  <2>2. CASE /\ driver' = Set("unblocked", TRUE)
             /\ call' = [call EXCEPT ![t] = [pc |-> "wait", drv |-> s_hid_driver]]
    <3>1. driver' \in [Heap -> Driver]
      BY <1>t, <2>1, <2>2, SetEffect
    <3>2. Typed
      BY <2>1, <2>2, <1>p DEF CallPC
    <3> QED
      BY <1>9, <2>1, <1>g, <3>1, <3>2 DEF Unblock
  <2>3. CASE UNCHANGED driver /\ Goto(t, "deregister")
    <3>1. Typed
      BY <2>3, <1>c DEF CallPC
    <3> QED
      BY <1>9, <1>t, <2>1, <2>3, <1>g, <3>1 DEF Unblock
  <2> QED
    BY <1>9, <2>2, <2>3 DEF Unblock
<1>10. CASE Wait(t)
  <2>1. call[t].drv \in Heap
    BY <1>10 DEF Wait, At, Shape, TypeOK
  <2>2. Typed /\ driver' \in [Heap -> Driver]
    BY <1>t, <1>10, <1>c, <2>1, DriverUpdates DEF Wait, CallPC
  <2> QED
    BY <1>10, <1>g, <2>2 DEF Wait, Shape, TypeOK
<1>11. CASE Deregister(t)
  <2>1. s_hid_driver \in Heap
    BY <1>11, BadNone DEF Deregister
  <2>2. CASE Fails("abort")
    BY <2>2, <1>f
  <2>3. CASE /\ driver' = Set("client", FALSE) /\ Goto(t, "free")
             /\ UNCHANGED <<s_hid_driver, loop, fault>>
    <3>1. driver' \in [Heap -> Driver]
      BY <1>t, <2>1, <2>3, SetEffect
    <3>2. Typed
      BY <2>3, <1>c DEF CallPC
    <3> QED
      BY <2>1, <2>3, <1>g, <3>1, <3>2
  <2> QED
    BY <1>11, <2>2, <2>3 DEF Deregister
<1>12. CASE Free(t)
  <2>1. Typed
    BY <1>12, <1>c DEF Free, CallPC
  <2>2. s_hid_driver \in Heap \cup {Null}
    BY DEF Shape, TypeOK
  <2>3. driver' \in [Heap -> Driver]
    BY <1>12, <1>t, <2>2, DriverUpdates DEF Free
  <2> QED
    BY <1>12, <1>g, <2>1, <2>2, <2>3 DEF Free
<1>13. CASE Clear(t)
  BY <1>13, <1>t, <1>g, <1>r DEF Clear
<1> QED
  BY <1>1, <1>2, <1>3, <1>4, <1>5, <1>6, <1>7, <1>8, <1>9, <1>10, <1>11, <1>12,
     <1>13 DEF InstallStep, UninstallStep

LEMMA ShapeLoop ==
    ASSUME Shape, NEW l \in Loop, LoopNext(l)
    PROVE  Shape'
<1>t. /\ loop \in [Loop -> Loops] /\ driver \in [Heap -> Driver]
      /\ s_hid_driver \in Heap \cup {Null}
  BY DEF Shape, TypeOK, Loops
<1>g. ASSUME NEW pc \in LoopPC \ {"handle"}, LoopGoto(l, pc),
             driver' \in [Heap -> Driver],
             UNCHANGED <<s_hid_driver, call, fault>>
      PROVE  Shape'
  <2>1. /\ loop' \in [Loop -> Loops] /\ loop'[l].pc # "handle"
        /\ \A k \in Loop \ {l} : loop'[k] = loop[k]
    BY <1>t, <1>g, LoopEffect
  <2> QED
    BY <1>g, <2>1 DEF Shape, TypeOK, Loops
<1>1. CASE Check(l)
  BY <1>1, <1>t, <1>g DEF Check, LoopPC
<1>2. CASE Mark(l)
  <2>1. s_hid_driver \in Heap
    BY <1>2, BadNone DEF Mark
  <2>2. driver' \in [Heap -> Driver]
    BY <1>2, <1>t, <2>1, SetEffect DEF Mark
  <2>3. loop' = [loop EXCEPT ![l] = [pc |-> "handle", drv |-> s_hid_driver]]
    BY <1>2 DEF Mark
  <2>4. [pc |-> "handle", drv |-> s_hid_driver] \in Loops
    BY <2>1 DEF Loops, LoopPC
  <2> QED
    BY <1>2, <1>t, <2>1, <2>2, <2>3, <2>4 DEF Mark, Shape, TypeOK, Loops
<1>3. CASE HandleEvents(l)
  <2>1. loop[l].drv \in Heap
    BY <1>3 DEF HandleEvents, LoopAt, Shape
  <2>2. driver' \in [Heap -> Driver]
    BY <1>3, <1>t, <2>1, DriverUpdates DEF HandleEvents
  <2> QED
    BY <1>3, <1>g, <2>2 DEF HandleEvents, LoopPC
<1>6. CASE HandleFails(l)
  BY <1>6, <1>t, <1>g DEF HandleFails, LoopPC
<1>4. CASE Test(l)
  <2>1. s_hid_driver \in Heap
    BY <1>4, BadNone DEF Test
  <2>2. driver' \in [Heap -> Driver]
    BY <1>4, <1>t, <2>1, SetEffect DEF Test
  <2> QED
    BY <1>4, <1>g, <2>2 DEF Test, AfterEvents, LoopPC
<1>5. CASE LoopCrash(l)
  BY <1>5 DEF LoopCrash, Fails, Bad, Shape, TypeOK
<1> QED
  BY <1>1, <1>2, <1>3, <1>4, <1>5, <1>6 DEF LoopNext, LoopStep

\* Plugging and unplugging changes the device alone.
LEMMA PlugEffect ==
    ASSUME Shape, Plug \/ Unplug
    PROVE  /\ driver' \in [Heap -> Driver]
           /\ \A h \in Heap : /\ driver'[h].live = driver[h].live
                              /\ driver'[h].started = driver[h].started
                              /\ driver'[h].handled = driver[h].handled
           /\ UNCHANGED <<s_hid_driver, call, loop, fault>>
<1>t. driver \in [Heap -> Driver]
  BY DEF Shape, TypeOK
<1>1. \A r \in Driver, d \in {"none", "new", "open", "gone"} :
         /\ [r EXCEPT !.device = d] \in Driver
         /\ [r EXCEPT !.device = d].live = r.live
         /\ [r EXCEPT !.device = d].started = r.started
         /\ [r EXCEPT !.device = d].handled = r.handled
  BY DEF Driver
<1>2. CASE Plug
  <2>1. \A h \in Heap :
           driver'[h] \in {driver[h], [driver[h] EXCEPT !.device = "new"]}
    BY <1>2, <1>t DEF Plug
  <2>2. driver' = [h \in Heap |-> driver'[h]]
    BY <1>2 DEF Plug
  <2> QED
    BY <1>2, <1>t, <1>1, <2>1, <2>2 DEF Plug
<1>3. CASE Unplug
  <2>1. \A h \in Heap : \E d \in {"none", "new", "open", "gone"} :
           driver'[h] = [driver[h] EXCEPT !.device = d]
    <3>1. \A d \in {"none", "new", "open", "gone"} :
             (CASE d = "new" -> "none" [] d = "open" -> "gone" [] OTHER -> d)
                 \in {"none", "new", "open", "gone"}
      OBVIOUS
    <3>2. \A h \in Heap : driver[h].device \in {"none", "new", "open", "gone"}
      BY <1>t DEF Driver
    <3>3. \A h \in Heap :
             driver'[h] = [driver[h] EXCEPT !.device =
                              CASE @ = "new" -> "none"
                                [] @ = "open" -> "gone"
                                [] OTHER -> @]
      BY <1>3 DEF Unplug
    <3> QED
      BY <3>1, <3>2, <3>3
  <2>2. driver' = [h \in Heap |-> driver'[h]]
    BY <1>3 DEF Unplug
  <2>3. \A h \in Heap :
           /\ driver'[h] \in Driver
           /\ driver'[h].live = driver[h].live
           /\ driver'[h].started = driver[h].started
           /\ driver'[h].handled = driver[h].handled
    <3> TAKE h \in Heap
    <3>1. PICK d \in {"none", "new", "open", "gone"} :
             driver'[h] = [driver[h] EXCEPT !.device = d]
      BY <2>1
    <3>2. driver[h] \in Driver
      BY <1>t
    <3> QED
      BY <3>1, <3>2 DEF Driver
  <2>4. UNCHANGED <<s_hid_driver, call, loop, fault>>
    BY <1>3 DEF Unplug
  <2> QED
    BY <2>2, <2>3, <2>4
<1> QED
  BY <1>2, <1>3

LEMMA NextCases ==
    ASSUME [Next]_vars
    PROVE  \/ \E t \in Caller : InstallStep(t) \/ Uninstall(t) \/ UninstallStep(t)
           \/ \E l \in Loop : LoopNext(l)
           \/ Plug \/ Unplug
           \/ UNCHANGED <<s_hid_driver, driver, call, loop, fault>>
BY DEF Next, InstallStep, vars

LEMMA ShapeStep ==
    ASSUME Shape, [Next]_vars
    PROVE  Shape'
<1>1. CASE Plug \/ Unplug
  BY <1>1, PlugEffect DEF Shape, TypeOK
<1>2. CASE UNCHANGED <<s_hid_driver, driver, call, loop, fault>>
  BY <1>2 DEF Shape, TypeOK
<1> QED
  BY <1>1, <1>2, NextCases, ShapeCall, ShapeLoop

LEMMA ShapeInvariance == Spec => []Shape
BY ShapeInit, ShapeStep, PTL DEF Spec

\* Every variable keeps its type, whatever the callers do and whatever fails.
THEOREM TypeCorrect == Spec => []TypeOK
<1>1. Shape => TypeOK
  BY DEF Shape
<1> QED
  BY <1>1, ShapeInvariance, PTL

-----------------------------------------------------------------------------
(* A driver that is lost stays lost.                                       *)

Installs(t) == call[t].pc \in {"register", "publish", "task"}

\* The driver at address h is lost.
LostAt(h) ==
    /\ driver[h].live /\ h # s_hid_driver
    /\ \A t \in Caller : Installs(t) => call[t].drv # h

LEMMA LostIsAt == Lost <=> \E h \in Heap : LostAt(h)
BY DEF Lost, LostAt, Installs

LEMMA LostIsAtNext == Lost' <=> \E h \in Heap : LostAt(h)'
BY DEF Lost, LostAt, Installs

LEMMA LostStays ==
    ASSUME Shape, Lost, [Next]_vars
    PROVE  Lost'
<1> PICK h \in Heap : LostAt(h)
  BY LostIsAt
<1> SUFFICES LostAt(h)'
  BY LostIsAtNext
<1>t. /\ driver \in [Heap -> Driver] /\ call \in [Caller -> Calls]
      /\ s_hid_driver \in Heap \cup {Null} /\ h # Null
      /\ \A t \in Caller : call[t].drv \in Heap \cup {Null}
  BY AddressAssumption DEF Shape, TypeOK, Calls
<1>a. driver[h].live /\ h # s_hid_driver
  BY DEF LostAt
<1>c. ASSUME NEW t \in Caller, \A u \in Caller \ {t} : call'[u] = call[u],
             Installs(t)' => call'[t].drv # h,
             driver'[h].live, s_hid_driver' # h
      PROVE  LostAt(h)'
  BY <1>c DEF LostAt, Installs
<1>g. ASSUME NEW t \in Caller, NEW pc \in CallPC, Goto(t, pc),
             pc \in {"register", "publish", "task"} => Installs(t),
             driver'[h].live, s_hid_driver' # h
      PROVE  LostAt(h)'
  <2>1. /\ call'[t].pc = pc /\ call'[t].drv = call[t].drv
        /\ \A u \in Caller \ {t} : call'[u] = call[u]
    BY <1>t, <1>g, CallEffect
  <2> QED
    BY <1>g, <1>c, <2>1 DEF LostAt, Installs
<1>r. ASSUME NEW t \in Caller, Return(t), driver'[h].live, s_hid_driver' # h
      PROVE  LostAt(h)'
  <2>1. /\ call'[t].pc = "idle" /\ \A u \in Caller \ {t} : call'[u] = call[u]
    BY <1>t, <1>r, CallEffect DEF CallPC
  <2> QED
    BY <1>r, <1>c, <2>1 DEF Installs
<1>f. ASSUME NEW f, Fails(f)
      PROVE  LostAt(h)'
  BY <1>f DEF Fails, LostAt, Installs
<1>u. ASSUME NEW t \in Caller, Undo(t), Installs(t)
      PROVE  LostAt(h)'
  <2>1. call[t].drv # h
    BY <1>u DEF LostAt
  <2>2. driver'[h] = driver[h] /\ s_hid_driver' = Null
    BY <1>t, <1>u, <2>1 DEF Undo
  <2> QED
    BY <1>t, <1>a, <1>u, <1>r, <2>2 DEF Undo
<1>1. ASSUME NEW t \in Caller, InstallStep(t)
      PROVE  LostAt(h)'
  <2>1. CASE Install(t)
    <3>1. PICK k \in Heap :
             /\ ~driver[k].live
             /\ driver' = [driver EXCEPT ![k] = [NoDriver EXCEPT !.live = TRUE]]
             /\ call' = [call EXCEPT ![t] = [pc |-> "register", drv |-> k]]
      BY <2>1 DEF Install
    <3>2. k # h
      BY <1>a, <3>1
    <3>3. /\ call'[t].drv = k /\ \A u \in Caller \ {t} : call'[u] = call[u]
      BY <1>t, <3>1, CallEffect DEF CallPC
    <3> QED
      BY <1>t, <1>a, <1>c, <2>1, <3>1, <3>2, <3>3 DEF Install
  <2>2. CASE Register(t)
    <3>1. call[t].drv # h
      BY <2>2 DEF Register, At, LostAt, Installs
    <3> QED
      BY <1>t, <1>a, <1>g, <2>2, <3>1 DEF Register, At, Installs, CallPC
  <2>3. CASE RegisterFails(t) \/ PublishFails(t) \/ CreateTaskFails(t)
    BY <2>3, <1>u DEF RegisterFails, PublishFails, CreateTaskFails, At, Installs
  <2>4. CASE Publish(t)
    <3>1. call[t].drv # h
      BY <2>4 DEF Publish, At, LostAt, Installs
    <3> QED
      BY <1>a, <1>g, <2>4, <3>1 DEF Publish, At, Installs, CallPC
  <2>5. CASE CreateTask(t)
    BY <1>a, <1>r, <2>5 DEF CreateTask
  <2> QED
    BY <1>1, <2>1, <2>2, <2>3, <2>4, <2>5 DEF InstallStep
<1>2. ASSUME NEW t \in Caller, Uninstall(t) \/ UninstallStep(t)
      PROVE  LostAt(h)'
  <2>s. ASSUME NEW field \in {"client", "ending", "started", "handled", "unblocked"},
               NEW value \in BOOLEAN, driver' = Set(field, value),
               s_hid_driver \in Heap
        PROVE  driver'[h].live
    BY <1>t, <1>a, <2>s, SetEffect
  <2>1. CASE Uninstall(t)
    BY <1>a, <1>g, <2>1 DEF Uninstall, CallPC
  <2>2. CASE Crash(t)
    BY <2>2, <1>f DEF Crash
  <2>3. CASE End(t)
    <3>1. s_hid_driver \in Heap
      BY <2>3, BadNone DEF End
    <3>2. CASE Return(t) /\ UNCHANGED driver
      BY <1>a, <1>r, <2>3, <3>2 DEF End
    <3>3. CASE Goto(t, "unblock") /\ driver' = Set("ending", TRUE)
      BY <1>a, <1>g, <2>3, <2>s, <3>1, <3>3 DEF End, CallPC
    <3> QED
      BY <2>3, <3>2, <3>3 DEF End
  <2>4. CASE Unblock(t)
    <3>1. s_hid_driver \in Heap
      BY <2>4, BadNone DEF Unblock
    <3>2. CASE /\ driver' = Set("unblocked", TRUE)
               /\ call' = [call EXCEPT ![t] = [pc |-> "wait", drv |-> s_hid_driver]]
      <4>1. /\ call'[t].pc = "wait" /\ \A u \in Caller \ {t} : call'[u] = call[u]
        BY <1>t, <3>1, <3>2, CallEffect DEF CallPC
      <4> QED
        BY <1>a, <1>c, <2>4, <2>s, <3>1, <3>2, <4>1 DEF Unblock, Installs
    <3>3. CASE UNCHANGED driver /\ Goto(t, "deregister")
      BY <1>a, <1>g, <2>4, <3>3 DEF Unblock, CallPC
    <3> QED
      BY <2>4, <3>2, <3>3 DEF Unblock
  <2>5. CASE Wait(t)
    <3>1. driver'[h].live
      BY <1>t, <1>a, <2>5 DEF Wait, Driver
    <3> QED
      BY <1>a, <1>g, <2>5, <3>1 DEF Wait, CallPC
  <2>6. CASE Deregister(t)
    <3>1. s_hid_driver \in Heap
      BY <2>6, BadNone DEF Deregister
    <3>2. CASE Fails("abort")
      BY <3>2, <1>f
    <3>3. CASE /\ driver' = Set("client", FALSE) /\ Goto(t, "free")
               /\ UNCHANGED s_hid_driver
      BY <1>a, <1>g, <2>s, <3>1, <3>3 DEF CallPC
    <3> QED
      BY <2>6, <3>2, <3>3 DEF Deregister
  <2>7. CASE Free(t)
    <3>1. driver'[h].live
      BY <1>t, <1>a, <2>7 DEF Free
    <3> QED
      BY <1>a, <1>g, <2>7, <3>1 DEF Free, CallPC
  <2>8. CASE Clear(t)
    BY <1>t, <1>a, <1>r, <2>8 DEF Clear
  <2> QED
    BY <1>2, <2>1, <2>2, <2>3, <2>4, <2>5, <2>6, <2>7, <2>8 DEF UninstallStep
<1>3. ASSUME NEW l \in Loop, LoopNext(l)
      PROVE  LostAt(h)'
  <2>g. ASSUME driver'[h].live, UNCHANGED <<s_hid_driver, call>>
        PROVE  LostAt(h)'
    BY <2>g DEF LostAt, Installs
  <2>1. CASE Check(l)
    BY <1>a, <2>g, <2>1 DEF Check
  <2>2. CASE Mark(l)
    <3>1. driver'[h].live
      BY <1>t, <1>a, <2>2, BadNone, SetEffect DEF Mark
    <3> QED
      BY <2>g, <2>2, <3>1 DEF Mark
  <2>3. CASE HandleEvents(l)
    <3>1. driver'[h].live
      BY <1>t, <1>a, <2>3 DEF HandleEvents, Driver
    <3> QED
      BY <2>g, <2>3, <3>1 DEF HandleEvents
  <2>6. CASE HandleFails(l)
    BY <1>a, <2>g, <2>6 DEF HandleFails
  <2>4. CASE Test(l)
    <3>1. driver'[h].live
      BY <1>t, <1>a, <2>4, BadNone, SetEffect DEF Test
    <3> QED
      BY <2>g, <2>4, <3>1 DEF Test
  <2>5. CASE LoopCrash(l)
    BY <2>5, <1>f DEF LoopCrash
  <2> QED
    BY <1>3, <2>1, <2>2, <2>3, <2>4, <2>5, <2>6 DEF LoopNext, LoopStep
<1>4. CASE Plug \/ Unplug
  BY <1>4, PlugEffect DEF LostAt, Installs
<1>5. CASE UNCHANGED <<s_hid_driver, driver, call, loop, fault>>
  BY <1>5 DEF LostAt, Installs
<1> QED
  BY <1>1, <1>2, <1>3, <1>4, <1>5, NextCases

-----------------------------------------------------------------------------
(* Callers that wait for the background task.                              *)

\* A driver is uninstalled by one task, and when its events are handled.
Orderly == Patient /\ \A t, u \in Uninstaller : t = u

Uninstalls(t) ==
    call[t].pc \in {"end", "unblock", "wait", "deregister", "free"}

Runs(l) == loop[l].pc \in {"check", "mark", "handle", "test", "error"}

Idle == \A l \in Loop : ~Runs(l)

\* The installed driver is there, and nobody is still installing it.
Complete ==
    /\ s_hid_driver # Null
    /\ driver[s_hid_driver].live
    /\ \A t \in Caller : Installs(t) => call[t].drv # s_hid_driver

\* What a task installs is its own, and nobody's before it is published.
OwnDriver ==
    \A t \in Caller : Installs(t) =>
        /\ driver[call[t].drv].live
        /\ ~driver[call[t].drv].started /\ ~driver[call[t].drv].handled
        /\ \A u \in Caller \ {t} : Installs(u) => call[u].drv # call[t].drv
        /\ call[t].pc # "task" => call[t].drv # s_hid_driver

\* A background task runs only for a complete driver, and alone.
Served ==
    /\ (\E l \in Loop : Runs(l)) => Complete
    /\ \A k, l \in Loop : Runs(k) /\ Runs(l) => k = l

\* What is uninstalled is complete until it is freed, and its background task
\* has ended before it is let go.
LetGo ==
    \A t \in Caller : Uninstalls(t) =>
        /\ Complete /\ driver[s_hid_driver].started
        /\ call[t].pc = "wait" => call[t].drv = s_hid_driver
        /\ call[t].pc \in {"deregister", "free"} => Idle

\* Events are handled of a driver that is there, and the background task that
\* gives the semaphore has ended.
Handled ==
    /\ \A h \in Heap : driver[h].started => driver[h].live
    /\ s_hid_driver # Null /\ driver[s_hid_driver].live
          /\ driver[s_hid_driver].handled => Idle

Kept == OwnDriver /\ Served /\ LetGo /\ Handled

OnlyUninstaller ==
    \A t \in Caller :
        Uninstalls(t) \/ call[t].pc = "clear" => t \in Uninstaller

\* A fault is one of those that are said to be possible.
FaultShape == DriverOutlivesTask /\ AbortIsTheDevice

IInv == Shape /\ OnlyUninstaller /\ (Lost \/ Kept) /\ FaultShape

LEMMA IInvInit == Init => IInv
<1> SUFFICES ASSUME Init
             PROVE  IInv
  OBVIOUS
<1>1. Shape
  BY ShapeInit
<1>2. /\ \A t \in Caller : call[t].pc = "idle"
      /\ \A l \in Loop : loop[l].pc = "none"
      /\ s_hid_driver = Null /\ fault = "none"
      /\ \A h \in Heap : ~driver[h].started
  BY DEF Init, NoCall, NoLoop, NoDriver
<1> QED
  BY <1>1, <1>2
  DEF IInv, OnlyUninstaller, Kept, OwnDriver, Served, LetGo, Handled, Installs,
      Uninstalls, Runs, Idle, FaultShape, DriverOutlivesTask, AbortIsTheDevice

\* The driver a step lets go of though it is complete is lost.
LEMMA CompleteIsLost ==
    ASSUME Shape, Complete, s_hid_driver' # s_hid_driver,
           driver'[s_hid_driver].live,
           \A t \in Caller : Installs(t)' =>
               Installs(t) /\ call'[t].drv = call[t].drv
    PROVE  Lost'
<1>1. PICK h \in Heap : h = s_hid_driver
  BY DEF Shape, TypeOK, Complete
<1>2. LostAt(h)'
  BY <1>1 DEF LostAt, Complete
<1> QED
  BY <1>1, <1>2, LostIsAtNext

\* A step that leaves the pointer and the loops alone, and of the drivers
\* changes nothing that matters here.
LEMMA KeptAside ==
    ASSUME Shape, Kept, UNCHANGED <<s_hid_driver, loop>>, NEW t \in Caller,
           \A h \in Heap : /\ driver'[h].live = driver[h].live
                           /\ driver'[h].started = driver[h].started
                           /\ driver'[h].handled = driver[h].handled,
           \A u \in Caller \ {t} : call'[u] = call[u],
           Installs(t)' =>
               /\ Installs(t) /\ call'[t].drv = call[t].drv
               /\ call[t].pc = "task" => call'[t].pc = "task",
           Uninstalls(t)' =>
               /\ Complete /\ driver[s_hid_driver].started
               /\ call'[t].pc = "wait" => call'[t].drv = s_hid_driver
               /\ call'[t].pc \in {"deregister", "free"} => Idle
    PROVE  Kept'
<1>1. s_hid_driver \in Heap \cup {Null} /\ \A u \in Caller : Installs(u) => call[u].drv \in Heap
  BY DEF Shape, TypeOK, Installs
<1>2. OwnDriver'
  BY <1>1 DEF Kept, OwnDriver, Installs
<1>3. Idle' = Idle /\ \A l \in Loop : Runs(l)' = Runs(l)
  BY DEF Idle, Runs
<1>4. Complete => Complete'
  BY <1>1 DEF Complete, Installs
<1>5. Served'
  BY <1>3, <1>4 DEF Kept, Served
<1>6. LetGo'
  BY <1>1, <1>3, <1>4 DEF Kept, LetGo, Complete, Uninstalls
<1>7. Handled'
  BY <1>1, <1>3 DEF Kept, Handled
<1> QED
  BY <1>2, <1>5, <1>6, <1>7 DEF Kept

LEMMA KeptInstall ==
    ASSUME Shape, Shape', Kept, ~Lost', NEW t \in Caller, InstallStep(t)
    PROVE  Kept'
<1>t. /\ call \in [Caller -> Calls] /\ driver \in [Heap -> Driver]
      /\ s_hid_driver \in Heap \cup {Null} /\ Null \notin Heap
      /\ \A u \in Caller : Installs(u) => call[u].drv \in Heap
      /\ call[t].drv \in Heap \cup {Null}
  BY AddressAssumption DEF Shape, TypeOK, Calls, Installs
<1>n. ASSUME ~Complete
      PROVE  Idle /\ \A u \in Caller : ~Uninstalls(u)
  BY <1>n DEF Kept, Served, LetGo, Idle
<1>u. ASSUME Undo(t), Installs(t)
      PROVE  Kept'
  <2>1. /\ call'[t].pc = "idle" /\ \A u \in Caller \ {t} : call'[u] = call[u]
        /\ s_hid_driver' = Null /\ UNCHANGED loop
    BY <1>t, <1>u, CallEffect DEF Undo, CallPC
  <2>2. /\ \A h \in Heap \ {call[t].drv} : driver'[h] = driver[h]
        /\ ~driver'[call[t].drv].started
    BY <1>t, <1>u DEF Undo, NoDriver
  <2>3. ~Complete
    <3> SUFFICES ASSUME Complete
                 PROVE  FALSE
      OBVIOUS
    <3>1. s_hid_driver \in Heap /\ driver'[s_hid_driver].live
      BY <1>t, <1>u, <2>2 DEF Complete
    <3>2. \A u \in Caller : Installs(u)' => Installs(u) /\ call'[u].drv = call[u].drv
      BY <2>1 DEF Installs
    <3> QED
      BY <2>1, <3>1, <3>2, CompleteIsLost DEF Complete
  <2>4. Idle /\ \A u \in Caller : ~Uninstalls(u)
    BY <1>n, <2>3
  <2>5. OwnDriver'
    BY <1>t, <1>u, <2>1, <2>2 DEF Kept, OwnDriver, Installs
  <2> QED
    BY <2>1, <2>2, <2>4, <2>5
    DEF Kept, Served, LetGo, Handled, Idle, Runs, Uninstalls
<1>1. CASE Install(t)
  <2>1. PICK k \in Heap :
           /\ ~driver[k].live
           /\ driver' = [driver EXCEPT ![k] = [NoDriver EXCEPT !.live = TRUE]]
           /\ call' = [call EXCEPT ![t] = [pc |-> "register", drv |-> k]]
    BY <1>1 DEF Install
  <2>2. /\ call'[t].pc = "register" /\ call'[t].drv = k
        /\ \A u \in Caller \ {t} : call'[u] = call[u]
    BY <1>t, <2>1, CallEffect DEF CallPC
  <2>3. /\ driver'[k].live /\ ~driver'[k].started /\ ~driver'[k].handled
        /\ \A h \in Heap \ {k} : driver'[h] = driver[h]
    BY <1>t, <2>1 DEF NoDriver
  <2>4. s_hid_driver = Null /\ UNCHANGED <<s_hid_driver, loop>>
    BY <1>1 DEF Install
  <2>5. Idle /\ \A u \in Caller : ~Uninstalls(u)
    BY <1>n, <2>4 DEF Complete
  <2>6. OwnDriver'
    BY <1>t, <2>1, <2>2, <2>3, <2>4 DEF Kept, OwnDriver, Installs
  <2> QED
    BY <2>2, <2>3, <2>4, <2>5, <2>6
    DEF Kept, Served, LetGo, Handled, Idle, Runs, Uninstalls
<1>2. CASE Register(t)
  <2>1. /\ call'[t].pc = "publish" /\ call'[t].drv = call[t].drv
        /\ \A u \in Caller \ {t} : call'[u] = call[u]
    BY <1>t, <1>2, CallEffect DEF Register, CallPC
  <2>2. \A h \in Heap : /\ driver'[h].live = driver[h].live
                        /\ driver'[h].started = driver[h].started
                        /\ driver'[h].handled = driver[h].handled
    BY <1>t, <1>2 DEF Register, Driver
  <2> QED
    BY <1>2, <2>1, <2>2, KeptAside DEF Register, At, Installs, Uninstalls
<1>3. CASE RegisterFails(t) \/ PublishFails(t) \/ CreateTaskFails(t)
  BY <1>3, <1>u DEF RegisterFails, PublishFails, CreateTaskFails, At, Installs
<1>4. CASE Publish(t)
  <2>1. /\ call'[t].pc = "task" /\ call'[t].drv = call[t].drv
        /\ \A u \in Caller \ {t} : call'[u] = call[u]
    BY <1>t, <1>4, CallEffect DEF Publish, CallPC
  <2>2. Installs(t) /\ s_hid_driver = Null /\ s_hid_driver' = call[t].drv
    BY <1>4 DEF Publish, At, Installs
  <2>3. UNCHANGED <<driver, loop>>
    BY <1>4 DEF Publish
  <2>4. Idle /\ \A u \in Caller : ~Uninstalls(u)
    BY <1>n, <2>2 DEF Complete
  <2>5. OwnDriver'
    BY <1>t, <2>1, <2>2, <2>3 DEF Kept, OwnDriver, Installs
  <2> QED
    BY <2>1, <2>3, <2>4, <2>5
    DEF Kept, Served, LetGo, Handled, Idle, Runs, Uninstalls
<1>5. CASE CreateTask(t)
  <2>1. /\ call'[t].pc = "idle" /\ \A u \in Caller \ {t} : call'[u] = call[u]
        /\ Installs(t) /\ UNCHANGED <<s_hid_driver, driver>>
    BY <1>t, <1>5, CallEffect DEF CreateTask, At, Installs, CallPC
  <2>2. call[t].drv = s_hid_driver
    <3> SUFFICES ASSUME call[t].drv # s_hid_driver
                 PROVE  FALSE
      OBVIOUS
    <3> PICK h \in Heap : h = call[t].drv
      BY <1>t, <2>1
    <3>1. LostAt(h)'
      BY <2>1 DEF LostAt, Kept, OwnDriver, Installs
    <3> QED
      BY <3>1, LostIsAtNext
  <2>3. ~Complete
    BY <2>1, <2>2 DEF Complete
  <2>4. Idle /\ \A u \in Caller : ~Uninstalls(u)
    BY <1>n, <2>3
  <2>5. PICK l \in Loop : loop' = [loop EXCEPT ![l] = [NoLoop EXCEPT !.pc = "check"]]
    BY <1>5 DEF CreateTask
  <2>6. \A k \in Loop \ {l} : loop'[k] = loop[k]
    BY <2>5 DEF Shape, TypeOK
  <2>7. Complete'
    BY <1>t, <2>1, <2>2 DEF Complete, Kept, OwnDriver, Installs
  <2>8. OwnDriver'
    BY <1>t, <2>1 DEF Kept, OwnDriver, Installs
  <2>9. ~driver[s_hid_driver].handled
    BY <2>1, <2>2 DEF Kept, OwnDriver
  <2> QED
    BY <2>1, <2>4, <2>6, <2>7, <2>8, <2>9
    DEF Kept, Served, LetGo, Handled, Idle, Runs, Uninstalls
<1> QED
  BY <1>1, <1>2, <1>3, <1>4, <1>5 DEF InstallStep

LEMMA KeptUninstall ==
    ASSUME Orderly, Shape, OnlyUninstaller, Kept, ~Lost', NEW t \in Caller,
           Uninstall(t) \/ UninstallStep(t)
    PROVE  Kept'
<1>t. /\ call \in [Caller -> Calls] /\ driver \in [Heap -> Driver]
      /\ s_hid_driver \in Heap \cup {Null} /\ Null \notin Heap
      /\ call[t].drv \in Heap \cup {Null}
  BY AddressAssumption DEF Shape, TypeOK, Calls
<1>f. ASSUME NEW f, Fails(f)
      PROVE  Kept'
  BY <1>f
  DEF Fails, Kept, OwnDriver, Served, LetGo, Handled, Complete, Idle, Runs,
      Installs, Uninstalls
<1>u. Uninstalls(t) => /\ Complete /\ driver[s_hid_driver].started
                       /\ s_hid_driver \in Heap
  BY <1>t DEF Kept, LetGo, Complete
<1>o. Uninstalls(t) \/ call[t].pc = "clear" =>
         \A u \in Caller \ {t} : ~Uninstalls(u)
  BY DEF Orderly, OnlyUninstaller
<1>s. ASSUME NEW field \in {"client", "ending", "unblocked"},
             NEW value \in BOOLEAN, driver' = Set(field, value),
             s_hid_driver \in Heap
      PROVE  \A h \in Heap : /\ driver'[h].live = driver[h].live
                             /\ driver'[h].started = driver[h].started
                             /\ driver'[h].handled = driver[h].handled
  BY <1>t, <1>s DEF Set, Driver
<1>g. ASSUME NEW pc \in CallPC, Goto(t, pc)
      PROVE  /\ call'[t].pc = pc /\ call'[t].drv = call[t].drv
             /\ \A u \in Caller \ {t} : call'[u] = call[u]
  BY <1>t, <1>g, CallEffect
<1>1. CASE Uninstall(t)
  <2>1. /\ call[t].pc = "idle" /\ s_hid_driver \in Heap
        /\ driver[s_hid_driver].started
    BY <1>1, <1>t DEF Uninstall, At, Orderly
  <2>2. Complete
    BY <1>t, <2>1 DEF Kept, OwnDriver, Handled, Complete
  <2>3. /\ call'[t].pc = "end" /\ \A u \in Caller \ {t} : call'[u] = call[u]
    BY <1>1, <1>g DEF Uninstall, CallPC
  <2> QED
    BY <1>1, <2>1, <2>2, <2>3, KeptAside DEF Uninstall, Installs
<1>2. CASE Crash(t)
  BY <1>2, <1>f DEF Crash
<1>3. CASE End(t)
  <2>1. Uninstalls(t)
    BY <1>3 DEF End, At, Uninstalls
  <2>2. CASE Return(t) /\ UNCHANGED driver
    <3>1. /\ call'[t].pc = "idle" /\ \A u \in Caller \ {t} : call'[u] = call[u]
      BY <1>t, <2>2, CallEffect DEF CallPC
    <3> QED
      BY <1>3, <2>2, <3>1, KeptAside DEF End, Installs, Uninstalls
  <2>3. CASE Goto(t, "unblock") /\ driver' = Set("ending", TRUE)
    <3>1. /\ call'[t].pc = "unblock" /\ \A u \in Caller \ {t} : call'[u] = call[u]
      BY <2>3, <1>g DEF CallPC
    <3> QED
      BY <1>3, <1>u, <1>s, <2>1, <2>3, <3>1, KeptAside DEF End, Installs
  <2> QED
    BY <1>3, <2>2, <2>3 DEF End
<1>4. CASE Unblock(t)
  <2>1. Uninstalls(t)
    BY <1>4 DEF Unblock, At, Uninstalls
  <2>2. /\ driver' = Set("unblocked", TRUE)
        /\ call' = [call EXCEPT ![t] = [pc |-> "wait", drv |-> s_hid_driver]]
    BY <1>4, <1>u, <2>1 DEF Unblock
  <2>3. /\ call'[t].pc = "wait" /\ call'[t].drv = s_hid_driver
        /\ \A u \in Caller \ {t} : call'[u] = call[u]
    BY <1>t, <2>2, CallEffect DEF CallPC
  <2> QED
    BY <1>4, <1>u, <1>s, <2>1, <2>2, <2>3, KeptAside DEF Unblock, Installs
<1>5. CASE Wait(t)
  <2>1. /\ Uninstalls(t) /\ call[t].drv = s_hid_driver
        /\ driver[s_hid_driver].handled
    BY <1>5 DEF Wait, At, Uninstalls, Kept, LetGo
  <2>2. Idle /\ Complete /\ s_hid_driver \in Heap
    BY <1>u, <2>1 DEF Kept, Handled, Complete
  <2>3. /\ call'[t].pc = "deregister" /\ \A u \in Caller \ {t} : call'[u] = call[u]
    BY <1>5, <1>g DEF Wait, CallPC
  <2>4. /\ \A h \in Heap : /\ driver'[h].live = driver[h].live
                           /\ driver'[h].started = driver[h].started
        /\ \A h \in Heap \ {s_hid_driver} : driver'[h] = driver[h]
        /\ UNCHANGED <<s_hid_driver, loop>>
    BY <1>5, <1>t, <2>1 DEF Wait, Driver
  <2>5. Complete' /\ Idle'
    BY <2>2, <2>3, <2>4 DEF Complete, Idle, Runs, Installs
  <2>6. OwnDriver'
    BY <2>2, <2>3, <2>4 DEF Kept, OwnDriver, Complete, Shape, TypeOK, Installs
  <2>7. LetGo'
    BY <1>u, <1>o, <2>1, <2>3, <2>4, <2>5 DEF LetGo, Uninstalls
  <2> QED
    BY <2>4, <2>5, <2>6, <2>7 DEF Kept, Served, Handled, Idle
<1>6. CASE Deregister(t)
  <2>1. Uninstalls(t) /\ Idle
    BY <1>6 DEF Deregister, At, Uninstalls, Kept, LetGo
  <2>2. CASE Fails("abort")
    BY <2>2, <1>f
  <2>3. CASE /\ driver' = Set("client", FALSE) /\ Goto(t, "free")
             /\ UNCHANGED <<s_hid_driver, loop>>
    <3>1. /\ call'[t].pc = "free" /\ \A u \in Caller \ {t} : call'[u] = call[u]
      BY <2>3, <1>g DEF CallPC
    <3> QED
      BY <1>u, <1>s, <2>1, <2>3, <3>1, KeptAside DEF Installs
  <2> QED
    BY <1>6, <2>2, <2>3 DEF Deregister
<1>7. CASE Free(t)
  <2>1. Uninstalls(t) /\ Idle
    BY <1>7 DEF Free, At, Uninstalls, Kept, LetGo
  <2>2. /\ call'[t].pc = "clear" /\ \A u \in Caller \ {t} : call'[u] = call[u]
    BY <1>7, <1>g DEF Free, CallPC
  <2>3. /\ ~driver'[s_hid_driver].live /\ ~driver'[s_hid_driver].started
        /\ \A h \in Heap \ {s_hid_driver} : driver'[h] = driver[h]
        /\ UNCHANGED <<s_hid_driver, loop>>
    BY <1>7, <1>t, <1>u, <2>1 DEF Free, NoDriver
  <2>4. \A u \in Caller : ~Uninstalls(u)'
    BY <1>o, <2>1, <2>2 DEF Uninstalls
  <2>5. Idle'
    BY <2>1, <2>3 DEF Idle, Runs
  <2>6. OwnDriver'
    <3>1. \A u \in Caller : Installs(u) => call[u].drv \in Heap \ {s_hid_driver}
      BY <1>u, <2>1 DEF Complete, Shape, TypeOK, Installs
    <3>2. \A u \in Caller : Installs(u)' => u # t /\ Installs(u)
      BY <2>2 DEF Installs
    <3> QED
      BY <2>2, <2>3, <3>1, <3>2 DEF Kept, OwnDriver
  <2> QED
    BY <2>3, <2>4, <2>5, <2>6 DEF Kept, Served, LetGo, Handled, Idle
<1>8. CASE Clear(t)
  <2>1. /\ call[t].pc = "clear" /\ s_hid_driver' = Null
        /\ UNCHANGED <<driver, loop>>
    BY <1>8 DEF Clear, At
  <2>2. /\ call'[t].pc = "idle" /\ \A u \in Caller \ {t} : call'[u] = call[u]
    BY <1>8, <1>t, CallEffect DEF Clear, CallPC
  <2>3. ~Complete
    <3> SUFFICES ASSUME Complete
                 PROVE  FALSE
      OBVIOUS
    <3>1. \A u \in Caller : Installs(u)' => Installs(u) /\ call'[u].drv = call[u].drv
      BY <2>2 DEF Installs
    <3> QED
      BY <2>1, <3>1, CompleteIsLost DEF Complete
  <2>4. Idle'
    BY <2>1, <2>3 DEF Kept, Served, Idle, Runs
  <2>5. \A u \in Caller : ~Uninstalls(u)'
    BY <1>o, <2>1, <2>2 DEF Uninstalls
  <2>6. OwnDriver'
    BY <1>t, <2>1, <2>2 DEF Kept, OwnDriver, Shape, TypeOK, Installs
  <2> QED
    BY <2>1, <2>4, <2>5, <2>6 DEF Kept, Served, LetGo, Handled, Idle
<1> QED
  BY <1>1, <1>2, <1>3, <1>4, <1>5, <1>6, <1>7, <1>8 DEF UninstallStep

\* While a background task runs, what it works on is the complete driver.
LEMMA KeptLoop ==
    ASSUME Shape, Kept, NEW l \in Loop, LoopNext(l)
    PROVE  Kept'
<1>t. /\ loop \in [Loop -> Loops] /\ driver \in [Heap -> Driver]
  BY DEF Shape, TypeOK, Loops
<1>r. Runs(l) /\ Complete /\ s_hid_driver \in Heap
  <2>1. Runs(l)
    BY DEF LoopNext, LoopStep, Check, Mark, HandleEvents, HandleFails, Test, LoopCrash,
           LoopAt, Runs
  <2> QED
    BY <2>1 DEF Kept, Served, Complete, Shape, TypeOK
<1>g. ASSUME UNCHANGED <<s_hid_driver, call>>,
             \A k \in Loop : Runs(k)' => Runs(k),
             \A h \in Heap : /\ driver'[h].live = driver[h].live
                             /\ h # s_hid_driver =>
                                  /\ driver'[h].started = driver[h].started
                                  /\ driver'[h].handled = driver[h].handled,
             driver[s_hid_driver].started => driver'[s_hid_driver].started,
             driver'[s_hid_driver].handled => driver[s_hid_driver].handled \/ Idle'
      PROVE  Kept'
  <2>1. Complete' /\ \A t \in Caller : Installs(t)' = Installs(t)
    BY <1>r, <1>g DEF Complete, Installs
  <2>2. OwnDriver'
    BY <1>r, <1>g, <2>1 DEF Kept, OwnDriver, Complete, Shape, TypeOK, Installs
  <2>3. Idle => Idle'
    BY <1>g DEF Idle
  <2>4. Served'
    BY <1>g, <2>1 DEF Kept, Served
  <2>5. LetGo'
    BY <1>g, <2>1, <2>3 DEF Kept, LetGo, Uninstalls
  <2>6. Handled'
    BY <1>r, <1>g, <2>1, <2>3 DEF Kept, Handled, Complete
  <2> QED
    BY <2>2, <2>4, <2>5, <2>6 DEF Kept
<1>l. ASSUME NEW pc \in LoopPC, LoopGoto(l, pc)
      PROVE  /\ loop'[l].pc = pc /\ \A k \in Loop \ {l} : loop'[k] = loop[k]
  BY <1>t, <1>l, LoopEffect
<1>1. CASE Check(l)
  <2>1. \A k \in Loop \ {l} : loop'[k] = loop[k]
    BY <1>1, <1>l DEF Check, LoopPC
  <2>2. \A k \in Loop : Runs(k)' => Runs(k)
    BY <1>r, <2>1 DEF Runs
  <2> QED
    BY <1>1, <1>g, <2>2 DEF Check
<1>2. CASE Mark(l)
  <2>1. loop' = [loop EXCEPT ![l] = [pc |-> "handle", drv |-> s_hid_driver]]
    BY <1>2 DEF Mark
  <2>2. \A k \in Loop \ {l} : loop'[k] = loop[k]
    BY <1>t, <2>1
  <2>3. \A k \in Loop : Runs(k)' => Runs(k)
    BY <1>r, <2>2 DEF Runs
  <2>4. /\ \A h \in Heap : /\ driver'[h].live = driver[h].live
                           /\ driver'[h].handled = driver[h].handled
        /\ \A h \in Heap \ {s_hid_driver} : driver'[h] = driver[h]
        /\ driver'[s_hid_driver].started
    BY <1>2, <1>t, <1>r DEF Mark, Set, Driver
  <2> QED
    BY <1>2, <1>g, <1>r, <2>3, <2>4 DEF Mark
<1>3. CASE HandleEvents(l)
  <2>1. \A k \in Loop \ {l} : loop'[k] = loop[k]
    BY <1>3, <1>l DEF HandleEvents, LoopPC
  <2>2. \A k \in Loop : Runs(k)' => Runs(k)
    BY <1>r, <2>1 DEF Runs
  <2>3. \A h \in Heap : /\ driver'[h].live = driver[h].live
                        /\ driver'[h].started = driver[h].started
                        /\ driver'[h].handled = driver[h].handled
    BY <1>3, <1>t DEF HandleEvents, Driver
  <2> QED
    BY <1>3, <1>g, <1>r, <2>2, <2>3 DEF HandleEvents
<1>6. CASE HandleFails(l)
  <2>1. \A k \in Loop \ {l} : loop'[k] = loop[k]
    BY <1>6, <1>l DEF HandleFails, LoopPC
  <2>2. \A k \in Loop : Runs(k)' => Runs(k)
    BY <1>r, <2>1 DEF Runs
  <2> QED
    BY <1>6, <1>g, <2>2 DEF HandleFails
<1>4. CASE Test(l)
  <2>1. CASE driver' = Set("handled", TRUE) /\ LoopGoto(l, "ended")
    <3>1. loop'[l].pc = "ended" /\ \A k \in Loop \ {l} : loop'[k] = loop[k]
      BY <2>1, <1>l DEF LoopPC
    <3>2. Idle'
      BY <1>r, <3>1 DEF Idle, Runs, Kept, Served
    <3>3. \A k \in Loop : Runs(k)' => Runs(k)
      BY <3>2 DEF Idle
    <3>4. /\ \A h \in Heap : /\ driver'[h].live = driver[h].live
                             /\ driver'[h].started = driver[h].started
          /\ \A h \in Heap \ {s_hid_driver} : driver'[h] = driver[h]
      BY <2>1, <1>t, <1>r DEF Set, Driver
    <3> QED
      BY <1>4, <1>g, <1>r, <3>2, <3>3, <3>4 DEF Test
  <2>2. CASE UNCHANGED driver /\ LoopGoto(l, AfterEvents(l))
    <3>1. \A k \in Loop \ {l} : loop'[k] = loop[k]
      BY <2>2, <1>l DEF AfterEvents, LoopPC
    <3>2. \A k \in Loop : Runs(k)' => Runs(k)
      BY <1>r, <3>1 DEF Runs
    <3> QED
      BY <1>4, <1>g, <2>2, <3>2 DEF Test
  <2> QED
    BY <1>4, <2>1, <2>2 DEF Test
<1>5. CASE LoopCrash(l)
  BY <1>5, <1>g DEF LoopCrash, Fails, Runs
<1> QED
  BY <1>1, <1>2, <1>3, <1>4, <1>5, <1>6 DEF LoopNext, LoopStep

LEMMA KeptStep ==
    ASSUME Orderly, Shape, Shape', OnlyUninstaller, Kept, ~Lost', [Next]_vars
    PROVE  Kept'
<1>1. CASE Plug \/ Unplug
  <2>1. /\ \A h \in Heap : /\ driver'[h].live = driver[h].live
                           /\ driver'[h].started = driver[h].started
                           /\ driver'[h].handled = driver[h].handled
        /\ UNCHANGED <<s_hid_driver, call, loop>>
    BY <1>1, PlugEffect
  <2>2. \A t \in Caller : Installs(t) => call[t].drv \in Heap
    BY DEF Shape, TypeOK, Installs
  <2>3. s_hid_driver \in Heap \cup {Null}
    BY DEF Shape, TypeOK
  <2>4. Complete' = Complete /\ Idle' = Idle
    BY <2>1, <2>3 DEF Complete, Idle, Runs, Installs
  <2>5. OwnDriver' /\ Served'
    BY <2>1, <2>2, <2>4 DEF Kept, OwnDriver, Served, Installs, Runs
  <2>6. LetGo' /\ Handled'
    BY <2>1, <2>3, <2>4 DEF Kept, LetGo, Handled, Uninstalls, Complete
  <2> QED
    BY <2>5, <2>6 DEF Kept
<1>2. CASE UNCHANGED <<s_hid_driver, driver, call, loop, fault>>
  BY <1>2
  DEF Kept, OwnDriver, Served, LetGo, Handled, Complete, Idle, Runs, Installs,
      Uninstalls
<1> QED
  BY <1>1, <1>2, NextCases, KeptInstall, KeptUninstall, KeptLoop

LEMMA UninstallerStep ==
    ASSUME Shape, OnlyUninstaller, [Next]_vars
    PROVE  OnlyUninstaller'
<1>t. /\ call \in [Caller -> Calls] /\ Null \notin Heap
      /\ \A t \in Caller : call[t].drv \in Heap \cup {Null}
  BY AddressAssumption DEF Shape, TypeOK, Calls
<1>g. ASSUME NEW t \in Caller, \A u \in Caller \ {t} : call'[u] = call[u],
             \/ call'[t].pc \in {"idle", "register", "publish", "task"}
             \/ t \in Uninstaller
      PROVE  OnlyUninstaller'
  BY <1>g DEF OnlyUninstaller, Uninstalls
<1>1. ASSUME NEW t \in Caller, InstallStep(t)
      PROVE  OnlyUninstaller'
  <2>1. ASSUME NEW pc \in {"register", "publish", "task"},
               \/ Goto(t, pc)
               \/ \E h \in Heap : call' = [call EXCEPT ![t] = [pc |-> pc, drv |-> h]]
        PROVE  OnlyUninstaller'
    <3>1. /\ call'[t].pc = pc /\ \A u \in Caller \ {t} : call'[u] = call[u]
      BY <2>1, <1>t, CallEffect DEF CallPC
    <3> QED
      BY <1>g, <3>1
  <2>2. ASSUME Return(t)
        PROVE  OnlyUninstaller'
    <3>1. /\ call'[t].pc = "idle" /\ \A u \in Caller \ {t} : call'[u] = call[u]
      BY <2>2, <1>t, CallEffect DEF CallPC
    <3> QED
      BY <1>g, <3>1
  <2> QED
    BY <1>1, <2>1, <2>2
    DEF InstallStep, Install, Register, RegisterFails, Publish, PublishFails,
        CreateTask, CreateTaskFails, Undo
<1>2. ASSUME NEW t \in Caller, Uninstall(t) \/ UninstallStep(t)
      PROVE  OnlyUninstaller'
  <2>1. t \in Uninstaller
    BY <1>2
    DEF Uninstall, UninstallStep, Crash, End, Unblock, Wait, Deregister, Free,
        Clear, At, OnlyUninstaller, Uninstalls
  <2>2. \A u \in Caller \ {t} : call'[u] = call[u]
    BY <1>2, <1>t
    DEF Uninstall, UninstallStep, Crash, End, Unblock, Wait, Deregister, Free,
        Clear, Goto, Return, Fails
  <2> QED
    BY <1>g, <2>1, <2>2
<1>3. CASE UNCHANGED call
  BY <1>3 DEF OnlyUninstaller, Uninstalls
<1>4. ASSUME NEW l \in Loop, LoopNext(l)
      PROVE  UNCHANGED call
  BY <1>4
  DEF LoopNext, LoopStep, Check, Mark, HandleEvents, HandleFails, Test, LoopCrash, Fails
<1> QED
  BY <1>1, <1>2, <1>3, <1>4, NextCases, PlugEffect

\* A fault is the end.
LEMMA Frozen ==
    ASSUME Shape, fault # "none", [Next]_vars
    PROVE  UNCHANGED <<s_hid_driver, driver, call, loop, fault>>
BY NextCases
DEF InstallStep, Install, Register, RegisterFails, Publish, PublishFails,
    CreateTask, CreateTaskFails, Uninstall, UninstallStep, Crash, End, Unblock,
    Wait, Deregister, Free, Clear, At, LoopNext, LoopStep, Check, Mark, HandleEvents, HandleFails,
    Test,
    LoopCrash, LoopAt, Plug, Unplug

LEMMA FaultStep ==
    ASSUME IInv, ~Lost, ~Lost', [Next]_vars
    PROVE  FaultShape'
<1> USE DEF FaultShape, DriverOutlivesTask, AbortIsTheDevice
<1>k. Kept /\ Shape
  BY DEF IInv
<1>b. Complete => Bad = "none"
  BY DEF Complete, Bad
<1>1. CASE fault # "none"
  <2>1. UNCHANGED <<s_hid_driver, driver, call, loop, fault>>
    BY <1>k, <1>1, Frozen
  <2> QED
    BY <2>1 DEF IInv
<1>2. CASE fault = "none" /\ UNCHANGED fault
  BY <1>2
<1>3. ASSUME NEW t \in Caller, Crash(t)
      PROVE  FALSE
  BY <1>k, <1>b, <1>3 DEF Crash, Kept, LetGo, Uninstalls
<1>4. ASSUME NEW l \in Loop, LoopCrash(l)
      PROVE  FALSE
  BY <1>k, <1>b, <1>4 DEF LoopCrash, Kept, Served, Runs
<1>5. ASSUME NEW t \in Caller, Deregister(t)
      PROVE  FaultShape'
  <2>1. Uninstalls(t) /\ Idle
    BY <1>k, <1>5 DEF Deregister, At, Uninstalls, Kept, LetGo
  <2>2. InUse(s_hid_driver) => driver[s_hid_driver].device \in {"open", "gone"}
    BY <2>1 DEF InUse, Idle, Runs
  <2>3. CASE Fails("abort") /\ InUse(s_hid_driver)
    BY <2>2, <2>3 DEF Fails
  <2> QED
    BY <1>2, <1>5, <2>3 DEF Deregister, At
<1>6. ASSUME NEW t \in Caller, InstallStep(t) \/ Uninstall(t)
      PROVE  UNCHANGED fault
  BY <1>6
  DEF InstallStep, Install, Register, RegisterFails, Publish, PublishFails,
      CreateTask, CreateTaskFails, Undo, Uninstall
<1>7. ASSUME NEW t \in Caller, UninstallStep(t)
      PROVE  Crash(t) \/ Deregister(t) \/ UNCHANGED fault
  BY <1>7 DEF UninstallStep, End, Unblock, Wait, Free, Clear
<1>8. ASSUME NEW l \in Loop, LoopNext(l)
      PROVE  LoopCrash(l) \/ UNCHANGED fault
  BY <1>8 DEF LoopNext, LoopStep, Check, Mark, HandleEvents, HandleFails, Test
<1>9. Plug \/ Unplug => UNCHANGED fault
  BY DEF Plug, Unplug
<1> QED
  BY <1>1, <1>2, <1>3, <1>4, <1>5, <1>6, <1>7, <1>8, <1>9, NextCases

LEMMA IInvStep ==
    ASSUME Orderly, IInv, [Next]_vars
    PROVE  IInv'
<1>1. Shape /\ Shape' /\ OnlyUninstaller'
  BY ShapeStep, UninstallerStep DEF IInv
<1>2. CASE Lost'
  <2>1. FaultShape'
    BY <1>2 DEF FaultShape, DriverOutlivesTask, AbortIsTheDevice
  <2> QED
    BY <1>1, <1>2, <2>1 DEF IInv
<1>3. CASE ~Lost'
  <2>1. ~Lost /\ Kept
    BY <1>1, <1>3, LostStays DEF IInv
  <2>2. Kept' /\ FaultShape'
    BY <1>1, <1>3, <2>1, KeptStep, FaultStep DEF IInv
  <2> QED
    BY <1>1, <2>2 DEF IInv
<1> QED
  BY <1>2, <1>3

LEMMA Invariance == Orderly => (Spec => []IInv)
<1> SUFFICES ASSUME Orderly
             PROVE  Spec => []IInv
  OBVIOUS
<1>1. IInv /\ [Next]_vars => IInv'
  BY IInvStep
<1> QED
  BY IInvInit, <1>1, PTL DEF Spec

\* Neither the background task nor hid_host_uninstall reads through a pointer
\* that is null or freed, as long as no driver was lost
\* (hid_host_handle_events, hid_host_uninstall).
THEOREM DriverIsThere == Orderly => (Spec => []DriverOutlivesTask)
<1> SUFFICES ASSUME Orderly
             PROVE  Spec => []DriverOutlivesTask
  OBVIOUS
<1>1. IInv => DriverOutlivesTask
  BY DEF IInv, FaultShape
<1> QED
  BY <1>1, Invariance, PTL

\* usb_host_client_deregister never finds the background task in the library:
\* if it refuses, a device is open (hid_host_uninstall).
THEOREM WaitSuffices == Orderly => (Spec => []AbortIsTheDevice)
<1> SUFFICES ASSUME Orderly
             PROVE  Spec => []AbortIsTheDevice
  OBVIOUS
<1>1. IInv => AbortIsTheDevice
  BY DEF IInv, FaultShape
<1> QED
  BY <1>1, Invariance, PTL
=============================================================================

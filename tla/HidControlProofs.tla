-------------------------- MODULE HidControlProofs --------------------------
(***************************************************************************)
(* Theorems about HidControl for every set of tasks and buffers and every  *)
(* size.  The mutex holds under every failure; that a request gets its own *)
(* answer, and that the requests implement SyncRequest, is proved for a    *)
(* device that answers in time and an allocation that does not fail        *)
(* (Orderly), because it is not true otherwise.                            *)
(***************************************************************************)
EXTENDS HidControl, TLAPS

-----------------------------------------------------------------------------
(* Updates of the records.                                                 *)

LEMMA CallUpdates ==
    ASSUME call \in [Task -> Call], NEW t \in Task
    PROVE  /\ NoCall \in Call
           /\ \A pc \in PC : Goto(t, pc) => call' \in [Task -> Call]
           /\ \A r \in {"ok", "cached", "busy", "error"} :
                 /\ Finish(t, r) => call' \in [Task -> Call]
                 /\ Return(t, r) => call' \in [Task -> Call]
           /\ \A c \in Call :
                 call' = [call EXCEPT ![t] = c] => call' \in [Task -> Call]
<1>1. NoCall \in Call
  BY DEF Call, NoCall, PC
<1>2. \A pc \in PC : [call[t] EXCEPT !.pc = pc] \in Call
  BY DEF Call
<1>3. \A r \in {"ok", "cached", "busy", "error"} :
         /\ [call[t] EXCEPT !.pc = "unlock", !.result = r] \in Call
         /\ [NoCall EXCEPT !.req = call[t].req, !.result = r] \in Call
  BY DEF Call, PC, NoCall
<1> QED
  BY <1>1, <1>2, <1>3 DEF Goto, Finish, Return

LEMMA BufferUpdates ==
    ASSUME buffer \in [Buffer -> Transfer], NEW b \in Buffer
    PROVE  /\ NoTransfer \in Transfer
           /\ \A n \in Nat : NewTransfer(n) \in Transfer
           /\ [buffer EXCEPT ![b] = NoTransfer] \in [Buffer -> Transfer]
           /\ \A u \in Task \cup {Nobody} :
                 [buffer EXCEPT ![b].setup = u, ![b].data = Nobody]
                     \in [Buffer -> Transfer]
           /\ \A f \in {"idle", "pending", "finished"} :
                 /\ [buffer EXCEPT ![b].flight = f] \in [Buffer -> Transfer]
                 /\ \A u \in Task \cup {Nobody} :
                       [buffer EXCEPT ![b].flight = f, ![b].carried = u]
                           \in [Buffer -> Transfer]
<1>1. NoTransfer \in Transfer
  BY DEF Transfer, NoTransfer
<1>2. \A n \in Nat : NewTransfer(n) \in Transfer
  BY DEF Transfer, NoTransfer, NewTransfer
<1>3. \A u \in Task \cup {Nobody} :
         [buffer[b] EXCEPT !.setup = u, !.data = Nobody] \in Transfer
  BY DEF Transfer
<1>4. \A f \in {"idle", "pending", "finished"} :
         /\ [buffer[b] EXCEPT !.flight = f] \in Transfer
         /\ \A u \in Task \cup {Nobody} :
               [buffer[b] EXCEPT !.flight = f, !.carried = u] \in Transfer
  BY DEF Transfer
<1> QED
  BY <1>1, <1>2, <1>3, <1>4

-----------------------------------------------------------------------------
(* Who takes a step.                                                       *)

\* A step of the task t in or into a call.
Step(t) ==
    \/ \E req \in Requests : Ask(t, req)
    \/ AskDescriptor(t) \/ RecallDescriptor(t)
    \/ TaskNext(t)

\* A step of the bus or the driver task.
BusStep == \E b \in Buffer : Complete(b) \/ Stall(b) \/ CtrlXferDone(b)

\* A call past its first steps has a pointer to a transfer.
Pointers ==
    \A t \in Task : call[t].pc \notin {"idle", "malloc"} => call[t].xfer \in Buffer

LEMMA NextCases == Next <=> (BusStep \/ \E t \in Task : Step(t))
BY DEF Next, Step, BusStep

LEMMA TypeInit == Init => TypeOK
<1> SUFFICES ASSUME Init
             PROVE  TypeOK
  OBVIOUS
<1>1. NoCall \in Call
  BY DEF NoCall, Call, PC
<1>2. NoTransfer \in Transfer /\ NewTransfer(BufSize) \in Transfer
  BY SizeAssumption DEF NoTransfer, NewTransfer, Transfer
<1> QED
  BY <1>1, <1>2 DEF Init, TypeOK, NoDescriptor, Descriptor

LEMMA TypeStep ==
    ASSUME TypeOK, Pointers, [Next]_vars
    PROVE  TypeOK'
<1> USE DEF deviceVars
<1>c. call \in [Task -> Call] /\ buffer \in [Buffer -> Transfer]
  BY DEF TypeOK
<1>s. ASSUME NEW t \in Task, Step(t)
      PROVE  TypeOK'
  <2>g. \A pc \in PC : Goto(t, pc) => call' \in [Task -> Call]
    BY <1>c, CallUpdates
  <2>r. \A r \in {"ok", "cached", "busy", "error"} :
           /\ Finish(t, r) => call' \in [Task -> Call]
           /\ Return(t, r) => call' \in [Task -> Call]
    BY <1>c, CallUpdates
  <2>c. \A c \in Call :
           call' = [call EXCEPT ![t] = c] => call' \in [Task -> Call]
    BY <1>c, CallUpdates
  <2>f. Freed \in [Buffer -> Transfer]
    BY <1>c, BufferUpdates DEF Freed, TypeOK
  <2>1. ASSUME NEW req \in Requests, Ask(t, req)
        PROVE  TypeOK'
    <3>1. req \in {"set", "get"} /\ ctrl_xfer \in Buffer
      BY <2>1 DEF Ask, TypeOK
    <3>2. [NoCall EXCEPT !.pc = "lock", !.req = req, !.xfer = ctrl_xfer] \in Call
      BY <3>1 DEF Call, NoCall, PC
    <3> QED
      BY <2>1, <2>c, <3>2 DEF Ask, TypeOK
  <2>2. CASE AskDescriptor(t)
    <3>1. [NoCall EXCEPT !.pc = "malloc", !.req = "descriptor"] \in Call
      BY DEF Call, NoCall, PC
    <3> QED
      BY <2>2, <2>c, <3>1 DEF AskDescriptor, TypeOK
  <2>3. CASE RecallDescriptor(t)
    <3>1. [NoCall EXCEPT !.req = "descriptor", !.result = "cached",
                         !.got = Filled(t)] \in Call
      BY DEF Call, NoCall, PC, Filled
    <3> QED
      BY <2>3, <2>c, <3>1 DEF RecallDescriptor, TypeOK
  <2>4. CASE AllocDescriptor(t)
    <3>1. [call[t] EXCEPT !.pc = "lock", !.xfer = ctrl_xfer,
                          !.size = buffer[ctrl_xfer].size] \in Call
      BY <1>c DEF Call, PC, TypeOK, Transfer
    <3> QED
      BY <2>4, <2>c, <3>1 DEF AllocDescriptor, TypeOK, Descriptor
  <2>5. CASE AllocDescriptorFreed(t)
    BY <2>5 DEF AllocDescriptorFreed, Crash, TypeOK
  <2>6. CASE AllocDescriptorFails(t)
    BY <2>6, <2>r DEF AllocDescriptorFails, TypeOK, NoDescriptor, Descriptor
  <2>7. CASE TryLock(t)
    BY <2>7, <2>g DEF TryLock, TypeOK, PC
  <2>8. CASE LockTimeout(t)
    BY <2>8, <2>r DEF LockTimeout, TypeOK
  <2>9. CASE Resize(t)
    <3>1. PICK b \in Buffer :
             /\ buffer' = [Freed EXCEPT ![b] = NewTransfer(DescLen)]
             /\ ctrl_xfer' = b
      BY <2>9 DEF Resize
    <3>2. NewTransfer(DescLen) \in Transfer
      BY SizeAssumption DEF NewTransfer, NoTransfer, Transfer
    <3>3. buffer' \in [Buffer -> Transfer]
      BY <2>f, <3>1, <3>2
    <3> QED
      BY <2>9, <2>g, <3>1, <3>3 DEF Resize, TypeOK, PC
  <2>10. CASE ResizeFails(t)
    BY <2>10, <2>f, <2>r DEF ResizeFails, TypeOK
  <2>11. CASE WriteSetup(t)
    <3>1. CASE buffer[call[t].xfer].live
      <4>0. call[t].xfer \in Buffer
        BY <2>11 DEF WriteSetup, At, Pointers
      <4>a. \A r \in Transfer :
               [r EXCEPT !.setup = t, !.data = Nobody] \in Transfer
        BY DEF Transfer
      <4>1. [buffer[call[t].xfer] EXCEPT !.setup = t, !.data = Nobody]
               \in Transfer
        BY <1>c, <4>0, <4>a
      <4>2. buffer' \in [Buffer -> Transfer]
        BY <1>c, <2>11, <3>1, <4>1 DEF WriteSetup
      <4> QED
        BY <2>11, <2>g, <3>1, <4>2 DEF WriteSetup, TypeOK, PC
    <3>2. CASE ~buffer[call[t].xfer].live
      BY <2>11, <3>2 DEF WriteSetup, Crash, TypeOK
    <3> QED
      BY <3>1, <3>2
  <2>12. CASE Submit(t)
    <3>1. [buffer[ctrl_xfer] EXCEPT !.flight = "pending",
                                    !.carried = buffer[ctrl_xfer].setup]
             \in Transfer
      BY <1>c DEF Transfer, TypeOK
    <3>2. buffer' \in [Buffer -> Transfer]
      BY <1>c, <2>12, <3>1 DEF Submit
    <3> QED
      BY <2>12, <2>g, <3>2 DEF Submit, TypeOK, PC
  <2>13. CASE SubmitFails(t)
    BY <2>13, <2>r DEF SubmitFails, TypeOK
  <2>14. CASE TakeDone(t)
    BY <2>14, <2>g DEF TakeDone, TypeOK, PC
  <2>15. CASE TakeTimeout(t)
    BY <2>15, <2>g DEF TakeTimeout, TypeOK, PC
  <2>16. CASE ResetEndpoint(t)
    <3>1. /\ [buffer[ctrl_xfer] EXCEPT !.carried = Nobody] \in Transfer
          /\ [buffer[ctrl_xfer] EXCEPT !.carried = Nobody, !.flight = "finished",
                                       !.actual = "short"] \in Transfer
      BY <1>c DEF Transfer, TypeOK
    <3>2. buffer' \in [Buffer -> Transfer]
      BY <1>c, <2>16, <3>1 DEF ResetEndpoint
    <3> QED
      BY <2>16, <2>r, <3>2 DEF ResetEndpoint, TypeOK
  <2>17. CASE ResetFails(t)
    <3>1. [buffer[ctrl_xfer] EXCEPT !.carried = Nobody] \in Transfer
      BY <1>c DEF Transfer, TypeOK
    <3>2. buffer' \in [Buffer -> Transfer]
      BY <1>c, <2>17, <3>1 DEF ResetFails
    <3> QED
      BY <2>17, <2>r, <3>2 DEF ResetFails, TypeOK
  <2>18. CASE SetDone(t)
    BY <2>18, <2>r DEF SetDone, TypeOK
  <2>19. CASE CopyAnswer(t)
    <3>1. CASE buffer[call[t].xfer].actual = "whole"
      <4>0. call[t].xfer \in Buffer
        BY <2>19 DEF CopyAnswer, At, Pointers
      <4>1. [buffer[call[t].xfer] EXCEPT !.actual = "none"] \in Transfer
        BY <1>c, <4>0 DEF Transfer
      <4>2. buffer' \in [Buffer -> Transfer]
        BY <1>c, <2>19, <3>1, <4>1 DEF CopyAnswer
      <4>3. buffer[call[t].xfer].data \in Task \cup {Nobody}
        BY <1>c, <4>0 DEF Transfer
      <4>4. [call[t] EXCEPT !.pc = "unlock", !.result = "ok",
                            !.got = buffer[call[t].xfer].data] \in Call
        BY <1>c, <4>3 DEF Call, PC
      <4>c. call' = [call EXCEPT ![t] =
                       [call[t] EXCEPT !.pc = "unlock", !.result = "ok",
                                       !.got = buffer[call[t].xfer].data]]
        BY <1>c, <2>19, <3>1 DEF CopyAnswer
      <4>5. call' \in [Task -> Call]
        BY <2>c, <4>4, <4>c, Zenon
      <4>6. report_desc' \in Descriptor
        BY <2>19, <3>1 DEF CopyAnswer, TypeOK, Descriptor
      <4> QED
        BY <2>19, <3>1, <4>2, <4>5, <4>6 DEF CopyAnswer, TypeOK
    <3>2. CASE buffer[call[t].xfer].actual # "whole"
      BY <2>19, <3>2 DEF CopyAnswer, Crash, TypeOK
    <3> QED
      BY <3>1, <3>2
  <2>20. CASE Unlock(t)
    <3>1. [NoCall EXCEPT !.req = call[t].req, !.result = call[t].result,
                         !.got = IF call[t].req = "descriptor" THEN Filled(t)
                                                               ELSE call[t].got]
             \in Call
      BY <1>c DEF Call, NoCall, PC, Filled
    <3> QED
      BY <2>20, <2>c, <3>1 DEF Unlock, TypeOK
  <2>21. CASE CopyRefused(t)
    <3>0. call[t].xfer \in Buffer
      BY <2>21 DEF CopyRefused, At, Pointers
    <3>1. [buffer[call[t].xfer] EXCEPT !.actual = "none"] \in Transfer
      BY <1>c, <3>0 DEF Transfer
    <3>2. buffer' \in [Buffer -> Transfer]
      BY <1>c, <2>21, <3>1 DEF CopyRefused
    <3> QED
      BY <2>21, <2>r, <3>2 DEF CopyRefused, TypeOK
  <2>22. CASE InfoFails(t) \/ SetOverflows(t)
    BY <2>22 DEF InfoFails, SetOverflows, Crash, TypeOK
  <2> QED
    BY <1>s, <2>1, <2>2, <2>3, <2>4, <2>5, <2>6, <2>7, <2>8, <2>9, <2>10,
       <2>11, <2>12, <2>13, <2>14, <2>15, <2>16, <2>17, <2>18, <2>19, <2>20,
       <2>21, <2>22 DEF Step, TaskNext
<1>b. ASSUME NEW b \in Buffer, Complete(b) \/ Stall(b) \/ CtrlXferDone(b)
      PROVE  TypeOK'
  <2>1. CASE Complete(b)
    <3>1. [buffer[b] EXCEPT !.flight = "finished", !.data = buffer[b].carried,
                            !.actual = "whole"] \in Transfer
      BY <1>c DEF Transfer
    <3>2. buffer' \in [Buffer -> Transfer]
      BY <1>c, <2>1, <3>1 DEF Complete
    <3> QED
      BY <2>1, <3>2 DEF Complete, TypeOK
  <2>2. CASE Stall(b)
    <3>1. [buffer[b] EXCEPT !.flight = "finished", !.actual = "short"]
             \in Transfer
      BY <1>c DEF Transfer
    <3>2. buffer' \in [Buffer -> Transfer]
      BY <1>c, <2>2, <3>1 DEF Stall
    <3> QED
      BY <2>2, <3>2 DEF Stall, TypeOK
  <2>3. CASE CtrlXferDone(b)
    <3>1. [buffer[b] EXCEPT !.flight = "idle"] \in Transfer
      BY <1>c DEF Transfer
    <3>2. buffer' \in [Buffer -> Transfer]
      BY <1>c, <2>3, <3>1 DEF CtrlXferDone
    <3> QED
      BY <2>3, <3>2 DEF CtrlXferDone, TypeOK
  <2> QED
    BY <1>b, <2>1, <2>2, <2>3
<1>u. CASE UNCHANGED vars
  BY <1>u DEF vars, TypeOK
<1> QED
  BY <1>s, <1>b, <1>u, NextCases DEF BusStep
-----------------------------------------------------------------------------
(* What the three ways to go on do to a call.                              *)

LEMMA Moves ==
    ASSUME call \in [Task -> Call], NEW t \in Task
    PROVE  /\ \A pc : Goto(t, pc) =>
                /\ call'[t].pc = pc
                /\ call'[t].req = call[t].req
                /\ call'[t].xfer = call[t].xfer
                /\ call'[t].result = call[t].result
                /\ call'[t].got = call[t].got
                /\ \A u \in Task \ {t} : call'[u] = call[u]
           /\ \A r : Finish(t, r) =>
                /\ call'[t].pc = "unlock"
                /\ call'[t].req = call[t].req
                /\ call'[t].xfer = call[t].xfer
                /\ call'[t].result = r
                /\ \A u \in Task \ {t} : call'[u] = call[u]
           /\ \A r : Return(t, r) =>
                /\ call'[t].pc = "idle"
                /\ call'[t].result = r
                /\ \A u \in Task \ {t} : call'[u] = call[u]
<1>1. ASSUME NEW pc, Goto(t, pc)
      PROVE  /\ call'[t].pc = pc
             /\ call'[t].req = call[t].req
             /\ call'[t].xfer = call[t].xfer
             /\ call'[t].result = call[t].result
             /\ call'[t].got = call[t].got
             /\ \A u \in Task \ {t} : call'[u] = call[u]
  BY <1>1 DEF Goto, Call
<1>2. ASSUME NEW r, Finish(t, r)
      PROVE  /\ call'[t].pc = "unlock"
             /\ call'[t].req = call[t].req
             /\ call'[t].xfer = call[t].xfer
             /\ call'[t].result = r
             /\ \A u \in Task \ {t} : call'[u] = call[u]
  BY <1>2 DEF Finish, Call
<1>3. ASSUME NEW r, Return(t, r)
      PROVE  /\ call'[t].pc = "idle"
             /\ call'[t].result = r
             /\ \A u \in Task \ {t} : call'[u] = call[u]
  BY <1>3 DEF Return, NoCall
<1> QED
  BY <1>1, <1>2, <1>3
-----------------------------------------------------------------------------
(* The mutex.                                                              *)

\* A step of t leaves the other calls alone; it enters the critical section
\* with the mutex, and gives it back only from there.
OwnStep(t) ==
    /\ \A u \in Task \ {t} : call'[u] = call[u]
    /\ call'[t].pc \notin {"idle", "malloc"} => call'[t].xfer \in Buffer
    /\ \/ device_busy' = device_busy
       \/ device_busy = Nobody /\ device_busy' = t
       \/ call[t].pc \in Critical /\ device_busy' = Nobody
    /\ call'[t].pc \in Critical =>
          \/ device_busy' = t
          \/ call[t].pc \in Critical /\ device_busy' = device_busy

LEMMA StepShape ==
    ASSUME TypeOK, Pointers, NEW t \in Task, Step(t)
    PROVE  OwnStep(t)
<1> USE DEF deviceVars, At
<1>c. call \in [Task -> Call] /\ ctrl_xfer \in Buffer
  BY DEF TypeOK
<1>p. call[t].pc \notin {"idle", "malloc"} => call[t].xfer \in Buffer
  BY DEF Pointers
<1>g. \A pc : Goto(t, pc) =>
         /\ call'[t].pc = pc
         /\ call'[t].xfer = call[t].xfer
         /\ \A u \in Task \ {t} : call'[u] = call[u]
  BY <1>c, Moves
<1>f. \A r : Finish(t, r) =>
         /\ call'[t].pc = "unlock"
         /\ call'[t].xfer = call[t].xfer
         /\ \A u \in Task \ {t} : call'[u] = call[u]
  BY <1>c, Moves
<1>r. \A r : Return(t, r) =>
         /\ call'[t].pc = "idle"
         /\ \A u \in Task \ {t} : call'[u] = call[u]
  BY <1>c, Moves
<1>1. ASSUME NEW req \in Requests, Ask(t, req)
      PROVE  OwnStep(t)
  BY <1>c, <1>1 DEF Ask, OwnStep, NoCall, Critical
<1>2. CASE AskDescriptor(t)
  BY <1>c, <1>2 DEF AskDescriptor, OwnStep, NoCall, Critical
<1>3. CASE RecallDescriptor(t)
  BY <1>c, <1>3 DEF RecallDescriptor, OwnStep, NoCall, Critical
<1>4. CASE AllocDescriptor(t)
  <2>1. /\ call'[t].pc = "lock" /\ call'[t].xfer = ctrl_xfer
        /\ \A u \in Task \ {t} : call'[u] = call[u]
    BY <1>c, <1>4 DEF AllocDescriptor, Call
  <2> QED
    BY <1>c, <1>4, <2>1 DEF AllocDescriptor, OwnStep, Critical
<1>5. CASE AllocDescriptorFreed(t)
  BY <1>p, <1>5 DEF AllocDescriptorFreed, Crash, OwnStep, Critical
<1>6. CASE AllocDescriptorFails(t)
  BY <1>r, <1>6 DEF AllocDescriptorFails, OwnStep, Critical
<1>7. CASE TryLock(t)
  BY <1>g, <1>p, <1>7 DEF TryLock, OwnStep
<1>8. CASE LockTimeout(t)
  BY <1>r, <1>8 DEF LockTimeout, OwnStep, Critical
<1>9. CASE Resize(t)
  BY <1>g, <1>p, <1>9 DEF Resize, OwnStep, Critical
<1>10. CASE ResizeFails(t)
  BY <1>r, <1>10 DEF ResizeFails, OwnStep, Critical
<1>11. CASE WriteSetup(t)
  BY <1>g, <1>p, <1>11 DEF WriteSetup, Crash, OwnStep, Critical
<1>12. CASE Submit(t)
  BY <1>g, <1>p, <1>12 DEF Submit, OwnStep, Critical
<1>13. CASE SubmitFails(t)
  BY <1>f, <1>p, <1>13 DEF SubmitFails, OwnStep, Critical
<1>14. CASE TakeDone(t)
  BY <1>g, <1>p, <1>14 DEF TakeDone, OwnStep, Critical
<1>15. CASE TakeTimeout(t)
  BY <1>g, <1>p, <1>15 DEF TakeTimeout, OwnStep, Critical
<1>16. CASE ResetEndpoint(t)
  BY <1>f, <1>p, <1>16 DEF ResetEndpoint, OwnStep, Critical
<1>17. CASE ResetFails(t)
  BY <1>f, <1>p, <1>17 DEF ResetFails, OwnStep, Critical
<1>18. CASE SetDone(t)
  BY <1>f, <1>p, <1>18 DEF SetDone, OwnStep, Critical
<1>19. CASE CopyAnswer(t)
  <2>1. CASE buffer[call[t].xfer].actual = "whole"
    <3>1. /\ call'[t].pc = "unlock" /\ call'[t].xfer = call[t].xfer
          /\ \A u \in Task \ {t} : call'[u] = call[u]
      BY <1>c, <1>19, <2>1 DEF CopyAnswer, Call
    <3> QED
      BY <1>p, <1>19, <2>1, <3>1 DEF CopyAnswer, OwnStep, Critical
  <2>2. CASE buffer[call[t].xfer].actual # "whole"
    BY <1>p, <1>19, <2>2 DEF CopyAnswer, Crash, OwnStep, Critical
  <2> QED
    BY <2>1, <2>2
<1>20. CASE Unlock(t)
  <2>1. /\ call'[t].pc = "idle"
        /\ \A u \in Task \ {t} : call'[u] = call[u]
    BY <1>c, <1>20 DEF Unlock, NoCall
  <2> QED
    BY <1>20, <2>1 DEF Unlock, OwnStep, Critical
<1>21. CASE CopyRefused(t)
  BY <1>f, <1>p, <1>21 DEF CopyRefused, OwnStep, Critical
<1>22. CASE InfoFails(t) \/ SetOverflows(t)
  BY <1>p, <1>22 DEF InfoFails, SetOverflows, Crash, OwnStep, Critical
<1> QED
  BY <1>1, <1>2, <1>3, <1>4, <1>5, <1>6, <1>7, <1>8, <1>9, <1>10, <1>11, <1>12,
     <1>13, <1>14, <1>15, <1>16, <1>17, <1>18, <1>19, <1>20, <1>21, <1>22
     DEF Step, TaskNext

\* The bus and the driver task touch neither the calls nor the mutex.
LEMMA BusShape ==
    ASSUME BusStep
    PROVE  UNCHANGED <<call, device_busy, ctrl_xfer>>
BY DEF BusStep, Complete, Stall, CtrlXferDone

IInv == TypeOK /\ Pointers /\ MutualExclusion

LEMMA IInvInit == Init => IInv
<1> SUFFICES ASSUME Init
             PROVE  IInv
  OBVIOUS
<1>1. TypeOK
  BY TypeInit
<1>2. \A t \in Task : call[t].pc = "idle"
  BY DEF Init, NoCall
<1> QED
  BY <1>1, <1>2 DEF IInv, Pointers, MutualExclusion, Critical

LEMMA IInvStep ==
    ASSUME IInv, [Next]_vars
    PROVE  IInv'
<1>0. TypeOK /\ Pointers /\ MutualExclusion
  BY DEF IInv
<1>1. TypeOK'
  BY <1>0, TypeStep
<1>s. ASSUME NEW t \in Task, Step(t)
      PROVE  Pointers' /\ MutualExclusion'
  <2>1. OwnStep(t)
    BY <1>0, <1>s, StepShape
  <2>2. Pointers'
    BY <1>0, <2>1 DEF Pointers, OwnStep
  <2>3. ASSUME NEW u \in Task, call'[u].pc \in Critical
        PROVE  device_busy' = u
    <3>1. CASE u = t
      BY <1>0, <2>1, <2>3, <3>1 DEF OwnStep, MutualExclusion
    <3>2. CASE u # t
      <4>1. call[u].pc \in Critical /\ device_busy = u
        BY <1>0, <2>1, <2>3, <3>2 DEF OwnStep, MutualExclusion
      <4>2. u # Nobody
        BY TaskAssumption
      <4> QED
        BY <1>0, <2>1, <3>2, <4>1, <4>2 DEF OwnStep, MutualExclusion
    <3> QED
      BY <3>1, <3>2
  <2> QED
    BY <2>2, <2>3 DEF MutualExclusion
<1>b. CASE BusStep
  <2>1. UNCHANGED <<call, device_busy>>
    BY <1>b, BusShape
  <2> QED
    BY <1>0, <1>1, <2>1 DEF IInv, Pointers, MutualExclusion
<1>u. CASE UNCHANGED vars
  BY <1>0, <1>1, <1>u DEF vars, deviceVars, IInv, Pointers, MutualExclusion
<1> QED
  BY <1>1, <1>s, <1>b, <1>u, NextCases DEF IInv

LEMMA Invariance == Spec => []IInv
BY IInvInit, IInvStep, PTL DEF Spec

\* Every variable of the class requests keeps its type.
THEOREM TypeCorrect == Spec => []TypeOK
<1>1. IInv => TypeOK
  BY DEF IInv
<1> QED
  BY <1>1, Invariance, PTL

\* hid_device_try_lock lets one task at a time at the device's transfer, under
\* every timeout, early return and failure.
THEOREM MutexHolds == Spec => []MutualExclusion
<1>1. IInv => MutualExclusion
  BY DEF IInv
<1> QED
  BY <1>1, Invariance, PTL
-----------------------------------------------------------------------------
(* What is counted in the device's transfer, under every failure.          *)

LEMMA Alone ==
    ASSUME IInv, NEW t \in Task, call[t].pc \in Critical
    PROVE  \A u \in Task \ {t} : call[u].pc \notin Critical
BY DEF IInv, MutualExclusion

\* Outside the critical section nothing is done to the transfer.
LEMMA OutsideStep ==
    ASSUME NEW t \in Task, Step(t), call[t].pc \notin Critical
    PROVE  UNCHANGED <<ctrl_xfer_done, ctrl_xfer, buffer>>
BY DEF Step, TaskNext, Ask, AskDescriptor, RecallDescriptor, AllocDescriptor,
       AllocDescriptorFreed, AllocDescriptorFails, TryLock, LockTimeout, Resize,
       ResizeFails, WriteSetup, Submit, SubmitFails, TakeDone, TakeTimeout,
       ResetEndpoint, ResetFails, SetDone, CopyAnswer, CopyRefused, InfoFails,
       SetOverflows, Unlock, Crash, At,
       deviceVars, Critical

\* The transfer of a request is counted anew when it comes back.
Counted ==
    \A t \in Task :
        /\ call[t].pc \in {"wait", "done"}
        /\ buffer[ctrl_xfer].flight # "pending"
        => buffer[ctrl_xfer].actual \in {"whole", "short"}

\* Only a task that waits goes on to the copy, and a submission begins a wait.
LEMMA CopyIsAfterWait ==
    ASSUME TypeOK, NEW t \in Task, Step(t), call'[t].pc \in {"wait", "done"}
    PROVE  \/ call[t].pc \in {"wait", "done"} /\ UNCHANGED <<buffer, ctrl_xfer>>
           \/ Submit(t)
<1> USE DEF At, deviceVars
<1>c. call \in [Task -> Call]
  BY DEF TypeOK
<1>m. /\ \A pc : Goto(t, pc) => call'[t].pc = pc
      /\ \A r : Finish(t, r) => call'[t].pc = "unlock"
      /\ \A r : Return(t, r) => call'[t].pc = "idle"
  BY <1>c, Moves
<1>1. CASE \/ \E req \in Requests : Ask(t, req)
           \/ AskDescriptor(t) \/ RecallDescriptor(t) \/ AllocDescriptor(t)
           \/ Unlock(t)
  <2>1. call'[t].pc \in {"lock", "malloc", "idle"}
    <3>1. CASE \/ \E req \in Requests : Ask(t, req)
               \/ AskDescriptor(t) \/ RecallDescriptor(t)
      BY <1>c, <3>1 DEF Ask, AskDescriptor, RecallDescriptor, NoCall
    <3>2. CASE AllocDescriptor(t)
      BY <1>c, <3>2 DEF AllocDescriptor, Call
    <3>3. CASE Unlock(t)
      BY <1>c, <3>3 DEF Unlock, NoCall
    <3> QED
      BY <1>1, <3>1, <3>2, <3>3
  <2> QED
    BY <2>1
<1>2. CASE \/ AllocDescriptorFreed(t) \/ AllocDescriptorFails(t)
           \/ TryLock(t) \/ LockTimeout(t) \/ Resize(t) \/ ResizeFails(t)
           \/ InfoFails(t) \/ SetOverflows(t) \/ SubmitFails(t)
           \/ TakeTimeout(t) \/ ResetEndpoint(t) \/ ResetFails(t)
           \/ SetDone(t) \/ CopyRefused(t)
  BY <1>m, <1>2 DEF AllocDescriptorFreed, AllocDescriptorFails, TryLock,
     LockTimeout, Resize, ResizeFails, InfoFails, SetOverflows, SubmitFails,
     TakeTimeout, ResetEndpoint, ResetFails, SetDone, CopyRefused, Crash
<1>3. CASE TakeDone(t)
  BY <1>3 DEF TakeDone
<1>4. CASE WriteSetup(t)
  BY <1>m, <1>4 DEF WriteSetup, Crash
<1>5. CASE CopyAnswer(t)
  <2>1. CASE buffer[call[t].xfer].actual = "whole"
    BY <1>c, <1>5, <2>1 DEF CopyAnswer, Call
  <2>2. CASE buffer[call[t].xfer].actual # "whole"
    BY <1>5, <2>2 DEF CopyAnswer, Crash
  <2> QED
    BY <2>1, <2>2
<1> QED
  BY <1>1, <1>2, <1>3, <1>4, <1>5 DEF Step, TaskNext

LEMMA CountedStep ==
    ASSUME IInv, Counted, [Next]_vars
    PROVE  Counted'
<1>c. /\ TypeOK /\ Pointers /\ MutualExclusion
      /\ buffer \in [Buffer -> Transfer] /\ ctrl_xfer \in Buffer
  BY DEF IInv, TypeOK
<1>1. ASSUME NEW t \in Task, Step(t)
      PROVE  Counted'
  <2> SUFFICES ASSUME NEW u \in Task, call'[u].pc \in {"wait", "done"},
                      buffer'[ctrl_xfer'].flight # "pending"
               PROVE  buffer'[ctrl_xfer'].actual \in {"whole", "short"}
    BY DEF Counted
  <2>1. CASE u = t
    <3>1. ~Submit(t)
      BY <1>c DEF Submit, Transfer
    <3> QED
      BY <1>1, <1>c, <2>1, <3>1, CopyIsAfterWait DEF Counted
  <2>2. CASE u # t
    <3>1. call'[u] = call[u]
      BY <1>1, <1>c, <2>2, StepShape DEF OwnStep
    <3>2. call[t].pc \notin Critical
      BY <1>c, <2>2, <3>1, Alone DEF Critical
    <3> QED
      BY <1>1, <3>1, <3>2, OutsideStep DEF Counted
  <2> QED
    BY <2>1, <2>2
<1>2. CASE BusStep
  <2>1. UNCHANGED <<call, ctrl_xfer>>
    BY <1>2, BusShape
  <2>2. PICK b \in Buffer : Complete(b) \/ Stall(b) \/ CtrlXferDone(b)
    BY <1>2 DEF BusStep
  <2>3. \/ buffer'[ctrl_xfer].actual \in {"whole", "short"}
        \/ /\ buffer'[ctrl_xfer].actual = buffer[ctrl_xfer].actual
           /\ buffer[ctrl_xfer].flight = "pending" =>
                  buffer'[ctrl_xfer].flight = "pending"
    BY <1>c, <2>2 DEF Complete, Stall, CtrlXferDone, Transfer
  <2> QED
    BY <2>1, <2>3 DEF Counted
<1>3. CASE UNCHANGED vars
  BY <1>3 DEF vars, deviceVars, Counted
<1> QED
  BY <1>1, <1>2, <1>3, NextCases

\* However requests fail, time out and share the transfer, a negative length is
\* copied only out of a transfer that failed, is not back, or was replaced: the
\* eight bytes of the setup packet are never subtracted twice from one count.
THEOREM SubtractedOnce == Spec => []CountedOnce
<1>1. Init => Counted /\ CountedOnce
  BY DEF Init, NoCall, Counted, CountedOnce
<1>2. IInv /\ Counted /\ [Next]_vars => Counted'
  BY CountedStep
<1>3. Counted /\ CountedOnce /\ [Next]_vars => CountedOnce'
  <2> SUFFICES ASSUME Counted, CountedOnce, [Next]_vars,
                      fault' = "bad_length"
               PROVE  CountedOnce'
    BY DEF CountedOnce
  <2>1. ASSUME NEW t \in Task, CopyAnswer(t)
        PROVE  CountedOnce'
    <3>1. /\ call[t].pc = "done" /\ buffer[call[t].xfer].actual # "whole"
          /\ UNCHANGED <<call, buffer, ctrl_xfer>>
      BY <2>1 DEF CopyAnswer, Crash, At, deviceVars
    <3>2. \/ buffer[call[t].xfer].actual = "short"
          \/ buffer[call[t].xfer].flight # "idle"
          \/ call[t].xfer # ctrl_xfer
      BY <3>1 DEF Counted
    <3> QED
      BY <3>1, <3>2 DEF CountedOnce
  <2>2. ASSUME NEW t \in Task, Step(t), ~CopyAnswer(t)
        PROVE  FALSE
    BY <2>2 DEF Step, TaskNext, Ask, AskDescriptor, RecallDescriptor, AllocDescriptor,
       AllocDescriptorFreed, AllocDescriptorFails, TryLock, LockTimeout, Resize,
       ResizeFails, WriteSetup, Submit, SubmitFails, TakeDone, TakeTimeout,
       ResetEndpoint, ResetFails, SetDone, CopyRefused, InfoFails, SetOverflows,
       Unlock, Crash, At
  <2>3. CASE BusStep
    BY <2>3 DEF BusStep, Complete, Stall, CtrlXferDone
  <2>4. CASE UNCHANGED vars
    BY <2>4 DEF vars, deviceVars, CountedOnce
  <2> QED
    BY <2>1, <2>2, <2>3, <2>4, NextCases
<1> QED
  BY <1>1, <1>2, <1>3, Invariance, PTL DEF Spec
-----------------------------------------------------------------------------
(* Requests that are answered in time.                                     *)

\* No request times out, the device stalls none, and memory suffices.
Orderly == Failing \cap {"timeout", "stall", "heap"} = {}

Current == buffer[ctrl_xfer]

\* Where the transfer and the semaphore are while t waits.
WaitShape(t) ==
    \/ /\ Current.flight = "pending" /\ ~ctrl_xfer_done
       /\ Current.carried = t /\ Current.data = Nobody
    \/ /\ Current.flight = "finished" /\ ~ctrl_xfer_done
       /\ Current.data = t /\ Current.actual = "whole"
    \/ /\ Current.flight = "idle" /\ ctrl_xfer_done
       /\ Current.data = t /\ Current.actual = "whole"

\* What a call knows of the shared transfer at each of its steps.
CallShape(t) ==
    /\ call[t].pc # "reset"
    /\ call[t].pc \notin {"idle", "unlock"} => call[t].result = "none"
    /\ call[t].pc \in {"submit", "wait", "done"} => call[t].xfer = ctrl_xfer
    /\ call[t].pc = "submit" => Current.setup = t /\ Current.data = Nobody
    /\ call[t].pc = "wait" => WaitShape(t)
    /\ call[t].pc = "done" => Current.data = t /\ Current.actual = "whole"
    /\ call[t].pc = "unlock" /\ call[t].result = "ok" =>
           buffer[call[t].xfer].data = t
    /\ call[t].pc = "unlock" => call[t].result \in {"ok", "error"}
    /\ call[t].result = "ok" /\ call[t].req = "get" => call[t].got = t

\* If no call waits, no transfer is in flight and no completion is left over.
Quiet ==
    (\A t \in Task : call[t].pc # "wait") =>
        ~ctrl_xfer_done /\ Current.flight = "idle"

\* The device's transfer is the only one.
OneTransfer ==
    \A b \in Buffer : /\ buffer[b].live <=> b = ctrl_xfer
                      /\ b # ctrl_xfer => buffer[b].flight = "idle"

OrderInv == IInv /\ (\A t \in Task : CallShape(t)) /\ Quiet /\ OneTransfer

LEMMA SameShape ==
    ASSUME NEW u \in Task, CallShape(u), call'[u] = call[u],
           UNCHANGED <<ctrl_xfer_done, ctrl_xfer, buffer>>
    PROVE  CallShape(u)'
BY DEF CallShape, WaitShape, Current

\* A call outside the critical section does not care for the transfer.
LEMMA OutsideShape ==
    ASSUME NEW u \in Task, CallShape(u), call'[u] = call[u],
           call[u].pc \notin Critical
    PROVE  CallShape(u)'
BY DEF CallShape, Critical

\* Only the task that steps can begin or end to wait.
LEMMA QuietKept ==
    ASSUME Quiet, NEW t \in Task, call[t].pc # "wait",
           \A u \in Task \ {t} : call'[u] = call[u],
           UNCHANGED <<ctrl_xfer_done, ctrl_xfer, buffer>>
    PROVE  Quiet'
BY DEF Quiet, Current

LEMMA OthersShape ==
    ASSUME OrderInv, NEW t \in Task, Step(t), NEW u \in Task \ {t}
    PROVE  CallShape(u)' /\ call'[u] = call[u]
<1>1. IInv /\ CallShape(u) /\ TypeOK /\ Pointers
  BY DEF OrderInv, IInv
<1>2. call'[u] = call[u]
  BY <1>1, StepShape DEF OwnStep
<1>3. CASE call[t].pc \in Critical
  BY <1>1, <1>2, <1>3, Alone, OutsideShape
<1>4. CASE call[t].pc \notin Critical
  BY <1>1, <1>2, <1>4, OutsideStep, SameShape
<1> QED
  BY <1>2, <1>3, <1>4

LEMMA OrderTask ==
    ASSUME Orderly, OrderInv, NEW t \in Task, Step(t)
    PROVE  CallShape(t)' /\ Quiet' /\ OneTransfer'
<1> DEFINE Goal == CallShape(t)' /\ Quiet' /\ OneTransfer'
<1> USE DEF deviceVars, At
<1>c. /\ call \in [Task -> Call] /\ buffer \in [Buffer -> Transfer]
      /\ ctrl_xfer \in Buffer
  BY DEF OrderInv, IInv, TypeOK
<1>i. IInv /\ CallShape(t) /\ Quiet /\ OneTransfer
  BY DEF OrderInv
<1>f. ~MayFail("timeout") /\ ~MayFail("heap")
  BY DEF Orderly, MayFail
<1>o. \A u \in Task \ {t} : call'[u] = call[u]
  BY OthersShape
<1>m. /\ \A pc : Goto(t, pc) =>
            /\ call'[t].pc = pc
            /\ call'[t].req = call[t].req
            /\ call'[t].xfer = call[t].xfer
            /\ call'[t].result = call[t].result
            /\ call'[t].got = call[t].got
      /\ \A r : Finish(t, r) =>
            /\ call'[t].pc = "unlock"
            /\ call'[t].req = call[t].req
            /\ call'[t].xfer = call[t].xfer
            /\ call'[t].result = r
      /\ \A r : Return(t, r) => call'[t].pc = "idle" /\ call'[t].result = r
  BY <1>c, Moves
<1>k. ASSUME UNCHANGED <<ctrl_xfer_done, ctrl_xfer, buffer>>
      PROVE  OneTransfer' /\ (call[t].pc # "wait" => Quiet')
  BY <1>i, <1>k, <1>o, QuietKept DEF OneTransfer
<1>w. ASSUME call[t].pc \in Critical, call[t].pc # "wait"
      PROVE  ~ctrl_xfer_done /\ Current.flight = "idle"
  BY <1>i, <1>w, Alone DEF Quiet, Critical
<1>q. ASSUME \A u \in Task : call'[u].pc # "wait",
             NEW s, ctrl_xfer_done' = s, ~s, Current'.flight = "idle"
      PROVE  Quiet'
  BY <1>q DEF Quiet
<1>1. ASSUME NEW req \in Requests, Ask(t, req)
      PROVE  Goal
  BY <1>c, <1>k, <1>1 DEF Ask, CallShape, NoCall
<1>2. CASE AskDescriptor(t)
  BY <1>c, <1>k, <1>2 DEF AskDescriptor, CallShape, NoCall
<1>3. CASE RecallDescriptor(t)
  BY <1>c, <1>k, <1>3 DEF RecallDescriptor, CallShape, NoCall
<1>4. CASE AllocDescriptor(t)
  <2>1. call'[t].pc = "lock" /\ call'[t].result = call[t].result
    BY <1>c, <1>4 DEF AllocDescriptor, Call
  <2> QED
    BY <1>i, <1>k, <1>4, <2>1 DEF AllocDescriptor, CallShape
<1>5. CASE AllocDescriptorFreed(t)
  BY <1>i, <1>k, <1>5, SameShape DEF AllocDescriptorFreed, Crash
<1>6. CASE AllocDescriptorFails(t)
  BY <1>f, <1>6 DEF AllocDescriptorFails
<1>7. CASE TryLock(t)
  BY <1>i, <1>k, <1>m, <1>7 DEF TryLock, CallShape
<1>8. CASE LockTimeout(t)
  BY <1>k, <1>m, <1>8 DEF LockTimeout, CallShape
<1>9. CASE Resize(t)
  <2>1. PICK b \in Buffer :
           /\ ~Freed[b].live
           /\ buffer' = [Freed EXCEPT ![b] = NewTransfer(DescLen)]
           /\ ctrl_xfer' = b
    BY <1>9 DEF Resize
  <2>2. Freed = [buffer EXCEPT ![ctrl_xfer] = NoTransfer]
    BY <1>w, <1>9 DEF Resize, Freed, Current, Critical
  <2>3. /\ ~NoTransfer.live /\ NoTransfer.flight = "idle"
        /\ NewTransfer(DescLen).live
        /\ NewTransfer(DescLen).flight = "idle"
    BY DEF NoTransfer, NewTransfer
  <2>4. /\ buffer'[b] = NewTransfer(DescLen)
        /\ \A c \in Buffer \ {b} :
              buffer'[c] = IF c = ctrl_xfer THEN NoTransfer ELSE buffer[c]
    BY <1>c, <2>1, <2>2
  <2>5. OneTransfer'
    BY <1>i, <2>1, <2>3, <2>4 DEF OneTransfer
  <2>6. CallShape(t)'
    BY <1>i, <1>m, <1>9 DEF Resize, CallShape
  <2>7. Quiet'
    BY <1>9, <1>w, <2>1, <2>3, <2>4 DEF Resize, Quiet, Current, Critical
  <2> QED
    BY <2>5, <2>6, <2>7
<1>10. CASE ResizeFails(t)
  <2>1. Freed = [buffer EXCEPT ![ctrl_xfer] = NoTransfer]
    BY <1>w, <1>10 DEF ResizeFails, Freed, Current, Critical
  <2>2. ~Freed[ctrl_xfer].live
    BY <1>c, <2>1 DEF NoTransfer
  <2> QED
    BY <1>c, <1>f, <1>10, <2>2 DEF ResizeFails
<1>11. CASE WriteSetup(t)
  <2>1. CASE buffer[call[t].xfer].live
    <3>1. call[t].xfer = ctrl_xfer
      BY <1>i, <1>11, <2>1 DEF WriteSetup, OneTransfer, IInv, Pointers
    <3>2. /\ buffer'[ctrl_xfer].setup = t
          /\ buffer'[ctrl_xfer].data = Nobody
          /\ \A b \in Buffer : /\ buffer'[b].live = buffer[b].live
                               /\ buffer'[b].flight = buffer[b].flight
      BY <1>c, <1>11, <2>1, <3>1 DEF WriteSetup, Transfer
    <3>3. /\ Goto(t, "submit")
          /\ UNCHANGED <<ctrl_xfer_done, ctrl_xfer>>
      BY <1>11, <2>1 DEF WriteSetup
    <3>4. CallShape(t)'
      BY <1>i, <1>m, <1>11, <3>1, <3>2, <3>3
         DEF WriteSetup, CallShape, Current
    <3>5. OneTransfer'
      BY <1>i, <3>2, <3>3 DEF OneTransfer
    <3>6. Quiet'
      BY <1>c, <1>w, <1>11, <3>2, <3>3
         DEF WriteSetup, Quiet, Current, Critical
    <3> QED
      BY <3>4, <3>5, <3>6
  <2>2. CASE ~buffer[call[t].xfer].live
    BY <1>i, <1>k, <1>11, <2>2, SameShape DEF WriteSetup, Crash
  <2> QED
    BY <2>1, <2>2
<1>12. CASE Submit(t)
  <2>1. /\ call[t].pc = "submit" /\ Goto(t, "wait")
        /\ UNCHANGED <<ctrl_xfer_done, ctrl_xfer>>
    BY <1>12 DEF Submit
  <2>2. /\ call[t].xfer = ctrl_xfer /\ call[t].result = "none"
        /\ buffer[ctrl_xfer].setup = t /\ buffer[ctrl_xfer].data = Nobody
        /\ ~ctrl_xfer_done
    BY <1>i, <1>w, <2>1 DEF CallShape, Current, Critical
  <2>3. /\ buffer'[ctrl_xfer].flight = "pending"
        /\ buffer'[ctrl_xfer].carried = t
        /\ buffer'[ctrl_xfer].data = Nobody
        /\ \A b \in Buffer : /\ buffer'[b].live = buffer[b].live
                             /\ b # ctrl_xfer =>
                                    buffer'[b].flight = buffer[b].flight
    BY <1>c, <1>12, <2>2 DEF Submit, Transfer
  <2>4. CallShape(t)'
    BY <1>m, <2>1, <2>2, <2>3 DEF CallShape, WaitShape, Current
  <2>5. OneTransfer'
    BY <1>i, <2>1, <2>3 DEF OneTransfer
  <2>6. Quiet'
    BY <1>m, <2>1 DEF Quiet
  <2> QED
    BY <2>4, <2>5, <2>6
<1>13. CASE SubmitFails(t)
  BY <1>i, <1>k, <1>m, <1>13 DEF SubmitFails, CallShape
<1>14. CASE TakeDone(t)
  <2>1. /\ call[t].pc = "wait" /\ ctrl_xfer_done /\ Goto(t, "done")
        /\ ctrl_xfer_done' = FALSE /\ UNCHANGED <<ctrl_xfer, buffer>>
    BY <1>14 DEF TakeDone
  <2>2. /\ Current.flight = "idle" /\ Current.data = t
        /\ Current.actual = "whole"
        /\ call[t].xfer = ctrl_xfer /\ call[t].result = "none"
    BY <1>i, <2>1 DEF CallShape, WaitShape
  <2>3. CallShape(t)'
    BY <1>m, <2>1, <2>2 DEF CallShape, Current
  <2>4. Quiet'
    BY <2>1, <2>2 DEF Quiet, Current
  <2>5. OneTransfer'
    BY <1>i, <2>1 DEF OneTransfer
  <2> QED
    BY <2>3, <2>4, <2>5
<1>15. CASE TakeTimeout(t)
  BY <1>f, <1>15 DEF TakeTimeout
<1>16. CASE ResetEndpoint(t)
  BY <1>i, <1>16 DEF ResetEndpoint, CallShape
<1>17. CASE ResetFails(t)
  BY <1>i, <1>17 DEF ResetFails, CallShape
<1>18. CASE SetDone(t)
  <2>1. /\ call[t].pc = "done" /\ call[t].req = "set" /\ Finish(t, "ok")
        /\ UNCHANGED <<ctrl_xfer_done, ctrl_xfer, buffer>>
    BY <1>18 DEF SetDone
  <2>2. call[t].xfer = ctrl_xfer /\ Current.data = t
    BY <1>i, <2>1 DEF CallShape
  <2> QED
    BY <1>k, <1>m, <2>1, <2>2 DEF CallShape, Current
<1>19. CASE CopyAnswer(t)
  <2>1. /\ call[t].pc = "done"
        /\ call[t].xfer = ctrl_xfer /\ buffer[ctrl_xfer].data = t
        /\ buffer[ctrl_xfer].actual = "whole"
    BY <1>i, <1>19 DEF CopyAnswer, CallShape, Current
  <2>2. /\ buffer' = [buffer EXCEPT ![ctrl_xfer].actual = "none"]
        /\ call' = [call EXCEPT ![t].pc = "unlock", ![t].result = "ok",
                                ![t].got = t]
        /\ UNCHANGED <<ctrl_xfer_done, ctrl_xfer>>
    BY <1>19, <2>1 DEF CopyAnswer
  <2>3. /\ call'[t].pc = "unlock" /\ call'[t].result = "ok"
        /\ call'[t].got = t /\ call'[t].xfer = ctrl_xfer
    BY <1>c, <2>1, <2>2 DEF Call
  <2>4. \A b \in Buffer : /\ buffer'[b].live = buffer[b].live
                          /\ buffer'[b].flight = buffer[b].flight
                          /\ buffer'[b].data = buffer[b].data
    BY <1>c, <2>2 DEF Transfer
  <2>5. CallShape(t)'
    BY <1>c, <2>1, <2>3, <2>4 DEF CallShape
  <2>6. OneTransfer'
    BY <1>i, <2>2, <2>4 DEF OneTransfer
  <2>7. Quiet'
    BY <1>c, <1>w, <2>1, <2>2, <2>4 DEF Quiet, Current, Critical
  <2> QED
    BY <2>5, <2>6, <2>7
<1>20. CASE Unlock(t)
  <2>1. /\ call[t].pc = "unlock"
        /\ UNCHANGED <<ctrl_xfer_done, ctrl_xfer, buffer>>
    BY <1>20 DEF Unlock
  <2>2. /\ call'[t].pc = "idle" /\ call'[t].result = call[t].result
        /\ call'[t].req = call[t].req
        /\ call[t].req = "get" => call'[t].got = call[t].got
    BY <1>c, <1>20 DEF Unlock, NoCall
  <2> QED
    BY <1>i, <1>k, <2>1, <2>2 DEF CallShape
<1>21. CASE CopyRefused(t)
  BY <1>i, <1>21 DEF CopyRefused, CallShape, Current
<1>22. CASE InfoFails(t) \/ SetOverflows(t)
  <2>1. /\ call[t].pc # "wait"
        /\ UNCHANGED <<call, ctrl_xfer_done, ctrl_xfer, buffer>>
    BY <1>22 DEF InfoFails, SetOverflows, Crash
  <2> QED
    BY <1>i, <1>k, <2>1, SameShape
<1> QED
  BY <1>1, <1>2, <1>3, <1>4, <1>5, <1>6, <1>7, <1>8, <1>9, <1>10, <1>11, <1>12,
     <1>13, <1>14, <1>15, <1>16, <1>17, <1>18, <1>19, <1>20, <1>21, <1>22
     DEF Step, TaskNext

\* The one call that waits when a transfer is in flight.
LEMMA Waiting ==
    ASSUME OrderInv, NEW b \in Buffer, buffer[b].flight # "idle"
    PROVE  /\ b = ctrl_xfer
           /\ \E t \in Task : call[t].pc = "wait"
BY DEF OrderInv, Quiet, OneTransfer, Current

LEMMA OrderBus ==
    ASSUME Orderly, OrderInv, BusStep
    PROVE  (\A u \in Task : CallShape(u)') /\ Quiet' /\ OneTransfer'
<1>1. PICK b \in Buffer : Complete(b) \/ Stall(b) \/ CtrlXferDone(b)
  BY DEF BusStep
<1>2. buffer[b].flight \in {"pending", "finished"}
  BY <1>1 DEF Complete, Stall, CtrlXferDone
<1>3. b = ctrl_xfer /\ \E t \in Task : call[t].pc = "wait"
  BY <1>2, Waiting
<1>4. PICK t \in Task : call[t].pc = "wait"
  BY <1>3
<1>5. UNCHANGED <<call, ctrl_xfer>>
  BY BusShape
<1>c. buffer \in [Buffer -> Transfer]
  BY DEF OrderInv, IInv, TypeOK
<1>i. IInv /\ CallShape(t) /\ OneTransfer /\ \A u \in Task : CallShape(u)
  BY DEF OrderInv
<1>6. \A u \in Task \ {t} : CallShape(u)'
  BY <1>4, <1>5, <1>i, Alone, OutsideShape DEF Critical
<1>7. Quiet'
  BY <1>4, <1>5 DEF Quiet
<1>8. call[t].xfer = ctrl_xfer /\ call[t].result = "none" /\ WaitShape(t)
  BY <1>4, <1>i DEF CallShape
<1>9. CASE Complete(b)
  <2>1. /\ buffer'[b].flight = "finished" /\ buffer'[b].data = buffer[b].carried
        /\ buffer'[b].actual = "whole"
        /\ \A c \in Buffer : /\ buffer'[c].live = buffer[c].live
                             /\ c # b => buffer'[c].flight = buffer[c].flight
        /\ buffer[b].flight = "pending"
        /\ UNCHANGED ctrl_xfer_done
    BY <1>c, <1>9 DEF Complete, Transfer
  <2>2. WaitShape(t)'
    BY <1>3, <1>5, <1>8, <2>1 DEF WaitShape, Current
  <2>3. CallShape(t)'
    BY <1>4, <1>5, <1>8, <2>2 DEF CallShape
  <2>4. OneTransfer'
    BY <1>3, <1>5, <1>i, <2>1 DEF OneTransfer
  <2> QED
    BY <1>6, <1>7, <2>3, <2>4
<1>10. CASE Stall(b)
  BY <1>10 DEF Stall, MayFail, Orderly
<1>11. CASE CtrlXferDone(b)
  <2>1. /\ buffer'[b].flight = "idle" /\ buffer'[b].data = buffer[b].data
        /\ buffer'[b].actual = buffer[b].actual
        /\ \A c \in Buffer : /\ buffer'[c].live = buffer[c].live
                             /\ c # b => buffer'[c].flight = buffer[c].flight
        /\ buffer[b].flight = "finished"
        /\ ctrl_xfer_done' = TRUE
    BY <1>c, <1>11 DEF CtrlXferDone, Transfer
  <2>2. WaitShape(t)'
    BY <1>3, <1>5, <1>8, <2>1 DEF WaitShape, Current
  <2>3. CallShape(t)'
    BY <1>4, <1>5, <1>8, <2>2 DEF CallShape
  <2>4. OneTransfer'
    BY <1>3, <1>5, <1>i, <2>1 DEF OneTransfer
  <2> QED
    BY <1>6, <1>7, <2>3, <2>4
<1> QED
  BY <1>1, <1>9, <1>10, <1>11

LEMMA OrderInit == Init => OrderInv
<1> SUFFICES ASSUME Init
             PROVE  OrderInv
  OBVIOUS
<1>1. IInv
  BY IInvInit
<1>2. /\ \A t \in Task : call[t].pc = "idle" /\ call[t].result = "none"
      /\ ctrl_xfer_done = FALSE /\ ctrl_xfer \in Buffer
  BY DEF Init, NoCall
<1>3. \A b \in Buffer : /\ buffer[b].flight = "idle"
                        /\ buffer[b].live <=> b = ctrl_xfer
  BY DEF Init, NoTransfer, NewTransfer
<1> QED
  BY <1>1, <1>2, <1>3 DEF OrderInv, CallShape, Quiet, OneTransfer, Current

LEMMA OrderStep ==
    ASSUME Orderly, OrderInv, [Next]_vars
    PROVE  OrderInv'
<1>1. IInv'
  BY IInvStep DEF OrderInv
<1>s. ASSUME NEW t \in Task, Step(t)
      PROVE  OrderInv'
  <2>1. CallShape(t)' /\ Quiet' /\ OneTransfer'
    BY <1>s, OrderTask
  <2>2. \A u \in Task \ {t} : CallShape(u)'
    BY <1>s, OthersShape
  <2> QED
    BY <1>1, <2>1, <2>2 DEF OrderInv
<1>b. CASE BusStep
  BY <1>1, <1>b, OrderBus DEF OrderInv
<1>u. CASE UNCHANGED vars
  <2>1. UNCHANGED <<ctrl_xfer_done, ctrl_xfer, buffer, call>>
    BY <1>u DEF vars, deviceVars
  <2>2. \A u \in Task : CallShape(u)'
    BY <2>1, SameShape DEF OrderInv
  <2> QED
    BY <1>1, <2>1, <2>2 DEF OrderInv, Quiet, OneTransfer, Current
<1> QED
  BY <1>s, <1>b, <1>u, NextCases

LEMMA OrderInvariance == Orderly => (Spec => []OrderInv)
<1> SUFFICES ASSUME Orderly
             PROVE  Spec => []OrderInv
  OBVIOUS
<1>1. OrderInv /\ [Next]_vars => OrderInv'
  BY OrderStep
<1> QED
  BY OrderInit, <1>1, PTL DEF Spec

\* When hid_control_transfer reports success the transfer it submitted has
\* come back, as long as no request ever times out.
THEOREM TransferSynchronous == Orderly => (Spec => []Synchronous)
<1> SUFFICES ASSUME Orderly
             PROVE  Spec => []Synchronous
  OBVIOUS
<1>1. OrderInv => Synchronous
  <2> SUFFICES ASSUME OrderInv, NEW t \in Task, call[t].pc = "done"
               PROVE  buffer[ctrl_xfer].flight = "idle"
    BY DEF Synchronous
  <2>1. IInv /\ Quiet
    BY DEF OrderInv
  <2>2. \A u \in Task : call[u].pc # "wait"
    BY <2>1, Alone DEF Critical
  <2> QED
    BY <2>1, <2>2 DEF Quiet, Current
<1> QED
  BY <1>1, OrderInvariance, PTL

\* A GET request hands out the answer to itself, whatever other tasks request.
THEOREM AnswersAreOwn == Orderly => (Spec => []OwnAnswer)
<1> SUFFICES ASSUME Orderly
             PROVE  Spec => []OwnAnswer
  OBVIOUS
<1>1. OrderInv => OwnAnswer
  BY DEF OrderInv, CallShape, OwnAnswer
<1> QED
  BY <1>1, OrderInvariance, PTL

\* A call in the critical section that does not wait finds the transfer idle,
\* and only such calls write it.
LEMMA WriterIsAlone ==
    ASSUME OrderInv, NEW t \in Task, call[t].pc \in Critical \ {"wait"}
    PROVE  \A b \in Buffer : buffer[b].flight = "idle"
<1>1. \A u \in Task : call[u].pc # "wait"
  BY Alone DEF OrderInv, Critical
<1> QED
  BY <1>1, Waiting

\* Neither a setup packet nor a reallocation for a long descriptor meets a
\* transfer in flight, whatever tasks make requests.
THEOREM BufferUntouched == Orderly => (Spec => InFlightUntouched)
<1> SUFFICES ASSUME Orderly
             PROVE  Spec => InFlightUntouched
  OBVIOUS
<1> DEFINE Untouched == \A b \in Buffer : buffer[b].flight = "pending" =>
                            /\ buffer'[b].setup = buffer[b].setup
                            /\ buffer'[b].live
<1>1. OrderInv /\ [Next]_vars => Untouched
  <2> SUFFICES ASSUME OrderInv, [Next]_vars, NEW b \in Buffer,
                      buffer[b].flight = "pending"
               PROVE  /\ buffer'[b].setup = buffer[b].setup
                      /\ buffer'[b].live
    OBVIOUS
  <2>1. buffer[b].live /\ buffer \in [Buffer -> Transfer] /\ ctrl_xfer \in Buffer
    BY Waiting DEF OrderInv, OneTransfer, IInv, TypeOK
  <2>2. ASSUME NEW t \in Task, Step(t)
        PROVE  /\ buffer'[b].setup = buffer[b].setup
               /\ buffer'[b].live
    <3>1. call[t].pc \notin Critical \ {"wait"}
      BY WriterIsAlone
    <3>2. UNCHANGED buffer
      BY <2>2, <3>1 DEF Step, TaskNext, Ask, AskDescriptor, RecallDescriptor,
         AllocDescriptor, AllocDescriptorFreed, AllocDescriptorFails, TryLock,
         LockTimeout, Resize, ResizeFails, WriteSetup, Submit, SubmitFails, TakeDone,
         TakeTimeout, ResetEndpoint, ResetFails, SetDone, CopyAnswer, CopyRefused, InfoFails,
       SetOverflows, Unlock, Crash,
         At, deviceVars, Critical
    <3> QED
      BY <2>1, <3>2
  <2>3. CASE BusStep
    <3>1. PICK c \in Buffer : Complete(c) \/ Stall(c) \/ CtrlXferDone(c)
      BY <2>3 DEF BusStep
    <3> QED
      BY <2>1, <3>1 DEF Complete, Stall, CtrlXferDone, Transfer
  <2>4. CASE UNCHANGED vars
    BY <2>1, <2>4 DEF vars, deviceVars
  <2> QED
    BY <2>2, <2>3, <2>4, NextCases
<1> QED
  BY <1>1, OrderInvariance, PTL DEF Spec, InFlightUntouched

\* The owner of the mutex is in a request.
Holding == device_busy # Nobody =>
    \E u \in Task : device_busy = u /\ call[u].pc \in Critical

\* A call leaves the critical section with the mutex given back, and has it
\* only from there.
LEMMA HolderStep ==
    ASSUME Orderly, OrderInv, NEW t \in Task, Step(t)
    PROVE  /\ call[t].pc \in Critical => call'[t].pc \in Critical \/ device_busy' = Nobody
           /\ device_busy' # device_busy =>
                 device_busy' = Nobody \/ (device_busy' = t /\ call'[t].pc \in Critical)
<1> USE DEF At, deviceVars, Critical
<1>c. call \in [Task -> Call] /\ buffer \in [Buffer -> Transfer] /\ ctrl_xfer \in Buffer
  BY DEF OrderInv, IInv, TypeOK
<1>m. /\ \A pc : Goto(t, pc) => call'[t].pc = pc
      /\ \A r : Finish(t, r) => call'[t].pc = "unlock"
  BY <1>c, Moves
<1>1. ~ResizeFails(t)
  <2>1. SUFFICES ASSUME ResizeFails(t)
                 PROVE  FALSE
    OBVIOUS
  <2>2. buffer[ctrl_xfer].flight = "idle"
    BY <1>c, <2>1, WriterIsAlone DEF ResizeFails
  <2>3. ~Freed[ctrl_xfer].live
    BY <1>c, <2>2 DEF Freed, NoTransfer
  <2> QED
    BY <1>c, <2>1, <2>3 DEF ResizeFails, MayFail, Orderly
<1>2. CASE WriteSetup(t) \/ CopyAnswer(t)
  <2>1. CopyAnswer(t) => UNCHANGED call \/ call'[t].pc = "unlock"
    BY <1>c DEF CopyAnswer, Crash, Call
  <2> QED
    BY <1>2, <1>m, <2>1 DEF WriteSetup, CopyAnswer, Crash
<1>3. CASE TryLock(t) \/ Resize(t) \/ Submit(t) \/ SubmitFails(t) \/ TakeDone(t)
           \/ TakeTimeout(t) \/ ResetEndpoint(t) \/ ResetFails(t) \/ SetDone(t)
           \/ CopyRefused(t) \/ InfoFails(t) \/ SetOverflows(t) \/ Unlock(t)
  BY <1>3, <1>m DEF TryLock, Resize, Submit, SubmitFails, TakeDone, TakeTimeout,
     ResetEndpoint, ResetFails, SetDone, CopyRefused, InfoFails, SetOverflows,
     Crash, Unlock
<1>4. CASE \/ \E req \in Requests : Ask(t, req)
           \/ AskDescriptor(t) \/ RecallDescriptor(t) \/ AllocDescriptor(t)
           \/ AllocDescriptorFreed(t) \/ AllocDescriptorFails(t) \/ LockTimeout(t)
  <2>1. call[t].pc \notin Critical
    BY <1>4 DEF Ask, AskDescriptor, RecallDescriptor, AllocDescriptor,
       AllocDescriptorFreed, AllocDescriptorFails, LockTimeout
  <2>2. UNCHANGED device_busy
    BY <1>4 DEF Ask, AskDescriptor, RecallDescriptor, AllocDescriptor,
       AllocDescriptorFreed, AllocDescriptorFails, LockTimeout, Crash
  <2> QED
    BY <2>1, <2>2
<1> QED
  BY <1>1, <1>2, <1>3, <1>4 DEF Step, TaskNext

LEMMA HoldingStep ==
    ASSUME Orderly, OrderInv, Holding, [Next]_vars
    PROVE  Holding'
<1>1. ASSUME NEW t \in Task, Step(t)
      PROVE  Holding'
  <2>1. \A u \in Task \ {t} : call'[u] = call[u]
    BY <1>1, OthersShape
  <2> QED
    BY <1>1, <2>1, HolderStep DEF Holding
<1>2. CASE BusStep
  BY <1>2, BusShape DEF Holding
<1>3. CASE UNCHANGED vars
  BY <1>3 DEF vars, deviceVars, Holding
<1> QED
  BY <1>1, <1>2, <1>3, NextCases

\* A request is refused as busy only while another task is in one: no early
\* return keeps the mutex.
THEOREM BusyIsOther == Orderly => (Spec => BusyByOther)
<1> SUFFICES ASSUME Orderly
             PROVE  Spec => BusyByOther
  OBVIOUS
<1>1. Init => Holding
  BY DEF Init, Holding
<1>2. OrderInv /\ Holding /\ [Next]_vars => Holding'
  BY HoldingStep
<1> DEFINE Other == \A t \in Task : call[t].pc = "lock" /\ call'[t].result = "busy" =>
                        \E u \in Task \ {t} : call[u].pc \in Critical
<1>3. OrderInv /\ Holding /\ [Next]_vars => Other
  <2> SUFFICES ASSUME OrderInv, Holding, [Next]_vars, NEW t \in Task,
                      call[t].pc = "lock", call'[t].result = "busy"
               PROVE  \E u \in Task \ {t} : call[u].pc \in Critical
    OBVIOUS
  <2>1. call[t].result = "none" /\ call \in [Task -> Call]
    BY DEF OrderInv, CallShape, IInv, TypeOK
  <2>2. LockTimeout(t)
    <3>1. Step(t)
      <4>1. CASE BusStep \/ UNCHANGED vars
        BY <2>1, <4>1, BusShape DEF vars
      <4>2. ASSUME NEW u \in Task, Step(u), u # t
            PROVE  FALSE
        BY <2>1, <4>2, OthersShape
      <4> QED
        BY <4>1, <4>2, NextCases
    <3>2. ~TryLock(t)
      BY <2>1, Moves DEF TryLock
    <3> QED
      BY <3>1, <3>2 DEF Step, TaskNext, Ask, AskDescriptor, RecallDescriptor,
         AllocDescriptor, AllocDescriptorFreed, AllocDescriptorFails, Resize,
         ResizeFails, WriteSetup, Submit, SubmitFails, TakeDone, TakeTimeout,
         ResetEndpoint, ResetFails, SetDone, CopyAnswer, CopyRefused, InfoFails,
       SetOverflows, Unlock, At
  <2>3. device_busy # Nobody
    BY <2>2 DEF LockTimeout
  <2> QED
    BY <2>3 DEF Holding, Critical
<1> QED
  BY <1>1, <1>2, <1>3, OrderInvariance, PTL DEF Spec, BusyByOther
-----------------------------------------------------------------------------
(* The requests implement SyncRequest.                                     *)

Same(t) == Phase(t)' = Phase(t)

\* The abstract step that a step of t, or of its transfer, stands for.
Moved(t) ==
    \/ Same(t) /\ device_busy' = device_busy
    \/ /\ Phase(t) \in {"idle", "ok", "failed"} /\ Phase(t)' \in {"asked", "idle"}
       /\ device_busy' = device_busy
    \/ /\ Phase(t) = "asked" /\ device_busy = Nobody
       /\ Phase(t)' = "serving" /\ device_busy' = t
    \/ /\ Phase(t) = "serving" /\ Phase(t)' = "answered"
       /\ device_busy' = device_busy
    \/ /\ Phase(t) = "answered" /\ Phase(t)' = "ok"
       /\ device_busy' = Nobody
    \/ /\ Phase(t) = "asked" /\ Phase(t)' = "failed"
       /\ device_busy' = device_busy
    \/ /\ Phase(t) \in {"serving", "answered"} /\ Phase(t)' = "failed"
       /\ device_busy' = Nobody

\* An idle call has returned, with success or without.
LEMMA IdlePhase ==
    ASSUME TypeOK, NEW t \in Task, call[t].pc = "idle"
    PROVE  Phase(t) \in {"idle", "ok", "failed"}
<1>1. call[t].result \in {"none", "ok", "cached", "busy", "error"}
  BY DEF TypeOK, Call
<1>2. CASE call[t].result \in {"none", "cached"}
  BY <1>2 DEF Phase, Critical
<1>3. CASE call[t].result = "ok"
  BY <1>3 DEF Phase, Critical
<1>4. CASE call[t].result \in {"busy", "error"}
  BY <1>4 DEF Phase, Critical
<1> QED
  BY <1>1, <1>2, <1>3, <1>4

LEMMA MovedImplements ==
    ASSUME NEW t \in Task, Moved(t), \A u \in Task \ {t} : Same(u)
    PROVE  [Abstract!Next]_(Abstract!vars)
<1> DEFINE phase == [u \in Task |-> Phase(u)]
           next == [u \in Task |-> Phase(u)']
<1>1. \A v : Phase(t)' = v => next = [phase EXCEPT ![t] = v]
  BY DEF Same
<1>2. Phase(t)' = Phase(t) => next = phase
  BY DEF Same
<1>3. phase[t] = Phase(t)
  OBVIOUS
<1>4. phase' = next
  OBVIOUS
<1> HIDE DEF phase, next
<1>5. CASE Same(t) /\ device_busy' = device_busy
  BY <1>2, <1>4, <1>5 DEF Same, Abstract!vars, phase
<1>6. CASE /\ Phase(t) \in {"idle", "ok", "failed"} /\ Phase(t)' \in {"asked", "idle"}
           /\ device_busy' = device_busy
  <2>1. Abstract!Ask(t) \/ Abstract!Recall(t)
    BY <1>1, <1>3, <1>4, <1>6
       DEF Abstract!Ask, Abstract!Recall, Abstract!Returned, phase
  <2> QED
    BY <2>1 DEF Abstract!Next
<1>7. CASE /\ Phase(t) = "asked" /\ device_busy = Nobody
           /\ Phase(t)' = "serving" /\ device_busy' = t
  <2>1. Abstract!Serve(t)
    BY <1>1, <1>3, <1>4, <1>7 DEF Abstract!Serve, phase
  <2> QED
    BY <2>1 DEF Abstract!Next
<1>8. CASE /\ Phase(t) = "serving" /\ Phase(t)' = "answered"
           /\ device_busy' = device_busy
  <2>1. Abstract!Answer(t)
    BY <1>1, <1>3, <1>4, <1>8 DEF Abstract!Answer, phase
  <2> QED
    BY <2>1 DEF Abstract!Next
<1>9. CASE /\ Phase(t) = "answered" /\ Phase(t)' = "ok"
           /\ device_busy' = Nobody
  <2>1. Abstract!Succeed(t)
    BY <1>1, <1>3, <1>4, <1>9 DEF Abstract!Succeed, phase
  <2> QED
    BY <2>1 DEF Abstract!Next
<1>10. CASE /\ Phase(t) = "asked" /\ Phase(t)' = "failed"
            /\ device_busy' = device_busy
  <2>1. Abstract!Refuse(t)
    BY <1>1, <1>3, <1>4, <1>10 DEF Abstract!Refuse, phase
  <2> QED
    BY <2>1 DEF Abstract!Next
<1>11. CASE /\ Phase(t) \in {"serving", "answered"} /\ Phase(t)' = "failed"
            /\ device_busy' = Nobody
  <2>1. Abstract!GiveUp(t)
    BY <1>1, <1>3, <1>4, <1>11 DEF Abstract!GiveUp, phase
  <2> QED
    BY <2>1 DEF Abstract!Next
<1> QED
  BY <1>5, <1>6, <1>7, <1>8, <1>9, <1>10, <1>11 DEF Moved

\* Only the task that steps, or whose transfer is on the bus, moves.
LEMMA OthersSame ==
    ASSUME OrderInv, NEW t \in Task, Step(t), NEW u \in Task \ {t}
    PROVE  Same(u)
<1>1. call'[u] = call[u] /\ IInv
  BY OthersShape DEF OrderInv
<1>2. CASE call[t].pc \in Critical
  <2>1. call[u].pc \notin Critical
    BY <1>1, <1>2, Alone
  <2> QED
    BY <1>1, <2>1 DEF Same, Phase, Critical
<1>3. CASE call[t].pc \notin Critical
  BY <1>1, <1>3, OutsideStep DEF Same, Phase
<1> QED
  BY <1>2, <1>3

LEMMA TaskMoved ==
    ASSUME Orderly, OrderInv, NEW t \in Task, Step(t)
    PROVE  Moved(t)
<1> USE DEF deviceVars, At
<1>c. /\ call \in [Task -> Call] /\ buffer \in [Buffer -> Transfer]
      /\ ctrl_xfer \in Buffer
  BY DEF OrderInv, IInv, TypeOK
<1>i. IInv /\ CallShape(t) /\ Quiet /\ OneTransfer /\ t # Nobody
  BY TaskAssumption DEF OrderInv
<1>t. TypeOK
  BY DEF OrderInv, IInv
<1>n. CallShape(t)'
  BY OrderTask
<1>f. ~MayFail("timeout") /\ ~MayFail("heap")
  BY DEF Orderly, MayFail
<1>m. /\ \A pc : Goto(t, pc) =>
            /\ call'[t].pc = pc
            /\ call'[t].xfer = call[t].xfer
            /\ call'[t].result = call[t].result
      /\ \A r : Finish(t, r) =>
            /\ call'[t].pc = "unlock"
            /\ call'[t].xfer = call[t].xfer
            /\ call'[t].result = r
      /\ \A r : Return(t, r) => call'[t].pc = "idle" /\ call'[t].result = r
  BY <1>c, Moves
<1>1. ASSUME NEW req \in Requests, Ask(t, req)
      PROVE  Moved(t)
  <2>1. call[t].pc = "idle" /\ call'[t].pc = "lock" /\ device_busy' = device_busy
    BY <1>c, <1>1 DEF Ask, NoCall
  <2>2. Phase(t)' = "asked"
    BY <2>1 DEF Phase, Critical
  <2> QED
    BY <1>t, <2>1, <2>2, IdlePhase DEF Moved
<1>2. CASE AskDescriptor(t)
  <2>1. /\ call[t].pc = "idle" /\ call'[t].pc = "malloc"
        /\ device_busy' = device_busy
    BY <1>c, <1>2 DEF AskDescriptor, NoCall
  <2>2. Phase(t)' = "asked"
    BY <2>1 DEF Phase, Critical
  <2> QED
    BY <1>t, <2>1, <2>2, IdlePhase DEF Moved
<1>3. CASE RecallDescriptor(t)
  <2>1. /\ call[t].pc = "idle" /\ call'[t].pc = "idle"
        /\ call'[t].result = "cached" /\ device_busy' = device_busy
    BY <1>c, <1>3 DEF RecallDescriptor, NoCall
  <2>2. Phase(t)' = "idle"
    BY <2>1 DEF Phase, Critical
  <2> QED
    BY <1>t, <2>1, <2>2, IdlePhase DEF Moved
<1>4. CASE AllocDescriptor(t)
  <2>1. /\ call[t].pc = "malloc" /\ call'[t].pc = "lock"
        /\ device_busy' = device_busy
    BY <1>c, <1>4 DEF AllocDescriptor, Call
  <2>2. Phase(t) = "asked" /\ Phase(t)' = "asked"
    BY <2>1 DEF Phase, Critical
  <2> QED
    BY <2>1, <2>2 DEF Moved, Same
<1>5. CASE AllocDescriptorFreed(t)
  BY <1>5 DEF AllocDescriptorFreed, Crash, Moved, Same, Phase
<1>6. CASE AllocDescriptorFails(t)
  BY <1>f, <1>6 DEF AllocDescriptorFails
<1>7. CASE TryLock(t)
  <2>1. /\ call[t].pc = "lock" /\ call'[t].pc \in {"resize", "setup"}
        /\ device_busy = Nobody /\ device_busy' = t
    BY <1>m, <1>7 DEF TryLock
  <2>2. Phase(t) = "asked" /\ Phase(t)' = "serving"
    BY <2>1 DEF Phase, Critical
  <2> QED
    BY <2>1, <2>2 DEF Moved
<1>8. CASE LockTimeout(t)
  <2>1. /\ call[t].pc = "lock" /\ call'[t].pc = "idle"
        /\ call'[t].result = "busy" /\ device_busy' = device_busy
    BY <1>m, <1>8 DEF LockTimeout
  <2> QED
    BY <2>1 DEF Moved, Phase, Critical
<1>9. CASE Resize(t)
  <2>1. /\ call[t].pc = "resize" /\ call'[t].pc = "setup"
        /\ device_busy' = device_busy
    BY <1>m, <1>9 DEF Resize
  <2> QED
    BY <2>1 DEF Moved, Same, Phase
<1>10. CASE ResizeFails(t)
  <2>1. Current.flight = "idle"
    BY <1>i, <1>10, Alone DEF ResizeFails, Quiet, Critical
  <2>2. Freed = [buffer EXCEPT ![ctrl_xfer] = NoTransfer]
    BY <2>1 DEF Freed, Current
  <2>3. ~Freed[ctrl_xfer].live
    BY <1>c, <2>2 DEF NoTransfer
  <2> QED
    BY <1>c, <1>f, <1>10, <2>3 DEF ResizeFails
<1>11. CASE WriteSetup(t)
  <2>1. CASE buffer[call[t].xfer].live
    <3>1. /\ call[t].pc = "setup" /\ call'[t].pc = "submit"
          /\ device_busy' = device_busy
      BY <1>m, <1>11, <2>1 DEF WriteSetup
    <3>2. (buffer[call[t].xfer].data # t)'
      BY <1>i, <1>n, <3>1 DEF CallShape, Current
    <3> QED
      BY <3>1, <3>2 DEF Moved, Same, Phase, Critical
  <2>2. CASE ~buffer[call[t].xfer].live
    BY <1>11, <2>2 DEF WriteSetup, Crash, Moved, Same, Phase
  <2> QED
    BY <2>1, <2>2
<1>12. CASE Submit(t)
  <2>1. /\ call[t].pc = "submit" /\ call'[t].pc = "wait"
        /\ call'[t].xfer = call[t].xfer /\ device_busy' = device_busy
    BY <1>m, <1>12 DEF Submit
  <2>2. \A b \in Buffer : buffer'[b].data = buffer[b].data
    BY <1>c, <1>12 DEF Submit, Transfer
  <2>3. call[t].xfer \in Buffer
    BY <1>i, <2>1 DEF IInv, Pointers
  <2> QED
    BY <2>1, <2>2, <2>3 DEF Moved, Same, Phase, Critical
<1>13. CASE SubmitFails(t)
  <2>1. /\ call[t].pc = "submit" /\ call'[t].pc = "unlock"
        /\ call'[t].xfer = call[t].xfer
        /\ UNCHANGED <<device_busy, buffer>>
    BY <1>m, <1>13 DEF SubmitFails
  <2> QED
    BY <2>1 DEF Moved, Same, Phase, Critical
<1>14. CASE TakeDone(t)
  <2>1. /\ call[t].pc = "wait" /\ call'[t].pc = "done"
        /\ call'[t].xfer = call[t].xfer
        /\ UNCHANGED <<device_busy, buffer>>
    BY <1>m, <1>14 DEF TakeDone
  <2> QED
    BY <2>1 DEF Moved, Same, Phase, Critical
<1>15. CASE TakeTimeout(t)
  BY <1>f, <1>15 DEF TakeTimeout
<1>16. CASE ResetEndpoint(t)
  BY <1>i, <1>16 DEF ResetEndpoint, CallShape
<1>17. CASE ResetFails(t)
  BY <1>i, <1>17 DEF ResetFails, CallShape
<1>18. CASE SetDone(t)
  <2>1. /\ call[t].pc = "done" /\ call'[t].pc = "unlock"
        /\ call'[t].xfer = call[t].xfer
        /\ UNCHANGED <<device_busy, buffer>>
    BY <1>m, <1>18 DEF SetDone
  <2> QED
    BY <2>1 DEF Moved, Same, Phase, Critical
<1>19. CASE CopyAnswer(t)
  <2>1. call[t].pc = "done" /\ Current.data = t /\ call[t].xfer = ctrl_xfer
        /\ Current.actual = "whole"
    BY <1>i, <1>19 DEF CopyAnswer, CallShape
  <2>2. /\ call' = [call EXCEPT ![t].pc = "unlock", ![t].result = "ok",
                                ![t].got = buffer[ctrl_xfer].data]
        /\ device_busy' = device_busy
    BY <1>19, <2>1 DEF CopyAnswer, Current
  <2>3. call'[t].pc = "unlock" /\ call'[t].result = "ok"
    BY <1>c, <2>2 DEF Call
  <2>4. (buffer[call[t].xfer].data = t)'
    BY <1>n, <2>3 DEF CallShape
  <2> QED
    BY <2>1, <2>2, <2>3, <2>4 DEF Moved, Same, Phase, Critical, Current
<1>20. CASE Unlock(t)
  <2>1. /\ call[t].pc = "unlock" /\ call'[t].pc = "idle"
        /\ call'[t].result = call[t].result /\ device_busy' = Nobody
    BY <1>c, <1>20 DEF Unlock, NoCall
  <2>2. CASE call[t].result = "ok"
    <3>1. buffer[call[t].xfer].data = t
      BY <1>i, <2>1, <2>2 DEF CallShape
    <3> QED
      BY <2>1, <2>2, <3>1 DEF Moved, Phase, Critical
  <2>3. CASE call[t].result = "error"
    BY <2>1, <2>3 DEF Moved, Phase, Critical
  <2> QED
    BY <1>i, <2>1, <2>2, <2>3 DEF CallShape
<1>21. CASE CopyRefused(t)
  BY <1>i, <1>21 DEF CopyRefused, CallShape, Current
<1>22. CASE InfoFails(t) \/ SetOverflows(t)
  BY <1>22 DEF InfoFails, SetOverflows, Crash, Moved, Same, Phase
<1> QED
  BY <1>1, <1>2, <1>3, <1>4, <1>5, <1>6, <1>7, <1>8, <1>9, <1>10, <1>11, <1>12,
     <1>13, <1>14, <1>15, <1>16, <1>17, <1>18, <1>19, <1>20, <1>21, <1>22
     DEF Step, TaskNext

LEMMA BusMoved ==
    ASSUME Orderly, OrderInv, BusStep
    PROVE  \E t \in Task : Moved(t) /\ \A u \in Task \ {t} : Same(u)
<1>1. PICK b \in Buffer : Complete(b) \/ Stall(b) \/ CtrlXferDone(b)
  BY DEF BusStep
<1>2. buffer[b].flight \in {"pending", "finished"}
  BY <1>1 DEF Complete, Stall, CtrlXferDone
<1>3. b = ctrl_xfer /\ \E t \in Task : call[t].pc = "wait"
  BY <1>2, Waiting
<1>4. PICK t \in Task : call[t].pc = "wait"
  BY <1>3
<1>5. UNCHANGED <<call, ctrl_xfer, device_busy>>
  BY BusShape
<1>c. buffer \in [Buffer -> Transfer]
  BY DEF OrderInv, IInv, TypeOK
<1>i. IInv /\ CallShape(t) /\ t # Nobody
  BY TaskAssumption DEF OrderInv
<1>6. ASSUME NEW u \in Task \ {t}
      PROVE  Same(u)
  <2>1. call[u].pc \notin Critical
    BY <1>4, <1>i, Alone DEF Critical
  <2> QED
    BY <1>5, <2>1 DEF Same, Phase, Critical
<1>7. call[t].xfer = ctrl_xfer /\ WaitShape(t)
  BY <1>4, <1>i DEF CallShape
<1>8. CASE Complete(b)
  <2>1. /\ buffer'[b].data = buffer[b].carried
        /\ buffer[b].flight = "pending"
    BY <1>c, <1>8 DEF Complete
  <2>2. buffer[b].data = Nobody /\ buffer'[b].data = t
    BY <1>3, <1>7, <2>1 DEF WaitShape, Current
  <2>3. Moved(t)
    BY <1>3, <1>4, <1>5, <1>7, <1>i, <2>2 DEF Moved, Phase, Critical
  <2> QED
    BY <1>6, <2>3
<1>9. CASE Stall(b)
  BY <1>9 DEF Stall, MayFail, Orderly
<1>10. CASE CtrlXferDone(b)
  <2>1. buffer'[b].data = buffer[b].data
    BY <1>c, <1>10 DEF CtrlXferDone, Transfer
  <2>2. Moved(t)
    BY <1>3, <1>4, <1>5, <1>7, <2>1 DEF Moved, Same, Phase, Critical
  <2> QED
    BY <1>6, <2>2
<1> QED
  BY <1>1, <1>8, <1>9, <1>10

\* The mutex, the shared transfer and the semaphore together are one answered
\* request at a time: every step is one of SyncRequest or none.
THEOREM Refines == Orderly => (Spec => ImplementsSync)
<1> SUFFICES ASSUME Orderly
             PROVE  Spec => ImplementsSync
  OBVIOUS
<1>1. Init => Abstract!Init
  <2> SUFFICES ASSUME Init
               PROVE  Abstract!Init
    OBVIOUS
  <2>1. \A t \in Task : Phase(t) = "idle"
    <3>1. \A t \in Task : call[t].pc = "idle" /\ call[t].result = "none"
      BY DEF Init, NoCall
    <3> QED
      BY <3>1 DEF Phase, Critical
  <2> QED
    BY <2>1 DEF Init, Abstract!Init
<1>2. OrderInv /\ [Next]_vars => [Abstract!Next]_(Abstract!vars)
  <2> SUFFICES ASSUME OrderInv, [Next]_vars
               PROVE  [Abstract!Next]_(Abstract!vars)
    OBVIOUS
  <2>1. ASSUME NEW t \in Task, Step(t)
        PROVE  [Abstract!Next]_(Abstract!vars)
    BY <2>1, TaskMoved, OthersSame, MovedImplements
  <2>2. CASE BusStep
    BY <2>2, BusMoved, MovedImplements
  <2>3. CASE UNCHANGED vars
    BY <2>3 DEF vars, deviceVars, Abstract!vars, Phase
  <2> QED
    BY <2>1, <2>2, <2>3, NextCases
<1> QED
  BY <1>1, <1>2, OrderInvariance, PTL DEF Spec, ImplementsSync, Abstract!Spec
=============================================================================

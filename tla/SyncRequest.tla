---------------------------- MODULE SyncRequest ----------------------------
(***************************************************************************)
(* What the class requests of a device promise to the tasks that call      *)
(* them: the device serves one request at a time, and a call that succeeds *)
(* returns after the device answered that very request.                    *)
(***************************************************************************)
CONSTANTS
    Task,       \* the tasks that call
    Nobody      \* not one of them

VARIABLES
    phase,      \* phase[t]: how far the call of task t is
    holder      \* the task whose request the device serves

vars == <<phase, holder>>

Returned == {"idle", "ok", "failed"}

Phase == Returned \cup {"asked", "serving", "answered"}

Init ==
    /\ phase = [t \in Task |-> "idle"]
    /\ holder = Nobody

Ask(t) ==
    /\ phase[t] \in Returned
    /\ phase' = [phase EXCEPT ![t] = "asked"]
    /\ UNCHANGED holder

\* A call that needs no answer of the device returns at once.
Recall(t) ==
    /\ phase[t] \in Returned
    /\ phase' = [phase EXCEPT ![t] = "idle"]
    /\ UNCHANGED holder

Serve(t) ==
    /\ phase[t] = "asked" /\ holder = Nobody
    /\ phase' = [phase EXCEPT ![t] = "serving"]
    /\ holder' = t

Answer(t) ==
    /\ phase[t] = "serving"
    /\ phase' = [phase EXCEPT ![t] = "answered"]
    /\ UNCHANGED holder

Succeed(t) ==
    /\ phase[t] = "answered"
    /\ phase' = [phase EXCEPT ![t] = "ok"]
    /\ holder' = Nobody

\* A call may fail before the device has been asked, or while it is served.
Refuse(t) ==
    /\ phase[t] = "asked"
    /\ phase' = [phase EXCEPT ![t] = "failed"]
    /\ UNCHANGED holder

GiveUp(t) ==
    /\ phase[t] \in {"serving", "answered"}
    /\ phase' = [phase EXCEPT ![t] = "failed"]
    /\ holder' = Nobody

Next ==
    \E t \in Task :
        \/ Ask(t) \/ Recall(t) \/ Serve(t) \/ Answer(t)
        \/ Succeed(t) \/ Refuse(t) \/ GiveUp(t)

Spec == Init /\ [][Next]_vars
=============================================================================

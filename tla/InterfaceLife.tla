--------------------------- MODULE InterfaceLife ----------------------------
(***************************************************************************)
(* What the HID driver promises about an interface while its device is     *)
(* plugged in: it is claimed, opened, started, stopped, released and       *)
(* closed in this order, one transfer at a time is awaited of it, and only *)
(* between the open and the release.  When the device leaves, the          *)
(* interface is away, and comes back as new.                               *)
(***************************************************************************)
CONSTANT Interface

VARIABLES
    phase,      \* phase[i]: "away", "closed", "open" or "started"
    held,       \* the interfaces that are claimed
    awaited     \* those that a transfer has been submitted to

vars == <<phase, held, awaited>>

Init ==
    /\ phase = [i \in Interface |-> "away"]
    /\ held = {}
    /\ awaited = {}

\* The interfaces S appear, unclaimed and with no transfer in flight.
Appear(S) ==
    /\ \A i \in S : phase[i] = "away"
    /\ phase' = [i \in Interface |-> IF i \in S THEN "closed" ELSE phase[i]]
    /\ UNCHANGED <<held, awaited>>

Leave(S) ==
    /\ phase' = [i \in Interface |-> IF i \in S THEN "away" ELSE phase[i]]
    /\ held' = held \ S
    /\ awaited' = awaited \ S

Step(i, from, to) ==
    /\ phase[i] = from
    /\ phase' = [phase EXCEPT ![i] = to]
    /\ UNCHANGED <<held, awaited>>

Claim(i) ==
    /\ phase[i] = "closed" /\ i \notin held
    /\ held' = held \cup {i}
    /\ UNCHANGED <<phase, awaited>>

Open(i) == i \in held /\ Step(i, "closed", "open")

Start(i) == i \in held /\ Step(i, "open", "started")

Stop(i) == i \in held /\ Step(i, "started", "open")

\* A stop does not keep the transfer that comes back from being submitted again.
Await(i) ==
    /\ phase[i] \in {"open", "started"} /\ i \in held \ awaited
    /\ awaited' = awaited \cup {i}
    /\ UNCHANGED <<phase, held>>

Return(i) ==
    /\ i \in awaited
    /\ awaited' = awaited \ {i}
    /\ UNCHANGED <<phase, held>>

Release(i) ==
    /\ phase[i] = "open" /\ i \in held \ awaited
    /\ held' = held \ {i}
    /\ UNCHANGED <<phase, awaited>>

Close(i) == i \notin held /\ Step(i, "open", "closed")

Next ==
    \/ \E S \in SUBSET Interface : Appear(S) \/ Leave(S)
    \/ \E i \in Interface :
        \/ Claim(i) \/ Open(i) \/ Start(i) \/ Stop(i)
        \/ Await(i) \/ Return(i) \/ Release(i) \/ Close(i)

Spec == Init /\ [][Next]_vars
=============================================================================

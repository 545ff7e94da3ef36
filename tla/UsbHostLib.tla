----------------------------- MODULE UsbHostLib -----------------------------
(***************************************************************************)
(* The ESP-IDF USB Host Library as the HID driver (src/src/usb/hid_host.c) *)
(* uses it.  Nothing of the library is in the repository: this module      *)
(* states what the driver relies on, call by call.                         *)
(*                                                                         *)
(* A device is plugged into a port, announced to the client by a NEW_DEV   *)
(* message, opened, its interfaces claimed, and transfers submitted to the *)
(* interrupt IN endpoint of a claimed interface.  The driver owns one IN   *)
(* transfer per interface, so an interface <<d, n>> (interface n of device *)
(* d) also names its pipe.                                                 *)
(***************************************************************************)
EXTENDS Naturals, Sequences

CONSTANTS
    Device,     \* the devices that may be plugged in
    Endpoint,   \* endpoint addresses
    Config,     \* Config[d]: the interface descriptors of device d, in order
    MaxPlug,    \* bound: how often devices are plugged in between reboots
    Failing     \* the library and heap calls that may fail when used rightly

Kind == {"keyboard", "mouse", "generic", "badproto"}

Descriptor == [hid : BOOLEAN, usable : BOOLEAN, ep : Endpoint, kind : Kind]

Call == {"open", "heap", "claim", "alloc", "submit", "ctrl", "halt",
         "release", "close", "transfer", "info"}

ASSUME ConfigAssumption == Config \in [Device -> Seq(Descriptor)]

\* An endpoint address is used once in a device.
ASSUME EndpointAssumption ==
    \A d \in Device : \A m, n \in DOMAIN Config[d] :
        Config[d][m].ep = Config[d][n].ep => m = n

ASSUME LibAssumption == MaxPlug \in Nat /\ Failing \subseteq Call

Pipe == UNION { {d} \X DOMAIN Config[d] : d \in Device }

Desc(p) == Config[p[1]][p[2]]

VARIABLES
    port,       \* port[d]: "absent", "attached", or "gone" (unplugged, open)
    opened,     \* the devices the client holds open
    msgs,       \* client event messages not yet delivered
    claimed,    \* the interfaces the client has claimed
    pipe,       \* pipe[p]: what became of the transfer submitted to p
    plugs       \* how often a device was plugged in, up to MaxPlug

libVars == <<port, opened, msgs, claimed, pipe, plugs>>

Message == [event : {"NEW_DEV", "DEV_GONE"}, dev : Device]

Finished == {"completed", "error", "canceled", "no_device"}

LibTypeOK ==
    /\ port \in [Device -> {"absent", "attached", "gone"}]
    /\ opened \subseteq Device
    /\ msgs \in Seq(Message)
    /\ claimed \subseteq Pipe
    /\ pipe \in [Pipe -> {"idle", "pending"} \cup Finished]
    /\ plugs \in 0..MaxPlug

LibInit ==
    /\ port = [d \in Device |-> "absent"]
    /\ opened = {}
    /\ msgs = <<>>
    /\ claimed = {}
    /\ pipe = [p \in Pipe |-> "idle"]
    /\ plugs = 0

\* The library starts afresh with the program.
LibReset ==
    /\ port' = [d \in Device |-> "absent"]
    /\ opened' = {}
    /\ msgs' = <<>>
    /\ claimed' = {}
    /\ pipe' = [p \in Pipe |-> "idle"]
    /\ plugs' = 0

MayFail(call) == call \in Failing

-----------------------------------------------------------------------------
\* What happens on the bus.

Attach(d) ==
    /\ port[d] = "absent"
    /\ plugs < MaxPlug
    /\ plugs' = plugs + 1
    /\ port' = [port EXCEPT ![d] = "attached"]
    /\ msgs' = Append(msgs, [event |-> "NEW_DEV", dev |-> d])
    /\ UNCHANGED <<opened, claimed, pipe>>

\* The client hears of the removal of a device it holds open; the transfers
\* in flight come back before that message does.
DetachOpen(d) ==
    /\ port[d] = "attached" /\ d \in opened
    /\ port' = [port EXCEPT ![d] = "gone"]
    /\ msgs' = Append(msgs, [event |-> "DEV_GONE", dev |-> d])
    /\ pipe' = [p \in Pipe |-> IF p[1] = d /\ pipe[p] = "pending"
                               THEN "no_device" ELSE pipe[p]]
    /\ UNCHANGED <<opened, claimed, plugs>>

DetachUnopened(d) ==
    /\ port[d] = "attached" /\ d \notin opened
    /\ port' = [port EXCEPT ![d] = "absent"]
    /\ UNCHANGED <<opened, msgs, claimed, pipe, plugs>>

\* The device answers the IN token, or the transfer fails on the bus.
Complete(p) ==
    /\ pipe[p] = "pending"
    /\ \/ pipe' = [pipe EXCEPT ![p] = "completed"]
       \/ MayFail("transfer") /\ pipe' = [pipe EXCEPT ![p] = "error"]
    /\ UNCHANGED <<port, opened, msgs, claimed, plugs>>

-----------------------------------------------------------------------------
\* When the calls of the driver succeed.

OpenOk(d) == port[d] = "attached" /\ d \notin opened

ClaimOk(p) == port[p[1]] = "attached" /\ p[1] \in opened /\ p \notin claimed

SubmitOk(p) == port[p[1]] = "attached" /\ p \in claimed /\ pipe[p] = "idle"

ReleaseOk(p) == p \in claimed /\ pipe[p] = "idle"

CloseOk(d) == d \in opened /\ \A p \in claimed : p[1] # d

\* usb_host_client_handle_events runs the callbacks of finished transfers
\* before it delivers a message about their device.
Deliverable(event) ==
    /\ msgs # <<>>
    /\ Head(msgs).event = event
    /\ \A p \in Pipe : p[1] = Head(msgs).dev => pipe[p] \notin Finished
=============================================================================

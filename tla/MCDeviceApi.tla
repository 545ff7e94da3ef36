---------------------------- MODULE MCDeviceApi -----------------------------
(***************************************************************************)
(* Instances of HidDeviceApi for TLC: a device with two HID interfaces.    *)
(***************************************************************************)
EXTENDS HidDeviceApi, TLC

CONSTANTS d1, e1, e2, t1, t2

HidInterface(ep, kind) ==
    [hid |-> TRUE, usable |-> TRUE, ep |-> ep, kind |-> kind]

TwoInterfaces ==
    d1 :> <<HidInterface(e1, "keyboard"), HidInterface(e2, "mouse")>>
=============================================================================

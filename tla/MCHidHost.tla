----------------------------- MODULE MCHidHost ------------------------------
(***************************************************************************)
(* Instances of HidHost for TLC: the configurations of the devices that    *)
(* may be plugged in, and the definitions its configuration files name.    *)
(***************************************************************************)
EXTENDS HidHost

CONSTANTS d1, d2, d3, e1, e2, a1, a2

HidInterface(ep, kind) ==
    [hid |-> TRUE, usable |-> TRUE, ep |-> ep, kind |-> kind]

\* A receiver with a boot keyboard interface and one of its own, as the G20S
\* remote has: every class request is made and every branch of start is taken.
Receiver ==
    (d1 :> <<HidInterface(e1, "keyboard"), HidInterface(e2, "generic")>>)

\* Two devices of one interface each that use the same endpoint address.
SameEndpoint ==
    (d1 :> <<HidInterface(e1, "keyboard")>>) @@
    (d2 :> <<HidInterface(e1, "mouse")>>)

\* A keyboard whose second HID interface has no IN endpoint, a mouse with
\* another endpoint address, and a device without a HID interface.
Mixed ==
    (d1 :> <<HidInterface(e1, "keyboard"),
             [HidInterface(e2, "mouse") EXCEPT !.usable = FALSE]>>) @@
    (d2 :> <<HidInterface(e2, "mouse")>>) @@
    (d3 :> <<[HidInterface(e1, "generic") EXCEPT !.hid = FALSE]>>)

AllCalls == Call
=============================================================================

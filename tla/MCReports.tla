------------------------------ MODULE MCReports -----------------------------
(***************************************************************************)
(* Instances of Reports for TLC: two keyboards with two mice, and a remote *)
(* with an interface of no class.                                          *)
(***************************************************************************)
EXTENDS Reports

CONSTANTS kb1, kb2, mouse1, mouse2, remote, pad, c1, c2

AllInterfaces == {kb1, kb2, mouse1, mouse2, remote, pad}

Is(g20s, boot, proto) == [g20s |-> g20s, boot |-> boot, proto |-> proto]

\* The interface pad is a generic device, whose reports raise no event.
Kinds ==
    [i \in AllInterfaces |->
        CASE i \in {kb1, kb2} -> Is(FALSE, TRUE, "keyboard")
          [] i \in {mouse1, mouse2} -> Is(FALSE, TRUE, "mouse")
          [] i = remote -> Is(TRUE, TRUE, "keyboard")
          [] i = pad -> Is(FALSE, FALSE, "none")]

Desks == {{kb1, kb2, mouse1, mouse2}, {remote, pad}}

Deltas == {-1, 0, 1}

AllButtons == DOMAIN Remote \cup DOMAIN MouseButton

ThreeKeys == {"Enter", "Up", "Left", "Home", "MouseLeft"}

\* No report tells one callback from another.
CallbackSymmetry == Permutations({c1, c2})
=============================================================================

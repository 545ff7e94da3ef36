SPECIFICATION Spec

CONSTANTS
    kb1 = kb1
    kb2 = kb2
    mouse1 = mouse1
    mouse2 = mouse2
    remote = remote
    pad = pad
    c1 = c1
    c2 = c2
    Modifier = {"shift"}
    Key = {4, 5}
    MAX_KEYS = 2
    Button = {"left"}
    Delta <- Deltas
    Interface <- AllInterfaces
    Desc <- Kinds
    Desk <- Desks
    Callback = {c1, c2}
    Held <- AllButtons
    Chord <- ThreeKeys

INVARIANTS
    TypeOK
    Follows
    MotionTold
    ButtonTold

SYMMETRY CallbackSymmetry

CHECK_DEADLOCK FALSE

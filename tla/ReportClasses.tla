--------------------------- MODULE ReportClasses ----------------------------
(***************************************************************************)
(* What the report classes of UsbHidHost make of the data of one report:   *)
(* the object's next state, whether it raises an event, and the event.     *)
(* They hold no reference to the device: every keyboard shares one         *)
(* UsbHidKeyboardReport, every mouse one UsbHidMouseReport.                *)
(***************************************************************************)
EXTENDS Integers, Sequences, FiniteSets

CONSTANTS
    Modifier,   \* the modifier keys
    Key,        \* the usages of the other keys, without KEY_NONE
    MAX_KEYS,   \* key slots of a report (6 in the code)
    Button,     \* the buttons of a mouse
    Delta       \* its motions, in one coordinate

ASSUME KeyAssumption == Key \subseteq Nat \ {0} /\ MAX_KEYS \in Nat \ {0}
ASSUME DeltaAssumption == Delta \subseteq Int /\ 0 \in Delta

-----------------------------------------------------------------------------
(* Keyboard and mouse: the last report is kept, and compared with the new. *)

KEY_NONE == 0

KeyboardReport ==
    [modifier : SUBSET Modifier, key : [1..MAX_KEYS -> Key \cup {KEY_NONE}]]

NoKeys == [modifier |-> {}, key |-> [s \in 1..MAX_KEYS |-> KEY_NONE]]

MouseReport == [buttons : SUBSET Button, x_delta : Delta]

NoMotion == [buttons |-> {}, x_delta |-> 0]

\* Data of a report: whole, or shorter than the class's report structure.
Data(Reports) == [whole : {TRUE}, report : Reports] \cup [whole : {FALSE}]

\* NextKeyboard that forgets to keep the new report.
NextKeyboard_Forgets(report, data) == IF data.whole THEN report ELSE NoKeys

NextKeyboard(report, data) == IF data.whole THEN data.report ELSE NoKeys

NextMouse(report, data) == IF data.whole THEN data.report ELSE NoMotion

\* Changed that compares the buttons of a mouse, not its motion.
Changed_ButtonsOnly(report, data) ==
    /\ data.whole
    /\ IF "buttons" \in DOMAIN report THEN data.report.buttons # report.buttons
       ELSE data.report # report

\* memcmp: a report equal to the one before raises no event.
Changed(report, data) == data.whole /\ data.report # report

\* Pressed that copies every slot.
Pressed_All(k) == TRUE

Pressed(k) == k # KEY_NONE

\* The keys among the bytes of a report, in the order of their slots.
KeysIn(bytes) ==
    LET slots == {i \in DOMAIN bytes : Pressed(bytes[i])}
        Rank(i) == Cardinality({j \in slots : j <= i})
    IN [r \in 1..Cardinality(slots) |-> bytes[CHOOSE i \in slots : Rank(i) = r]]

KeyboardEvent(report) ==
    [modifiers |-> report.modifier, keyCodes |-> KeysIn(report.key)]

MouseEvent(report) == report

-----------------------------------------------------------------------------
(* The G20S Pro remote: reports are bytes, told apart by length and id.    *)

ButtonCode(id, code) == [reportId |-> id, code |-> code]

btnCodeMap ==
    [Power |-> ButtonCode(5, \h01), Mute |-> ButtonCode(4, \hE2),
     PgUp |-> ButtonCode(1, \h4B), PgDown |-> ButtonCode(1, \h4E),
     Left |-> ButtonCode(1, \h50), Down |-> ButtonCode(1, \h51),
     Up |-> ButtonCode(1, \h52), Right |-> ButtonCode(1, \h4F),
     Enter |-> ButtonCode(1, \h28), Back |-> ButtonCode(4, \h24),
     Home |-> ButtonCode(4, \h23), VolDown |-> ButtonCode(4, \hEA),
     Mic |-> ButtonCode(4, \hCF), VolUp |-> ButtonCode(4, \hE9),
     Prev |-> ButtonCode(4, \hB6), Play |-> ButtonCode(4, \hCD),
     Next |-> ButtonCode(4, \hB5), Num1 |-> ButtonCode(1, \h1E),
     Num2 |-> ButtonCode(1, \h1F), Num3 |-> ButtonCode(1, \h20),
     Num4 |-> ButtonCode(1, \h21), Num5 |-> ButtonCode(1, \h22),
     Num6 |-> ButtonCode(1, \h23), Num7 |-> ButtonCode(1, \h24),
     Num8 |-> ButtonCode(1, \h25), Num9 |-> ButtonCode(1, \h26),
     Num0 |-> ButtonCode(1, \h27), Backspace |-> ButtonCode(1, \h2A),
     App |-> ButtonCode(1, \h65), Unknown |-> ButtonCode(0, 0)]

G20sProBtn == DOMAIN btnCodeMap \cup {"MouseLeft", "MouseRight"}

\* A button of the enumeration, or what the memory held before.
G20sState == [button : G20sProBtn \cup {"Garbage"}, pressed : BOOLEAN, x : -128..127]

buttonFromCode(id, code) ==
    IF ButtonCode(id, code) \in {btnCodeMap[b] : b \in DOMAIN btnCodeMap}
    THEN CHOOSE b \in DOMAIN btnCodeMap : btnCodeMap[b] = ButtonCode(id, code)
    ELSE "Unknown"

\* KeyCode with a field as wide as the code of the table, 16 bits.
KeyCode_Wide(bytes) ==
    (IF Len(bytes) >= 1 THEN bytes[1] ELSE 0) +
    (IF Len(bytes) >= 2 THEN bytes[2] * 256 ELSE 0)

\* The second byte is shifted by 8 into a field of 8 bits.
KeyCode(bytes) ==
    ((IF Len(bytes) >= 1 THEN bytes[1] ELSE 0) +
     (IF Len(bytes) >= 2 THEN bytes[2] * 256 ELSE 0)) % 256

Int8(byte) == IF byte < 128 THEN byte ELSE byte - 256

processMouseReport(state, data) ==
    [button |-> IF data[1] % 2 = 1 THEN "MouseLeft"
                ELSE IF data[1] % 4 >= 2 THEN "MouseRight" ELSE state.button,
     pressed |-> data[1] # 0,
     x |-> Int8(data[2])]

\* A third byte that is not zero ends the function before button and pressed.
processButtonReport(state, data) ==
    LET bytes == KeysIn(Tail(data))
        code == KeyCode(bytes)
    IN IF Len(bytes) > 2 THEN state
       ELSE [state EXCEPT !.pressed = code # 0,
                          !.button = IF code # 0
                                     THEN buttonFromCode(data[1], code) ELSE @]

IsButtonReport(data) ==
    <<Len(data), data[1]>> \in {<<8, 1>>, <<3, 4>>, <<2, 5>>}

NextG20s(state, data) ==
    CASE Len(data) = 0 -> state
      [] Len(data) = 4 -> processMouseReport(state, data)
      [] Len(data) \notin {0, 4} /\ IsButtonReport(data) ->
            processButtonReport(state, data)
      [] OTHER -> state

G20sEvent(state) == state
=============================================================================

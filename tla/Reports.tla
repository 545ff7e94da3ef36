------------------------------ MODULE Reports -------------------------------
(***************************************************************************)
(* From an input report to the application: hidHostInterfaceCallback picks *)
(* the report object of the interface's kind, the object decides whether   *)
(* there is an event, and triggerEvent calls the registered callbacks one  *)
(* by one, in the driver task, while the application's tasks may register  *)
(* more of them.                                                           *)
(***************************************************************************)
EXTENDS ReportClasses, SequencesExt

CONSTANTS
    Interface,  \* the started interfaces
    Desc,       \* what each of them is: VID and PID, subclass, protocol
    Desk,       \* the sets of interfaces that may be attached (a bound)
    Callback,   \* the functions the application may register
    Held,       \* the remote's buttons that may be held (a bound)
    Chord       \* those of them that may be held together (a bound)

ASSUME DescAssumption ==
    Desc \in [Interface -> [g20s : BOOLEAN, boot : BOOLEAN,
                            proto : {"keyboard", "mouse", "none"}]]
ASSUME DeskAssumption == Desk \subseteq SUBSET Interface
\* The first three push_back of a std::vector each move its elements.
ASSUME CallbackAssumption == IsFiniteSet(Callback) /\ Cardinality(Callback) <= 3

VARIABLES
    desk,       \* the interfaces attached
    object,     \* the report object of each class
    callbacks,  \* UsbHidBaseReport::callbacks of each class
    loop,       \* the driver task in triggerEvent
    fault,      \* "dangling": the loop has read where the vector was
    told,       \* the last event each callback was called with, or the one
                \* of a device at rest
    \* What follows is history, which no code reads.
    sent,       \* the last whole report of each class, if any
    silenced,   \* the classes whose object has changed without an event
    steady,     \* a motion was reported twice in a row
    untold,     \* the motion each callback has not been told
    pressing,   \* the buttons held on the remote, of each report id, in the
                \* order pressed
    reported,   \* the report id of the last report of buttons
    late        \* callbacks registered since the last event of their class
                \* began

vars == <<desk, object, callbacks, loop, fault, told, sent, silenced, steady,
          untold, pressing, reported, late>>

Class == {"keyboard", "mouse", "g20s"}

\* The branches of hidHostInterfaceCallback for an input report.
ClassOf(i) ==
    IF Desc[i].g20s THEN "g20s" ELSE IF Desc[i].boot THEN Desc[i].proto ELSE "none"

InPlay == {ClassOf(i) : i \in desk} \cap Class

Event(k) ==
    CASE k = "keyboard" -> KeyboardEvent(object[k])
      [] k = "mouse" -> MouseEvent(object[k])
      [] k = "g20s" -> G20sEvent(object[k])

EventOfRest(k) ==
    CASE k = "keyboard" -> KeyboardEvent(NoKeys)
      [] k = "mouse" -> MouseEvent(NoMotion)
      [] k = "g20s" -> [button |-> "Unknown", pressed |-> FALSE, x |-> 0]

IdleLoop == [at |-> "idle", class |-> "none", size |-> 0, next |-> 0]

\* The remote's reports of buttons: of its mouse, of keys, of the others.
ReportId == {0, 1, 4, 5}

NoGroup == 255

\* The constructors of mouse and remote leave their fields uninitialized.
Init ==
    /\ desk \in Desk
    /\ object \in
          [keyboard : {NoKeys},
           mouse : IF "mouse" \in InPlay THEN MouseReport ELSE {NoMotion},
           g20s : [button : {"Garbage", "Power"}, pressed : BOOLEAN, x : {0}]]
    /\ callbacks = [k \in Class |-> <<>>]
    /\ loop = IdleLoop
    /\ fault = "none"
    /\ told = [c \in Callback |-> <<>>]
    /\ sent = [k \in Class |-> IF k = "keyboard" THEN <<NoKeys>> ELSE <<>>]
    /\ silenced = {"mouse"}
    /\ steady = FALSE
    /\ untold = [c \in Callback |-> 0]
    /\ pressing = [id \in ReportId |-> <<>>]
    /\ reported = NoGroup
    /\ late = {}

-----------------------------------------------------------------------------
(* The application. *)

Registered == UNION {Range(callbacks[k]) : k \in Class}

registerCallback(k, c) ==
    /\ fault = "none"
    /\ k \in InPlay
    /\ c \notin Registered
    /\ callbacks' = [callbacks EXCEPT ![k] = Append(@, c)]
    /\ told' = [told EXCEPT ![c] = <<EventOfRest(k)>>]
    /\ late' = late \cup {c}
    /\ UNCHANGED <<desk, object, loop, fault, sent, silenced, steady, untold,
                   pressing, reported>>

-----------------------------------------------------------------------------
(* The driver task: triggerEvent. *)

\* The loop has read begin(), which depends on where the elements are.
triggerEvent(k) ==
    /\ loop' = [at |-> "begin", class |-> k, size |-> Len(callbacks[k]), next |-> 0]
    /\ late' = late \ Range(callbacks[k])

Moved == Len(callbacks[loop.class]) # loop.size

Dangle ==
    /\ loop.at # "idle"
    /\ fault = "none"
    /\ Moved
    /\ fault' = "dangling"
    /\ UNCHANGED <<desk, object, callbacks, loop, told, sent, silenced, steady,
                   untold, pressing, reported, late>>

ReadEnd ==
    /\ loop.at = "begin"
    /\ fault = "none"
    /\ ~Moved
    /\ loop' = IF loop.size = 0 THEN IdleLoop ELSE [loop EXCEPT !.at = "call", !.next = 1]
    /\ UNCHANGED <<desk, object, callbacks, fault, told, sent, silenced, steady,
                   untold, pressing, reported, late>>

\* The callback is called, and the loop goes on if it was not the last one.
CallCallback ==
    /\ loop.at = "call"
    /\ fault = "none"
    /\ ~Moved
    /\ LET c == callbacks[loop.class][loop.next] IN
          /\ told' = [told EXCEPT ![c] = <<Event(loop.class)>>]
          /\ untold' = IF loop.class = "mouse" /\ ~steady
                       THEN [untold EXCEPT ![c] = @ - object.mouse.x_delta]
                       ELSE untold
    /\ loop' = IF loop.next = loop.size THEN IdleLoop
               ELSE [loop EXCEPT !.next = @ + 1]
    /\ UNCHANGED <<desk, object, callbacks, fault, sent, silenced, steady,
                   pressing, reported, late>>

-----------------------------------------------------------------------------
(* The driver task: an input report of an attached interface.              *)

Reports(k) == {i \in desk : ClassOf(i) = k}

Ready == loop.at = "idle" /\ fault = "none"

\* The object takes its next state, and the event is raised if there is one.
Raise(k, next, event) ==
    /\ object' = [object EXCEPT ![k] = next]
    /\ IF event
       THEN triggerEvent(k) /\ silenced' = silenced \ {k}
       ELSE /\ UNCHANGED <<loop, late>>
            /\ silenced' = IF next = object[k] THEN silenced ELSE silenced \cup {k}

KeyboardReported ==
    /\ Ready
    /\ Reports("keyboard") # {}
    /\ \E data \in Data(KeyboardReport) :
          /\ Raise("keyboard", NextKeyboard(object.keyboard, data),
                   Changed(object.keyboard, data))
          /\ sent' = IF data.whole THEN [sent EXCEPT !.keyboard = <<data.report>>] ELSE sent
    /\ UNCHANGED <<desk, callbacks, fault, told, steady, untold, pressing, reported>>

\* A motion that repeats the report before it, or what the memory held before
\* the first one.
Repeats(report) ==
    /\ report.x_delta # 0
    /\ IF sent.mouse = <<>> THEN report = object.mouse ELSE sent.mouse = <<report>>

MouseReported ==
    /\ Ready
    /\ Reports("mouse") # {}
    /\ \E data \in Data(MouseReport) :
          /\ Raise("mouse", NextMouse(object.mouse, data), Changed(object.mouse, data))
          /\ IF data.whole
             THEN /\ sent' = [sent EXCEPT !.mouse = <<data.report>>]
                  /\ steady' = (steady \/ Repeats(data.report))
                  /\ untold' = IF steady' THEN untold
                               ELSE [c \in Callback |->
                                        IF c \in Range(callbacks.mouse)
                                        THEN untold[c] + data.report.x_delta ELSE 0]
             ELSE UNCHANGED <<sent, steady, untold>>
    /\ UNCHANGED <<desk, callbacks, fault, told, pressing, reported>>

\* Every report of the remote raises an event.
G20sReported(data) ==
    /\ Ready
    /\ Reports("g20s") # {}
    /\ Raise("g20s", NextG20s(object.g20s, data), Len(data) >= 1)
    /\ UNCHANGED <<desk, callbacks, fault, told, sent, steady, untold>>

-----------------------------------------------------------------------------
(* The remote, as the table of UsbHidG20sProReport.h describes it.         *)

Documented(id, bytes) == [reportId |-> id, bytes |-> bytes]

\* Back and Home have a second byte, and Mute another id than in btnCodeMap.
Remote ==
    [b \in DOMAIN btnCodeMap \ {"Unknown"} |->
        CASE b = "Mute" -> Documented(5, <<\hE2>>)
          [] b = "Back" -> Documented(4, <<\h24, \h02>>)
          [] b = "Home" -> Documented(4, <<\h23, \h02>>)
          [] OTHER -> Documented(btnCodeMap[b].reportId, <<btnCodeMap[b].code>>)]

MouseButton == [MouseLeft |-> 1, MouseRight |-> 2]

ASSUME HeldAssumption == Held \subseteq DOMAIN Remote \cup DOMAIN MouseButton

\* The buttons of its mouse are reported without an id.
GroupOf(b) == IF b \in DOMAIN MouseButton THEN 0 ELSE Remote[b].reportId

Length(id) == CASE id = 1 -> 8 [] id = 4 -> 3 [] id = 5 -> 2

Padded(bytes, n) == bytes \o [z \in 1..(n - Len(bytes)) |-> 0]

\* Report 1 has room for every key held, 4 and 5 for the one pressed last.
ButtonBytes(id, group) ==
    LET keys == IF id = 1 THEN [p \in DOMAIN group |-> Remote[group[p]].bytes[1]]
                ELSE IF group = <<>> THEN <<>> ELSE Remote[Last(group)].bytes
    IN Padded(<<id>> \o keys, Length(id))

MouseBytes(group, motion) ==
    LET Bit(b) == IF b \in Range(group) THEN MouseButton[b] ELSE 0
    IN <<Bit("MouseLeft") + Bit("MouseRight"), motion, 0, 0>>

RemoteReports(id, group) ==
    /\ G20sReported(IF id = 0 THEN MouseBytes(group, 0) ELSE ButtonBytes(id, group))
    /\ pressing' = [pressing EXCEPT ![id] = group]
    /\ reported' = id

Pressing == UNION {Range(pressing[id]) : id \in ReportId}

Press(b) ==
    /\ b \notin Pressing
    /\ Pressing # {} => Pressing \cup {b} \subseteq Chord
    /\ RemoteReports(GroupOf(b), Append(pressing[GroupOf(b)], b))

Release(b) ==
    LET group == pressing[GroupOf(b)]
    IN \E i \in DOMAIN group :
          group[i] = b /\ RemoteReports(GroupOf(b), RemoveAt(group, i))

\* The remote is moved: 255 is a motion by -1.
Move ==
    /\ \E motion \in {1, 255} : G20sReported(MouseBytes(pressing[0], motion))
    /\ pressing' = pressing
    /\ reported' = 0

\* A report of a kind the class does not know, or without data.
OtherReport ==
    /\ \E data \in {<<>>, <<2, 1>>} : G20sReported(data)
    /\ UNCHANGED <<pressing, reported>>

-----------------------------------------------------------------------------
Next ==
    \/ \E k \in Class, c \in Callback : registerCallback(k, c)
    \/ Dangle \/ ReadEnd \/ CallCallback
    \/ KeyboardReported \/ MouseReported
    \/ \E b \in Held : Press(b) \/ Release(b)
    \/ Move \/ OtherReport

Spec == Init /\ [][Next]_vars

-----------------------------------------------------------------------------
(* Properties. *)

\* The types of the objects and of the events the callbacks are called with:
\* in particular no keyCodes holds KEY_NONE or more than MAX_KEYS keys.
EventType(k) ==
    CASE k = "keyboard" ->
            [modifiers : SUBSET Modifier, keyCodes : BoundedSeq(Key, MAX_KEYS)]
      [] k = "mouse" -> MouseReport
      [] k = "g20s" -> G20sState

TypeOK ==
    /\ desk \in Desk
    /\ object.keyboard \in KeyboardReport
    /\ object.mouse \in MouseReport
    /\ object.g20s \in G20sState
    /\ fault \in {"none", "dangling"}
    /\ loop.at \in {"idle", "begin", "call"}
    /\ loop.at = "call" => loop.next \in 1..loop.size
    /\ \A k \in Class : \A c \in Range(callbacks[k]) :
          Len(told[c]) = 1 /\ told[c][1] \in EventType(k)

\* The callbacks that have been registered for the whole of the last event of
\* class k.
Listening(k) == Range(callbacks[k]) \ late

Settled == loop.at = "idle" /\ fault = "none"

\* Between two reports every callback has last been told of the last whole
\* report of its class, whichever keyboard or mouse it came from, although
\* equal reports raise no event; but for a class that was reset in silence by
\* a report too short, until it raises an event again.
Follows ==
    Settled =>
        \A k \in {"keyboard", "mouse"} \ silenced : \A c \in Listening(k) :
            sent[k] # <<>> =>
                told[c] = <<IF k = "keyboard" THEN KeyboardEvent(sent[k][1])
                            ELSE MouseEvent(sent[k][1])>>

\* As long as no motion is reported twice in a row, no motion is lost: the
\* cache of the last report does not swallow one that differs in its buttons
\* alone, or that comes again after a rest.
MotionTold == Settled /\ ~steady => \A c \in Listening("mouse") : untold[c] = 0

\* Of the remote, a callback is told whether a button of the group reported
\* last is held, and if one is, which; with more than two keys held
\* at once, the report is given up before that. Mute has another id in the
\* table of codes than in the table of the header.
ButtonTold ==
    Settled /\ reported # NoGroup =>
        LET group == pressing[reported]
        IN \A c \in Listening("g20s") :
              Len(group) <= 2 =>
                 /\ told[c][1].pressed = (group # <<>>)
                 /\ Len(group) = 1 /\ group[1] # "Mute" => told[c][1].button = group[1]
=============================================================================

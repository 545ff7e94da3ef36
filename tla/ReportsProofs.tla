--------------------------- MODULE ReportsProofs ----------------------------
(***************************************************************************)
(* What the callbacks of keyboards, mice and remotes are told, proved of   *)
(* Reports for any interfaces, keys, buttons, motions and callbacks.       *)
(***************************************************************************)
EXTENDS Reports, FiniteSetTheorems, SequenceTheorems, TLAPS

-----------------------------------------------------------------------------
(* The inductive invariant.                                                *)

\* The object of the mice, and the last of their reports if there was one.
MouseTyped ==
    /\ object.mouse \in MouseReport
    /\ sent.mouse # <<>> =>
          sent.mouse[1] \in MouseReport /\ sent.mouse = <<sent.mouse[1]>>

Shape ==
    /\ DOMAIN object = Class /\ DOMAIN sent = Class /\ DOMAIN told = Callback
    /\ callbacks \in [Class -> Seq(Callback)]
    /\ untold \in [Callback -> Int]
    /\ loop \in [at : {"idle", "begin", "call"}, class : Class \cup {"none"},
                 size : Nat, next : Nat]
    /\ steady \in BOOLEAN
    /\ MouseTyped

\* No function is registered twice, with one class or two.
OnceEach ==
    \A k, j \in Class : \A i \in 1..Len(callbacks[k]), h \in 1..Len(callbacks[j]) :
        callbacks[k][i] = callbacks[j][h] => k = j /\ i = h

\* The loop runs over callbacks that the vector had when it began.
Looping ==
    /\ loop.at # "idle" => loop.class \in Class /\ loop.size <= Len(callbacks[loop.class])
    /\ loop.at = "call" => loop.next \in 1..loop.size

\* The object is the last whole report, unless it was reset in silence.
Kept ==
    /\ \A k \in {"keyboard", "mouse"} \ silenced :
          sent[k] # <<>> => object[k] = sent[k][1]
    /\ sent.mouse # <<>> => object.mouse \in {sent.mouse[1], NoMotion}

\* The loop has still to call the callback number i of class k.
Due(k, i) ==
    /\ loop.at # "idle" /\ loop.class = k
    /\ loop.at = "call" => i >= loop.next

\* Whoever the loop has not still to call has been told the state of the object.
Heard ==
    \A k \in Class \ silenced : \A i \in 1..Len(callbacks[k]) :
        callbacks[k][i] \notin late /\ ~Due(k, i) =>
            told[callbacks[k][i]] = <<Event(k)>>

\* What a callback has not been told of a motion is the motion the loop is about
\* to tell it.
Owed ==
    /\ ~steady => \A i \in 1..Len(callbacks.mouse) :
          untold[callbacks.mouse[i]] =
             IF Due("mouse", i) /\ i <= loop.size THEN object.mouse.x_delta ELSE 0
    /\ \A c \in Callback : c \notin Range(callbacks.mouse) => untold[c] = 0

IInv == Shape /\ OnceEach /\ Looping /\ Kept /\ Heard /\ Owed

-----------------------------------------------------------------------------
(* The event of an object, and the places of a vector.                     *)

\* The event of a class changes only with its object.
LEMMA SameEvent ==
    ASSUME NEW k \in Class, object'[k] = object[k]
    PROVE  Event(k)' = Event(k)
BY DEF Event, Class, MouseEvent, G20sEvent

\* A registered function has a place in the vector of its class.
LEMMA Places ==
    ASSUME Shape, NEW k \in Class
    PROVE  /\ callbacks[k] \in Seq(Callback)
           /\ \A i \in 1..Len(callbacks[k]) :
                 callbacks[k][i] \in Callback /\ callbacks[k][i] \in Range(callbacks[k])
           /\ \A c \in Range(callbacks[k]) :
                 \E i \in 1..Len(callbacks[k]) : callbacks[k][i] = c
BY DEF Shape, Range

-----------------------------------------------------------------------------
(* Every step of the invariant.                                            *)

LEMMA InitInv == Init => IInv
<1> SUFFICES ASSUME Init
             PROVE  IInv
  OBVIOUS
<1>1. /\ callbacks = [k \in Class |-> <<>>] /\ loop = IdleLoop
      /\ untold = [c \in Callback |-> 0] /\ silenced = {"mouse"}
      /\ steady = FALSE /\ told = [c \in Callback |-> <<>>]
      /\ sent = [k \in Class |-> IF k = "keyboard" THEN <<NoKeys>> ELSE <<>>]
  BY DEF Init
<1>2. /\ DOMAIN object = Class /\ object.keyboard = NoKeys
      /\ object.mouse \in MouseReport
  BY DeltaAssumption DEF Init, Class, MouseReport, NoMotion
<1>3. Shape
  <2>1. MouseTyped
    <3>1. sent["mouse"] = <<>>
      BY <1>1 DEF Class
    <3> QED
      BY <1>2, <3>1 DEF MouseTyped
  <2>2. callbacks \in [Class -> Seq(Callback)]
    BY <1>1
  <2>3. loop \in [at : {"idle", "begin", "call"}, class : Class \cup {"none"},
                  size : Nat, next : Nat]
    BY <1>1 DEF IdleLoop
  <2>4. DOMAIN sent = Class /\ DOMAIN told = Callback
    BY <1>1
  <2>5. untold \in [Callback -> Int]
    BY <1>1
  <2>6. steady \in BOOLEAN
    BY <1>1
  <2> QED
    BY <1>2, <2>1, <2>2, <2>3, <2>4, <2>5, <2>6 DEF Shape
<1>4. OnceEach /\ Looping /\ Heard /\ Owed
  BY <1>1 DEF OnceEach, Looping, Heard, Owed, IdleLoop, Class
<1>5. Kept
  <2>1. /\ sent["keyboard"] = <<NoKeys>> /\ sent["mouse"] = <<>>
        /\ object["keyboard"] = NoKeys
    BY <1>1, <1>2 DEF Class
  <2> QED
    BY <1>1, <2>1 DEF Kept
<1> QED
  BY <1>3, <1>4, <1>5 DEF IInv

\* A registration, which the loop may be in the middle of.
LEMMA RegisterStep ==
    ASSUME IInv, NEW k \in Class, NEW c \in Callback, registerCallback(k, c)
    PROVE  IInv'
<1> DEFINE old == callbacks[k]
<1>1. /\ UNCHANGED <<object, loop, sent, silenced, steady, untold>>
      /\ late' = late \cup {c}
      /\ c \notin Registered
      /\ callbacks' = [callbacks EXCEPT ![k] = Append(old, c)]
      /\ told' = [told EXCEPT ![c] = <<EventOfRest(k)>>]
  BY DEF registerCallback
<1>2. /\ callbacks \in [Class -> Seq(Callback)] /\ old \in Seq(Callback)
      /\ Len(old) \in Nat /\ DOMAIN told = Callback
  BY Places DEF IInv, Shape
<1>3. /\ callbacks' \in [Class -> Seq(Callback)]
      /\ Len(callbacks'[k]) = Len(old) + 1 /\ callbacks'[k][Len(old) + 1] = c
      /\ \A i \in 1..Len(old) : callbacks'[k][i] = old[i]
      /\ \A j \in Class \ {k} : callbacks'[j] = callbacks[j]
  BY <1>1, <1>2
<1>4. \A j \in Class : \A i \in 1..Len(callbacks[j]) :
          callbacks[j][i] # c /\ callbacks[j][i] \in Callback
  <2>1. \A j \in Class : c \notin Range(callbacks[j])
    BY <1>1 DEF Registered
  <2> QED
    BY <2>1, Places DEF IInv
<1> HIDE DEF old
<1>5. \A j \in Class : /\ Len(callbacks[j]) \in Nat /\ Len(callbacks'[j]) \in Nat
                       /\ Len(callbacks[j]) <= Len(callbacks'[j])
                       /\ \A i \in 1..Len(callbacks'[j]) :
                             \/ i \in 1..Len(callbacks[j]) /\ callbacks'[j][i] = callbacks[j][i]
                             \/ j = k /\ i = Len(callbacks[j]) + 1 /\ callbacks'[j][i] = c
  BY <1>2, <1>3 DEF old
<1>6. Shape'
  BY <1>1, <1>2, <1>3 DEF IInv, Shape, MouseTyped
<1>7. OnceEach'
  BY <1>4, <1>5 DEF IInv, OnceEach
<1>8. Looping'
  BY <1>1, <1>5 DEF IInv, Looping, Shape
<1>9. Kept'
  BY <1>1 DEF IInv, Kept
<1>10. Heard'
  <2> SUFFICES ASSUME NEW j \in Class, j \notin silenced, NEW i \in 1..Len(callbacks'[j]),
                      callbacks'[j][i] \notin late', ~Due(j, i)'
               PROVE  told'[callbacks'[j][i]] = <<Event(j)'>>
    BY <1>1 DEF Heard
  <2>1. /\ i \in 1..Len(callbacks[j]) /\ callbacks'[j][i] = callbacks[j][i]
        /\ callbacks[j][i] \notin late
    BY <1>1, <1>5
  <2>2. ~Due(j, i)
    BY <1>1 DEF Due
  <2>3. told'[callbacks[j][i]] = told[callbacks[j][i]]
    BY <1>1, <1>2, <1>4, <2>1
  <2>4. Event(j)' = Event(j)
    BY <1>1, SameEvent
  <2>5. told[callbacks[j][i]] = <<Event(j)>>
    BY <2>1, <2>2 DEF IInv, Heard
  <2> QED
    BY <2>1, <2>3, <2>4, <2>5
<1>11. Owed'
  <2>1. \A d \in Callback : d \notin Range(callbacks'["mouse"]) => untold'[d] = 0
    <3> SUFFICES ASSUME NEW d \in Callback, d \notin Range(callbacks'["mouse"])
                 PROVE  untold[d] = 0
      BY <1>1
    <3>1. \A i \in 1..Len(callbacks'["mouse"]) : callbacks'["mouse"][i] # d
      BY <1>3 DEF Range, Class
    <3>2. \A i \in 1..Len(callbacks["mouse"]) : callbacks["mouse"][i] # d
      BY <1>2, <1>3, <1>5, <3>1 DEF Class, old
    <3>3. d \notin Range(callbacks["mouse"])
      BY <1>2, <3>2 DEF Range, Class
    <3> QED
      BY <3>3 DEF IInv, Owed
  <2>2. ASSUME ~steady, NEW i \in 1..Len(callbacks'["mouse"])
        PROVE  untold[callbacks'["mouse"][i]] =
                  IF Due("mouse", i) /\ i <= loop.size THEN object.mouse.x_delta ELSE 0
    <3>1. CASE i \in 1..Len(callbacks["mouse"]) /\ callbacks'["mouse"][i] = callbacks["mouse"][i]
      BY <2>2, <3>1 DEF IInv, Owed
    <3>2. CASE "mouse" = k /\ i = Len(callbacks["mouse"]) + 1 /\ callbacks'["mouse"][i] = c
      <4>1. c \notin Range(callbacks["mouse"])
        BY <1>1, <3>2 DEF Registered
      <4>2. untold[c] = 0
        BY <4>1 DEF IInv, Owed
      <4>3. Due("mouse", i) => loop.size <= Len(callbacks["mouse"])
        BY DEF IInv, Looping, Due
      <4>4. loop.size \in Nat /\ Len(callbacks["mouse"]) \in Nat
        BY <1>5 DEF IInv, Shape, Class
      <4> QED
        BY <3>2, <4>2, <4>3, <4>4
    <3> QED
      BY <1>5, <3>1, <3>2 DEF Class
  <2> QED
    BY <1>1, <2>1, <2>2 DEF Owed, Due
<1> QED
  BY <1>6, <1>7, <1>8, <1>9, <1>10, <1>11 DEF IInv

\* The call of one callback: it is told the state of the object, and owes nothing.
LEMMA CallStep ==
    ASSUME IInv, CallCallback
    PROVE  IInv'
<1> DEFINE k == loop.class
           n == loop.next
           c == callbacks[k][n]
<1>1. /\ loop.at = "call" /\ Len(callbacks[k]) = loop.size
      /\ told' = [told EXCEPT ![c] = <<Event(k)>>]
      /\ untold' = IF k = "mouse" /\ ~steady
                   THEN [untold EXCEPT ![c] = @ - object.mouse.x_delta] ELSE untold
      /\ loop' = IF n = loop.size THEN IdleLoop ELSE [loop EXCEPT !.next = n + 1]
      /\ UNCHANGED <<object, callbacks, sent, silenced, steady, late>>
  BY DEF CallCallback, Moved
<1>2. /\ k \in Class /\ n \in 1..loop.size /\ loop.size \in Nat /\ n \in Nat
      /\ c \in Callback /\ c \in Range(callbacks[k])
  <2>1. k \in Class /\ n \in 1..loop.size /\ loop.size \in Nat /\ n \in Nat
    BY <1>1 DEF IInv, Looping, Shape
  <2> QED
    BY <1>1, <2>1, Places DEF IInv
<1>3. /\ loop' \in [at : {"idle", "begin", "call"}, class : Class \cup {"none"},
                    size : Nat, next : Nat]
      /\ loop'.at # "idle" => /\ n # loop.size /\ loop'.at = "call" /\ loop'.class = k
                              /\ loop'.size = loop.size /\ loop'.next = n + 1
      /\ loop'.at = "idle" => n = loop.size
  <2>1. loop \in [at : {"idle", "begin", "call"}, class : Class \cup {"none"},
                  size : Nat, next : Nat]
    BY DEF IInv, Shape
  <2>2. CASE n = loop.size
    BY <1>1, <2>2 DEF IdleLoop
  <2>3. CASE n # loop.size
    <3>1. loop' = [loop EXCEPT !.next = n + 1]
      BY <1>1, <2>3
    <3> QED
      BY <1>1, <1>2, <2>1, <2>3, <3>1
  <2> QED
    BY <2>2, <2>3
<1>4. /\ DOMAIN object = Class /\ DOMAIN sent = Class /\ DOMAIN told = Callback
      /\ callbacks \in [Class -> Seq(Callback)] /\ untold \in [Callback -> Int]
      /\ steady \in BOOLEAN /\ MouseTyped
  BY DEF IInv, Shape
<1>5. \A j \in Class : \A i \in 1..Len(callbacks[j]) :
          callbacks[j][i] = c <=> j = k /\ i = n
  BY <1>1, <1>2 DEF IInv, OnceEach
<1>6. object.mouse.x_delta \in Int
  BY <1>4, DeltaAssumption DEF MouseTyped, MouseReport
<1>e. \A j \in Class : Len(callbacks[j]) \in Nat
  BY <1>4
<1> HIDE DEF k, n, c
<1>7. Shape'
  <2>1. untold' \in [Callback -> Int]
    BY <1>1, <1>2, <1>4, <1>6
  <2> QED
    BY <1>1, <1>3, <1>4, <2>1 DEF Shape, MouseTyped
<1>8. OnceEach'
  BY <1>1 DEF IInv, OnceEach
<1>9. Looping'
  BY <1>1, <1>2, <1>3 DEF Looping
<1>10. Kept'
  BY <1>1 DEF IInv, Kept
<1>d. \A j \in Class : \A i \in 1..Len(callbacks[j]) :
          /\ ~Due(j, i)' => ~Due(j, i) \/ (j = k /\ i = n)
          /\ Due(j, i)' => Due(j, i) /\ ~(j = k /\ i = n)
  BY <1>1, <1>2, <1>3, <1>e DEF Due, k, n
<1>11. Heard'
  <2> SUFFICES ASSUME NEW j \in Class, j \notin silenced, NEW i \in 1..Len(callbacks[j]),
                      callbacks[j][i] \notin late, ~Due(j, i)'
               PROVE  told'[callbacks[j][i]] = <<Event(j)'>>
    BY <1>1 DEF Heard
  <2>1. Event(j)' = Event(j)
    BY <1>1, SameEvent
  <2>2. callbacks[j][i] \in Callback
    BY Places DEF IInv
  <2>3. CASE j = k /\ i = n
    BY <1>1, <1>2, <1>4, <1>5, <2>1, <2>3
  <2>4. CASE ~(j = k /\ i = n)
    <3>1. told[callbacks[j][i]] = <<Event(j)>>
      BY <1>d, <2>4 DEF IInv, Heard
    <3>2. callbacks[j][i] # c
      BY <1>5, <2>4
    <3> QED
      BY <1>1, <1>4, <2>1, <2>2, <3>1, <3>2
  <2> QED
    BY <2>3, <2>4
<1>12. Owed'
  <2>1. \A d \in Callback : d \notin Range(callbacks["mouse"]) => untold'[d] = 0
    <3> SUFFICES ASSUME NEW d \in Callback, d \notin Range(callbacks["mouse"])
                 PROVE  untold'[d] = 0
      OBVIOUS
    <3>1. k = "mouse" => d # c
      BY <1>2
    <3>2. untold[d] = 0
      BY DEF IInv, Owed
    <3> QED
      BY <1>1, <1>4, <3>1, <3>2
  <2>2. ASSUME ~steady, NEW i \in 1..Len(callbacks["mouse"])
        PROVE  untold'[callbacks["mouse"][i]] =
                  IF Due("mouse", i)' /\ i <= loop'.size THEN object.mouse.x_delta ELSE 0
    <3>1. "mouse" \in Class
      BY DEF Class
    <3>2. callbacks["mouse"][i] \in Callback
      BY <3>1, Places DEF IInv
    <3>3. untold[callbacks["mouse"][i]] =
             IF Due("mouse", i) /\ i <= loop.size THEN object.mouse.x_delta ELSE 0
      BY <2>2 DEF IInv, Owed
    <3>4. CASE "mouse" = k /\ i = n
      <4>1. Due("mouse", i) /\ i <= loop.size
        BY <1>1, <1>2, <3>4 DEF Due, k, n
      <4>2. ~Due("mouse", i)'
        BY <1>d, <3>1, <3>4
      <4>3. untold'[callbacks["mouse"][i]] = untold[c] - object.mouse.x_delta
        BY <1>1, <1>2, <1>4, <1>5, <2>2, <3>1, <3>4
      <4>4. untold[c] = object.mouse.x_delta
        BY <1>5, <3>1, <3>3, <3>4, <4>1
      <4> QED
        BY <1>6, <4>2, <4>3, <4>4
    <3>5. CASE ~("mouse" = k /\ i = n)
      <4>1. untold'[callbacks["mouse"][i]] = untold[callbacks["mouse"][i]]
        BY <1>1, <1>4, <1>5, <3>1, <3>2, <3>5
      <4>2. Due("mouse", i) <=> Due("mouse", i)'
        BY <1>d, <3>1, <3>5
      <4>3. Due("mouse", i)' => loop'.size = loop.size
        BY <1>3 DEF Due
      <4> QED
        BY <3>3, <4>1, <4>2, <4>3
    <3> QED
      BY <3>4, <3>5
  <2> QED
    BY <1>1, <2>1, <2>2 DEF Owed
<1> QED
  BY <1>7, <1>8, <1>9, <1>10, <1>11, <1>12 DEF IInv

\* The loop reads end(): with no callback it is over.
LEMMA ReadEndStep ==
    ASSUME IInv, ReadEnd
    PROVE  IInv'
<1>1. /\ loop.at = "begin" /\ Len(callbacks[loop.class]) = loop.size
      /\ UNCHANGED <<object, callbacks, told, sent, silenced, steady, untold, late>>
      /\ loop' = IF loop.size = 0 THEN IdleLoop
                 ELSE [loop EXCEPT !.at = "call", !.next = 1]
  BY DEF ReadEnd, Moved
<1>2. /\ loop.class \in Class /\ loop.size \in Nat
      /\ loop \in [at : {"idle", "begin", "call"}, class : Class \cup {"none"},
                   size : Nat, next : Nat]
  BY <1>1 DEF IInv, Looping, Shape
<1>3. /\ loop' \in [at : {"idle", "begin", "call"}, class : Class \cup {"none"},
                    size : Nat, next : Nat]
      /\ loop'.at # "idle" => /\ loop.size # 0 /\ loop'.at = "call"
                              /\ loop'.class = loop.class
                              /\ loop'.size = loop.size /\ loop'.next = 1
      /\ loop'.at = "idle" => loop.size = 0
  <2>1. CASE loop.size = 0
    BY <1>1, <2>1 DEF IdleLoop
  <2>2. CASE loop.size # 0
    <3>1. loop' = [loop EXCEPT !.at = "call", !.next = 1]
      BY <1>1, <2>2
    <3> QED
      BY <1>2, <2>2, <3>1
  <2> QED
    BY <2>1, <2>2
<1>4. \A k \in Class : \A i \in 1..Len(callbacks[k]) : Due(k, i)' <=> Due(k, i)
  <2>1. \A k \in Class : Len(callbacks[k]) \in Nat
    BY Places DEF IInv
  <2> QED
    BY <1>1, <1>2, <1>3, <2>1 DEF Due
<1>5. Shape' /\ OnceEach' /\ Looping' /\ Kept'
  BY <1>1, <1>2, <1>3 DEF IInv, Shape, MouseTyped, OnceEach, Looping, Kept
<1>6. Heard'
  <2>1. \A k \in Class : Event(k)' = Event(k)
    BY <1>1, SameEvent
  <2> QED
    BY <1>1, <1>4, <2>1 DEF IInv, Heard
<1>7. Owed'
  <2>1. "mouse" \in Class
    BY DEF Class
  <2>2. ASSUME ~steady, NEW i \in 1..Len(callbacks["mouse"])
        PROVE  untold[callbacks["mouse"][i]] =
                  IF Due("mouse", i)' /\ i <= loop'.size THEN object.mouse.x_delta ELSE 0
    <3>1. untold[callbacks["mouse"][i]] =
             IF Due("mouse", i) /\ i <= loop.size THEN object.mouse.x_delta ELSE 0
      BY <2>2 DEF IInv, Owed
    <3>2. Due("mouse", i)' => loop'.size = loop.size
      BY <1>3 DEF Due
    <3> QED
      BY <1>4, <2>1, <3>1, <3>2
  <2> QED
    BY <1>1, <2>2 DEF IInv, Owed
<1> QED
  BY <1>5, <1>6, <1>7 DEF IInv

\* What a report does to the loop and to what is told, whatever its class.
LEMMA RaiseStep ==
    ASSUME IInv, Ready, NEW k \in Class, NEW next, NEW event \in BOOLEAN,
           Raise(k, next, event), UNCHANGED <<callbacks, told>>
    PROVE  /\ DOMAIN object' = Class
           /\ object'[k] = next
           /\ \A j \in Class \ {k} : object'[j] = object[j]
           /\ loop' \in [at : {"idle", "begin", "call"}, class : Class \cup {"none"},
                         size : Nat, next : Nat]
           /\ IF event THEN /\ loop'.at = "begin" /\ loop'.class = k
                            /\ loop'.size = Len(callbacks[k])
                       ELSE loop' = loop
           /\ event => silenced' = silenced \ {k}
           /\ ~event => silenced' = IF next = object[k] THEN silenced
                                    ELSE silenced \cup {k}
           /\ OnceEach' /\ Looping' /\ Heard'
<1>1. /\ object' = [object EXCEPT ![k] = next]
      /\ event => /\ loop' = [at |-> "begin", class |-> k,
                              size |-> Len(callbacks[k]), next |-> 0]
                  /\ late' = late \ Range(callbacks[k])
                  /\ silenced' = silenced \ {k}
      /\ ~event => /\ UNCHANGED <<loop, late>>
                   /\ silenced' = IF next = object[k] THEN silenced
                                  ELSE silenced \cup {k}
  BY DEF Raise, triggerEvent
<1>2. Shape /\ Len(callbacks[k]) \in Nat /\ loop.at = "idle"
  BY Places DEF IInv, Ready
<1>3. /\ DOMAIN object' = Class /\ object'[k] = next
      /\ \A j \in Class \ {k} : object'[j] = object[j]
  BY <1>1, <1>2 DEF Shape
<1>4. /\ loop' \in [at : {"idle", "begin", "call"}, class : Class \cup {"none"},
                    size : Nat, next : Nat]
      /\ IF event THEN /\ loop'.at = "begin" /\ loop'.class = k
                       /\ loop'.size = Len(callbacks[k])
                  ELSE loop' = loop
  BY <1>1, <1>2 DEF Shape
<1>5. OnceEach' /\ Looping'
  BY <1>2, <1>4 DEF IInv, OnceEach, Looping
<1>6. Heard'
  <2> SUFFICES ASSUME NEW j \in Class, j \notin silenced', NEW i \in 1..Len(callbacks[j]),
                      callbacks[j][i] \notin late', ~Due(j, i)'
               PROVE  told[callbacks[j][i]] = <<Event(j)'>>
    BY DEF Heard
  <2>1. ~(event /\ j = k)
    BY <1>4 DEF Due
  <2>2. ~Due(j, i)
    BY <1>2 DEF Due
  <2>3. object'[j] = object[j] /\ j \notin silenced
    BY <1>1, <1>3, <2>1
  <2>4. callbacks[j][i] \notin late
    <3>1. CASE event
      <4>1. callbacks[j][i] \notin Range(callbacks[k])
        <5> SUFFICES ASSUME callbacks[j][i] \in Range(callbacks[k])
                     PROVE  FALSE
          OBVIOUS
        <5>1. PICK h \in 1..Len(callbacks[k]) : callbacks[k][h] = callbacks[j][i]
          BY <1>2, Places
        <5> QED
          BY <2>1, <3>1, <5>1 DEF IInv, OnceEach
      <4> QED
        BY <1>1, <3>1, <4>1
    <3>2. CASE ~event
      BY <1>1, <3>2
    <3> QED
      BY <3>1, <3>2
  <2>5. told[callbacks[j][i]] = <<Event(j)>>
    BY <2>2, <2>3, <2>4 DEF IInv, Heard
  <2> QED
    BY <2>3, <2>5, SameEvent
<1> QED
  BY <1>1, <1>3, <1>4, <1>5, <1>6

\* A report of a keyboard.
LEMMA KeyboardStep ==
    ASSUME IInv, KeyboardReported
    PROVE  IInv'
<1>1. PICK data \in Data(KeyboardReport) :
         /\ Raise("keyboard", NextKeyboard(object.keyboard, data),
                  Changed(object.keyboard, data))
         /\ sent' = IF data.whole THEN [sent EXCEPT !.keyboard = <<data.report>>]
                    ELSE sent
  BY DEF KeyboardReported
<1>2. Ready /\ UNCHANGED <<callbacks, told, steady, untold>>
  BY DEF KeyboardReported
<1> DEFINE next == NextKeyboard(object.keyboard, data)
           event == Changed(object.keyboard, data)
<1>3. event \in BOOLEAN
  BY DEF Changed
<1>4. /\ data.whole => next = data.report
      /\ event <=> data.whole /\ next # object["keyboard"]
  BY DEF NextKeyboard, Changed
<1> HIDE DEF next, event
<1>5. /\ DOMAIN object' = Class
      /\ object'["keyboard"] = next /\ object'["mouse"] = object["mouse"]
      /\ loop' \in [at : {"idle", "begin", "call"}, class : Class \cup {"none"},
                    size : Nat, next : Nat]
      /\ IF event THEN loop'.at = "begin" /\ loop'.class = "keyboard" ELSE loop' = loop
      /\ event => silenced' = silenced \ {"keyboard"}
      /\ ~event => silenced' = IF next = object["keyboard"] THEN silenced
                               ELSE silenced \cup {"keyboard"}
      /\ OnceEach' /\ Looping' /\ Heard'
  BY <1>1, <1>2, <1>3, RaiseStep DEF Class, next, event
<1>6. /\ DOMAIN sent' = Class /\ sent'["mouse"] = sent["mouse"]
      /\ sent'["keyboard"] = IF data.whole THEN <<data.report>> ELSE sent["keyboard"]
  BY <1>1 DEF IInv, Shape, Class
<1>7. Shape'
  BY <1>2, <1>5, <1>6 DEF IInv, Shape, MouseTyped
<1>8. Kept'
  <2>1. sent'["mouse"] # <<>> => object'["mouse"] \in {sent'["mouse"][1], NoMotion}
    BY <1>5, <1>6 DEF IInv, Kept
  <2>2. ASSUME "mouse" \notin silenced', sent'["mouse"] # <<>>
        PROVE  object'["mouse"] = sent'["mouse"][1]
    BY <1>5, <1>6, <2>2 DEF IInv, Kept
  <2>3. ASSUME "keyboard" \notin silenced', sent'["keyboard"] # <<>>
        PROVE  object'["keyboard"] = sent'["keyboard"][1]
    <3>1. CASE data.whole
      BY <1>4, <1>5, <1>6, <3>1
    <3>2. CASE ~data.whole
      BY <1>4, <1>5, <1>6, <2>3, <3>2 DEF IInv, Kept
    <3> QED
      BY <3>1, <3>2
  <2> QED
    BY <2>1, <2>2, <2>3 DEF Kept
<1>9. Owed'
  <2>1. \A i : ~Due("mouse", i) /\ ~Due("mouse", i)'
    BY <1>2, <1>5 DEF Due, Ready
  <2> QED
    BY <1>2, <1>5, <2>1 DEF IInv, Owed
<1> QED
  BY <1>5, <1>7, <1>8, <1>9 DEF IInv

\* A report of the remote, whose object no cache compares.
LEMMA G20sStep ==
    ASSUME IInv, NEW data, G20sReported(data)
    PROVE  IInv'
<1> DEFINE next == NextG20s(object.g20s, data)
           event == Len(data) >= 1
<1>1. Raise("g20s", next, event)
  BY DEF G20sReported
<1>2. Ready /\ UNCHANGED <<callbacks, told, sent, steady, untold>>
  BY DEF G20sReported
<1>3. event \in BOOLEAN
  OBVIOUS
<1> HIDE DEF next, event
<1>5. /\ DOMAIN object' = Class
      /\ object'["keyboard"] = object["keyboard"] /\ object'["mouse"] = object["mouse"]
      /\ loop' \in [at : {"idle", "begin", "call"}, class : Class \cup {"none"},
                    size : Nat, next : Nat]
      /\ IF event THEN loop'.at = "begin" /\ loop'.class = "g20s" ELSE loop' = loop
      /\ \A j \in {"keyboard", "mouse"} : j \notin silenced' => j \notin silenced
      /\ OnceEach' /\ Looping' /\ Heard'
  BY <1>1, <1>2, <1>3, RaiseStep DEF Class
<1>7. Shape'
  BY <1>2, <1>5 DEF IInv, Shape, MouseTyped
<1>8. Kept'
  BY <1>2, <1>5 DEF IInv, Kept
<1>9. Owed'
  <2>1. \A i : ~Due("mouse", i) /\ ~Due("mouse", i)'
    BY <1>2, <1>5 DEF Due, Ready
  <2> QED
    BY <1>2, <1>5, <2>1 DEF IInv, Owed
<1> QED
  BY <1>5, <1>7, <1>8, <1>9 DEF IInv

\* A report of a mouse: what it swallows is no motion, or one that is repeated.
LEMMA MouseStep ==
    ASSUME IInv, MouseReported
    PROVE  IInv'
<1>1. PICK data \in Data(MouseReport) :
         /\ Raise("mouse", NextMouse(object.mouse, data), Changed(object.mouse, data))
         /\ IF data.whole
            THEN /\ sent' = [sent EXCEPT !.mouse = <<data.report>>]
                 /\ steady' = (steady \/ Repeats(data.report))
                 /\ untold' = IF steady' THEN untold
                              ELSE [c \in Callback |->
                                       IF c \in Range(callbacks.mouse)
                                       THEN untold[c] + data.report.x_delta ELSE 0]
            ELSE UNCHANGED <<sent, steady, untold>>
  BY DEF MouseReported
<1>2. Ready /\ loop.at = "idle" /\ UNCHANGED <<callbacks, told>>
  BY DEF MouseReported, Ready
<1> DEFINE next == NextMouse(object.mouse, data)
           event == Changed(object.mouse, data)
<1>3. event \in BOOLEAN
  BY DEF Changed
<1>4. /\ data.whole => next = data.report /\ data.report \in MouseReport
      /\ ~data.whole => next = NoMotion
      /\ event <=> data.whole /\ next # object["mouse"]
  BY DEF NextMouse, Changed, Data
<1> HIDE DEF next, event
<1>5. /\ DOMAIN object' = Class
      /\ object'["keyboard"] = object["keyboard"] /\ object'["mouse"] = next
      /\ loop' \in [at : {"idle", "begin", "call"}, class : Class \cup {"none"},
                    size : Nat, next : Nat]
      /\ IF event THEN /\ loop'.at = "begin" /\ loop'.class = "mouse"
                       /\ loop'.size = Len(callbacks["mouse"])
                  ELSE loop' = loop
      /\ event => silenced' = silenced \ {"mouse"}
      /\ ~event => silenced' = IF next = object["mouse"] THEN silenced
                               ELSE silenced \cup {"mouse"}
      /\ OnceEach' /\ Looping' /\ Heard'
  BY <1>1, <1>2, <1>3, RaiseStep DEF Class, next, event
<1>6. /\ DOMAIN sent' = Class /\ sent'["keyboard"] = sent["keyboard"]
      /\ sent'["mouse"] = IF data.whole THEN <<data.report>> ELSE sent["mouse"]
  BY <1>1 DEF IInv, Shape, Class
<1>7. next \in MouseReport /\ NoMotion.x_delta = 0
  BY <1>4, DeltaAssumption DEF NoMotion, MouseReport
<1>8. next.x_delta \in Int
  BY <1>7, DeltaAssumption DEF MouseReport
<1>9. MouseTyped'
  BY <1>4, <1>5, <1>6, <1>7 DEF IInv, Shape, MouseTyped
<1>10. untold' \in [Callback -> Int] /\ steady' \in BOOLEAN
  <2>1. untold \in [Callback -> Int] /\ steady \in BOOLEAN
    BY DEF IInv, Shape
  <2>2. CASE data.whole
    <3>1. steady' \in BOOLEAN
      BY <1>1, <2>2 DEF Repeats
    <3>2. data.report.x_delta \in Int
      BY <1>4, <1>8, <2>2
    <3>3. untold' \in [Callback -> Int]
      BY <1>1, <2>1, <2>2, <3>2
    <3> QED
      BY <3>1, <3>3
  <2>3. CASE ~data.whole
    BY <1>1, <2>1, <2>3
  <2> QED
    BY <2>2, <2>3
<1>11. Shape'
  BY <1>2, <1>5, <1>6, <1>9, <1>10 DEF IInv, Shape
<1>12. Kept'
  <2>1. ASSUME "keyboard" \notin silenced', sent'["keyboard"] # <<>>
        PROVE  object'["keyboard"] = sent'["keyboard"][1]
    BY <1>5, <1>6, <2>1 DEF IInv, Kept
  <2>2. ASSUME "mouse" \notin silenced', sent'["mouse"] # <<>>
        PROVE  object'["mouse"] = sent'["mouse"][1]
    <3>1. CASE data.whole
      BY <1>4, <1>5, <1>6, <3>1
    <3>2. CASE ~data.whole
      BY <1>4, <1>5, <1>6, <2>2, <3>2 DEF IInv, Kept
    <3> QED
      BY <3>1, <3>2
  <2>3. sent'["mouse"] # <<>> => object'["mouse"] \in {sent'["mouse"][1], NoMotion}
    BY <1>4, <1>5, <1>6
  <2> QED
    BY <2>1, <2>2, <2>3 DEF Kept
<1>13. Owed'
  <2>1. /\ ~steady => \A i \in 1..Len(callbacks["mouse"]) :
              untold[callbacks["mouse"][i]] = 0
        /\ \A c \in Callback : c \notin Range(callbacks["mouse"]) => untold[c] = 0
    BY <1>2 DEF IInv, Owed, Due
  <2>2. \A c \in Callback : c \notin Range(callbacks["mouse"]) => untold'[c] = 0
    BY <1>1, <2>1
  <2>3. ASSUME ~steady', NEW i \in 1..Len(callbacks["mouse"])
        PROVE  untold'[callbacks["mouse"][i]] =
                  IF Due("mouse", i)' /\ i <= loop'.size
                  THEN object'["mouse"].x_delta ELSE 0
    <3>1. /\ callbacks["mouse"][i] \in Callback
          /\ callbacks["mouse"][i] \in Range(callbacks["mouse"])
          /\ callbacks["mouse"] \in Seq(Callback)
      BY Places DEF IInv, Class
    <3>2. CASE ~data.whole
      <4>1. ~event /\ untold' = untold /\ steady' = steady
        BY <1>1, <1>4, <3>2
      <4>2. ~Due("mouse", i)'
        BY <1>2, <1>5, <4>1 DEF Due
      <4> QED
        BY <2>1, <2>3, <4>1, <4>2
    <3>3. CASE data.whole
      <4>1. ~steady /\ ~Repeats(data.report)
        BY <1>1, <2>3, <3>3
      <4>2. untold[callbacks["mouse"][i]] = 0
        BY <2>1, <4>1
      <4>3. untold'[callbacks["mouse"][i]] = next.x_delta
        BY <1>1, <1>4, <1>8, <2>3, <3>1, <3>3, <4>2
      <4>4. CASE event
        BY <1>5, <3>1, <4>3, <4>4 DEF Due
      <4>5. CASE ~event
        <5>1. ~Due("mouse", i)'
          BY <1>2, <1>5, <4>5 DEF Due
        <5>2. data.report = object["mouse"] /\ next = data.report
          BY <1>4, <3>3, <4>5
        <5>3. next.x_delta = 0
          <6> SUFFICES ASSUME next.x_delta # 0
                       PROVE  FALSE
            OBVIOUS
          <6>1. sent.mouse # <<>> /\ sent.mouse # <<data.report>>
            BY <4>1, <5>2 DEF Repeats
          <6>2. /\ object.mouse \in {sent.mouse[1], NoMotion}
                /\ sent.mouse = <<sent.mouse[1]>>
            BY <6>1 DEF IInv, Kept, Shape, MouseTyped
          <6> QED
            BY <1>7, <5>2, <6>1, <6>2
        <5> QED
          BY <4>3, <5>1, <5>3
      <4> QED
        BY <4>4, <4>5
    <3> QED
      BY <3>2, <3>3
  <2> QED
    BY <1>2, <2>2, <2>3 DEF Owed
<1> QED
  BY <1>5, <1>11, <1>12, <1>13 DEF IInv

\* Steps that only show that the loop is lost, and stuttering.
LEMMA SameStep ==
    ASSUME IInv, UNCHANGED <<object, callbacks, loop, told, sent, silenced, steady,
                             untold, late>>
    PROVE  IInv'
<1>1. Shape' /\ OnceEach' /\ Looping' /\ Kept' /\ Owed'
  BY DEF IInv, Shape, MouseTyped, OnceEach, Looping, Kept, Owed, Due
<1>2. Heard'
  <2>1. \A k \in Class : Event(k)' = Event(k)
    BY SameEvent
  <2> QED
    BY <2>1 DEF IInv, Heard, Due
<1> QED
  BY <1>1, <1>2 DEF IInv

LEMMA NextStep == IInv /\ [Next]_vars => IInv'
<1> SUFFICES ASSUME IInv, [Next]_vars
             PROVE  IInv'
  OBVIOUS
<1>1. CASE \E k \in Class, c \in Callback : registerCallback(k, c)
  BY <1>1, RegisterStep
<1>2. CASE Dangle
  BY <1>2, SameStep DEF Dangle
<1>3. CASE ReadEnd
  BY <1>3, ReadEndStep
<1>4. CASE CallCallback
  BY <1>4, CallStep
<1>5. CASE KeyboardReported
  BY <1>5, KeyboardStep
<1>6. CASE MouseReported
  BY <1>6, MouseStep
<1>7. CASE (\E b \in Held : Press(b) \/ Release(b)) \/ Move \/ OtherReport
  <2>1. \E data : G20sReported(data)
    BY <1>7 DEF Press, Release, Move, OtherReport, RemoteReports
  <2> QED
    BY <2>1, G20sStep
<1>8. CASE UNCHANGED vars
  BY <1>8, SameStep DEF vars
<1> QED
  BY <1>1, <1>2, <1>3, <1>4, <1>5, <1>6, <1>7, <1>8 DEF Next

\* The invariant of the proofs holds of every behaviour.
THEOREM Invariance == Spec => []IInv
BY InitInv, NextStep, PTL DEF Spec

-----------------------------------------------------------------------------
(* The keys among the bytes of a report.                                   *)

\* The slots that hold a key, and the rank of a slot among them.
Slots(bytes) == {i \in DOMAIN bytes : Pressed(bytes[i])}

Rank(bytes, i) == Cardinality({j \in Slots(bytes) : j <= i})

LEMMA KeysInRank ==
    ASSUME NEW bytes
    PROVE  KeysIn(bytes) =
              [r \in 1..Cardinality(Slots(bytes)) |->
                  bytes[CHOOSE i \in Slots(bytes) : Rank(bytes, i) = r]]
BY DEF KeysIn, Slots, Rank

\* Every rank up to the number of keys is the rank of a slot.
LEMMA Ranked ==
    ASSUME NEW n \in Nat, NEW bytes, DOMAIN bytes = 1..n
    PROVE  /\ Cardinality(Slots(bytes)) \in 0..n
           /\ \A r \in 1..Cardinality(Slots(bytes)) :
                 \E i \in Slots(bytes) : Rank(bytes, i) = r
<1> DEFINE S == Slots(bytes)
           m == Cardinality(S)
           T(i) == {j \in S : j <= i}
           rank == [i \in S |-> Rank(bytes, i)]
<1>1. IsFiniteSet(1..n) /\ Cardinality(1..n) = n
  BY FS_Interval
<1>2. S \in SUBSET (1..n)
  BY DEF Slots
<1>3. IsFiniteSet(S) /\ m \in 0..n
  BY <1>1, <1>2, FS_Subset, FS_CardinalityType
<1>4. \A i \in S : T(i) \in SUBSET S
  OBVIOUS
<1>5. \A i \in S : IsFiniteSet(T(i)) /\ Cardinality(T(i)) \in 1..m
  <2> TAKE i \in S
  <2>1. IsFiniteSet(T(i)) /\ Cardinality(T(i)) <= m
    BY <1>3, <1>4, FS_Subset
  <2>2. i \in T(i)
    BY <1>2
  <2>3. Cardinality(T(i)) \in Nat /\ Cardinality(T(i)) # 0
    BY <2>1, <2>2, FS_CardinalityType, FS_EmptySet
  <2> QED
    BY <1>3, <2>1, <2>3
<1>6. ASSUME NEW i \in S, NEW h \in S, i < h
      PROVE  Cardinality(T(i)) # Cardinality(T(h))
  <2>1. T(i) \in SUBSET T(h) /\ h \in T(h) /\ h \notin T(i)
    BY <1>2, <1>6
  <2> QED
    BY <1>5, <2>1, FS_Subset
<1>7. \A i \in S : Rank(bytes, i) = Cardinality(T(i))
  BY DEF Rank
<1>8. rank \in Injection(S, 1..m)
  <2>1. rank \in [S -> 1..m]
    BY <1>5, <1>7
  <2>2. ASSUME NEW i \in S, NEW h \in S, rank[i] = rank[h]
        PROVE  i = h
    <3>1. Cardinality(T(i)) = Cardinality(T(h))
      BY <1>7, <2>2
    <3>2. i \in Int /\ h \in Int
      BY <1>2
    <3>3. i < h \/ h < i \/ i = h
      BY <3>2
    <3> QED
      BY <1>6, <3>1, <3>3
  <2> QED
    BY <2>1, <2>2 DEF Injection, IsInjective
<1>9. IsFiniteSet(1..m) /\ Cardinality(1..m) = m
  BY <1>3, FS_Interval
<1>10. rank \in Surjection(S, 1..m)
  BY <1>3, <1>8, <1>9, FS_Injection
<1> QED
  BY <1>3, <1>10 DEF Surjection

\* KeysIn returns no more keys than there are bytes, all of them of the bytes.
LEMMA KeysInType ==
    ASSUME NEW n \in Nat, NEW S, NEW bytes, DOMAIN bytes = 1..n,
           \A i \in 1..n : bytes[i] # KEY_NONE => bytes[i] \in S
    PROVE  \E m \in 0..n : KeysIn(bytes) \in [1..m -> S]
<1> DEFINE m == Cardinality(Slots(bytes))
           at(r) == CHOOSE i \in Slots(bytes) : Rank(bytes, i) = r
<1>1. m \in 0..n /\ \A r \in 1..m : at(r) \in Slots(bytes)
  BY Ranked
<1>2. \A i \in Slots(bytes) : bytes[i] \in S
  BY DEF Slots, Pressed
<1>3. KeysIn(bytes) = [r \in 1..m |-> bytes[at(r)]]
  BY KeysInRank
<1> HIDE DEF m, at
<1> QED
  BY <1>1, <1>2, <1>3

\* Of bytes that end in zeros, KeysIn returns those before.
LEMMA KeysInPrefix ==
    ASSUME NEW n \in Nat, NEW k \in 0..n, NEW bytes, DOMAIN bytes = 1..n,
           \A i \in 1..n : bytes[i] # KEY_NONE <=> i <= k
    PROVE  KeysIn(bytes) = [r \in 1..k |-> bytes[r]]
<1>1. Slots(bytes) = 1..k
  BY DEF Slots, Pressed
<1>2. \A i \in 0..k : IsFiniteSet(1..i) /\ Cardinality(1..i) = i
  BY FS_Interval
<1>3. \A i \in 1..k : Rank(bytes, i) = i
  <2> TAKE i \in 1..k
  <2>1. {j \in Slots(bytes) : j <= i} = 1..i
    BY <1>1
  <2>2. Rank(bytes, i) = Cardinality(1..i)
    BY <2>1, Zenon DEF Rank
  <2> QED
    BY <1>2, <2>2
<1>4. \A r \in 1..k : (CHOOSE i \in Slots(bytes) : Rank(bytes, i) = r) = r
  BY <1>1, <1>3
<1> QED
  BY <1>1, <1>2, <1>4, KeysInRank

\* The modifiers and keys of a report are those of its event.
LEMMA KeyboardEventType ==
    ASSUME NEW report \in KeyboardReport
    PROVE  KeyboardEvent(report) \in EventType("keyboard")
<1>1. /\ report.modifier \in SUBSET Modifier
      /\ report.key \in [1..MAX_KEYS -> Key \cup {KEY_NONE}]
  BY DEF KeyboardReport
<1>2. PICK m \in 0..MAX_KEYS : KeysIn(report.key) \in [1..m -> Key]
  BY <1>1, KeyAssumption, KeysInType
<1>3. KeysIn(report.key) \in BoundedSeq(Key, MAX_KEYS)
  BY <1>2 DEF BoundedSeq, SeqOf
<1> QED
  BY <1>1, <1>3 DEF KeyboardEvent, EventType

-----------------------------------------------------------------------------
(* The codes of the remote's buttons, and the bytes of its reports.        *)

\* The bytes that are codes.
Code == 1..255

\* What the table of the header and the table of codes say of a button.
LEMMA RemoteFacts ==
    ASSUME NEW b \in DOMAIN Remote
    PROVE  /\ Remote[b].reportId \in {1, 4, 5}
           /\ \E code \in Code :
                 \/ Remote[b].bytes = <<code>>
                 \/ Remote[b].bytes = <<code, 2>> /\ Remote[b].reportId = 4
           /\ b # "Mute" =>
                 btnCodeMap[b] = ButtonCode(Remote[b].reportId, Remote[b].bytes[1])
<1>1. Remote[b] = CASE b = "Mute" -> Documented(5, <<\hE2>>)
                    [] b = "Back" -> Documented(4, <<\h24, \h02>>)
                    [] b = "Home" -> Documented(4, <<\h23, \h02>>)
                    [] OTHER -> Documented(btnCodeMap[b].reportId, <<btnCodeMap[b].code>>)
  BY DEF Remote
<1>2. b \in DOMAIN btnCodeMap \ {"Unknown"}
  BY DEF Remote
<1>3. /\ btnCodeMap[b].reportId \in {1, 4, 5} /\ btnCodeMap[b].code \in Code
      /\ btnCodeMap[b] = ButtonCode(btnCodeMap[b].reportId, btnCodeMap[b].code)
  BY <1>2, SMTT(60) DEF btnCodeMap, ButtonCode, Code
<1>4. CASE b = "Mute"
  BY <1>1, <1>4 DEF Documented, Code
<1>5. CASE b \in {"Back", "Home"}
  <2>1. /\ btnCodeMap["Back"] = ButtonCode(4, \h24)
        /\ btnCodeMap["Home"] = ButtonCode(4, \h23)
    BY DEF btnCodeMap
  <2>2. CASE b = "Back"
    BY <1>1, <2>1, <2>2 DEF Documented, Code
  <2>3. CASE b = "Home"
    BY <1>1, <2>1, <2>3 DEF Documented, Code
  <2> QED
    BY <1>5, <2>2, <2>3
<1>6. CASE b \notin {"Mute", "Back", "Home"}
  <2>1. Remote[b] = Documented(btnCodeMap[b].reportId, <<btnCodeMap[b].code>>)
    BY <1>1, <1>6
  <2> QED
    BY <1>3, <2>1, <1>6 DEF Documented, Code
<1> QED
  BY <1>4, <1>5, <1>6

\* No two buttons share a code.
LEMMA OneCodeEach ==
    \A a, b \in DOMAIN btnCodeMap : btnCodeMap[a] = btnCodeMap[b] => a = b
BY SMTT(60) DEF btnCodeMap, ButtonCode

\* So that buttonFromCode finds every button but Mute by its documented bytes.
LEMMA ButtonFound ==
    ASSUME NEW b \in DOMAIN Remote, b # "Mute"
    PROVE  buttonFromCode(Remote[b].reportId, Remote[b].bytes[1]) = b
<1>1. b \in DOMAIN btnCodeMap
  BY DEF Remote
<1>2. btnCodeMap[b] = ButtonCode(Remote[b].reportId, Remote[b].bytes[1])
  BY RemoteFacts
<1> QED
  BY <1>1, <1>2, OneCodeEach, Zenon DEF buttonFromCode

LEMMA ButtonType ==
    ASSUME NEW id, NEW code
    PROVE  buttonFromCode(id, code) \in G20sProBtn
<1>1. "Unknown" \in DOMAIN btnCodeMap
  BY DEF btnCodeMap
<1> QED
  BY <1>1, Zenon DEF buttonFromCode, G20sProBtn

\* A report of buttons: its id, the bytes, and zeros up to its length.
LEMMA PaddedReport ==
    ASSUME NEW id \in Nat, NEW keys \in Seq(Nat), NEW n \in Nat
    PROVE  \E data :
              /\ data = Padded(<<id>> \o keys, n)
              /\ Len(data) = IF Len(keys) < n THEN n ELSE Len(keys) + 1
              /\ data[1] = id
              /\ Tail(data) \in Seq(Nat) /\ Len(Tail(data)) = Len(data) - 1
              /\ \A i \in 1..Len(Tail(data)) :
                    Tail(data)[i] = IF i <= Len(keys) THEN keys[i] ELSE 0
<1>1. PICK m \in Nat : m = Len(keys) /\ keys \in [1..m -> Nat]
  OBVIOUS
<1>2. PICK head : head = <<id>> \o keys
  OBVIOUS
<1>3. /\ head \in Seq(Nat) /\ Len(head) = m + 1 /\ head[1] = id
      /\ \A i \in 1..m : head[i + 1] = keys[i]
  BY <1>1, <1>2
<1>4. PICK zeros : zeros = [z \in 1..(n - Len(head)) |-> 0]
  OBVIOUS
<1>h. (IF m < n THEN n - (m + 1) ELSE 0) \in Nat
  BY <1>1
<1>5. PICK h \in Nat : h = IF m < n THEN n - (m + 1) ELSE 0
  BY <1>h
<1>6. zeros = [z \in 1..h |-> 0]
  BY <1>1, <1>3, <1>4, <1>5
<1>7. zeros \in Seq(Nat) /\ Len(zeros) = h /\ \A i \in 1..h : zeros[i] = 0
  BY <1>6
<1>8. PICK data : data = head \o zeros /\ data = Padded(<<id>> \o keys, n)
  BY <1>2, <1>4 DEF Padded
<1>9. /\ data \in Seq(Nat) /\ Len(data) = m + 1 + h
      /\ \A i \in 1..(m + 1) : data[i] = head[i]
      /\ \A i \in 1..h : data[m + 1 + i] = 0
  <2>1. /\ data \in Seq(Nat) /\ Len(data) = m + 1 + h
        /\ \A i \in 1..(m + 1 + h) :
              data[i] = IF i <= m + 1 THEN head[i] ELSE zeros[i - (m + 1)]
    <3>1. /\ head \o zeros \in Seq(Nat)
          /\ Len(head \o zeros) = Len(head) + Len(zeros)
          /\ \A i \in 1..(Len(head) + Len(zeros)) : (head \o zeros)[i] =
                IF i <= Len(head) THEN head[i] ELSE zeros[i - Len(head)]
      BY <1>3, <1>7, ConcatProperties, Zenon
    <3>2. Len(head) = m + 1 /\ Len(zeros) = h
      BY <1>3, <1>7
    <3> QED
      BY <1>8, <3>1, <3>2, Zenon
  <2>2. ASSUME NEW i \in 1..h
        PROVE  data[m + 1 + i] = 0
    <3>1. /\ m + 1 + i \in 1..(m + 1 + h) /\ ~(m + 1 + i <= m + 1)
          /\ (m + 1 + i) - (m + 1) = i
      OBVIOUS
    <3>2. data[m + 1 + i] = zeros[(m + 1 + i) - (m + 1)]
      BY <2>1, <3>1
    <3> QED
      BY <1>7, <3>1, <3>2
  <2> QED
    BY <2>1, <2>2
<1>10. /\ Tail(data) \in Seq(Nat) /\ Len(Tail(data)) = m + h
       /\ \A i \in 1..(m + h) : Tail(data)[i] = data[i + 1]
  BY <1>9
<1>11. ASSUME NEW i \in 1..(m + h)
       PROVE  Tail(data)[i] = IF i <= m THEN keys[i] ELSE 0
  <2>1. CASE i <= m
    BY <1>3, <1>9, <1>10, <2>1
  <2>2. CASE ~(i <= m)
    <3>1. i + 1 = m + 1 + (i - m) /\ i - m \in 1..h
      BY <2>2
    <3> QED
      BY <1>9, <1>10, <2>2, <3>1
  <2> QED
    BY <2>1, <2>2
<1>12. Len(data) = IF Len(keys) < n THEN n ELSE Len(keys) + 1
  <2>1. CASE m < n
    BY <1>1, <1>5, <1>9, <2>1
  <2>2. CASE ~(m < n)
    BY <1>1, <1>5, <1>9, <2>2
  <2> QED
    BY <2>1, <2>2
<1>13. data[1] = id
  BY <1>3, <1>9
<1>14. /\ data \in Seq(Nat) /\ Tail(data) \in Seq(Nat)
       /\ Len(Tail(data)) = Len(data) - 1
       /\ \A i \in 1..Len(Tail(data)) :
             Tail(data)[i] = IF i <= Len(keys) THEN keys[i] ELSE 0
  <2>1. Len(Tail(data)) = m + h /\ Len(data) - 1 = m + h
    BY <1>9, <1>10
  <2>2. \A i \in 1..(m + h) : Tail(data)[i] = IF i <= Len(keys) THEN keys[i] ELSE 0
    BY <1>1, <1>11
  <2> QED
    BY <1>9, <1>10, <2>1, <2>2, Zenon
<1> QED
  BY <1>8, <1>12, <1>13, <1>14, Zenon

\* The buttons that reports of id are about.
ButtonsOf(id) == {b \in Held : GroupOf(b) = id}

\* What the state of the remote's object shows of the buttons held.
Shows(state, group) ==
    Len(group) <= 2 =>
        /\ state.pressed = (group # <<>>)
        /\ Len(group) = 1 /\ group[1] # "Mute" => state.button = group[1]

LEMMA GroupFacts ==
    /\ \A id \in {1, 4, 5} : \A b \in ButtonsOf(id) :
          b \in DOMAIN Remote /\ Remote[b].reportId = id
    /\ \A b \in ButtonsOf(0) : b \in DOMAIN MouseButton
<1>1. ASSUME NEW b \in Held, b \in DOMAIN MouseButton
      PROVE  GroupOf(b) = 0
  BY <1>1 DEF GroupOf
<1>2. ASSUME NEW b \in Held, b \notin DOMAIN MouseButton
      PROVE  b \in DOMAIN Remote /\ GroupOf(b) = Remote[b].reportId
  BY <1>2, HeldAssumption DEF GroupOf
<1>3. ASSUME NEW b \in Held, b \notin DOMAIN MouseButton
      PROVE  GroupOf(b) \in {1, 4, 5}
  BY <1>2, <1>3, RemoteFacts
<1> QED
  BY <1>1, <1>2, <1>3 DEF ButtonsOf

\* A sequence is empty if its length is 0, and the low byte of two is the first.
LEMMA EmptyIf ==
    ASSUME NEW S, NEW s \in Seq(S)
    PROVE  s = <<>> <=> Len(s) = 0
OBVIOUS

LEMMA CodeFacts == Code \subseteq Nat /\ 0 \notin Code /\ 2 \in Code
BY DEF Code

LEMMA LowByte ==
    /\ \A a, b \in Code : (a + b * 256) % 256 = a
    /\ \A a \in Code : a \in Nat /\ a # 0 /\ (a + 0) % 256 = a
    /\ 2 \in Code
BY DEF Code

\* The bytes of the buttons held, in their report.
LEMMA ButtonKeys ==
    ASSUME NEW id \in {1, 4, 5}, NEW group \in Seq(ButtonsOf(id))
    PROVE  \E keys \in Seq(Nat) :
              /\ ButtonBytes(id, group) = Padded(<<id>> \o keys, Length(id))
              /\ \A i \in 1..Len(keys) : keys[i] \in Code
              /\ id # 1 => Len(keys) < Length(id)
              /\ id = 1 => Len(keys) = Len(group)
              /\ keys = <<>> <=> group = <<>>
              /\ Len(group) = 1 => keys[1] = Remote[group[1]].bytes[1]
<1>1. PICK n \in Nat : n = Len(group) /\ group \in [1..n -> ButtonsOf(id)]
  OBVIOUS
<1>2. ASSUME NEW b \in ButtonsOf(id)
      PROVE  /\ b \in DOMAIN Remote /\ Remote[b].reportId = id
             /\ Remote[b].bytes \in Seq(Nat)
             /\ Len(Remote[b].bytes) \in {1, 2}
             /\ Len(Remote[b].bytes) = 2 => id = 4
             /\ Remote[b].bytes # <<>> /\ 1 \in 1..Len(Remote[b].bytes)
             /\ \A i \in 1..Len(Remote[b].bytes) : Remote[b].bytes[i] \in Code
  <2>1. b \in DOMAIN Remote /\ Remote[b].reportId = id
    BY GroupFacts
  <2>2. PICK code \in Code :
           \/ Remote[b].bytes = <<code>>
           \/ Remote[b].bytes = <<code, 2>> /\ Remote[b].reportId = 4
    BY <2>1, RemoteFacts, Zenon
  <2>3. PICK bytes : bytes = Remote[b].bytes
    OBVIOUS
  <2>4. /\ bytes \in Seq(Nat) /\ Len(bytes) \in {1, 2}
        /\ Len(bytes) = 2 => id = 4
        /\ bytes # <<>> /\ 1 \in 1..Len(bytes)
        /\ \A i \in 1..Len(bytes) : bytes[i] \in Code
    <3>1. CASE bytes = <<code>>
      BY <3>1, CodeFacts
    <3>2. CASE bytes = <<code, 2>> /\ id = 4
      <4>1. bytes \in Seq(Nat) /\ Len(bytes) = 2
        BY <3>2, CodeFacts
      <4>2. \A i \in {1, 2} : bytes[i] \in Code
        BY <3>2, CodeFacts
      <4> QED
        BY <3>2, <4>1, <4>2
    <3> QED
      BY <2>1, <2>2, <2>3, <3>1, <3>2
  <2> QED
    BY <2>1, <2>3, <2>4
<1>3. CASE id = 1
  <2> DEFINE keys == [p \in DOMAIN group |-> Remote[group[p]].bytes[1]]
  <2>1. ButtonBytes(id, group) = Padded(<<id>> \o keys, Length(id))
    BY <1>3 DEF ButtonBytes
  <2>2. DOMAIN group = 1..n
    BY <1>1
  <2>3. ASSUME NEW p \in 1..n
        PROVE  Remote[group[p]].bytes[1] \in Code
    <3>1. group[p] \in ButtonsOf(id)
      BY <1>1
    <3>2. 1 \in 1..Len(Remote[group[p]].bytes)
      BY <1>2, <3>1
    <3> QED
      BY <1>2, <3>1, <3>2
  <2>4. keys \in [1..n -> Code]
    BY <2>2, <2>3
  <2>5. keys \in Seq(Nat) /\ Len(keys) = n
    <3>1. keys \in [1..n -> Nat]
      BY <2>4, CodeFacts
    <3> QED
      BY <3>1
  <2>6. Len(group) = 1 => keys[1] = Remote[group[1]].bytes[1]
    BY <1>1, <2>2
  <2>7. keys = <<>> <=> group = <<>>
    BY <1>1, <2>5
  <2> HIDE DEF keys
  <2> QED
    BY <1>1, <1>3, <2>1, <2>4, <2>5, <2>6, <2>7
<1>4. CASE id # 1 /\ group = <<>>
  <2> DEFINE keys == <<>>
  <2>1. ButtonBytes(id, group) = Padded(<<id>> \o keys, Length(id))
    BY <1>4 DEF ButtonBytes
  <2>2. Length(id) \in {2, 3}
    BY <1>4 DEF Length
  <2>3. keys \in Seq(Nat) /\ Len(keys) = 0 /\ Len(group) # 1
    BY <1>4
  <2>4. Len(keys) < Length(id)
    BY <2>2, <2>3
  <2>5. \A i \in 1..Len(keys) : keys[i] \in Code
    BY <2>3
  <2> QED
    BY <1>4, <2>1, <2>3, <2>4, <2>5, Zenon
<1>5. CASE id # 1 /\ group # <<>>
  <2> DEFINE b == Last(group)
             keys == Remote[b].bytes
  <2>1. b \in ButtonsOf(id) /\ (Len(group) = 1 => b = group[1])
    BY <1>1, <1>5 DEF Last
  <2>2. ButtonBytes(id, group) = Padded(<<id>> \o keys, Length(id))
    BY <1>5 DEF ButtonBytes
  <2>3. /\ keys \in Seq(Nat) /\ Len(keys) \in {1, 2} /\ (Len(keys) = 2 => id = 4)
        /\ \A i \in 1..Len(keys) : keys[i] \in Code
        /\ keys # <<>>
    BY <1>2, <2>1
  <2> HIDE DEF b, keys
  <2>4. Len(keys) < Length(id)
    <3>1. CASE id = 4
      BY <2>3, <3>1 DEF Length
    <3>2. CASE id = 5
      <4>1. Len(keys) = 1
        BY <2>3, <3>2
      <4>2. Length(id) = 2
        BY <3>2 DEF Length
      <4> QED
        BY <4>1, <4>2
    <3> QED
      BY <1>5, <3>1, <3>2
  <2>6. Len(group) = 1 => keys[1] = Remote[group[1]].bytes[1]
    BY <2>1 DEF keys
  <2> QED
    BY <1>5, <2>2, <2>3, <2>4, <2>6
<1> QED
  BY <1>3, <1>4, <1>5

\* A report of id with room for its keys.
Carries(data, id, keys) ==
    /\ data[1] = id
    /\ Tail(data) \in Seq(Nat) /\ Len(keys) <= Len(Tail(data))
    /\ \A i \in 1..Len(Tail(data)) :
          Tail(data)[i] = IF i <= Len(keys) THEN keys[i] ELSE 0
    /\ \A i \in 1..Len(keys) : keys[i] \in Code

\* What the class makes of it: it tells the first of two keys.
Decoded(state, id, keys) ==
    IF Len(keys) > 2 THEN state
    ELSE [state EXCEPT !.pressed = keys # <<>>,
                       !.button = IF keys # <<>> THEN buttonFromCode(id, keys[1])
                                  ELSE @]

LEMMA ButtonProcessed ==
    ASSUME NEW state, NEW id, NEW keys \in Seq(Nat), NEW data, Carries(data, id, keys)
    PROVE  processButtonReport(state, data) = Decoded(state, id, keys)
<1>c. /\ data[1] = id /\ Tail(data) \in Seq(Nat) /\ Len(keys) <= Len(Tail(data))
      /\ \A i \in 1..Len(Tail(data)) :
            Tail(data)[i] = IF i <= Len(keys) THEN keys[i] ELSE 0
      /\ \A i \in 1..Len(keys) : keys[i] \in Code
  BY DEF Carries
<1>0. PICK n \in Nat : n = Len(Tail(data)) /\ DOMAIN Tail(data) = 1..n
  BY <1>c, LenProperties
<1>1. PICK m \in 0..n : m = Len(keys) /\ keys \in [1..m -> Nat]
  <2>1. Len(keys) \in Nat /\ Len(keys) <= n
    BY <1>c, <1>0
  <2> QED
    BY <2>1, LenProperties
<1>2. KeysIn(Tail(data)) = [r \in 1..m |-> Tail(data)[r]]
  <2>1. ASSUME NEW i \in 1..n
        PROVE  Tail(data)[i] # KEY_NONE <=> i <= m
    <3>1. Tail(data)[i] = IF i <= m THEN keys[i] ELSE 0
      BY <1>c, <1>0, <1>1
    <3>2. i <= m => keys[i] \in Code
      BY <1>c, <1>1
    <3>3. CASE i <= m
      BY <3>1, <3>2, <3>3, LowByte, Zenon DEF KEY_NONE
    <3>4. CASE ~(i <= m)
      BY <3>1, <3>4, Zenon DEF KEY_NONE
    <3> QED
      BY <3>3, <3>4
  <2> QED
    BY <1>c, <1>0, <2>1, KeysInPrefix
<1>3. KeysIn(Tail(data)) = keys
  <2>1. \A i \in 1..m : Tail(data)[i] = keys[i]
    BY <1>c, <1>0, <1>1
  <2>2. [r \in 1..m |-> Tail(data)[r]] = [r \in 1..m |-> keys[r]]
    BY <2>1
  <2>3. keys = [r \in 1..m |-> keys[r]]
    BY <1>c, <1>1
  <2> QED
    BY <1>2, <2>2, <2>3
<1>e. keys = <<>> <=> m = 0
  BY <1>c, <1>1, EmptyIf
<1>4. KeyCode(keys) = IF keys = <<>> THEN 0 ELSE keys[1]
  <2>1. CASE m = 0
    BY <1>c, <1>1, <1>e, <2>1 DEF KeyCode
  <2>2. CASE m = 1
    <3>1. keys[1] \in Code
      BY <1>c, <1>1, <2>2
    <3>2. KeyCode(keys) = (keys[1] + 0) % 256
      BY <1>c, <1>1, <2>2 DEF KeyCode
    <3> QED
      <4>1. keys # <<>>
        BY <1>e, <2>2
      <4> QED
        BY <3>1, <3>2, <4>1, LowByte, Zenon
  <2>3. CASE m >= 2
    <3>1. keys[1] \in Code /\ keys[2] \in Code
      BY <1>c, <1>1, <2>3
    <3>2. (keys[1] + keys[2] * 256) % 256 = keys[1]
      BY <3>1, LowByte
    <3>3. KeyCode(keys) = (keys[1] + keys[2] * 256) % 256
      BY <1>c, <1>1, <2>3 DEF KeyCode
    <3> QED
      BY <1>e, <2>3, <3>2, <3>3
  <2> QED
    BY <1>c, <1>1, <2>1, <2>2, <2>3
<1>5. keys # <<>> => KeyCode(keys) # 0 /\ KeyCode(keys) = keys[1]
  <2> SUFFICES ASSUME keys # <<>>
               PROVE  KeyCode(keys) # 0 /\ KeyCode(keys) = keys[1]
    OBVIOUS
  <2>1. KeyCode(keys) = keys[1]
    BY <1>4
  <2>2. keys[1] \in Code
    BY <1>c, <1>1, <1>e
  <2> QED
    BY <2>1, <2>2, LowByte, Zenon
<1>6. keys = <<>> => KeyCode(keys) = 0
  BY <1>4
<1> QED
  BY <1>c, <1>3, <1>5, <1>6, Zenon DEF processButtonReport, Decoded

-----------------------------------------------------------------------------
(* What the class of the remote makes of them.                             *)

\* What the object makes of a report of buttons other than the mouse's.
LEMMA ButtonReport ==
    ASSUME NEW state \in G20sState, NEW id \in {1, 4, 5},
           NEW group \in Seq(ButtonsOf(id))
    PROVE  /\ Len(ButtonBytes(id, group)) >= 1
           /\ NextG20s(state, ButtonBytes(id, group)) \in G20sState
           /\ Shows(NextG20s(state, ButtonBytes(id, group)), group)
<1>1. PICK keys \in Seq(Nat) :
         /\ ButtonBytes(id, group) = Padded(<<id>> \o keys, Length(id))
         /\ \A i \in 1..Len(keys) : keys[i] \in Code
         /\ id # 1 => Len(keys) < Length(id)
         /\ id = 1 => Len(keys) = Len(group)
         /\ keys = <<>> <=> group = <<>>
         /\ Len(group) = 1 => keys[1] = Remote[group[1]].bytes[1]
  BY ButtonKeys
<1>3. id \in Nat /\ Length(id) \in Nat
  BY DEF Length
<1>2. PICK data :
         /\ data = Padded(<<id>> \o keys, Length(id))
         /\ Len(data) = IF Len(keys) < Length(id) THEN Length(id) ELSE Len(keys) + 1
         /\ data[1] = id
         /\ Tail(data) \in Seq(Nat) /\ Len(Tail(data)) = Len(data) - 1
         /\ \A i \in 1..Len(Tail(data)) :
               Tail(data)[i] = IF i <= Len(keys) THEN keys[i] ELSE 0
  BY <1>3, PaddedReport, Zenon
<1>d. data = ButtonBytes(id, group)
  BY <1>1, <1>2
<1>4. <<Length(id), id>> \in {<<8, 1>>, <<3, 4>>, <<2, 5>>}
  BY DEF Length
<1>5. /\ Len(keys) \in Nat /\ Len(group) \in Nat
      /\ group \in [1..Len(group) -> ButtonsOf(id)]
      /\ group = <<>> <=> Len(group) = 0
  BY LenProperties, EmptyIf
<1>6. CASE Len(keys) < Length(id)
  <2>1. Len(data) = Length(id) /\ Len(keys) <= Len(Tail(data))
    BY <1>2, <1>3, <1>4, <1>5, <1>6
  <2>2. IsButtonReport(data)
    BY <1>2, <1>4, <2>1 DEF IsButtonReport
  <2>3. Len(data) \notin {0, 4} /\ Len(data) >= 1
    BY <1>4, <2>1
  <2>4. NextG20s(state, data) = processButtonReport(state, data)
    BY <2>2, <2>3 DEF NextG20s
  <2>p. Carries(data, id, keys)
    BY <1>1, <1>2, <2>1 DEF Carries
  <2>5. NextG20s(state, data) = Decoded(state, id, keys)
    BY <2>4, <2>p, ButtonProcessed
  <2>6. Len(group) <= 2 => ~(Len(keys) > 2)
    BY <1>1, <1>4, <1>5, <1>6
  <2>7. CASE Len(keys) > 2
    BY <1>d, <2>3, <2>5, <2>6, <2>7 DEF Shows, Decoded
  <2>8. CASE ~(Len(keys) > 2)
    <3>1. buttonFromCode(id, keys[1]) \in G20sProBtn
      BY ButtonType
    <3>2. NextG20s(state, data) \in G20sState
      <4> DEFINE pressed == keys # <<>>
                 X == -128..127
                 button == IF keys # <<>> THEN buttonFromCode(id, keys[1])
                           ELSE state.button
      <4>1. button \in G20sProBtn \cup {"Garbage"}
        BY <3>1 DEF G20sState
      <4>2. NextG20s(state, data) =
               [state EXCEPT !.pressed = pressed, !.button = button]
        BY <2>5, <2>8 DEF Decoded
      <4>3. pressed \in BOOLEAN
        OBVIOUS
      <4>4. state \in [button : G20sProBtn \cup {"Garbage"}, pressed : BOOLEAN, x : X]
        BY DEF G20sState
      <4> HIDE DEF pressed, button, X
      <4>5. NextG20s(state, data)
               \in [button : G20sProBtn \cup {"Garbage"}, pressed : BOOLEAN, x : X]
        BY <4>1, <4>2, <4>3, <4>4
      <4> QED
        BY <4>5 DEF G20sState, X
    <3>3. ASSUME Len(group) = 1, group[1] # "Mute"
          PROVE  keys # <<>> /\ buttonFromCode(id, keys[1]) = group[1]
      <4>1. group[1] \in ButtonsOf(id) /\ group # <<>>
        BY <1>5, <3>3
      <4>2. group[1] \in DOMAIN Remote /\ Remote[group[1]].reportId = id
        BY <4>1, GroupFacts
      <4> QED
        BY <1>1, <3>3, <4>1, <4>2, ButtonFound
    <3>4. /\ NextG20s(state, data).pressed = (keys # <<>>)
          /\ keys # <<>> => NextG20s(state, data).button = buttonFromCode(id, keys[1])
      BY <2>5, <2>8 DEF G20sState, Decoded
    <3>5. Shows(NextG20s(state, data), group)
      BY <1>1, <3>3, <3>4, Zenon DEF Shows
    <3> QED
      BY <1>d, <2>3, <3>2, <3>5
  <2> QED
    BY <2>7, <2>8
<1>7. CASE ~(Len(keys) < Length(id))
  <2>1. id = 1 /\ Length(id) = 8
    BY <1>1, <1>7 DEF Length
  <2>2. Len(data) >= 9 /\ Len(group) > 2
    <3>1. Len(keys) >= 8 /\ Len(data) = Len(keys) + 1 /\ Len(keys) = Len(group)
      BY <1>1, <1>2, <1>5, <1>7, <2>1
    <3> QED
      BY <1>5, <3>1
  <2>3. Len(data) \notin {0, 4, 8, 3, 2}
    <3>1. \A n \in {0, 4, 8, 3, 2} : ~(n >= 9)
      OBVIOUS
    <3> QED
      BY <2>2, <3>1
  <2>4. ~IsButtonReport(data)
    BY <2>3 DEF IsButtonReport
  <2>5. NextG20s(state, data) = state
    BY <2>3, <2>4 DEF NextG20s
  <2> QED
    BY <1>d, <1>5, <2>2, <2>5 DEF Shows
<1> QED
  BY <1>6, <1>7

\* What it makes of a report of the remote's mouse.
LEMMA MouseBytesReport ==
    ASSUME NEW state \in G20sState, NEW group \in Seq(ButtonsOf(0)),
           NEW motion \in {0, 1, 255}
    PROVE  /\ Len(MouseBytes(group, motion)) >= 1
           /\ NextG20s(state, MouseBytes(group, motion)) \in G20sState
           /\ Shows(NextG20s(state, MouseBytes(group, motion)), group)
<1> DEFINE left == "MouseLeft" \in Range(group)
           right == "MouseRight" \in Range(group)
<1>1. PICK bits : bits = (IF left THEN 1 ELSE 0) + (IF right THEN 2 ELSE 0)
  OBVIOUS
<1>2. MouseBytes(group, motion) = <<bits, motion, 0, 0>>
  BY <1>1 DEF MouseBytes, MouseButton
<1>3. PICK data : data = <<bits, motion, 0, 0>>
  OBVIOUS
<1>4. NextG20s(state, data) = processMouseReport(state, data)
  BY <1>3 DEF NextG20s
<1>5. /\ ~left /\ ~right => bits = 0
      /\ left /\ ~right => bits = 1
      /\ ~left /\ right => bits = 2
      /\ left /\ right => bits = 3
  BY <1>1
<1>6. /\ bits \in {0, 1, 2, 3}
      /\ bits # 0 <=> left \/ right
      /\ bits % 2 = 1 <=> left
      /\ bits % 4 >= 2 <=> right
  BY <1>5
<1>7. data[1] = bits /\ data[2] = motion /\ Len(data) = 4
  BY <1>3
<1>8. NextG20s(state, data) =
        [button |-> IF left THEN "MouseLeft" ELSE IF right THEN "MouseRight"
                    ELSE state.button,
         pressed |-> left \/ right, x |-> Int8(motion)]
  BY <1>4, <1>6, <1>7 DEF processMouseReport
<1>9. Int8(motion) \in -128..127
  BY DEF Int8
<1>10. NextG20s(state, data) \in G20sState
  BY <1>8, <1>9 DEF G20sState, G20sProBtn
<1>11. /\ \A i \in 1..Len(group) : group[i] \in {"MouseLeft", "MouseRight"}
       /\ Range(group) = {group[i] : i \in 1..Len(group)}
       /\ group = <<>> <=> Len(group) = 0
  BY GroupFacts, EmptyIf DEF Range, MouseButton
<1>12. left \/ right <=> group # <<>>
  <2>1. group # <<>> => group[1] \in {"MouseLeft", "MouseRight"} /\ group[1] \in Range(group)
    BY <1>11
  <2>2. group = <<>> => Range(group) = {}
    BY <1>11
  <2> QED
    BY <2>1, <2>2
<1>13. ASSUME Len(group) = 1
       PROVE  IF left THEN group[1] = "MouseLeft" ELSE right /\ group[1] = "MouseRight"
  <2>1. Range(group) = {group[1]} /\ group[1] \in {"MouseLeft", "MouseRight"}
    BY <1>11, <1>13
  <2> QED
    BY <2>1
<1> HIDE DEF left, right
<1>14. Shows(NextG20s(state, data), group)
  BY <1>8, <1>12, <1>13 DEF Shows
<1> QED
  BY <1>2, <1>3, <1>7, <1>10, <1>14

\* And of the reports it does not know.
LEMMA OtherBytes ==
    ASSUME NEW state, NEW data \in {<<>>, <<2, 1>>}
    PROVE  NextG20s(state, data) = state
BY DEF NextG20s, IsButtonReport

-----------------------------------------------------------------------------
(* The invariant of the types and of the buttons held.                     *)

\* The types of the state that IInv leaves out, and of what callbacks are told.
Typed ==
    /\ desk \in Desk /\ fault \in {"none", "dangling"}
    /\ object["keyboard"] \in KeyboardReport /\ object["g20s"] \in G20sState
    /\ \A k \in Class : \A c \in Range(callbacks[k]) :
          told[c] = <<told[c][1]>> /\ told[c][1] \in EventType(k)

\* The object shows the buttons of the report id reported last.
Knows ==
    /\ "g20s" \notin silenced
    /\ DOMAIN pressing = ReportId
    /\ \A id \in ReportId : pressing[id] \in Seq(ButtonsOf(id))
    /\ reported \in ReportId \cup {NoGroup}
    /\ reported # NoGroup => Shows(object["g20s"], pressing[reported])

\* Events of any class, and of a device at rest, have their type.
LEMMA EventTyped ==
    ASSUME IInv, Typed, NEW k \in Class
    PROVE  Event(k) \in EventType(k) /\ EventOfRest(k) \in EventType(k)
<1>1. CASE k = "keyboard"
  <2>1. object["keyboard"] \in KeyboardReport
    BY DEF Typed
  <2>2. NoKeys \in KeyboardReport
    BY DEF NoKeys, KeyboardReport
  <2>3. Event(k) = KeyboardEvent(object["keyboard"]) /\ EventOfRest(k) = KeyboardEvent(NoKeys)
    BY <1>1 DEF Event, EventOfRest
  <2> QED
    BY <1>1, <2>1, <2>2, <2>3, KeyboardEventType
<1>2. CASE k = "mouse"
  <2>1. object["mouse"] \in MouseReport
    BY DEF IInv, Shape, MouseTyped
  <2>2. NoMotion \in MouseReport
    BY DeltaAssumption DEF NoMotion, MouseReport
  <2> QED
    BY <1>2, <2>1, <2>2 DEF Event, EventOfRest, EventType, MouseEvent
<1>3. CASE k = "g20s"
  <2>1. object["g20s"] \in G20sState
    BY DEF Typed
  <2>2. [button |-> "Unknown", pressed |-> FALSE, x |-> 0] \in G20sState
    BY DEF G20sState, G20sProBtn, btnCodeMap
  <2> QED
    BY <1>3, <2>1, <2>2 DEF Event, EventOfRest, EventType, G20sEvent
<1> QED
  BY <1>1, <1>2, <1>3 DEF Class

LEMMA InitKnows == Init => Typed /\ Knows
<1> SUFFICES ASSUME Init
             PROVE  Typed /\ Knows
  OBVIOUS
<1>1. /\ desk \in Desk /\ fault = "none" /\ callbacks = [k \in Class |-> <<>>]
      /\ silenced = {"mouse"} /\ pressing = [id \in ReportId |-> <<>>]
      /\ reported = NoGroup
  BY DEF Init
<1>2. /\ object["keyboard"] = NoKeys
      /\ object["g20s"] \in [button : {"Garbage", "Power"}, pressed : BOOLEAN, x : {0}]
  BY DEF Init
<1>3. object["keyboard"] \in KeyboardReport
  BY <1>2 DEF NoKeys, KeyboardReport
<1>4. object["g20s"] \in G20sState
  <2>1. "Power" \in G20sProBtn
    BY DEF G20sProBtn, btnCodeMap
  <2> QED
    BY <1>2, <2>1 DEF G20sState
<1>5. \A k \in Class : Range(callbacks[k]) = {}
  BY <1>1 DEF Range
<1> QED
  BY <1>1, <1>3, <1>4, <1>5 DEF Typed, Knows

\* A step that leaves the remote and its object alone.
LEMMA KnowsKept ==
    ASSUME Knows, UNCHANGED <<pressing, reported>>, object'["g20s"] = object["g20s"],
           "g20s" \notin silenced'
    PROVE  Knows'
BY DEF Knows

\* A registration: the function is told of a device at rest first.
LEMMA RegisterKnows ==
    ASSUME IInv, Typed, Knows, NEW k \in Class, NEW c \in Callback, registerCallback(k, c)
    PROVE  Typed' /\ Knows'
<1>1. /\ UNCHANGED <<desk, object, fault, silenced, pressing, reported>>
      /\ c \notin Registered
      /\ callbacks' = [callbacks EXCEPT ![k] = Append(callbacks[k], c)]
      /\ told' = [told EXCEPT ![c] = <<EventOfRest(k)>>]
  BY DEF registerCallback
<1>2. callbacks \in [Class -> Seq(Callback)] /\ DOMAIN told = Callback
  BY DEF IInv, Shape
<1>3. Knows'
  BY <1>1, KnowsKept DEF Knows
<1>4. \A j \in Class : \A d \in Range(callbacks'[j]) :
         \/ d \in Range(callbacks[j]) /\ d # c
         \/ j = k /\ d = c
  <2> TAKE j \in Class
  <2> TAKE d \in Range(callbacks'[j])
  <2>1. c \notin Range(callbacks[j])
    BY <1>1 DEF Registered
  <2>2. CASE j # k
    BY <1>1, <1>2, <2>1, <2>2
  <2>3. CASE j = k
    <3>1. callbacks'[j] = Append(callbacks[j], c) /\ callbacks[j] \in Seq(Callback)
      BY <1>1, <1>2, <2>3
    <3>2. PICK i \in 1..(Len(callbacks[j]) + 1) : d = Append(callbacks[j], c)[i]
      BY <3>1 DEF Range
    <3>3. CASE i = Len(callbacks[j]) + 1
      BY <2>3, <3>1, <3>2, <3>3
    <3>4. CASE i # Len(callbacks[j]) + 1
      <4>1. i \in 1..Len(callbacks[j]) /\ d = callbacks[j][i]
        BY <3>1, <3>2, <3>4
      <4> QED
        BY <2>1, <3>1, <4>1 DEF Range
    <3> QED
      BY <3>3, <3>4
  <2> QED
    BY <2>2, <2>3
<1>5. ASSUME NEW j \in Class, NEW d \in Range(callbacks'[j])
      PROVE  told'[d] = <<told'[d][1]>> /\ told'[d][1] \in EventType(j)
  <2>1. CASE d \in Range(callbacks[j]) /\ d # c
    <3>1. told'[d] = told[d]
      BY <1>1, <1>2, <2>1
    <3> QED
      BY <2>1, <3>1 DEF Typed
  <2>2. CASE j = k /\ d = c
    BY <1>1, <1>2, <2>2, EventTyped
  <2> QED
    BY <1>4, <2>1, <2>2
<1>6. \A j \in Class : EventType(j)' = EventType(j)
  BY DEF EventType
<1> QED
  BY <1>1, <1>3, <1>5, <1>6 DEF Typed

\* The call of a callback: it is told the event of the object.
LEMMA CallKnows ==
    ASSUME IInv, Typed, Knows, CallCallback
    PROVE  Typed' /\ Knows'
<1> DEFINE k == loop.class
           c == callbacks[k][loop.next]
<1>1. /\ loop.at = "call" /\ Len(callbacks[k]) = loop.size
      /\ told' = [told EXCEPT ![c] = <<Event(k)>>]
      /\ UNCHANGED <<desk, object, callbacks, fault, silenced, pressing, reported>>
  BY DEF CallCallback, Moved
<1>2. k \in Class /\ c \in Range(callbacks[k]) /\ DOMAIN told = Callback
  <2>1. k \in Class /\ loop.next \in 1..loop.size
    BY <1>1 DEF IInv, Looping
  <2> QED
    BY <1>1, <2>1, Places DEF IInv, Shape
<1>3. Knows'
  BY <1>1, KnowsKept DEF Knows
<1>4. ASSUME NEW j \in Class, c \in Range(callbacks[j])
      PROVE  j = k
  <2>1. PICK i \in 1..Len(callbacks[j]) : callbacks[j][i] = c
    BY <1>4, Places DEF IInv
  <2>2. PICK h \in 1..Len(callbacks[k]) : callbacks[k][h] = c
    BY <1>2, Places DEF IInv
  <2> QED
    BY <1>2, <2>1, <2>2 DEF IInv, OnceEach
<1> HIDE DEF k, c
<1>5. ASSUME NEW j \in Class, NEW d \in Range(callbacks[j])
      PROVE  told'[d] = <<told'[d][1]>> /\ told'[d][1] \in EventType(j)
  <2>1. d \in Callback
    BY Places DEF IInv
  <2>2. CASE d = c
    BY <1>1, <1>2, <1>4, <2>1, <2>2, EventTyped
  <2>3. CASE d # c
    <3>1. told'[d] = told[d]
      BY <1>1, <1>2, <2>1, <2>3
    <3> QED
      BY <3>1 DEF Typed
  <2> QED
    BY <2>2, <2>3
<1> QED
  BY <1>1, <1>3, <1>5 DEF Typed

\* A report of a keyboard or a mouse.
LEMMA OthersKnow ==
    ASSUME IInv, Typed, Knows, KeyboardReported \/ MouseReported
    PROVE  Typed' /\ Knows'
<1>1. /\ Ready
      /\ UNCHANGED <<desk, callbacks, fault, told, pressing, reported>>
  BY DEF KeyboardReported, MouseReported
<1>2. CASE KeyboardReported
  <2>1. PICK data \in Data(KeyboardReport) :
           Raise("keyboard", NextKeyboard(object.keyboard, data),
                 Changed(object.keyboard, data))
    BY <1>2 DEF KeyboardReported
  <2> DEFINE next == NextKeyboard(object.keyboard, data)
  <2>2. next \in KeyboardReport
    BY DEF NextKeyboard, Data, NoKeys, KeyboardReport
  <2>3. Changed(object.keyboard, data) \in BOOLEAN
    BY DEF Changed
  <2>4. object'["keyboard"] = next /\ object'["g20s"] = object["g20s"]
        /\ silenced' \subseteq silenced \cup {"keyboard"}
    <3>1. PICK event \in BOOLEAN : Raise("keyboard", next, event)
      BY <2>1, <2>3
    <3> HIDE DEF next
    <3> QED
      BY <1>1, <3>1, RaiseStep DEF Class
  <2> HIDE DEF next
  <2> QED
    BY <1>1, <2>2, <2>4, KnowsKept DEF Typed, Knows
<1>3. CASE MouseReported
  <2>1. PICK data \in Data(MouseReport) :
           Raise("mouse", NextMouse(object.mouse, data), Changed(object.mouse, data))
    BY <1>3 DEF MouseReported
  <2>2. PICK next : next = NextMouse(object.mouse, data)
    OBVIOUS
  <2>3. Changed(object.mouse, data) \in BOOLEAN
    BY DEF Changed
  <2>4. PICK event \in BOOLEAN : Raise("mouse", next, event)
    BY <2>1, <2>2, <2>3
  <2>5. object'["keyboard"] = object["keyboard"] /\ object'["g20s"] = object["g20s"]
        /\ silenced' \subseteq silenced \cup {"mouse"}
    BY <1>1, <2>4, RaiseStep DEF Class
  <2> QED
    BY <1>1, <2>5, KnowsKept DEF Typed, Knows
<1> QED
  BY <1>2, <1>3

\* What a report of the remote leaves: its object has a next state, and if an
\* event is raised, its class stays out of silence.
LEMMA RemoteRaises ==
    ASSUME IInv, Typed, Knows, NEW data, G20sReported(data),
           NextG20s(object["g20s"], data) \in G20sState,
           Len(data) >= 1 \/ NextG20s(object["g20s"], data) = object["g20s"]
    PROVE  /\ Typed'
           /\ object'["g20s"] = NextG20s(object["g20s"], data)
           /\ "g20s" \notin silenced'
<1>1. Ready /\ UNCHANGED <<desk, callbacks, fault, told>>
  BY DEF G20sReported
<1>2. PICK next : next = NextG20s(object.g20s, data)
  OBVIOUS
<1>3. PICK event \in BOOLEAN : event <=> Len(data) >= 1
  OBVIOUS
<1>4. Raise("g20s", next, event)
  BY <1>2, <1>3 DEF G20sReported
<1>5. /\ object'["g20s"] = next /\ object'["keyboard"] = object["keyboard"]
      /\ event => silenced' = silenced \ {"g20s"}
      /\ ~event => silenced' = IF next = object["g20s"] THEN silenced
                               ELSE silenced \cup {"g20s"}
  BY <1>1, <1>4, RaiseStep DEF Class
<1>6. "g20s" \notin silenced'
  BY <1>2, <1>3, <1>5 DEF Knows
<1> QED
  BY <1>1, <1>2, <1>5, <1>6 DEF Typed

\* A report of the buttons held.
LEMMA RemoteKnows ==
    ASSUME IInv, Typed, Knows, NEW id \in ReportId, NEW group \in Seq(ButtonsOf(id)),
           RemoteReports(id, group)
    PROVE  Typed' /\ Knows'
<1>1. PICK data :
         /\ G20sReported(data)
         /\ Len(data) >= 1 /\ NextG20s(object["g20s"], data) \in G20sState
         /\ Shows(NextG20s(object["g20s"], data), group)
  <2>1. object["g20s"] \in G20sState
    BY DEF Typed
  <2>2. CASE id = 0
    <3>1. G20sReported(MouseBytes(group, 0)) /\ group \in Seq(ButtonsOf(0))
      BY <2>2 DEF RemoteReports
    <3> QED
      BY <2>1, <3>1, MouseBytesReport
  <2>3. CASE id # 0
    <3>1. G20sReported(ButtonBytes(id, group)) /\ id \in {1, 4, 5}
      BY <2>3 DEF RemoteReports, ReportId
    <3> QED
      BY <2>1, <3>1, ButtonReport
  <2> QED
    BY <2>2, <2>3
<1>2. /\ Typed' /\ "g20s" \notin silenced'
      /\ object'["g20s"] = NextG20s(object["g20s"], data)
  BY <1>1, RemoteRaises
<1>3. pressing' = [pressing EXCEPT ![id] = group] /\ reported' = id
  BY DEF RemoteReports
<1>4. /\ DOMAIN pressing' = ReportId /\ pressing'[id] = group
      /\ \A j \in ReportId : pressing'[j] \in Seq(ButtonsOf(j))
  BY <1>3 DEF Knows
<1> QED
  BY <1>1, <1>2, <1>3, <1>4 DEF Knows

\* A button pressed or released.
LEMMA ButtonKnows ==
    ASSUME IInv, Typed, Knows, NEW b \in Held, Press(b) \/ Release(b)
    PROVE  Typed' /\ Knows'
<1> DEFINE id == GroupOf(b)
           group == pressing[id]
<1>1. id \in ReportId /\ b \in ButtonsOf(id)
  <2>1. CASE b \in DOMAIN MouseButton
    BY <2>1 DEF GroupOf, ReportId, ButtonsOf
  <2>2. CASE b \notin DOMAIN MouseButton
    <3>1. b \in DOMAIN Remote /\ id = Remote[b].reportId
      BY <2>2, HeldAssumption DEF GroupOf
    <3> QED
      BY <3>1, RemoteFacts DEF ReportId, ButtonsOf
  <2> QED
    BY <2>1, <2>2
<1>2. group \in Seq(ButtonsOf(id))
  BY <1>1 DEF Knows
<1>3. CASE Press(b)
  <2>1. RemoteReports(id, Append(group, b))
    BY <1>3 DEF Press
  <2> HIDE DEF id, group
  <2>2. Append(group, b) \in Seq(ButtonsOf(id))
    BY <1>1, <1>2
  <2> QED
    BY <1>1, <2>1, <2>2, RemoteKnows
<1>4. CASE Release(b)
  <2>1. PICK i \in DOMAIN group : RemoteReports(id, RemoveAt(group, i))
    BY <1>4 DEF Release
  <2> HIDE DEF id, group
  <2>2. i \in 1..Len(group) /\ Len(group) \in Nat
    BY <1>2
  <2>3. /\ SubSeq(group, 1, i - 1) \in Seq(ButtonsOf(id))
        /\ SubSeq(group, i + 1, Len(group)) \in Seq(ButtonsOf(id))
    BY <1>2, <2>2
  <2>4. RemoveAt(group, i) \in Seq(ButtonsOf(id))
    BY <2>3 DEF RemoveAt
  <2> QED
    BY <1>1, <2>1, <2>4, RemoteKnows
<1> QED
  BY <1>3, <1>4

\* The remote moved, which leaves the buttons held as they are.
LEMMA MoveKnows ==
    ASSUME IInv, Typed, Knows, Move
    PROVE  Typed' /\ Knows'
<1>1. PICK motion \in {1, 255} : G20sReported(MouseBytes(pressing[0], motion))
  BY DEF Move
<1>2. pressing' = pressing /\ reported' = 0 /\ 0 \in ReportId
  BY DEF Move, ReportId
<1>3. PICK data : data = MouseBytes(pressing[0], motion)
  OBVIOUS
<1>4. object["g20s"] \in G20sState /\ pressing[0] \in Seq(ButtonsOf(0))
  BY <1>2 DEF Typed, Knows
<1>5. /\ Len(data) >= 1 /\ NextG20s(object["g20s"], data) \in G20sState
      /\ Shows(NextG20s(object["g20s"], data), pressing[0])
  BY <1>3, <1>4, MouseBytesReport
<1>6. /\ Typed' /\ "g20s" \notin silenced'
      /\ object'["g20s"] = NextG20s(object["g20s"], data)
  BY <1>1, <1>3, <1>5, RemoteRaises
<1> QED
  BY <1>2, <1>5, <1>6 DEF Knows

\* A report the class does not know leaves its object alone.
LEMMA OtherKnows ==
    ASSUME IInv, Typed, Knows, OtherReport
    PROVE  Typed' /\ Knows'
<1>1. PICK data \in {<<>>, <<2, 1>>} : G20sReported(data)
  BY DEF OtherReport
<1>2. NextG20s(object["g20s"], data) = object["g20s"] /\ object["g20s"] \in G20sState
  BY OtherBytes DEF Typed
<1>3. /\ Typed' /\ "g20s" \notin silenced' /\ object'["g20s"] = object["g20s"]
  BY <1>1, <1>2, RemoteRaises
<1> QED
  BY <1>3, KnowsKept DEF OtherReport

LEMMA NextKnows == IInv /\ Typed /\ Knows /\ [Next]_vars => Typed' /\ Knows'
<1> SUFFICES ASSUME IInv, Typed, Knows, [Next]_vars
             PROVE  Typed' /\ Knows'
  OBVIOUS
<1>1. CASE \E k \in Class, c \in Callback : registerCallback(k, c)
  BY <1>1, RegisterKnows
<1>2. CASE Dangle \/ ReadEnd
  <2>1. /\ UNCHANGED <<desk, object, callbacks, told, silenced, pressing, reported>>
        /\ fault' \in {"none", "dangling"}
    BY <1>2 DEF Dangle, ReadEnd, Typed
  <2> QED
    BY <2>1, KnowsKept DEF Typed, Knows
<1>3. CASE CallCallback
  BY <1>3, CallKnows
<1>4. CASE KeyboardReported \/ MouseReported
  BY <1>4, OthersKnow
<1>5. CASE \E b \in Held : Press(b) \/ Release(b)
  BY <1>5, ButtonKnows
<1>6. CASE Move
  BY <1>6, MoveKnows
<1>7. CASE OtherReport
  BY <1>7, OtherKnows
<1>8. CASE UNCHANGED vars
  BY <1>8, KnowsKept DEF vars, Typed, Knows
<1> QED
  BY <1>1, <1>2, <1>3, <1>4, <1>5, <1>6, <1>7, <1>8 DEF Next

\* Both invariants of the proofs hold of every behaviour.
THEOREM KnownInvariance == Spec => [](IInv /\ Typed /\ Knows)
<1>1. Init => IInv /\ Typed /\ Knows
  BY InitInv, InitKnows
<1>2. IInv /\ Typed /\ Knows /\ [Next]_vars => (IInv /\ Typed /\ Knows)'
  BY NextStep, NextKnows
<1> QED
  BY <1>1, <1>2, PTL DEF Spec

-----------------------------------------------------------------------------
(* The theorems.                                                           *)

\* Between two reports every callback of keyboards and mice has last been told
\* of the last whole report, unless its class was reset in silence: the cache
\* of UsbHidKeyboardReport and UsbHidMouseReport hides no state, however many
\* devices share one object and whatever is registered while the loop runs.
THEOREM CallbacksFollow == Spec => []Follows
<1>1. IInv => Follows
  <2> SUFFICES ASSUME IInv, Settled,
                      NEW k \in {"keyboard", "mouse"} \ silenced,
                      NEW c \in Listening(k), sent[k] # <<>>
               PROVE  told[c] = <<IF k = "keyboard" THEN KeyboardEvent(sent[k][1])
                                  ELSE MouseEvent(sent[k][1])>>
    BY DEF Follows
  <2>1. k \in Class /\ object[k] = sent[k][1]
    BY DEF IInv, Kept, Class
  <2>2. PICK i \in 1..Len(callbacks[k]) : callbacks[k][i] = c
    BY <2>1, Places DEF IInv, Listening
  <2>3. told[c] = <<Event(k)>>
    BY <2>1, <2>2 DEF IInv, Heard, Listening, Due, Settled
  <2>4. Event(k) = IF k = "keyboard" THEN KeyboardEvent(object[k])
                   ELSE MouseEvent(object[k])
    BY DEF Event
  <2> QED
    BY <2>1, <2>3, <2>4
<1> QED
  BY <1>1, Invariance, PTL

\* As long as no motion comes twice in a row, every callback of the mice has been
\* told the sum of the motions sent since it was registered.
THEOREM NoMotionLost == Spec => []MotionTold
<1>1. IInv => MotionTold
  <2> SUFFICES ASSUME IInv, Settled, ~steady, NEW c \in Listening("mouse")
               PROVE  untold[c] = 0
    BY DEF MotionTold
  <2>1. PICK i \in 1..Len(callbacks["mouse"]) : callbacks["mouse"][i] = c
    BY Places DEF IInv, Listening, Class
  <2> QED
    BY <2>1 DEF IInv, Owed, Due, Settled
<1> QED
  BY <1>1, Invariance, PTL

\* The objects and events have their types: an event of a keyboard holds at most
\* MAX_KEYS keys and no KEY_NONE, and the remote's object has a button of its
\* enumeration, or the one its memory held, whatever the reports.
THEOREM TypeCorrect == Spec => []TypeOK
<1>1. IInv /\ Typed /\ Knows => TypeOK
  <2> SUFFICES ASSUME IInv, Typed
               PROVE  TypeOK
    OBVIOUS
  <2>1. ASSUME NEW k \in Class, NEW c \in Range(callbacks[k])
        PROVE  Len(told[c]) = 1 /\ told[c][1] \in EventType(k)
    BY DEF Typed
  <2>2. object.mouse \in MouseReport /\ loop.at \in {"idle", "begin", "call"}
    BY DEF IInv, Shape, MouseTyped
  <2>3. loop.at = "call" => loop.next \in 1..loop.size
    BY DEF IInv, Looping
  <2> QED
    BY <2>1, <2>2, <2>3 DEF Typed, TypeOK
<1> QED
  BY <1>1, KnownInvariance, PTL

\* Between two reports every callback of the remote has last been told whether a
\* button of the report id reported last is held, and which if there is one:
\* whatever is pressed and released in whatever order, as long as no more than two
\* buttons of that id are held. It rests on no two buttons having one code.
THEOREM ButtonsTold == Spec => []ButtonTold
<1>1. IInv /\ Typed /\ Knows => ButtonTold
  <2> SUFFICES ASSUME IInv, Knows, Settled, reported # NoGroup,
                      NEW c \in Listening("g20s")
               PROVE  LET group == pressing[reported]
                      IN Len(group) <= 2 =>
                            /\ told[c][1].pressed = (group # <<>>)
                            /\ Len(group) = 1 /\ group[1] # "Mute" =>
                                  told[c][1].button = group[1]
    BY DEF ButtonTold
  <2>1. "g20s" \in Class
    BY DEF Class
  <2>2. PICK i \in 1..Len(callbacks["g20s"]) : callbacks["g20s"][i] = c
    BY <2>1, Places DEF IInv, Listening
  <2>3. told[c] = <<Event("g20s")>>
    BY <2>1, <2>2 DEF IInv, Heard, Listening, Due, Settled, Knows
  <2>4. told[c][1] = object["g20s"]
    BY <2>3 DEF Event, G20sEvent
  <2>5. Shows(object["g20s"], pressing[reported])
    BY DEF Knows
  <2> QED
    BY <2>4, <2>5 DEF Shows
<1> QED
  BY <1>1, KnownInvariance, PTL

=============================================================================

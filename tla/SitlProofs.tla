----------------------------- MODULE SitlProofs -----------------------------
(***************************************************************************)
(* Proofs about Sitl, for any buttons, any length of the event queue and   *)
(* any capacity of the stack of boxes.                                     *)
(***************************************************************************)
EXTENDS Sitl, TLAPS

(* The state before main's loop (main.c:81-90). *)
LEMMA InitIInv == Init => IInv
<1> SUFFICES ASSUME Init PROVE IInv
  OBVIOUS
<1>1. 0 \in 0 .. STACKSIZE
  BY SitlAssumption
<1>2. queue \in Seq(Event) /\ Len(queue) = 0
  BY DEF Init
<1>3. TypeOK
  BY <1>1, <1>2, Zenon DEF Init, TypeOK
<1>4. NewestIsKey
  BY <1>2 DEF NewestIsKey
<1>5. StatesTrackKeys
  BY Zenon DEF Init, StatesTrackKeys
<1>6. WindowCurrent
  BY DEF Init, WindowCurrent
<1> QED
  BY <1>3, <1>4, <1>5, <1>6 DEF IInv

(* An event is put at the end of the queue: it is the newest of its key. *)
LEMMA PostsNewest ==
  ASSUME IInv, NEW e \in Event, Posts(e),
         \A b \in Button : IF e.key = b THEN key'[b] <=> e.type = "down"
                           ELSE key'[b] = key[b]
  PROVE  queue' \in Seq(Event) /\ NewestIsKey'
<1> USE DEF IInv, TypeOK
<1>1. /\ queue' \in Seq(Event) /\ Len(queue') = Len(queue) + 1 /\ Len(queue) \in Nat
      /\ queue'[Len(queue) + 1] = e
      /\ \A n \in 1 .. Len(queue) : queue'[n] = queue[n]
  BY DEF Posts
<1>2. NewestIsKey'
  <2> SUFFICES ASSUME NEW b \in Button, NEW n \in 1 .. Len(queue'), queue'[n].key = b,
                      \A m \in n + 1 .. Len(queue') : queue'[m].key # b
               PROVE  key'[b] <=> queue'[n].type = "down"
    BY DEF NewestIsKey
  <2>1. CASE n = Len(queue) + 1
    BY <1>1, <2>1
  <2>2. CASE n # Len(queue) + 1
    <3>1. n \in 1 .. Len(queue) /\ queue'[n] = queue[n]
      BY <1>1, <2>2
    <3>2. e.key # b
      <4>1. Len(queue) + 1 \in n + 1 .. Len(queue')
        BY <1>1, <3>1
      <4> QED
        BY <4>1, <1>1
    <3>3. \A m \in n + 1 .. Len(queue) : queue[m].key # b
      <4>1. \A m \in n + 1 .. Len(queue) :
              m \in n + 1 .. Len(queue') /\ m \in 1 .. Len(queue)
        BY <1>1, <3>1
      <4> QED
        BY <4>1, <1>1
    <3> QED
      BY <3>1, <3>2, <3>3 DEF NewestIsKey
  <2> QED
    BY <2>1, <2>2
<1> QED
  BY <1>1, <1>2

(* A key whose events have all been handled stays where it is. *)
LEMMA PostsTracks ==
  ASSUME IInv, NEW e \in Event, Posts(e), UNCHANGED <<states, misread>>,
         \A b \in Button : e.key # b => key'[b] = key[b]
  PROVE  StatesTrackKeys'
<1> SUFFICES ASSUME NEW b \in Button, ~misread[b],
                    \A n \in 1 .. Len(queue') : queue'[n].key # b
             PROVE  states[b] = key'[b]
  BY DEF StatesTrackKeys
<1>1. /\ Len(queue') = Len(queue) + 1 /\ Len(queue) \in Nat
      /\ queue'[Len(queue) + 1] = e
      /\ \A n \in 1 .. Len(queue) : queue'[n] = queue[n]
  BY DEF Posts, IInv, TypeOK
<1>2. e.key # b
  <2>1. Len(queue) + 1 \in 1 .. Len(queue')
    BY <1>1
  <2> QED
    BY <2>1, <1>1
<1>3. \A n \in 1 .. Len(queue) : queue[n].key # b
  <2>1. \A n \in 1 .. Len(queue) : n \in 1 .. Len(queue')
    BY <1>1
  <2> QED
    BY <2>1, <1>1
<1> QED
  BY <1>2, <1>3 DEF IInv, StatesTrackKeys

(* A key is pressed, or reported again while it is held. *)
LEMMA PressIInv ==
  ASSUME IInv, NEW b \in Button, Press(b)
  PROVE  IInv'
<1> DEFINE e == [type |-> "down", key |-> b]
<1>1. e \in Event /\ e.key = b /\ e.type = "down"
  BY DEF Event
<1>2. Posts(e) /\ key' = [key EXCEPT ![b] = TRUE]
  BY DEF Press
<1>3. /\ key' \in [Button -> BOOLEAN] /\ key'[b] = TRUE
      /\ \A c \in Button : c # b => key'[c] = key[c]
  BY <1>2, Zenon DEF IInv, TypeOK
<1> HIDE DEF e
<1>4. queue' \in Seq(Event) /\ NewestIsKey'
  BY <1>1, <1>2, <1>3, PostsNewest
<1>5. StatesTrackKeys'
  BY <1>1, <1>2, <1>3, PostsTracks DEF Press
<1> QED
  BY <1>3, <1>4, <1>5 DEF Press, IInv, TypeOK, WindowCurrent, video

(* A key is released. *)
LEMMA ReleaseIInv ==
  ASSUME IInv, NEW b \in Button, Release(b)
  PROVE  IInv'
<1> DEFINE e == [type |-> "up", key |-> b]
<1>1. e \in Event /\ e.key = b /\ e.type # "down"
  BY DEF Event
<1>2. Posts(e) /\ key' = [key EXCEPT ![b] = FALSE]
  BY DEF Release
<1>3. /\ key' \in [Button -> BOOLEAN] /\ key'[b] = FALSE
      /\ \A c \in Button : c # b => key'[c] = key[c]
  BY <1>2, Zenon DEF IInv, TypeOK
<1> HIDE DEF e
<1>4. queue' \in Seq(Event) /\ NewestIsKey'
  BY <1>1, <1>2, <1>3, PostsNewest
<1>5. StatesTrackKeys'
  BY <1>1, <1>2, <1>3, PostsTracks DEF Release
<1> QED
  BY <1>3, <1>4, <1>5 DEF Release, IInv, TypeOK, WindowCurrent, video

(* The window is closed, or an event comes that belongs to no key. *)
LEMMA NotifyIInv ==
  ASSUME IInv, Notify
  PROVE  IInv'
<1>1. PICK e \in Event : e.key = NONE /\ Posts(e)
  BY DEF Notify
<1>2. \A b \in Button : e.key # b
  BY <1>1, SitlAssumption
<1>3. queue' \in Seq(Event) /\ NewestIsKey'
  BY <1>1, <1>2, PostsNewest DEF Notify
<1>4. StatesTrackKeys'
  BY <1>1, <1>2, PostsTracks DEF Notify
<1> QED
  BY <1>3, <1>4 DEF Notify, IInv, TypeOK, WindowCurrent, video

(* loop_sitl keeps the states and the stack what they are; only the button *)
(* of a key's event is set, by that event (impl_sitl.c:108-133).           *)
LEMMA HandleType ==
  ASSUME IInv, NEW e \in Event, Handle(e)
  PROVE  /\ states' \in [Button -> BOOLEAN]
         /\ size' \in 0 .. STACKSIZE
         /\ pc' \in {"draw", "exit"}
         /\ \A b \in Button : IF e.key = b THEN states'[b] <=> e.type = "down"
                               ELSE states'[b] = states[b]
<1> USE DEF IInv, TypeOK
<1>1. CASE e.type = "quit"
  <2>1. \A b \in Button : e.key # b
    BY <1>1, SitlAssumption DEF Event
  <2> QED
    BY <1>1, <2>1 DEF Handle
<1>2. CASE e.type # "quit"
  <2>1. size' \in 0 .. STACKSIZE
    BY <1>2, SitlAssumption DEF Handle, Pushed
  <2>2. CASE IsKey(e) /\ e.key # NONE
    <3>1. e.key \in Button
      BY <2>2 DEF Event
    <3>2. states' = [states EXCEPT ![e.key] = (e.type = "down")]
      BY <1>2, <2>2 DEF Handle
    <3>3. states' \in [Button -> BOOLEAN] /\ (states'[e.key] <=> e.type = "down")
      BY <3>1, <3>2, Zenon
    <3>4. \A b \in Button : e.key # b => states'[b] = states[b]
      BY <3>1, <3>2, Zenon
    <3> QED
      BY <1>2, <2>1, <3>3, <3>4 DEF Handle
  <2>3. CASE ~(IsKey(e) /\ e.key # NONE)
    <3>1. \A b \in Button : e.key # b
      BY <2>3, SitlAssumption DEF Event, IsKey
    <3> QED
      BY <1>2, <2>1, <2>3, <3>1 DEF Handle
  <2> QED
    BY <2>2, <2>3
<1> QED
  BY <1>1, <1>2

(* Which buttons an event marks. *)
LEMMA MarkedType ==
  ASSUME IInv, NEW e \in Event, NEW wrong \in BOOLEAN
  PROVE  /\ Marked(e, wrong) \in [Button -> BOOLEAN]
         /\ \A b \in Button : Marked(e, wrong)[b] = IF e.key = b THEN wrong ELSE misread[b]
BY Zenon DEF IInv, TypeOK, Marked

(* The oldest event is handled (impl_sitl.c:114). *)
LEMMA LoopEventIInv ==
  ASSUME IInv, LoopEvent
  PROVE  IInv'
<1> USE DEF IInv, TypeOK
<1> DEFINE e == queue[1]
<1>1. /\ e \in Event /\ Handle(e)
      /\ misread' = Marked(e, FALSE)
      /\ Len(queue) \in Nat \ {0}
      /\ queue' \in Seq(Event) /\ Len(queue') = Len(queue) - 1
      /\ \A n \in 1 .. Len(queue) - 1 : queue'[n] = queue[n + 1]
  BY DEF LoopEvent
<1> HIDE DEF e
<1>2. /\ states' \in [Button -> BOOLEAN] /\ misread' \in [Button -> BOOLEAN]
      /\ size' \in 0 .. STACKSIZE /\ pc' \in {"draw", "exit"}
  BY <1>1, HandleType, MarkedType
<1>3. TypeOK' /\ WindowCurrent'
  BY <1>1, <1>2 DEF LoopEvent, WindowCurrent
<1>4. NewestIsKey'
  <2> SUFFICES ASSUME NEW b \in Button, NEW n \in 1 .. Len(queue'), queue'[n].key = b,
                      \A m \in n + 1 .. Len(queue') : queue'[m].key # b
               PROVE  key[b] <=> queue'[n].type = "down"
    BY DEF NewestIsKey, LoopEvent
  <2>1. n + 1 \in 1 .. Len(queue) /\ queue'[n] = queue[n + 1]
    BY <1>1
  <2>2. \A m \in (n + 1) + 1 .. Len(queue) : queue[m].key # b
    <3> TAKE m \in (n + 1) + 1 .. Len(queue)
    <3>1. m - 1 \in n + 1 .. Len(queue') /\ m - 1 \in 1 .. Len(queue) - 1 /\ (m - 1) + 1 = m
      BY <1>1
    <3> QED
      BY <1>1, <3>1
  <2> QED
    BY <2>1, <2>2 DEF NewestIsKey
<1>5. StatesTrackKeys'
  <2> SUFFICES ASSUME NEW b \in Button, ~misread'[b],
                      \A n \in 1 .. Len(queue') : queue'[n].key # b
               PROVE  states'[b] = key[b]
    BY DEF StatesTrackKeys, LoopEvent
  <2>1. \A m \in 2 .. Len(queue) : queue[m].key # b
    <3> TAKE m \in 2 .. Len(queue)
    <3>1. m - 1 \in 1 .. Len(queue') /\ m - 1 \in 1 .. Len(queue) - 1 /\ (m - 1) + 1 = m
      BY <1>1
    <3> QED
      BY <1>1, <3>1
  <2>2. CASE e.key = b
    <3>1. key[b] <=> e.type = "down"
      BY <1>1, <2>1, <2>2 DEF NewestIsKey, e
    <3>2. states'[b] <=> e.type = "down"
      BY <1>1, <2>2, HandleType
    <3>3. states'[b] \in BOOLEAN /\ key[b] \in BOOLEAN
      BY <1>2, Zenon
    <3> QED
      BY <3>1, <3>2, <3>3
  <2>3. CASE e.key # b
    <3>1. \A n \in 1 .. Len(queue) : queue[n].key # b
      BY <1>1, <2>1, <2>3 DEF e
    <3>2. states'[b] = states[b]
      BY <1>1, <2>3, HandleType
    <3>3. misread'[b] = misread[b]
      BY <1>1, <2>3, MarkedType, Zenon
    <3> QED
      BY <3>1, <3>2, <3>3 DEF StatesTrackKeys
  <2> QED
    BY <2>2, <2>3
<1> QED
  BY <1>3, <1>4, <1>5

(* SDL has no event, and any is handled in its place (impl_sitl.c:114). *)
LEMMA LoopNothingIInv ==
  ASSUME IInv, LoopNothing
  PROVE  IInv'
<1> USE DEF IInv, TypeOK
<1>1. PICK e \in Event : Handle(e) /\ misread' = Marked(e, TRUE)
  BY DEF LoopNothing
<1>2. /\ states' \in [Button -> BOOLEAN] /\ misread' \in [Button -> BOOLEAN]
      /\ size' \in 0 .. STACKSIZE /\ pc' \in {"draw", "exit"}
  BY <1>1, HandleType, MarkedType
<1>3. UNCHANGED <<key, queue>>
  BY DEF LoopNothing, keyboard
<1>4. TypeOK'
  BY <1>2, <1>3
<1>5. NewestIsKey'
  BY <1>3 DEF NewestIsKey
<1>6. WindowCurrent'
  BY <1>2 DEF WindowCurrent
<1>7. StatesTrackKeys'
  <2> SUFFICES ASSUME NEW b \in Button, ~misread'[b],
                      \A n \in 1 .. Len(queue) : queue[n].key # b
               PROVE  states'[b] = key[b]
    BY <1>3 DEF StatesTrackKeys
  <2>1. misread'[b] = IF e.key = b THEN TRUE ELSE misread[b]
    BY <1>1, MarkedType
  <2>2. states'[b] = states[b]
    BY <1>1, <2>1, HandleType
  <2>3. ~misread[b]
    BY <2>1
  <2> QED
    BY <2>2, <2>3 DEF StatesTrackKeys
<1> QED
  BY <1>4, <1>5, <1>6, <1>7

(* The rest of a pass: the score always pushes a box, so there is at least *)
(* one to redraw the window for (main.c:125-139).                          *)
LEMMA DrawIInv ==
  ASSUME IInv, NEW due \in BOOLEAN, NEW lock \in BOOLEAN, Draw(due, lock)
  PROVE  IInv'
<1> USE DEF IInv, TypeOK
<1>1. Pushed(size, IF due THEN 2 ELSE 1) \in 1 .. STACKSIZE /\ 0 \in 0 .. STACKSIZE
  BY SitlAssumption DEF Pushed
<1>2. size' \in 0 .. STACKSIZE
  BY <1>1, SitlAssumption DEF Draw
<1>3. current'
  <2>1. (IF flag \/ lock THEN 1 ELSE Pushed(size, IF due THEN 2 ELSE 1)) > 0
    BY <1>1, SitlAssumption
  <2> QED
    BY <2>1 DEF Draw, update_rect_sitl
<1> QED
  BY <1>2, <1>3 DEF Draw, keyboard, WindowCurrent, NewestIsKey, StatesTrackKeys

(* Every step preserves the invariant. *)
LEMMA NextIInv == IInv /\ [Next]_vars => IInv'
<1> SUFFICES ASSUME IInv, [Next]_vars PROVE IInv'
  OBVIOUS
<1>1. CASE UNCHANGED vars
  BY <1>1 DEF IInv, TypeOK, NewestIsKey, StatesTrackKeys, WindowCurrent, vars, keyboard, video
<1> QED
  BY <1>1, PressIInv, ReleaseIInv, NotifyIInv, LoopEventIInv, LoopNothingIInv, DrawIInv
     DEF Next, Main, Exited

(* Every reachable state of the simulation satisfies the invariant. *)
THEOREM Invariance == Spec => []IInv
BY InitIInv, NextIInv, PTL DEF Spec

(* The buttons' states follow the keys, for any number of keys and of      *)
(* events that wait (impl_sitl.c:108-133).                                 *)
THEOREM AlwaysTracksKeys == Spec => []StatesTrackKeys
<1>1. IInv => StatesTrackKeys
  BY DEF IInv
<1> QED
  BY <1>1, Invariance, PTL

(* The window shows the last frame after every pass, for any capacity of   *)
(* the stack of boxes (main.c:24-38).                                      *)
THEOREM AlwaysCurrent == Spec => []WindowCurrent
<1>1. IInv => WindowCurrent
  BY DEF IInv
<1> QED
  BY <1>1, Invariance, PTL
=============================================================================

--------------------------- MODULE DebounceProofs ---------------------------
(***************************************************************************)
(* Proofs about Debounce, for any number of buttons.                       *)
(***************************************************************************)
EXTENDS Debounce, TLAPS

(* The state before init_stm32 reaches the buttons (impl_stm32.c:260). *)
LEMMA InitIInv == Init => IInv
<1> SUFFICES ASSUME Init PROVE IInv
  OBVIOUS
<1>1. TypeOK
  BY DebounceAssumption DEF Init, TypeOK, Flags
<1>2. OneWindow /\ StateTracksLevel
  BY <1>1 DEF Init, OneWindow, StateTracksLevel, TypeOK, Flags
<1>3. Clean
  BY <1>1 DEF Init, Clean, TypeOK, Flags
<1> QED
  BY <1>1, <1>2, <1>3 DEF IInv

(* The player presses or releases a button. *)
LEMMA MoveIInv ==
  ASSUME IInv, NEW b \in Lines, Move(b)
  PROVE  IInv'
<1>1. TypeOK'
  BY DEF IInv, TypeOK, Flags, Move, Edge, driver
<1>2. OneWindow'
  BY DEF IInv, TypeOK, Flags, OneWindow, Move, Edge, driver
<1>3. StateTracksLevel'
  BY DEF IInv, TypeOK, Flags, OneWindow, StateTracksLevel, Move, Edge, driver
<1>4. Clean'
  BY DEF IInv, TypeOK, Flags, OneWindow, Clean, Move, Edge, driver
<1> QED
  BY <1>1, <1>2, <1>3, <1>4 DEF IInv

(* The contact bounces. *)
LEMMA BounceIInv ==
  ASSUME IInv, NEW b \in Lines, Bounce(b)
  PROVE  IInv'
<1>1. TypeOK'
  BY DEF IInv, TypeOK, Flags, Bounce, Edge, driver
<1>2. OneWindow'
  BY DEF IInv, TypeOK, Flags, OneWindow, Bounce, Edge, driver
<1>3. StateTracksLevel'
  BY DEF IInv, TypeOK, Flags, OneWindow, StateTracksLevel, Bounce, Edge, driver
<1>4. Clean'
  BY DEF IInv, TypeOK, Flags, OneWindow, Clean, Bounce, Edge, driver
<1> QED
  BY <1>1, <1>2, <1>3, <1>4 DEF IInv

(* The contact settles. *)
LEMMA SettleIInv ==
  ASSUME IInv, NEW b \in Lines, Settle(b)
  PROVE  IInv'
<1>1. TypeOK'
  BY DEF IInv, TypeOK, Flags, Settle, Edge, driver
<1>2. OneWindow'
  BY DEF IInv, TypeOK, Flags, OneWindow, Settle, Edge, driver
<1>3. StateTracksLevel'
  BY DEF IInv, TypeOK, Flags, OneWindow, StateTracksLevel, Settle, Edge, driver
<1>4. Clean'
  BY DEF IInv, TypeOK, Flags, OneWindow, Clean, Settle, Edge, driver
<1> QED
  BY <1>1, <1>2, <1>3, <1>4 DEF IInv

(* palEnableLineEvent in init_stm32 (impl_stm32.c:264). *)
LEMMA EnableEventsIInv ==
  ASSUME IInv, NEW b \in Lines, EnableEvents(b)
  PROVE  IInv'
<1>1. TypeOK'
  BY DEF IInv, TypeOK, Flags, EnableEvents, pal_lld_enablepadevent, hand
<1>2. OneWindow'
  BY DEF IInv, TypeOK, Flags, OneWindow, EnableEvents, pal_lld_enablepadevent, hand
<1>3. StateTracksLevel'
  BY DEF IInv, TypeOK, Flags, OneWindow, StateTracksLevel, EnableEvents, pal_lld_enablepadevent, hand
<1>4. Clean'
  BY DEF IInv, TypeOK, Flags, OneWindow, Clean, EnableEvents, pal_lld_enablepadevent, hand
<1> QED
  BY <1>1, <1>2, <1>3, <1>4 DEF IInv

(* palSetLineCallback in init_stm32 (impl_stm32.c:267). *)
LEMMA SetCallbackIInv ==
  ASSUME IInv, NEW b \in Lines, SetCallback(b)
  PROVE  IInv'
<1>1. TypeOK'
  BY DEF IInv, TypeOK, Flags, SetCallback, hand
<1>2. OneWindow'
  BY DEF IInv, TypeOK, Flags, OneWindow, SetCallback, hand
<1>3. StateTracksLevel'
  BY DEF IInv, TypeOK, Flags, OneWindow, StateTracksLevel, SetCallback, hand
<1>4. Clean'
  BY DEF IInv, TypeOK, Flags, OneWindow, Clean, SetCallback, hand
<1> QED
  BY <1>1, <1>2, <1>3, <1>4 DEF IInv

(* The interrupt and button_cb (impl_stm32.c:215). *)
LEMMA InterruptIInv ==
  ASSUME IInv, NEW b \in Lines, Interrupt(b)
  PROVE  IInv'
<1>1. TypeOK'
  BY DEF IInv, TypeOK, Flags, Interrupt, button_cb, pal_lld_disablepadevent, hand
<1>2. OneWindow'
  BY DEF IInv, TypeOK, Flags, OneWindow, Interrupt, button_cb, pal_lld_disablepadevent, hand
<1>3. StateTracksLevel'
  <2> SUFFICES ASSUME NEW c \in Lines
               PROVE  (state'[c] # level'[c]) <=> (lost'[c] # pending'[c])
    BY DEF StateTracksLevel
  <2>1. (state[c] # level[c]) <=> (lost[c] # pending[c])
    BY DEF IInv, StateTracksLevel
  <2>2. CASE c # b
    BY <2>1, <2>2 DEF IInv, TypeOK, Flags, Interrupt, button_cb, pal_lld_disablepadevent, hand
  <2>3. CASE c = b
    <3>1. pending[b] /\ pending'[b] = FALSE /\ level'[b] = level[b]
      BY DEF IInv, TypeOK, Flags, Interrupt, button_cb, pal_lld_disablepadevent, hand
    <3>2. \/ state'[b] = ~state[b] /\ lost'[b] = lost[b]
          \/ state'[b] = state[b] /\ lost'[b] = ~lost[b]
      BY DEF IInv, TypeOK, Flags, Interrupt, button_cb, pal_lld_disablepadevent
    <3>3. state[b] \in BOOLEAN /\ lost[b] \in BOOLEAN /\ level[b] \in BOOLEAN
      BY DEF IInv, TypeOK, Flags
    <3> QED
      BY <2>1, <2>3, <3>1, <3>2, <3>3
  <2> QED
    BY <2>2, <2>3
<1>4. Clean'
  BY DEF IInv, TypeOK, Flags, OneWindow, Clean, Interrupt, button_cb, pal_lld_disablepadevent, hand
<1> QED
  BY <1>1, <1>2, <1>3, <1>4 DEF IInv

(* The timer callback (impl_stm32.c:229). *)
LEMMA TimerIInv ==
  ASSUME IInv, NEW b \in Lines, vt_cb(b)
  PROVE  IInv'
<1>1. TypeOK'
  BY DEF IInv, TypeOK, Flags, vt_cb, pal_lld_enablepadevent, hand
<1>2. OneWindow'
  BY DEF IInv, TypeOK, Flags, OneWindow, vt_cb, pal_lld_enablepadevent, hand
<1>3. StateTracksLevel'
  BY DEF IInv, TypeOK, Flags, OneWindow, StateTracksLevel, vt_cb, pal_lld_enablepadevent, hand
<1>4. Clean'
  BY DEF IInv, TypeOK, Flags, OneWindow, Clean, vt_cb, pal_lld_enablepadevent, hand
<1> QED
  BY <1>1, <1>2, <1>3, <1>4 DEF IInv

(* Every step preserves the invariant. *)
LEMMA NextIInv == IInv /\ [Next]_vars => IInv'
<1> SUFFICES ASSUME IInv, [Next]_vars PROVE IInv'
  OBVIOUS
<1>1. CASE Next
  BY <1>1, MoveIInv, BounceIInv, SettleIInv, EnableEventsIInv, SetCallbackIInv,
     InterruptIInv, TimerIInv DEF Next
<1>2. CASE UNCHANGED vars
  BY <1>2 DEF IInv, TypeOK, OneWindow, StateTracksLevel, Clean, vars, hand, driver
<1> QED
  BY <1>1, <1>2

(* Every reachable state of the button driver satisfies the invariant. *)
THEOREM Invariance == Spec => []IInv
BY InitIInv, NextIInv, PTL DEF Spec

-----------------------------------------------------------------------------
(* The results.                                                            *)

(* No line is ever both listened to and waiting for its timer, and none is *)
(* left dead (impl_stm32.c:215-237).                                       *)
THEOREM AlwaysOneWindow == Spec => []OneWindow
<1>1. IInv => OneWindow
  BY DEF IInv
<1> QED
  BY <1>1, Invariance, PTL

(* The state of a button is wrong exactly when an odd number of its edges  *)
(* has not reached button_cb (impl_stm32.c:222).                           *)
THEOREM AlwaysTracksLevel == Spec => []StateTracksLevel
<1>1. IInv => StateTracksLevel
  BY DEF IInv
<1> QED
  BY <1>1, Invariance, PTL

(* Debouncing works for a patient player (impl_stm32.c:212-237). *)
THEOREM AlwaysDebounced == Spec => []Debounced
<1>1. IInv => Debounced
  BY DEF IInv, Clean, Debounced
<1> QED
  BY <1>1, Invariance, PTL
=============================================================================

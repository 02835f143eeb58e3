------------------------------ MODULE Debounce ------------------------------
(***************************************************************************)
(* The buttons of the STM32 build: edge interrupts, the debounce timer and *)
(* the pressed/released state the main loop reads (impl_stm32.c:204-268).  *)
(*                                                                         *)
(* The driver never reads a pin.  It starts from "released" and flips the  *)
(* state at an edge, then ignores the line for DEBOUNCE_MS.  So the state  *)
(* is right exactly as long as the edges that go unseen come in pairs.     *)
(***************************************************************************)
EXTENDS Integers

CONSTANTS
  NBUTTONS,   \* how many buttons there are (5 in the source)
  PATIENT     \* buttons whose presses and releases are further apart than the
              \* debounce time, whose contacts settle within it and which are
              \* not touched at start-up

ASSUME DebounceAssumption == NBUTTONS \in Nat

Lines == 0 .. NBUTTONS - 1

VARIABLES
  want,      \* the player holds the button down
  level,     \* the pin's level
  bouncing,  \* the contact has not settled on what the player wants
  ready,     \* init_stm32 has finished with the button
  events,    \* edges of the line raise its interrupt
  callback,  \* the line has its callback, button_cb
  pending,   \* the line's interrupt is pending
  timer,     \* the button's virtual timer is armed
  state,     \* button_t.state
  lost       \* history: an odd number of edges has never reached button_cb

hand == <<want, level, bouncing>>
driver == <<ready, events, callback, timer, state>>
vars == <<hand, driver, pending, lost>>

(* A pin that is already high has had an edge nobody saw. *)
Init ==
  /\ level \in [Lines -> BOOLEAN] /\ \A b \in Lines : b \in PATIENT => ~level[b]
  /\ want = level
  /\ bouncing = [b \in Lines |-> FALSE]
  /\ ready = [b \in Lines |-> FALSE]
  /\ events = [b \in Lines |-> FALSE]
  /\ callback = [b \in Lines |-> FALSE]
  /\ pending = [b \in Lines |-> FALSE]
  /\ timer = [b \in Lines |-> FALSE]
  /\ state = [b \in Lines |-> FALSE]
  /\ lost = level

-----------------------------------------------------------------------------
(* The player and the contacts.                                            *)

(* The level changes.  The edge becomes a pending interrupt, unless the    *)
(* line's events are disabled or its interrupt is pending already.         *)
Edge(b) ==
  /\ level' = [level EXCEPT ![b] = ~@]
  /\ pending' = [pending EXCEPT ![b] = @ \/ events[b]]
  /\ lost' = IF events[b] /\ ~pending[b] THEN lost ELSE [lost EXCEPT ![b] = ~@]

Move(b) ==
  /\ ~bouncing[b]
  /\ b \in PATIENT => ready[b] /\ events[b] /\ ~pending[b]
  /\ want' = [want EXCEPT ![b] = ~@]
  /\ bouncing' = [bouncing EXCEPT ![b] = TRUE]
  /\ Edge(b)
  /\ UNCHANGED driver

Bounce(b) ==
  /\ bouncing[b]
  /\ Edge(b)
  /\ UNCHANGED <<want, bouncing, driver>>

Settle(b) ==
  /\ bouncing[b]
  /\ bouncing' = [bouncing EXCEPT ![b] = FALSE]
  /\ IF level[b] = want[b] THEN UNCHANGED <<level, pending, lost>> ELSE Edge(b)
  /\ UNCHANGED <<want, driver>>

-----------------------------------------------------------------------------
(* The port driver (hal_pal_lld.c).  Disabling a line's events also drops  *)
(* its pending flag and removes its callback.                              *)

pal_lld_enablepadevent(b) == events' = [events EXCEPT ![b] = TRUE]

pal_lld_disablepadevent(b) ==
  /\ events' = [events EXCEPT ![b] = FALSE]
  /\ pending' = [pending EXCEPT ![b] = FALSE]
  /\ callback' = [callback EXCEPT ![b] = FALSE]

-----------------------------------------------------------------------------
(* init_stm32, with interrupts enabled: first the events, then the         *)
(* callback, for one button after the other.                               *)

EnableEvents(b) ==
  /\ ~events[b] /\ ~ready[b]
  /\ \A c \in Lines : c < b => ready[c]
  /\ pal_lld_enablepadevent(b)
  /\ UNCHANGED <<hand, ready, callback, timer, state, pending, lost>>

SetCallback(b) ==
  /\ events[b] /\ ~ready[b]
  /\ callback' = [callback EXCEPT ![b] = TRUE]
  /\ ready' = [ready EXCEPT ![b] = TRUE]
  /\ UNCHANGED <<hand, events, timer, state, pending, lost>>

(* Changed: the handler leaves the line's events enabled. *)
button_cb_KeepsEvents(b) ==
  /\ pending' = [pending EXCEPT ![b] = FALSE]
  /\ timer' = [timer EXCEPT ![b] = TRUE]
  /\ state' = [state EXCEPT ![b] = ~@]
  /\ UNCHANGED <<events, callback>>

(* Changed: every edge counts as a press. *)
button_cb_Presses(b) ==
  /\ pal_lld_disablepadevent(b)
  /\ timer' = [timer EXCEPT ![b] = TRUE]
  /\ state' = [state EXCEPT ![b] = TRUE]

button_cb(b) ==
  /\ pal_lld_disablepadevent(b)
  /\ timer' = [timer EXCEPT ![b] = TRUE]
  /\ state' = [state EXCEPT ![b] = ~@]

(* The interrupt is served: button_cb, if the line has its callback. *)
Interrupt(b) ==
  /\ pending[b]
  /\ IF callback[b]
     THEN button_cb(b) /\ UNCHANGED lost
     ELSE /\ pending' = [pending EXCEPT ![b] = FALSE]
          /\ lost' = [lost EXCEPT ![b] = ~@]
          /\ UNCHANGED <<events, callback, timer, state>>
  /\ UNCHANGED <<hand, ready>>

(* Changed: the callback is not installed again. *)
vt_cb_NoCallback(b) ==
  /\ timer[b]
  /\ b \in PATIENT => ~bouncing[b]
  /\ timer' = [timer EXCEPT ![b] = FALSE]
  /\ pal_lld_enablepadevent(b)
  /\ UNCHANGED <<hand, ready, callback, state, pending, lost>>

(* DEBOUNCE_MS after the edge. *)
vt_cb(b) ==
  /\ timer[b]
  /\ b \in PATIENT => ~bouncing[b]
  /\ timer' = [timer EXCEPT ![b] = FALSE]
  /\ pal_lld_enablepadevent(b)
  /\ callback' = [callback EXCEPT ![b] = TRUE]
  /\ UNCHANGED <<hand, ready, state, pending, lost>>

Next ==
  \E b \in Lines :
    \/ Move(b) \/ Bounce(b) \/ Settle(b)
    \/ EnableEvents(b) \/ SetCallback(b)
    \/ Interrupt(b) \/ vt_cb(b)

Spec == Init /\ [][Next]_vars

(* The kernel serves interrupts and timers, main gets through init_stm32,  *)
(* and a contact does not bounce for ever.                                 *)
Fairness ==
  \A b \in Lines : /\ WF_vars(EnableEvents(b)) /\ WF_vars(SetCallback(b))
                   /\ WF_vars(Interrupt(b)) /\ WF_vars(vt_cb(b))
                   /\ WF_vars(Settle(b))

FairSpec == Spec /\ Fairness

-----------------------------------------------------------------------------
Flags == [Lines -> BOOLEAN]

TypeOK ==
  /\ want \in Flags /\ level \in Flags /\ bouncing \in Flags
  /\ ready \in Flags /\ events \in Flags /\ callback \in Flags
  /\ pending \in Flags /\ timer \in Flags /\ state \in Flags /\ lost \in Flags

(* A line is either listened to, with its callback, or has its timer       *)
(* armed, and never both.  So no timer is armed twice (impl_stm32.c:221),  *)
(* palEnableLineEvent never finds the channel in use, which the driver     *)
(* asserts, and no line is left without either of the two and so dead.     *)
OneWindow ==
  \A b \in Lines :
    /\ pending[b] => events[b]
    /\ timer[b] => ready[b] /\ ~events[b]
    /\ callback[b] <=> ready[b] /\ ~timer[b]
    /\ ready[b] /\ ~timer[b] => events[b]

(* What the state the main loop reads (impl_stm32.c:288) is worth: it      *)
(* differs from the pin exactly when the edges that never reached          *)
(* button_cb, or have not yet, are odd in number.                          *)
StateTracksLevel ==
  \A b \in Lines : (state[b] # level[b]) <=> (lost[b] # pending[b])

(* With a patient player and contacts that settle within DEBOUNCE_MS, a    *)
(* line that is listened to and has nothing pending reports what the       *)
(* player does, however the contact bounced (impl_stm32.c:212-237).        *)
Debounced ==
  \A b \in Lines :
    (b \in PATIENT /\ ready[b] /\ events[b] /\ ~pending[b]) => state[b] = want[b]

(* With such a player each press and each release, unless it is taken back *)
(* first, reaches the state (impl_stm32.c:222).                            *)
PressesArrive ==
  \A b \in Lines, w \in BOOLEAN :
    (b \in PATIENT /\ want[b] = w) ~> (state[b] = w \/ want[b] # w)

(* The inductive invariant. *)
Clean ==
  \A b \in Lines : b \in PATIENT =>
    /\ ~bouncing[b] => level[b] = want[b]
    /\ bouncing[b] => ready[b] /\ (pending[b] \/ timer[b])
    /\ pending[b] => ready[b] /\ state[b] # want[b]
    /\ ~pending[b] => state[b] = want[b]

IInv == TypeOK /\ OneWindow /\ StateTracksLevel /\ Clean
=============================================================================

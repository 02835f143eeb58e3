------------------------------ MODULE Timeouts ------------------------------
(***************************************************************************)
(* What the users of a virtual timer count on: its callback is called once *)
(* the delay is over, never before it and at most LATE ticks after it, and *)
(* callbacks come in the order of their deadlines.                         *)
(***************************************************************************)
EXTENDS Integers

CONSTANTS
  Timers,   \* the virtual timers
  Delays,   \* the delays asked for, in ticks
  LATE      \* the delay a callback may suffer

VARIABLE
  left      \* ticks to the deadline of every armed timer, negative after it

Init == left = <<>>

(* A timer is armed only when it is not, and nothing disarms it but its    *)
(* callback.                                                               *)
Set(t, d) ==
  /\ t \notin DOMAIN left
  /\ left' = [u \in DOMAIN left \cup {t} |-> IF u = t THEN d ELSE left[u]]

Fire(t) ==
  /\ t \in DOMAIN left
  /\ left[t] <= 0 /\ \A u \in DOMAIN left : left[t] <= left[u]
  /\ left' = [u \in DOMAIN left \ {t} |-> left[u]]

Pass ==
  /\ \A t \in DOMAIN left : left[t] > -LATE
  /\ left' = [t \in DOMAIN left |-> left[t] - 1]

Next ==
  \/ Pass
  \/ \E t \in Timers : Fire(t) \/ \E d \in Delays : Set(t, d)

Spec == Init /\ [][Next]_left
=============================================================================

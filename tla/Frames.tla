------------------------------- MODULE Frames -------------------------------
(***************************************************************************)
(* What the frame buffer promises the panel: only strips of a whole frame  *)
(* are shown, and a refresh, once begun, shows every strip of one and the  *)
(* same frame.                                                             *)
(***************************************************************************)
CONSTANTS
  Strips,   \* strips of the picture
  Shades    \* what a strip can hold

VARIABLES
  frame,    \* the picture in the buffer
  ready,    \* it is a whole frame, not one being painted
  screen,   \* what the panel shows
  due,      \* a refresh has been asked for and has not begun
  left      \* strips the refresh has still to show

vars == <<frame, ready, screen, due, left>>

Init ==
  /\ frame \in [Strips -> Shades] /\ screen \in [Strips -> Shades]
  /\ ready = FALSE
  /\ due = FALSE /\ left = {}

Paint ==
  /\ left = {}
  /\ ready' = FALSE /\ frame' \in [Strips -> Shades]
  /\ UNCHANGED <<screen, due, left>>

Request == left = {} /\ due' = TRUE /\ UNCHANGED <<frame, ready, screen, left>>

Publish ==
  /\ ~ready /\ ready' = TRUE
  /\ frame' \in [Strips -> Shades]
  /\ due' \in {due, TRUE}
  /\ UNCHANGED <<screen, left>>

Refresh ==
  /\ due /\ ready /\ left = {}
  /\ due' = FALSE /\ left' = Strips
  /\ UNCHANGED <<frame, ready, screen>>

Show(s) ==
  /\ ready
  /\ screen' = [screen EXCEPT ![s] = frame[s]]
  /\ left' = left \ {s}
  /\ UNCHANGED <<frame, ready, due>>

Next == Paint \/ Request \/ Publish \/ Refresh \/ \E s \in Strips : Show(s)

Spec == Init /\ [][Next]_vars
=============================================================================

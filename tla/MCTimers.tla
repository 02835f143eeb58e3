------------------------------ MODULE MCTimers ------------------------------
(* Two threads and a button. *)
EXTENDS Timers
=============================================================================

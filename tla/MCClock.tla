------------------------------ MODULE MCClock -------------------------------
(* Both clocks with all lengths scaled down.                               *)
EXTENDS Clock
=============================================================================

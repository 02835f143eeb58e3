------------------------------- MODULE MCSitl -------------------------------
(* The simulation with two keys and a short queue.                         *)
EXTENDS Sitl
=============================================================================

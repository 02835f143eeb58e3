-------------------------------- MODULE Turns -------------------------------
(***************************************************************************)
(* What main and the video thread may count on, whatever the scheduler     *)
(* does in detail: the video thread takes the mutex of vbuf only while     *)
(* main sleeps; main, which finds it taken, waits until the video thread   *)
(* gives it back and then has its turn at once.                            *)
(***************************************************************************)
VARIABLES
  main,    \* main "runs" (or is ready to), "sleeps" or "waits" for the mutex
  held     \* the video thread holds the mutex

vars == <<main, held>>

Init == main = "runs" /\ held = FALSE

Sleep == main = "runs" /\ main' = "sleeps" /\ UNCHANGED held

Wake == main = "sleeps" /\ main' = "runs" /\ UNCHANGED held

Wait == main = "runs" /\ held /\ main' = "waits" /\ UNCHANGED held

Take == main = "sleeps" /\ ~held /\ held' = TRUE /\ UNCHANGED main

Give ==
  /\ held /\ main # "runs" /\ held' = FALSE
  /\ main' = IF main = "waits" THEN "runs" ELSE main

Next == Sleep \/ Wake \/ Wait \/ Take \/ Give

Spec == Init /\ [][Next]_vars
=============================================================================

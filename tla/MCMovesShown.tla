---------------------------- MODULE MCMovesShown ----------------------------
(***************************************************************************)
(* Video with a history variable that tells what the moves of a block have *)
(* done to the panel from what the start-up and the locking of a block do  *)
(* to it.                                                                  *)
(***************************************************************************)
EXTENDS MCVideo

VARIABLE
  shown   \* history: the panel has shown the whole picture of the game, and
          \* since then the block has only moved

Idle == mpc = "sleep" /\ vpc = "sleep" /\ size = 0 /\ ~flag

ShownInit == Init /\ shown = FALSE

ShownNext ==
  /\ Next
  /\ shown' = (mpc' # "flag" /\ (shown \/ (Idle' /\ screen' = want' /\ vbuf' = want')))

ShownSpec == ShownInit /\ [][ShownNext]_<<vars, shown>>

(* update_block is there "to clear previous position and draw new one"     *)
(* (tetris.c:103): once the panel has shown the picture of the game and    *)
(* the block has only moved since, the panel shows the frame again         *)
(* whenever every box pushed has been sent and both threads sleep.         *)
MovesShown == (shown /\ Idle) => screen = vbuf
=============================================================================

------------------------------- MODULE MCGame -------------------------------
(* Game on a small field.  The block, its four patterns and the buttons    *)
(* are those of the source; only the size of the grid is reduced.          *)
EXTENDS Game
=============================================================================

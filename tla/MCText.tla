------------------------------- MODULE MCText -------------------------------
(* The text and the grid as they are, with scores past the wrap of the     *)
(* 8-bit counter.  The block may be new, half out of the corner or away,   *)
(* and the heap may have grown into the corner.                            *)
EXTENDS Text

MCPlaces == {[x |-> 2, y |-> 1, ori |-> ORI_WEST], [x |-> 9, y |-> 0, ori |-> ORI_EAST]}
MCHeaps == {{}, {<<2, 0>>, <<2, 1>>}}
=============================================================================

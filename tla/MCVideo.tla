------------------------------ MODULE MCVideo -------------------------------
(* Two strips: the score's box, in which every block appears, and the rest *)
(* of the picture, where the block may lie and the grid fills up.  A block *)
(* moves in both or, on the right, in the second alone.                    *)
EXTENDS Video

MCFirstPicture == <<{"score", "block"}, {}>>
MCNewPictures == {MCFirstPicture, <<{"score", "block"}, {"block"}>>}
MCPictures == MCNewPictures \cup {<<{"score"}, {"block"}>>}
=============================================================================

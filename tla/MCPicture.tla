----------------------------- MODULE MCPicture ------------------------------
(* A field wide enough for columns on both sides of an update box.         *)
EXTENDS Picture
=============================================================================

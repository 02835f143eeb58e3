----------------------------- MODULE MCDebounce -----------------------------
(* Two or three buttons: enough for one to be set up while others are used. *)
EXTENDS Debounce
=============================================================================

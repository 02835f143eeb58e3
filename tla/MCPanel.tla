------------------------------ MODULE MCPanel -------------------------------
(* A display of 6 columns and 8 bytes of 4 rows.  As in the source the     *)
(* buffer is no divisor of a row but divides the rows of a byte.           *)
EXTENDS Panel

MCBlockCols == 0 .. 6
MCScoreSize == <<4, 12>>
=============================================================================

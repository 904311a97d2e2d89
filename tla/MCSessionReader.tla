--------------------------- MODULE MCSessionReader ---------------------------
(* Small instances of SessionReader for TLC.                               *)
EXTENDS SessionReader

MCLengths == {0, 1, 3, 4}       \* 4 is longer than MAX_LENGTH
=============================================================================

------------------------------ MODULE MCMedia ------------------------------
(* Image files and contents for TLC.                                       *)
EXTENDS TLC

CONSTANTS d1, d2, v0, v1

Values == {v0, v1}
=============================================================================

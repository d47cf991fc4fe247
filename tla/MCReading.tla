----------------------------- MODULE MCReading ------------------------------
(* Model-checking instance of Reading.                                     *)
EXTENDS Reading
=============================================================================

------------------------------ MODULE MCIdWalk ------------------------------
(* IdWalk for TLC. *)
EXTENDS IdWalk
=============================================================================

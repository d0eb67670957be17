------------------------------ MODULE MCServer ------------------------------
(***************************************************************************)
(* Model values for checking Server with TLC.                              *)
(***************************************************************************)
EXTENDS Server

CONSTANTS r1, r2
=============================================================================

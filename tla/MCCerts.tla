------------------------------- MODULE MCCerts -------------------------------
(***************************************************************************)
(* Values for checking Certs with TLC.                                     *)
(***************************************************************************)
EXTENDS Certs

AllModes == {"file", "self", "acme"}
=============================================================================

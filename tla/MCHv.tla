------------------------------- MODULE MCHv -------------------------------
(* Instances of Hv for TLC *)
EXTENDS Hv
=============================================================================

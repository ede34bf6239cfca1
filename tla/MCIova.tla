------------------------------ MODULE MCIova ------------------------------
(* Instances of Iova for TLC *)
EXTENDS Iova
=============================================================================

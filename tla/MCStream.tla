------------------------------ MODULE MCStream ------------------------------
(* Instances of Stream for TLC. *)
EXTENDS Stream
=============================================================================

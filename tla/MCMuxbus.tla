------------------------------ MODULE MCMuxbus ------------------------------
(* TLC instance of the register accesses. *)
EXTENDS Muxbus
=============================================================================

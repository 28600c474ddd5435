----------------------------- MODULE MCConnect -----------------------------
(* TLC instance of the loop of tszpuctl. *)
EXTENDS ConnectLoop
=============================================================================

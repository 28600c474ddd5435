------------------------------ MODULE MCRxFifo ------------------------------
(* TLC instance of the RX FIFO. *)
EXTENDS RxFifoInv
=============================================================================

------------------------------ MODULE MCTxFifo ------------------------------
(* TLC instance of the TX FIFO. *)
EXTENDS TxFifoInv
=============================================================================

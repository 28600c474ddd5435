---------------------------- MODULE MCConnectDoc ----------------------------
(* TLC instances of the loop of tszpuctl for what its comments say of it.    *)
EXTENDS ConnectLoop

\* "Drain the IRQ FD in case there is a spurious IRQ waiting"
\* (src/src/tszpufifo.c:158): what the drain takes is not the event of a line
\* that is up, so that the loop does not sleep on such a line.  When it does, it
\* reads no output ever after, for a line that is up has no further edge.
IrqNotSwallowed == (cpc = "select" /\ irq) => latched

\* "Catch any signals that might be received. Later used to gracefully shutdown
\* the FIFO pipe" (src/src/tszpuctl.c:311-313): the loop does not sleep on a
\* signal that it has caught.
SignalNotSleptOn == cpc = "select" => ~term
=============================================================================

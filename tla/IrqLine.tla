------------------------------ MODULE IrqLine ------------------------------
(***************************************************************************)
(* The one interrupt line between the ZPU and the CPU.  The ZPU raises it  *)
(* with IRQ0_REG; the FPGA drops it when the CPU reads the low byte of     *)
(* fifo.txput.  Linux turns its rising edges into an event on the value    *)
(* file of the GPIO (gpio_setedge(FPGA_IRQ, 1, 0)): select() returns while *)
(* an event is pending and a read of the file takes it.  A line that is    *)
(* already up has no edge to give.                                         *)
(***************************************************************************)

VARIABLES
    irq,            \* the line
    latched         \* a rising edge that was not taken by a read

line == <<irq, latched>>

IrqInit ==
    /\ irq = FALSE
    /\ latched = FALSE

\* fifo_raise_irq0 and the stores to IRQ0_REG.
RaiseLine ==
    /\ irq' = TRUE
    /\ latched' = (latched \/ ~irq)

\* fpeek8(txfifo_put_adr): the FPGA drops the line.
ClearLine ==
    /\ irq' = FALSE
    /\ UNCHANGED latched

\* lseek and read of the value file: takes the event, and tells the level.
ReadValueFile ==
    /\ latched' = FALSE
    /\ UNCHANGED irq
=============================================================================

---------------------------- MODULE ByteChannel ----------------------------
(***************************************************************************)
(* What each of the two FIFOs between the CPU and the ZPU promises to its  *)
(* users: a bounded channel that, while it is open, hands over every byte  *)
(* exactly once and in the order written.  Bytes are known by their place  *)
(* in the stream of the writer, so a byte that is lost, repeated or        *)
(* overtaken makes the reader take a number other than the next one.       *)
(*                                                                         *)
(* A closed channel promises nothing: the writer may overrun the reader.   *)
(* The TX FIFO opens when the CPU has set flow control and flushed it, and *)
(* closes when the CPU disconnects or dies; the RX FIFO is always open.    *)
(***************************************************************************)
EXTENDS Naturals

CONSTANT Capacity       \* most bytes written and not yet released by the reader

VARIABLES
    open,               \* whether the channel keeps its promise
    written,            \* number of bytes written so far
    read                \* stream number of the last byte read, 0 when closed

vars == <<open, written, read>>

Init ==
    /\ open \in BOOLEAN
    /\ written = 0
    /\ read = 0

\* One or several bytes are appended; an open channel is never overrun.
Send ==
    /\ written' > written
    /\ open => written' <= read + Capacity
    /\ UNCHANGED <<open, read>>

\* The reader takes the next byte of the stream and no other.
Receive ==
    /\ open
    /\ read < written
    /\ read' = read + 1
    /\ UNCHANGED <<open, written>>

\* The reader starts afresh somewhere in the bytes the ring still holds.
Open ==
    /\ ~open
    /\ open'
    /\ read' <= written
    /\ written <= read' + Capacity
    /\ UNCHANGED written

Close ==
    /\ open
    /\ ~open'
    /\ read' = 0
    /\ UNCHANGED written

Next == Send \/ Receive \/ Open \/ Close

Spec == Init /\ [][Next]_vars
=============================================================================

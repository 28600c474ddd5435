--------------------------- MODULE RegisterAccess ---------------------------
(***************************************************************************)
(* What zpu_muxbus_peek16, zpu_muxbus_poke16 and zpu_muxbus_peek16_stream  *)
(* promise to their caller: every call takes effect on the registers       *)
(* behind the MUXBUS once, between the call and its return, and a call     *)
(* that reads returns what was read, in order.                             *)
(***************************************************************************)
EXTENDS Integers, Sequences

CONSTANTS
    Registers,      \* registers that keep what is written to them
    Stream,         \* a register whose reads are numbered: the ADC FIFO
    Values,         \* contents of a register
    MaxCount        \* most words of one peek16_stream, 64

VARIABLES
    regs,           \* contents of the registers
    samples,        \* number of the last word read from Stream
    op,             \* the call in progress, or NoOp
    ans,            \* the words it has read so far; of a write, that it is done
    ret             \* what the last call returned

vars == <<regs, samples, op, ans, ret>>

Pokes == [rwn : {"WRITE"}, adr : Registers, dat : Values, cnt : {1}]
Peeks == [rwn : {"READ"}, adr : Registers, dat : {0}, cnt : {1}]
Streams == [rwn : {"READ"}, adr : {Stream}, dat : {0}, cnt : 1 .. MaxCount]
Ops == Pokes \cup Peeks \cup Streams
NoOp == [rwn |-> "none"]

Done == 0

Init ==
    /\ regs \in [Registers -> Values]
    /\ samples = 0
    /\ op = NoOp
    /\ ans = <<>>
    /\ ret = <<>>

Call(o) ==
    /\ op = NoOp
    /\ op' = o
    /\ ans' = <<>>
    /\ UNCHANGED <<regs, samples, ret>>

\* The write, or the next word, of the call in progress.
Execute ==
    /\ op # NoOp
    /\ Len(ans) < op.cnt
    /\ \/ /\ op \in Pokes
          /\ regs' = [regs EXCEPT ![op.adr] = op.dat]
          /\ ans' = <<Done>>
          /\ UNCHANGED samples
       \/ /\ op \in Peeks
          /\ ans' = <<regs[op.adr]>>
          /\ UNCHANGED <<regs, samples>>
       \/ /\ op \in Streams
          /\ samples' = samples + 1
          /\ ans' = Append(ans, samples + 1)
          /\ UNCHANGED regs
    /\ UNCHANGED <<op, ret>>

Return ==
    /\ op # NoOp
    /\ Len(ans) = op.cnt
    /\ op' = NoOp
    /\ ret' = IF op \in Pokes THEN <<>> ELSE ans
    /\ UNCHANGED <<regs, samples, ans>>

Next == (\E o \in Ops : Call(o)) \/ Execute \/ Return

Spec == Init /\ [][Next]_vars
=============================================================================

----------------------------- MODULE TxFifoInv -----------------------------
(***************************************************************************)
(* What is claimed of the TX FIFO, and the inductive invariant behind it.  *)
(*                                                                         *)
(* The uint8_t cursors of the CPU wrap by themselves only when the ring    *)
(* has as many slots as a byte has values: FullRing, which the build       *)
(* satisfies with 256.                                                     *)
(***************************************************************************)
EXTENDS TxFifo

ASSUME FullRing == TxSize = ByteMod

\* The CPU is connected with flow control on, and flushed the ring without the
\* ZPU going round it meanwhile: from here on no byte may be lost.
Open == cpc \in InGet /\ ~noflow /\ ~lapped

Channel == INSTANCE ByteChannel WITH
    Capacity <- TxSize,
    open <- Open,
    written <- head,
    read <- IF Open THEN last ELSE 0

\* While flow control is on the FIFO is a bounded lossless channel: the bytes
\* the CPU takes are consecutive bytes of the ZPU's stream, whatever the calls
\* of the firmware, the sizes the CPU asks for, and wherever the accesses of
\* the two sides interleave (putc_noirq, puts against zpu_fifo_get).
ChannelSpec == Channel!Spec

\* A ZPU that waits for room has an IRQ up that nobody has answered, unless the
\* CPU is in zpu_fifo_get now: its wait cannot go unnoticed.
StallIsAnnounced ==
    /\ Open /\ cpc = "idle"
    /\ zpc \in {"spin", "spin_flag"} /\ put = txget
    => irq

\* The assert(0) at the end of zpu_fifo_get is never reached: a get that saw a
\* head other than its tail has read something when it releases the slots.
GetReadsSomething ==
    (Open /\ cpc = "chunk2" /\ todo = 0) => last > base
-----------------------------------------------------------------------------
(* The inductive invariant.                                                *)

\* From byte b on, whose successor is at slot p, the ring holds the stream up to
\* the ZPU's put, provided the ZPU has not gone round.
Window(b, p) ==
    head <= b + TxSize =>
        /\ zpc # "idle" => put = Wrap(p + (head - b))
        /\ \A k \in 1 .. head - b : txdat[Wrap(p + k - 1)] = b + k

\* ... and the published head is where the published bytes end.
HeadAt(b, p) ==
    head <= b + TxSize => LowByte(txput) = Wrap(p + (pub - b))

\* What is true whatever the CPU does: the bytes not yet published are in the
\* ring, and txput is -1 only while the ZPU is inside a call.
ZpuInv ==
    /\ Window(pub, LowByte(txput))
    /\ pub <= head
    /\ zpc \in Waiting => pub < head /\ txdat[LowByte(put - 1)] = head
    /\ zpc \in {"stall_irq", "spin", "spin_flag"} => head = pub + 1
    /\ zpc \in {"idle", "irq"} => pub = head /\ txput # -1

\* Between the peek of the head and the poke of the tail.
FlushInv ==
    cpc = "init_tail" =>
        /\ snap = base /\ last = base /\ cput = cget
        /\ base <= pub
        /\ Window(base, cget)
        /\ HeadAt(base, cget)
        /\ zpc \in {"spin", "spin_flag"} /\ head = base + TxSize => irq

\* Connected: the bytes after base are in the ring, the ZPU is at most a whole
\* ring ahead and stopped when it is, and the CPU's cursors are where the bytes
\* it has seen and taken end.
OpenInv ==
    Open =>
        /\ base <= last /\ last <= snap /\ snap <= pub
        /\ head <= base + TxSize
        /\ head = base + TxSize => zpc \in Waiting
        /\ Window(base, txget)
        /\ HeadAt(base, txget)
        /\ cput = Wrap(txget + (snap - base))
        /\ cpc = "idle" => last = base /\ cget = txget

\* zpu_fifo_get stays inside the array, takes only bytes it has seen, and takes
\* at least one.
GetInv ==
    /\ cpc \notin {"chunk1", "chunk2"} => todo = 0
    /\ cpc = "chunk1" => pos + todo <= TxSize
    /\ cpc = "chunk2" /\ todo > 0 => pos + todo <= cput
    /\ cpc = "chunk2" => pos <= TxSize
    /\ Open /\ cpc = "chunk1" =>
        /\ cget = txget /\ cput < cget
        /\ pos = cget + (last - base)
        /\ todo > 0 \/ last > base
    /\ Open /\ cpc = "chunk2" =>
        /\ ToByte(pos) = Wrap(txget + (last - base))
        /\ todo > 0 \/ last > base

IInv ==
    /\ TypeOK
    /\ ZpuInv
    /\ FlushInv
    /\ OpenInv
    /\ GetInv
    /\ StallIsAnnounced
=============================================================================

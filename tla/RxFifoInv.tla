----------------------------- MODULE RxFifoInv -----------------------------
(***************************************************************************)
(* What is claimed of the RX FIFO, and the inductive invariant behind it.  *)
(***************************************************************************)
EXTENDS RxFifo

Channel == INSTANCE ByteChannel WITH
    Capacity <- RxSize - 1,
    open <- TRUE,
    written <- sent,
    read <- last

\* The ZPU's getc returns the bytes of the CPU's puts, each once and in order,
\* and no put overwrites a byte that was not taken, although the space it goes
\* by is stale, processes come and go in the middle of a put, and one put may
\* wrap round the array.
ChannelSpec == Channel!Spec

\* A CPU that found no room finds some again: the count it keeps is refreshed
\* although nothing but a put refreshes it.
RoomReturns ==
    (cpc = "idle" /\ spc = 0) ~> (spc > 0 \/ cpc = "down" \/ sent = MaxSend)

\* Every byte published is taken by the ZPU.
EveryByteTaken == \A k \in 1 .. MaxSend : (sent >= k) ~> (last >= k)
-----------------------------------------------------------------------------
(* The inductive invariant.                                                *)

\* Bytes whose slots the ZPU has given back.
Released == IF zpc = "store" THEN last - 1 ELSE last

\* Bytes published whose slots are taken.
Used == sent - Released

\* The ring holds the published bytes from the tail to the head, and one slot
\* at least is free.
RingInv ==
    /\ zpc = "store" => last > 0
    /\ Released <= sent
    /\ Used <= RxSize - 1
    /\ zpc # "idle" => Used > 0
    /\ rxput = Wrap(rxget + Used)
    /\ \A k \in 1 .. Used : rxdat[Wrap(rxget + k - 1)] = Released + k

\* The space the CPU goes by is never more than there is.
SpaceInv ==
    /\ cpc \in {"idle", "chunk1", "chunk2", "recalc"} =>
           spc <= RxSize - 1 - Used
    /\ cpc = "init_space" => spc = 0
    /\ cpc \in {"init_space", "idle", "recalc"} => cput = rxput
    /\ cpc \notin {"chunk1", "chunk2"} => todo = 0 /\ size = 0
    /\ cpc \in {"down", "init_space", "idle"} => wrsz = 0

\* In a put: what is written lies beyond the head, in order, and what is left to
\* write fits in the space.
PutInv ==
    cpc \in {"chunk1", "chunk2"} =>
        /\ wrsz + todo + size <= spc
        /\ Wrap(pos) = Wrap(rxput + wrsz)
        /\ cpc = "chunk1" => pos + todo = RxSize /\ pos = rxput + wrsz
        /\ cpc = "chunk2" => pos + todo <= RxSize /\ size = 0
        /\ \A k \in 1 .. wrsz : rxdat[Wrap(rxput + k - 1)] = sent + k

IInv ==
    /\ TypeOK
    /\ RingInv
    /\ SpaceInv
    /\ PutInv
=============================================================================

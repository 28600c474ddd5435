------------------------------- MODULE RxFifo -------------------------------
(***************************************************************************)
(* The RX FIFO, from the CPU (zpu_fifo_put in src/src/tszpufifo.c) to the  *)
(* ZPU (getc in src/src/zpu/fifo.c): a ring of RxSize bytes in ZPU RAM.    *)
(*                                                                         *)
(* The ZPU polls; the CPU does not: it keeps a count of the free slots,    *)
(* rxfifo_spc, which it refreshes from the ZPU's tail only at the end of a *)
(* put, so that it is stale whenever it is used.  A step is one access of  *)
(* the shared RAM by either side.  A byte is modelled by its place in the  *)
(* stream the CPU publishes: 1, 2, 3, ...                                  *)
(***************************************************************************)
EXTENDS Integers

CONSTANTS
    RxSize,         \* sizeof(fifo.rxdat), 16 in the build
    PutSizes,       \* sizes passed to zpu_fifo_put: 3, 5, and 1 to 16
    MaxSend         \* bound: bytes the CPU publishes in a behaviour

ASSUME RxSizeAssumption == RxSize \in Nat /\ RxSize >= 2
ASSUME PutSizesAssumption == PutSizes \subseteq Nat \ {0}
ASSUME MaxSendAssumption == MaxSend \in Nat

VARIABLES
    \* ZPU RAM, shared by the two sides
    rxput,          \* fifo.rxput
    rxget,          \* fifo.rxget
    rxdat,          \* fifo.rxdat, the stream number in each slot, 0 if none
    \* ZPU
    zpc,            \* where it is in getc
    last,           \* history: stream number of the last byte getc took
    \* CPU process
    cpc,            \* where it is
    cput, spc,      \* its statics rxput and rxfifo_spc
    pos, todo, size,\* slot being written, bytes left in the chunk, and after it
    wrsz,           \* bytes written by this put
    sent            \* history: bytes published

shared == <<rxput, rxget, rxdat>>
zpu == <<zpc, last>>
cpu == <<cpc, cput, spc, pos, todo, size, wrsz>>
vars == <<shared, zpu, cpu, sent>>

Slot == 0 .. RxSize - 1
ZpuLocations == {"idle", "read", "store"}
CpuLocations == {"down", "init_space", "idle", "chunk1", "chunk2", "recalc"}

Wrap(i) == IF i >= RxSize THEN i - RxSize ELSE i

Lesser(a, b) == IF a < b THEN a ELSE b

\* Mutant: the slot that tells a full ring from an empty one is given away.
Bug_Space(put, get) ==
    IF get <= put THEN RxSize - (put - get)
                  ELSE RxSize - (put + (RxSize - get))

\* zpu_rx_recalc: free slots between the head and the tail, less the one that
\* tells a full ring from an empty one.
Space(put, get) ==
    IF get <= put THEN RxSize - (put - get) - 1
                  ELSE RxSize - (put + (RxSize - get)) - 1

TypeOK ==
    /\ rxput \in Slot
    /\ rxget \in Slot
    /\ rxdat \in [Slot -> Nat]
    /\ zpc \in ZpuLocations
    /\ last \in Nat
    /\ cpc \in CpuLocations
    /\ cput \in Slot
    /\ spc \in Slot
    /\ pos \in 0 .. RxSize
    /\ todo \in 0 .. RxSize
    /\ size \in 0 .. RxSize
    /\ wrsz \in 0 .. RxSize
    /\ sent \in Nat

Init ==
    /\ rxput = 0
    /\ rxget = 0
    /\ rxdat = [i \in Slot |-> 0]
    /\ zpc = "idle"
    /\ last = 0
    /\ cpc = "down"
    /\ cput = 0
    /\ spc = 0
    /\ pos = 0
    /\ todo = 0
    /\ size = 0
    /\ wrsz = 0
    /\ sent = 0
-----------------------------------------------------------------------------
(* ZPU: getc.                                                              *)

\* rxget != fifo.rxput; when they are equal getc returns -1.
GetcTest ==
    /\ zpc = "idle"
    /\ rxget # rxput
    /\ zpc' = "read"
    /\ UNCHANGED <<shared, last, cpu, sent>>

\* r = fifo.rxdat[rxget++]
GetcRead ==
    /\ zpc = "read"
    /\ last' = rxdat[rxget]
    /\ zpc' = "store"
    /\ UNCHANGED <<shared, cpu, sent>>

\* Mutant: the tail is stored without wrapping the last slot back to the first.
Bug_GetcStick ==
    /\ zpc = "store"
    /\ rxget' = Lesser(rxget + 1, RxSize - 1)
    /\ zpc' = "idle"
    /\ UNCHANGED <<rxput, rxdat, last, cpu, sent>>

\* fifo.rxget = rxget, wrapped: the slot is released and the byte returned.
GetcStore ==
    /\ zpc = "store"
    /\ rxget' = Wrap(rxget + 1)
    /\ zpc' = "idle"
    /\ UNCHANGED <<rxput, rxdat, last, cpu, sent>>

ZpuNext == GetcTest \/ GetcRead \/ GetcStore
-----------------------------------------------------------------------------
(* CPU: the RX part of zpu_fifo_init, and zpu_fifo_put.                    *)

\* rxput = fpeek8(rxfifo_put_adr); rxfifo_spc = 0
InitPut ==
    /\ cpc = "down"
    /\ cput' = rxput
    /\ spc' = 0
    /\ cpc' = "init_space"
    /\ UNCHANGED <<shared, zpu, pos, todo, size, wrsz, sent>>

\* Mutant: the space is refreshed only while some is left.
Bug_Recalc ==
    /\ cpc \in {"init_space", "recalc"}
    /\ spc' = IF spc = 0 /\ cpc = "recalc" THEN spc ELSE Space(cput, rxget)
    /\ cpc' = "idle"
    /\ wrsz' = 0
    /\ UNCHANGED <<shared, zpu, cput, pos, todo, size, sent>>

\* zpu_rx_recalc reads the ZPU's tail, unless the ring is known to be empty.
Recalc ==
    /\ cpc \in {"init_space", "recalc"}
    /\ spc' = IF spc = RxSize - 1 THEN spc ELSE Space(cput, rxget)
    /\ cpc' = "idle"
    /\ wrsz' = 0
    /\ UNCHANGED <<shared, zpu, cput, pos, todo, size, sent>>

\* Mutant: put trusts the caller and not the space it knows of.
Bug_Put(n) ==
    /\ cpc = "idle"
    /\ sent + n <= MaxSend
    /\ LET sz == Lesser(n, RxSize - 1) IN
       /\ pos' = cput
       /\ todo' = Lesser(sz, RxSize - cput)
       /\ size' = sz - todo'
       /\ cpc' = IF sz = 0 THEN "recalc"
                 ELSE IF cput + sz > RxSize THEN "chunk1" ELSE "chunk2"
    /\ UNCHANGED <<shared, zpu, cput, spc, wrsz, sent>>

\* zpu_fifo_put(buf, n) writes no more than the space it knows of, in two
\* chunks if that goes past the end of the array.
Put(n) ==
    /\ cpc = "idle"
    /\ sent + n <= MaxSend
    /\ LET sz == Lesser(n, spc) IN
       /\ pos' = cput
       /\ todo' = Lesser(sz, RxSize - cput)
       /\ size' = sz - todo'
       /\ cpc' = IF sz = 0 THEN "recalc"
                 ELSE IF cput + sz > RxSize THEN "chunk1" ELSE "chunk2"
    /\ UNCHANGED <<shared, zpu, cput, spc, wrsz, sent>>

\* One byte of fpokestream8.
WriteByte ==
    /\ cpc \in {"chunk1", "chunk2"}
    /\ todo > 0
    /\ rxdat' = [rxdat EXCEPT ![pos] = sent + wrsz + 1]
    /\ pos' = pos + 1
    /\ todo' = todo - 1
    /\ wrsz' = wrsz + 1
    /\ UNCHANGED <<rxput, rxget, zpu, cpc, cput, spc, size, sent>>

\* The first chunk ended at the end of the array: the rest starts at slot 0.
SecondChunk ==
    /\ cpc = "chunk1"
    /\ todo = 0
    /\ cput' = Wrap(pos)
    /\ pos' = Wrap(pos)
    /\ todo' = size
    /\ size' = 0
    /\ cpc' = "chunk2"
    /\ UNCHANGED <<shared, zpu, spc, wrsz, sent>>

\* rxfifo_spc -= wrsz and fpoke8(rxfifo_put_adr, rxput): the ZPU has the bytes.
Publish ==
    /\ cpc = "chunk2"
    /\ todo = 0
    /\ cput' = Wrap(pos)
    /\ rxput' = Wrap(pos)
    /\ spc' = spc - wrsz
    /\ sent' = sent + wrsz
    /\ cpc' = "recalc"
    /\ pos' = 0
    /\ UNCHANGED <<rxget, rxdat, zpu, todo, size, wrsz>>

\* The process exits or dies, at any point.
Exit ==
    /\ cpc # "down"
    /\ cpc' = "down"
    /\ cput' = 0
    /\ spc' = 0
    /\ pos' = 0
    /\ todo' = 0
    /\ size' = 0
    /\ wrsz' = 0
    /\ UNCHANGED <<shared, zpu, sent>>

CpuNext ==
    \/ InitPut
    \/ Recalc
    \/ \E n \in PutSizes : Put(n)
    \/ WriteByte
    \/ SecondChunk
    \/ Publish
    \/ Exit

Next == ZpuNext \/ CpuNext

Spec == Init /\ [][Next]_vars
-----------------------------------------------------------------------------
(* Fairness.  The firmware polls getc for ever, as zpu_demo and zpu_muxbus *)
(* do when they do not wait for the TX FIFO.  A CPU process that is alive  *)
(* finishes the put it is in, and like the loop of tszpuctl puts again as  *)
(* long as it has bytes.                                                   *)

CpuStep ==
    \/ Recalc
    \/ \E n \in PutSizes : Put(n)
    \/ WriteByte
    \/ SecondChunk
    \/ Publish

FairSpec == Spec /\ WF_vars(ZpuNext) /\ WF_vars(CpuStep)
=============================================================================

---------------------------- MODULE RxFifoProofs ----------------------------
(***************************************************************************)
(* Proofs about the RX FIFO, for every ring size, every set of put sizes   *)
(* and every number of bytes sent.  IInv of RxFifoInv is inductive; each   *)
(* lemma below shows that one of its conjuncts survives a step.            *)
(***************************************************************************)
EXTENDS RxFifoInv, TLAPS

\* The names that every step of the proofs needs.
USE RxSizeAssumption, PutSizesAssumption, MaxSendAssumption
    DEF Slot, Wrap, Lesser, Space, shared, zpu, cpu

-----------------------------------------------------------------------------
(* Arithmetic of the ring. *)

\* Less than a ring on from a slot is a slot.
LEMMA WrapSlot ==
  ASSUME NEW p \in Slot, NEW i \in 0 .. RxSize - 1
  PROVE  Wrap(p + i) \in Slot
  OBVIOUS

\* Less than a ring on from a slot, no two places share a slot.
LEMMA WrapDistinct ==
  ASSUME NEW p \in Slot, NEW i \in 0 .. RxSize - 1,
         NEW j \in 0 .. RxSize - 1, i # j
  PROVE  Wrap(p + i) \in Slot /\ Wrap(p + i) # Wrap(p + j)
  OBVIOUS

\* Two moves of less than a ring together are one.
LEMMA WrapAdd ==
  ASSUME NEW p \in Slot, NEW i \in Nat, NEW j \in Nat, i + j < RxSize
  PROVE  Wrap(Wrap(p + i) + j) = Wrap(p + (i + j))
  OBVIOUS

-----------------------------------------------------------------------------

\* The state after fifo_init satisfies the invariant.
LEMMA InitIInv == Init => IInv
<1> SUFFICES ASSUME Init PROVE IInv
  OBVIOUS
<1>1. TypeOK
  <2>1. rxdat \in [Slot -> Nat] /\ 0 \in Slot /\ 0 \in 0 .. RxSize
    BY DEF Init
  <2> QED
    BY <2>1 DEF Init, TypeOK, ZpuLocations, CpuLocations
<1>2. RingInv /\ SpaceInv /\ PutInv
  BY DEF Init, RingInv, Released, Used, SpaceInv, PutInv
<1> QED
  BY <1>1, <1>2 DEF IInv

-----------------------------------------------------------------------------
(* Type correctness. *)

\* Every access of either side keeps every variable in its type.
LEMMA TypeStep == IInv /\ [Next]_vars => TypeOK'
<1> SUFFICES ASSUME IInv, [Next]_vars
             PROVE  TypeOK'
  OBVIOUS
<1> USE DEF IInv, TypeOK, RingInv, SpaceInv, PutInv, Used, Released,
            ZpuLocations, CpuLocations
<1>1. CASE GetcTest
  BY <1>1 DEF GetcTest
<1>2. CASE GetcRead
  BY <1>2 DEF GetcRead
<1>3. CASE GetcStore
  BY <1>3 DEF GetcStore
<1>4. CASE InitPut
  BY <1>4 DEF InitPut
<1>5. CASE Recalc
  BY <1>5 DEF Recalc
<1>6. ASSUME NEW n \in PutSizes, Put(n) PROVE TypeOK'
  BY <1>6 DEF Put
<1>7. CASE WriteByte
  BY <1>7 DEF WriteByte
<1>8. CASE SecondChunk
  BY <1>8 DEF SecondChunk
<1>9. CASE Publish
  BY <1>9 DEF Publish
<1>10. CASE Exit
  BY <1>10 DEF Exit
<1>11. CASE UNCHANGED vars
  BY <1>11 DEF vars
<1> QED
  BY <1>1, <1>2, <1>3, <1>4, <1>5, <1>6,
     <1>7, <1>8, <1>9, <1>10, <1>11
     DEF Next, ZpuNext, CpuNext

-----------------------------------------------------------------------------
(* The ring. *)

\* The byte that getc takes is the next of the stream.
LEMMA GetcReadNext ==
  ASSUME IInv, GetcRead
  PROVE  last' = last + 1 /\ last < sent /\ Released' = Released /\ Used' = Used
<1> USE DEF IInv, TypeOK, RingInv
<1>1. Released = last /\ 1 \in 1 .. Used /\ last < sent
  BY DEF GetcRead, Released, Used
<1>2. rxdat[Wrap(rxget + 1 - 1)] = Released + 1
  BY <1>1
<1>3. last' = last + 1
  BY <1>1, <1>2 DEF GetcRead
<1> QED
  BY <1>1, <1>3 DEF GetcRead, Released, Used

\* The published bytes stay in the ring until getc gives their slots back.
LEMMA RingStep == IInv /\ TypeOK' /\ [Next]_vars => RingInv'
<1> SUFFICES ASSUME IInv, TypeOK', [Next]_vars
             PROVE  RingInv'
  OBVIOUS
<1> USE DEF IInv, TypeOK, RingInv, SpaceInv, PutInv
<1>1. CASE GetcTest
  BY <1>1 DEF GetcTest, Used, Released
<1>2. CASE GetcRead
  <2>1. last' = last + 1 /\ Released' = Released /\ Used' = Used
    BY <1>2, GetcReadNext
  <2> QED
    BY <1>2, <2>1 DEF GetcRead
<1>3. CASE GetcStore
  <2>1. /\ Released \in Nat /\ Released' = Released + 1 /\ Used' = Used - 1
        /\ Used \in 1 .. RxSize - 1
    BY <1>3 DEF GetcStore, Released, Used
  <2>2. rxput' = Wrap(rxget' + Used')
    BY <1>3, <2>1 DEF GetcStore
  <2>3. ASSUME NEW k \in 1 .. Used'
        PROVE  rxdat'[Wrap(rxget' + k - 1)] = Released' + k
    <3>1. k + 1 \in 1 .. Used
      BY <2>1
    <3>2. rxdat[Wrap(rxget + (k + 1) - 1)] = Released + (k + 1)
      BY <3>1
    <3>3. Wrap(rxget + (k + 1) - 1) = Wrap(rxget' + k - 1)
      BY <1>3, <2>1, <3>1 DEF GetcStore
    <3> QED
      BY <1>3, <2>1, <3>2, <3>3 DEF GetcStore
  <2> QED
    BY <1>3, <2>1, <2>2, <2>3 DEF GetcStore, Released, Used
<1>4. CASE InitPut
  BY <1>4 DEF InitPut, Used, Released
<1>5. CASE Recalc
  BY <1>5 DEF Recalc, Used, Released
<1>6. ASSUME NEW n \in PutSizes, Put(n) PROVE RingInv'
  BY <1>6 DEF Put, Used, Released
<1>7. CASE WriteByte
  <2>1. /\ Released \in Nat /\ Released' = Released /\ Used' = Used
        /\ Used \in 0 .. RxSize - 1
    BY <1>7 DEF WriteByte, Released, Used
  <2>2. /\ pos \in Slot /\ pos = Wrap(rxput + wrsz) /\ Used + wrsz < RxSize - 1
        /\ rxput = Wrap(rxget + Used) /\ rxget \in Slot /\ wrsz \in Nat
    BY <1>7, <2>1 DEF WriteByte
  <2>3. ASSUME NEW k \in 1 .. Used
        PROVE  rxdat'[Wrap(rxget + k - 1)] = Released + k
    <3>1. Wrap(rxget + k - 1) \in Slot /\ Wrap(rxget + k - 1) # pos
      <4>1. /\ k - 1 \in 0 .. RxSize - 1 /\ Used + wrsz \in 0 .. RxSize - 1
            /\ k - 1 # Used + wrsz
        BY <2>1, <2>2
      <4>2. /\ Wrap(rxget + (k - 1)) \in Slot
            /\ Wrap(rxget + (k - 1)) # Wrap(rxget + (Used + wrsz))
        <5> HIDE DEF Wrap, Used
        <5> QED
          BY ONLY <2>2, <4>1, WrapDistinct
      <4>3. pos = Wrap(rxget + (Used + wrsz))
        <5>1. Used \in Nat /\ Used + wrsz < RxSize
          BY <2>1, <2>2
        <5> HIDE DEF Wrap, Used
        <5> QED
          BY ONLY <2>2, <5>1, WrapAdd
      <4>4. rxget + k - 1 = rxget + (k - 1)
        BY <2>2
      <4> QED
        BY ONLY <4>2, <4>3, <4>4
    <3>2. rxdat[Wrap(rxget + k - 1)] = Released + k
      OBVIOUS
    <3> QED
      BY <1>7, <3>1, <3>2 DEF WriteByte
  <2> QED
    BY <1>7, <2>1, <2>3 DEF WriteByte
<1>8. CASE SecondChunk
  BY <1>8 DEF SecondChunk, Used, Released
<1>9. CASE Publish
  <2>1. /\ Released \in Nat /\ Released' = Released /\ Used' = Used + wrsz
        /\ Used \in 0 .. RxSize - 1 /\ Used + wrsz <= RxSize - 1
        /\ sent = Released + Used /\ wrsz \in Nat /\ rxget \in Slot
        /\ rxput = Wrap(rxget + Used)
    BY <1>9 DEF Publish, Released, Used
  <2>2. rxput' = Wrap(rxget' + Used')
    BY <1>9, <2>1 DEF Publish
  <2>3. ASSUME NEW k \in 1 .. Used'
        PROVE  rxdat'[Wrap(rxget' + k - 1)] = Released' + k
    <3>1. CASE k \in 1 .. Used
      BY <1>9, <2>1, <3>1 DEF Publish
    <3>2. CASE k \notin 1 .. Used
      <4>1. k - Used \in 1 .. wrsz
        BY <2>1, <3>2
      <4>2. rxdat[Wrap(rxput + (k - Used) - 1)] = sent + (k - Used)
        BY <1>9, <4>1 DEF Publish
      <4>3. Wrap(rxput + (k - Used) - 1) = Wrap(rxget + k - 1)
        <5>1. k - Used - 1 \in Nat /\ Used + (k - Used - 1) < RxSize
          BY <2>1, <4>1
        <5>2. Wrap(rxput + (k - Used - 1))
                = Wrap(rxget + (Used + (k - Used - 1)))
          <6>1. Used \in Nat
            BY <2>1
          <6> HIDE DEF Wrap, Used
          <6> QED
            BY ONLY <2>1, <5>1, <6>1, WrapAdd
        <5>3. /\ rxput + (k - Used) - 1 = rxput + (k - Used - 1)
              /\ rxget + (Used + (k - Used - 1)) = rxget + k - 1
          BY <2>1, <4>1
        <5> QED
          BY ONLY <5>2, <5>3
      <4> QED
        BY <1>9, <2>1, <4>2, <4>3 DEF Publish
    <3> QED
      BY <3>1, <3>2
  <2> QED
    BY <1>9, <2>1, <2>2, <2>3 DEF Publish
<1>10. CASE Exit
  BY <1>10 DEF Exit, Used, Released
<1>11. CASE UNCHANGED vars
  BY <1>11 DEF vars, Used, Released
<1> QED
  BY <1>1, <1>2, <1>3, <1>4, <1>5, <1>6,
     <1>7, <1>8, <1>9, <1>10, <1>11
     DEF Next, ZpuNext, CpuNext

-----------------------------------------------------------------------------
(* The CPU's count of the free slots, and the put that goes by it. *)

\* The space the CPU goes by stays at most what there is.
LEMMA SpaceStep == IInv /\ TypeOK' /\ [Next]_vars => SpaceInv'
<1> SUFFICES ASSUME IInv, TypeOK', [Next]_vars
             PROVE  SpaceInv'
  OBVIOUS
<1> USE DEF IInv, TypeOK, RingInv, SpaceInv, PutInv, Used, Released
<1>1. CASE GetcTest
  BY <1>1 DEF GetcTest
<1>2. CASE GetcRead
  <2>1. Used' = Used
    BY <1>2, GetcReadNext
  <2> QED
    BY <1>2, <2>1 DEF GetcRead
<1>3. CASE GetcStore
  BY <1>3 DEF GetcStore
<1>4. CASE InitPut
  BY <1>4 DEF InitPut
<1>5. CASE Recalc
  BY <1>5 DEF Recalc
<1>6. ASSUME NEW n \in PutSizes, Put(n) PROVE SpaceInv'
  BY <1>6 DEF Put
<1>7. CASE WriteByte
  BY <1>7 DEF WriteByte
<1>8. CASE SecondChunk
  BY <1>8 DEF SecondChunk
<1>9. CASE Publish
  BY <1>9 DEF Publish
<1>10. CASE Exit
  BY <1>10 DEF Exit
<1>11. CASE UNCHANGED vars
  BY <1>11 DEF vars
<1> QED
  BY <1>1, <1>2, <1>3, <1>4, <1>5, <1>6,
     <1>7, <1>8, <1>9, <1>10, <1>11
     DEF Next, ZpuNext, CpuNext

\* What a put has written stays beyond the head, and the rest fits.
LEMMA PutStep == IInv /\ TypeOK' /\ [Next]_vars => PutInv'
<1> SUFFICES ASSUME IInv, TypeOK', [Next]_vars
             PROVE  PutInv'
  OBVIOUS
<1> USE DEF IInv, TypeOK, RingInv, SpaceInv, PutInv, Used, Released
<1>1. CASE GetcTest
  BY <1>1 DEF GetcTest
<1>2. CASE GetcRead
  BY <1>2 DEF GetcRead
<1>3. CASE GetcStore
  BY <1>3 DEF GetcStore
<1>4. CASE InitPut
  BY <1>4 DEF InitPut
<1>5. CASE Recalc
  BY <1>5 DEF Recalc
<1>6. ASSUME NEW n \in PutSizes, Put(n) PROVE PutInv'
  BY <1>6 DEF Put
<1>7. CASE WriteByte
  <2>1. /\ pos \in Slot /\ pos = Wrap(rxput + wrsz) /\ wrsz + 1 < RxSize
        /\ wrsz' = wrsz + 1 /\ wrsz \in Nat /\ rxput \in Slot
    BY <1>7 DEF WriteByte
  <2>2. ASSUME NEW k \in 1 .. wrsz'
        PROVE  rxdat'[Wrap(rxput + k - 1)] = sent + k
    <3>1. /\ k - 1 \in 0 .. RxSize - 1 /\ rxput + k - 1 = rxput + (k - 1)
          /\ Wrap(rxput + (k - 1)) \in Slot
      <4>1. k \in Nat /\ k >= 1 /\ k <= wrsz + 1
        BY <2>1
      <4>2. k - 1 \in 0 .. RxSize - 1 /\ rxput + k - 1 = rxput + (k - 1)
        BY <2>1, <4>1
      <4> HIDE DEF Wrap
      <4> QED
        BY ONLY <2>1, <4>2, WrapSlot
    <3>2. CASE k = wrsz + 1
      BY <1>7, <2>1, <3>1, <3>2 DEF WriteByte
    <3>3. CASE k \in 1 .. wrsz
      <4>1. Wrap(rxput + (k - 1)) # pos
        <5>1. wrsz \in 0 .. RxSize - 1 /\ k - 1 # wrsz
          BY <2>1, <3>3
        <5> HIDE DEF Wrap
        <5> QED
          BY ONLY <2>1, <3>1, <5>1, WrapDistinct
      <4>2. rxdat[Wrap(rxput + k - 1)] = sent + k
        BY <1>7, <3>3 DEF WriteByte
      <4> QED
        BY <1>7, <3>1, <4>1, <4>2 DEF WriteByte
    <3> QED
      BY <2>1, <3>2, <3>3
  <2>3. Wrap(pos') = Wrap(rxput + wrsz')
    BY <1>7, <2>1 DEF WriteByte
  <2> QED
    BY <1>7, <2>1, <2>2, <2>3 DEF WriteByte
<1>8. CASE SecondChunk
  BY <1>8 DEF SecondChunk
<1>9. CASE Publish
  BY <1>9 DEF Publish
<1>10. CASE Exit
  BY <1>10 DEF Exit
<1>11. CASE UNCHANGED vars
  BY <1>11 DEF vars
<1> QED
  BY <1>1, <1>2, <1>3, <1>4, <1>5, <1>6,
     <1>7, <1>8, <1>9, <1>10, <1>11
     DEF Next, ZpuNext, CpuNext

-----------------------------------------------------------------------------
(* The theorems. *)

\* IInv holds in every reachable state: what the CPU published and the ZPU did
\* not take is in the ring, in order, and the CPU's stale count of the free
\* slots never exceeds the free slots, whatever getc of src/zpu/fifo.c and
\* zpu_fifo_put of tszpufifo.c interleave.
THEOREM RxInvariant == Spec => []IInv
<1>1. IInv /\ [Next]_vars => IInv'
  BY TypeStep, RingStep, SpaceStep, PutStep DEF IInv
<1> QED
  BY InitIInv, <1>1, PTL DEF Spec

\* The states of the two sides stay in their types: in particular the CPU's
\* count never goes below zero or to RxSize.
THEOREM RxTypeCorrect == Spec => []TypeOK
<1>1. IInv => TypeOK
  BY DEF IInv
<1> QED
  BY RxInvariant, <1>1, PTL

\* The channel starts empty.
LEMMA InitSimulation == Init => Channel!Init
  BY DEF Init, Channel!Init

\* Every step is a step of the channel, or none.
LEMMA StepSimulation == IInv /\ [Next]_vars => [Channel!Next]_(Channel!vars)
<1> SUFFICES ASSUME IInv, [Next]_vars
             PROVE  Channel!Next \/ UNCHANGED <<sent, last>>
  BY DEF Channel!vars
<1>1. CASE GetcTest
  BY <1>1 DEF GetcTest
<1>2. CASE GetcRead
  <2>1. last' = last + 1 /\ last < sent /\ UNCHANGED sent
    BY <1>2, GetcReadNext DEF GetcRead
  <2> QED
    BY <2>1 DEF Channel!Next, Channel!Receive
<1>3. CASE GetcStore
  BY <1>3 DEF GetcStore
<1>4. CASE InitPut
  BY <1>4 DEF InitPut
<1>5. CASE Recalc
  BY <1>5 DEF Recalc
<1>6. ASSUME NEW n \in PutSizes, Put(n) PROVE UNCHANGED <<sent, last>>
  BY <1>6 DEF Put
<1>7. CASE WriteByte
  BY <1>7 DEF WriteByte
<1>8. CASE SecondChunk
  BY <1>8 DEF SecondChunk
<1>9. CASE Publish
  <2>1. /\ sent' = sent + wrsz /\ UNCHANGED last
        /\ sent' <= last + (RxSize - 1)
    BY <1>9 DEF Publish, IInv, TypeOK, RingInv, SpaceInv, PutInv, Used, Released
  <2>2. CASE wrsz = 0
    BY <2>1, <2>2 DEF IInv, TypeOK
  <2>3. CASE wrsz > 0
    BY <2>1, <2>3 DEF IInv, TypeOK, Channel!Next, Channel!Send
  <2> QED
    BY <2>2, <2>3 DEF IInv, TypeOK
<1>10. CASE Exit
  BY <1>10 DEF Exit
<1>11. CASE UNCHANGED vars
  BY <1>11 DEF vars
<1> QED
  BY <1>1, <1>2, <1>3, <1>4, <1>5, <1>6,
     <1>7, <1>8, <1>9, <1>10, <1>11
     DEF Next, ZpuNext, CpuNext

\* The RX FIFO is a lossless in-order channel of RxSize - 1 bytes: every step of
\* the CPU and of the ZPU sends, receives or changes nothing the users see.
THEOREM RxImplementsChannel == Spec => ChannelSpec
  BY RxInvariant, InitSimulation, StepSimulation, PTL
     DEF Spec, ChannelSpec, Channel!Spec
=============================================================================

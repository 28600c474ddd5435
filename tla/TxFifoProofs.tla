---------------------------- MODULE TxFifoProofs ----------------------------
(***************************************************************************)
(* Proofs about the TX FIFO, for every ring size, every set of get sizes   *)
(* and every number of bytes sent.  IInv of TxFifoInv is inductive; each   *)
(* lemma below shows that one of its conjuncts survives a step.            *)
(***************************************************************************)
EXTENDS TxFifoInv, TLAPS

\* The names that every step of the proofs needs.
USE TxSizeAssumption, ByteModAssumption, GetSizesAssumption,
    MaxSendAssumption, FullRing
    DEF Slot, Byte, Wrap, ToByte, LowByte, Lesser, shared, zpu, cpu

\* The byte of the published head that the CPU sees.
LEMMA LowByteType == TypeOK => LowByte(txput) \in Byte
  BY DEF TypeOK

\* The state after fifo_init satisfies the invariant.
LEMMA InitIInv == Init => IInv
<1> SUFFICES ASSUME Init PROVE IInv
  OBVIOUS
<1>1. TypeOK
  <2>1. txdat \in [Slot -> Nat]
    BY DEF Init
  <2>2. /\ txput \in Slot /\ txget \in Byte /\ put \in Slot
        /\ cput \in Byte /\ cget \in Byte
    BY DEF Init
  <2> QED
    BY <2>1, <2>2
       DEF Init, TypeOK, Calls, ZpuLocations, Waiting, CpuLocations, InGet
<1>2. ZpuInv
  BY DEF Init, ZpuInv, Window, Waiting
<1>3. FlushInv /\ OpenInv /\ GetInv /\ StallIsAnnounced
  BY DEF Init, FlushInv, OpenInv, Open, InGet, GetInv, StallIsAnnounced
<1> QED
  BY <1>1, <1>2, <1>3 DEF IInv

-----------------------------------------------------------------------------
(* Type correctness. *)

\* Every access of either side keeps every variable in its type.
LEMMA TypeStep == IInv /\ [Next]_vars => TypeOK'
<1> SUFFICES ASSUME IInv, [Next]_vars
             PROVE  TypeOK'
  OBVIOUS
<1> USE DEF IInv, TypeOK
<1>1. ASSUME NEW c \in Calls, Call(c) PROVE TypeOK'
  BY <1>1 DEF Call, ZpuInv, ZpuLocations
<1>2. CASE Store
  BY <1>2 DEF Store, ZpuLocations, Waiting
<1>3. CASE EndOfString
  BY <1>3 DEF EndOfString, ZpuLocations
<1>4. CASE TestTail
  BY <1>4 DEF TestTail, AfterByte, ZpuLocations, Waiting
<1>5. CASE TestFlow
  BY <1>5 DEF TestFlow, AfterByte, ZpuLocations, Waiting
<1>6. CASE PublishAlmostFull
  BY <1>6 DEF PublishAlmostFull, ZpuInv, ZpuLocations, Waiting
<1>7. CASE RaiseIrqFull
  BY <1>7 DEF RaiseIrqFull, ZpuLocations, Waiting
<1>8. CASE Publish
  BY <1>8 DEF Publish, ZpuLocations
<1>9. CASE RaiseIrq
  BY <1>9 DEF RaiseIrq, ZpuLocations
<1>10. ASSUME NEW f \in BOOLEAN, InitFlow(f) PROVE TypeOK'
  BY <1>10 DEF InitFlow, CpuLocations
<1>11. CASE InitHead
  BY <1>11, LowByteType DEF InitHead, CpuLocations
<1>12. CASE InitTail
  BY <1>12 DEF InitTail, CpuLocations, InGet
<1>13. ASSUME NEW n \in GetSizes, GetHead(n) PROVE TypeOK'
  <2>1. cput' \in Byte /\ snap' \in Nat /\ irq' \in BOOLEAN
    BY <1>13, LowByteType DEF GetHead
  <2>2. cpc' \in CpuLocations
    BY <1>13 DEF GetHead, CpuLocations, InGet
  <2>3. pos' \in Nat /\ todo' \in Nat /\ size' \in Nat
    BY <1>13, <2>1 DEF GetHead
  <2> QED
    BY <1>13, <2>1, <2>2, <2>3 DEF GetHead
<1>14. CASE ReadByte
  BY <1>14 DEF ReadByte, DataAt
<1>15. CASE SecondChunk
  BY <1>15 DEF SecondChunk, GetInv, CpuLocations, InGet
<1>16. CASE Release
  BY <1>16 DEF Release, GetInv, CpuLocations, InGet
<1>17. ASSUME Gone, UNCHANGED <<txput, txget, txdat, irq, zpu>>,
              noflow' \in BOOLEAN
       PROVE  TypeOK'
  <2>1. cpc' \in CpuLocations /\ cput' \in Byte /\ cget' \in Byte
    BY <1>17 DEF Gone, CpuLocations
  <2>2. /\ pos' \in Nat /\ todo' \in Nat /\ size' \in Nat
        /\ snap' \in Nat /\ last' \in Nat /\ base' \in Nat
        /\ lapped' \in BOOLEAN
    BY <1>17 DEF Gone
  <2> QED
    BY <1>17, <2>1, <2>2
<1>18. CASE Deinit
  BY <1>17, <1>18 DEF Deinit
<1>19. CASE Die
  BY <1>17, <1>19 DEF Die
<1>20. CASE UNCHANGED vars
  BY <1>20 DEF vars
<1> QED
  BY <1>1, <1>2, <1>3, <1>4, <1>5, <1>6, <1>7, <1>8, <1>9, <1>10, <1>11,
     <1>12, <1>13, <1>14, <1>15, <1>16, <1>18, <1>19, <1>20
     DEF Next, ZpuNext, CpuNext

-----------------------------------------------------------------------------
(* The window of the ring that holds the stream. *)

\* Storing a byte extends every window that the ZPU has not outgrown: the slot
\* it writes is none of those the window already covers.
LEMMA WindowStore ==
  ASSUME NEW b \in Nat, NEW p \in Slot, TypeOK, Store, Window(b, p), b <= head
  PROVE  head' <= b + TxSize =>
           /\ put' = Wrap(p + (head' - b))
           /\ \A k \in 1 .. head' - b : txdat'[Wrap(p + k - 1)] = b + k
<1> SUFFICES ASSUME head' <= b + TxSize
             PROVE  /\ put' = Wrap(p + (head' - b))
                    /\ \A k \in 1 .. head' - b :
                          txdat'[Wrap(p + k - 1)] = b + k
  OBVIOUS
<1> USE DEF TypeOK
<1>1. head \in Nat /\ head' = head + 1 /\ head < b + TxSize
  BY DEF Store
<1>2. put = Wrap(p + (head - b)) /\ put' = Wrap(put + 1)
  BY <1>1 DEF Store, Window
<1>3. put' = Wrap(p + (head' - b))
  BY <1>1, <1>2
<1>4. ASSUME NEW k \in 1 .. head' - b
      PROVE  txdat'[Wrap(p + k - 1)] = b + k
  <2>1. Wrap(p + k - 1) \in Slot
    BY <1>1
  <2>2. CASE k = head' - b
    BY <1>1, <1>2, <2>1, <2>2 DEF Store
  <2>3. CASE k \in 1 .. head - b
    <3>1. Wrap(p + k - 1) # put
      BY <1>1, <1>2, <2>3
    <3>2. txdat[Wrap(p + k - 1)] = b + k
      BY <1>1, <2>3 DEF Window
    <3> QED
      BY <2>1, <3>1, <3>2 DEF Store
  <2> QED
    BY <1>1, <2>2, <2>3
<1> QED
  BY <1>3, <1>4

\* A later start of the window: its bytes are those of the earlier window.
LEMMA WindowShift ==
  ASSUME NEW b \in Nat, NEW p \in Slot, NEW c \in Nat, TypeOK, Window(b, p),
         b <= c, c <= head, c < b + TxSize, head <= b + TxSize
  PROVE  Window(c, Wrap(p + (c - b)))
<1> DEFINE q == Wrap(p + (c - b))
<1> USE DEF TypeOK
<1>1. q \in Slot
  OBVIOUS
<1>2. zpc # "idle" => put = Wrap(q + (head - c))
  BY DEF Window
<1>3. ASSUME NEW k \in 1 .. head - c
      PROVE  txdat[Wrap(q + k - 1)] = c + k
  <2>1. (c - b) + k \in 1 .. head - b
    OBVIOUS
  <2>2. txdat[Wrap(p + ((c - b) + k) - 1)] = b + ((c - b) + k)
    BY <2>1 DEF Window
  <2>3. Wrap(p + ((c - b) + k) - 1) = Wrap(q + k - 1)
    BY <2>1
  <2> QED
    BY <2>2, <2>3
<1> QED
  BY <1>2, <1>3 DEF Window

-----------------------------------------------------------------------------
(* The ZPU's own invariant. *)

\* What is not yet published stays in the ring, whatever the CPU does.
LEMMA ZpuInvStep == IInv /\ TypeOK' /\ [Next]_vars => ZpuInv'
<1> SUFFICES ASSUME IInv, TypeOK', [Next]_vars
             PROVE  ZpuInv'
  OBVIOUS
<1> USE DEF IInv, TypeOK, ZpuInv, Window, Waiting
<1>1. ASSUME NEW c \in Calls, Call(c) PROVE ZpuInv'
  BY <1>1 DEF Call, Window
<1>2. CASE Store
  <2>1. Window(pub, LowByte(txput))'
    <3> HIDE DEF Window
    <3>1. /\ LowByte(txput) \in Slot /\ pub \in Nat /\ pub <= head
          /\ Window(pub, LowByte(txput))
      BY LowByteType
    <3>2. head' <= pub + TxSize =>
            /\ put' = Wrap(LowByte(txput) + (head' - pub))
            /\ \A k \in 1 .. head' - pub :
                 txdat'[Wrap(LowByte(txput) + k - 1)] = pub + k
      BY <1>2, <3>1, WindowStore
    <3> QED
      BY <1>2, <3>2 DEF Store, Window
  <2>2. txdat'[LowByte(put' - 1)] = head'
    BY <1>2 DEF Store
  <2> QED
    BY <1>2, <2>1, <2>2 DEF Store
<1>3. CASE EndOfString
  BY <1>3 DEF EndOfString
<1>4. CASE TestTail
  BY <1>4 DEF TestTail, AfterByte
<1>5. CASE TestFlow
  BY <1>5 DEF TestFlow, AfterByte
<1>6. CASE PublishAlmostFull
  <2>1. /\ head' - pub' = 1 /\ head' = pub' + 1 /\ pub' \in Nat
        /\ LowByte(txput') = LowByte(put - 1) /\ LowByte(txput') \in Slot
    BY <1>6 DEF PublishAlmostFull
  <2>2. Wrap(LowByte(txput') + 1) = put'
    BY <1>6, <2>1 DEF PublishAlmostFull
  <2>3. txdat'[Wrap(LowByte(txput'))] = head'
    BY <1>6, <2>1 DEF PublishAlmostFull
  <2>4. Window(pub, LowByte(txput))'
    <3> HIDE DEF IInv, TypeOK
    <3>1. put' = Wrap(LowByte(txput') + (head' - pub'))
      BY <2>1, <2>2
    <3>2. \A k \in 1 .. 1 : txdat'[Wrap(LowByte(txput') + k - 1)] = pub' + k
      BY <2>1, <2>3
    <3>3. 1 .. head' - pub' = 1 .. 1
      BY <2>1
    <3> QED
      BY <3>1, <3>2, <3>3
  <2> QED
    BY <1>6, <2>1, <2>4 DEF PublishAlmostFull
<1>7. CASE RaiseIrqFull
  BY <1>7 DEF RaiseIrqFull
<1>8. CASE Publish
  BY <1>8 DEF Publish
<1>9. CASE RaiseIrq
  BY <1>9 DEF RaiseIrq
<1>10. ASSUME NEW f \in BOOLEAN, InitFlow(f) PROVE ZpuInv'
  BY <1>10 DEF InitFlow
<1>11. CASE InitHead
  BY <1>11 DEF InitHead
<1>12. CASE InitTail
  BY <1>12 DEF InitTail
<1>13. ASSUME NEW n \in GetSizes, GetHead(n) PROVE ZpuInv'
  BY <1>13 DEF GetHead
<1>14. CASE ReadByte
  BY <1>14 DEF ReadByte
<1>15. CASE SecondChunk
  BY <1>15 DEF SecondChunk
<1>16. CASE Release
  BY <1>16 DEF Release
<1>17. CASE Deinit
  BY <1>17 DEF Deinit, Gone
<1>18. CASE Die
  BY <1>18 DEF Die, Gone
<1>19. CASE UNCHANGED vars
  BY <1>19 DEF vars
<1> QED
  BY <1>1, <1>2, <1>3, <1>4, <1>5, <1>6, <1>7, <1>8, <1>9, <1>10, <1>11,
     <1>12, <1>13, <1>14, <1>15, <1>16, <1>17, <1>18, <1>19
     DEF Next, ZpuNext, CpuNext

-----------------------------------------------------------------------------
(* Between the peek of the head and the poke of the tail. *)

\* What zpu_fifo_init has peeked stays true until it pokes the tail.
LEMMA FlushStep == IInv /\ TypeOK' /\ [Next]_vars => FlushInv'
<1> SUFFICES ASSUME IInv, TypeOK', [Next]_vars
             PROVE  FlushInv'
  OBVIOUS
<1> USE DEF IInv, TypeOK, ZpuInv, FlushInv, Window, HeadAt, Waiting
<1>1. ASSUME NEW c \in Calls, Call(c) PROVE FlushInv'
  BY <1>1 DEF Call
<1>2. CASE Store
  <2> SUFFICES ASSUME cpc = "init_tail" PROVE FlushInv'
    BY <1>2 DEF Store
  <2>1. Window(base, cget)'
    <3> HIDE DEF Window
    <3>1. cget \in Slot /\ base \in Nat /\ base <= head /\ Window(base, cget)
      BY <1>2 DEF Store
    <3>2. head' <= base + TxSize =>
            /\ put' = Wrap(cget + (head' - base))
            /\ \A k \in 1 .. head' - base :
                 txdat'[Wrap(cget + k - 1)] = base + k
      <4> HIDE DEF IInv, OpenInv, ZpuInv, GetInv, FlushInv
      <4>1. TypeOK
        BY DEF IInv
      <4> QED
        BY <1>2, <3>1, <4>1, WindowStore
    <3> QED
      BY <1>2, <3>2 DEF Store, Window

  <2> QED
    BY <1>2, <2>1 DEF Store
<1>3. CASE EndOfString
  BY <1>3 DEF EndOfString
<1>4. CASE TestTail
  BY <1>4 DEF TestTail, AfterByte
<1>5. CASE TestFlow
  BY <1>5 DEF TestFlow, AfterByte
<1>6. CASE PublishAlmostFull
  BY <1>6 DEF PublishAlmostFull
<1>7. CASE RaiseIrqFull
  BY <1>7 DEF RaiseIrqFull
<1>8. CASE Publish
  <2> SUFFICES ASSUME cpc = "init_tail" PROVE FlushInv'
    BY <1>8 DEF Publish
  <2>1. Window(base, cget)'
    BY <1>8 DEF Publish
  <2>2. HeadAt(base, cget)'
    BY <1>8 DEF Publish
  <2> QED
    BY <1>8, <2>1, <2>2 DEF Publish
<1>9. CASE RaiseIrq
  BY <1>9 DEF RaiseIrq
<1>10. ASSUME NEW f \in BOOLEAN, InitFlow(f) PROVE FlushInv'
  BY <1>10 DEF InitFlow
<1>11. CASE InitHead
  BY <1>11 DEF InitHead
<1>12. CASE InitTail
  BY <1>12 DEF InitTail
<1>13. ASSUME NEW n \in GetSizes, GetHead(n) PROVE FlushInv'
  BY <1>13 DEF GetHead
<1>14. CASE ReadByte
  BY <1>14 DEF ReadByte
<1>15. CASE SecondChunk
  BY <1>15 DEF SecondChunk
<1>16. CASE Release
  BY <1>16 DEF Release
<1>17. CASE Deinit
  BY <1>17 DEF Deinit, Gone
<1>18. CASE Die
  BY <1>18 DEF Die, Gone
<1>19. CASE UNCHANGED vars
  BY <1>19 DEF vars
<1> QED
  BY <1>1, <1>2, <1>3, <1>4, <1>5, <1>6, <1>7, <1>8, <1>9, <1>10, <1>11,
     <1>12, <1>13, <1>14, <1>15, <1>16, <1>17, <1>18, <1>19
     DEF Next, ZpuNext, CpuNext

-----------------------------------------------------------------------------
(* The connected CPU. *)

\* The byte that the CPU takes is the next of the stream, and it is one that the
\* CPU knows to be there.
LEMMA ReadByteNext ==
  ASSUME IInv, Open, ReadByte
  PROVE  last' = last + 1 /\ last < snap
<1> USE DEF IInv, TypeOK
<1>1. /\ pos \in Slot /\ pos = Wrap(txget + (last - base)) /\ last < snap
      /\ (last - base) + 1 \in 1 .. head - base
  BY DEF ReadByte, Open, InGet, ZpuInv, OpenInv, GetInv, HeadAt
<1>2. txdat[Wrap(txget + ((last - base) + 1) - 1)] = base + ((last - base) + 1)
  BY <1>1 DEF OpenInv, Window
<1> QED
  BY <1>1, <1>2 DEF ReadByte, DataAt

\* Under flow control the unread bytes stay in the ring and in their order.
LEMMA OpenStep == IInv /\ TypeOK' /\ [Next]_vars => OpenInv'
<1> SUFFICES ASSUME IInv, TypeOK', [Next]_vars
             PROVE  OpenInv'
  OBVIOUS
<1> USE DEF IInv, TypeOK, Open, InGet, ZpuInv, FlushInv, OpenInv, GetInv,
            Window, HeadAt, Waiting
<1>1. ASSUME NEW c \in Calls, Call(c) PROVE OpenInv'
  <2> SUFFICES ASSUME Open PROVE OpenInv'
    BY <1>1 DEF Call
  <2>1. Window(base, txget)'
    BY <1>1 DEF Call
  <2> QED
    BY <1>1, <2>1 DEF Call
<1>2. CASE Store
  <2> SUFFICES ASSUME Open PROVE OpenInv'
    BY <1>2 DEF Store
  <2>1. Window(base, txget)'
    <3> HIDE DEF Window
    <3>1. txget \in Slot /\ base \in Nat /\ base <= head /\ Window(base, txget)
      BY <1>2
    <3>2. head' <= base + TxSize =>
            /\ put' = Wrap(txget + (head' - base))
            /\ \A k \in 1 .. head' - base :
                 txdat'[Wrap(txget + k - 1)] = base + k
      <4> HIDE DEF IInv, OpenInv, ZpuInv, GetInv, FlushInv
      <4>1. TypeOK
        BY DEF IInv
      <4> QED
        BY <1>2, <3>1, <4>1, WindowStore
    <3> QED
      BY <1>2, <3>2 DEF Store, Window

  <2> QED
    BY <1>2, <2>1 DEF Store
<1>3. CASE EndOfString
  BY <1>3 DEF EndOfString
<1>4. CASE TestTail
  BY <1>4 DEF TestTail, AfterByte
<1>5. CASE TestFlow
  BY <1>5 DEF TestFlow, AfterByte
<1>6. CASE PublishAlmostFull
  BY <1>6 DEF PublishAlmostFull
<1>7. CASE RaiseIrqFull
  BY <1>7 DEF RaiseIrqFull
<1>8. CASE Publish
  BY <1>8 DEF Publish
<1>9. CASE RaiseIrq
  BY <1>9 DEF RaiseIrq
<1>10. ASSUME NEW f \in BOOLEAN, InitFlow(f) PROVE OpenInv'
  BY <1>10 DEF InitFlow
<1>11. CASE InitHead
  BY <1>11 DEF InitHead
<1>12. CASE InitTail
  BY <1>12 DEF InitTail
<1>13. ASSUME NEW n \in GetSizes, GetHead(n) PROVE OpenInv'
  BY <1>13 DEF GetHead
<1>14. CASE ReadByte
  <2> SUFFICES ASSUME Open PROVE OpenInv'
    BY <1>14 DEF ReadByte
  <2>1. last' = last + 1 /\ last < snap
    BY <1>14, ReadByteNext
  <2> QED
    BY <1>14, <2>1 DEF ReadByte
<1>15. CASE SecondChunk
  BY <1>15 DEF SecondChunk
<1>16. CASE Release
  <2> SUFFICES ASSUME Open PROVE OpenInv'
    BY <1>16 DEF Release
  <2>1. /\ txget' = Wrap(txget + (last - base)) /\ base' = last /\ last > base
        /\ last < base + TxSize
    BY <1>16 DEF Release
  <2>2. Window(last, txget')
    <3> HIDE DEF Window
    <3>1. /\ base \in Nat /\ last \in Nat /\ txget \in Slot
          /\ base <= last /\ last <= head /\ head <= base + TxSize
          /\ Window(base, txget)
      BY DEF OpenInv
    <3> HIDE DEF IInv, OpenInv, ZpuInv, GetInv, FlushInv
    <3>2. TypeOK
      BY DEF IInv
    <3>3. Window(last, Wrap(txget + (last - base)))
      BY <3>1, <3>2, <2>1, WindowShift
    <3> QED
      BY <3>3, <2>1
  <2>3. Window(base, txget)'
    BY <1>16, <2>1, <2>2 DEF Release
  <2>4. HeadAt(base, txget)' /\ cput' = Wrap(txget' + (snap' - base'))
    BY <1>16, <2>1 DEF Release
  <2> QED
    BY <1>16, <2>1, <2>3, <2>4 DEF Release
<1>17. CASE Deinit
  BY <1>17 DEF Deinit, Gone
<1>18. CASE Die
  BY <1>18 DEF Die, Gone
<1>19. CASE UNCHANGED vars
  BY <1>19 DEF vars
<1> QED
  BY <1>1, <1>2, <1>3, <1>4, <1>5, <1>6, <1>7, <1>8, <1>9, <1>10, <1>11,
     <1>12, <1>13, <1>14, <1>15, <1>16, <1>17, <1>18, <1>19
     DEF Next, ZpuNext, CpuNext

\* A chunk up to the head c from the tail p is not empty and ends by c.
LEMMA ChunkFits ==
  ASSUME NEW n \in Nat \ {0}, NEW c \in Byte, NEW p \in Byte, c > p
  PROVE  Lesser(n, c - p) > 0 /\ p + Lesser(n, c - p) <= c
  OBVIOUS

\* zpu_fifo_get stays within what it has seen, and reads something.
LEMMA GetStep == IInv /\ TypeOK' /\ [Next]_vars => GetInv'
<1> SUFFICES ASSUME IInv, TypeOK', [Next]_vars
             PROVE  GetInv'
  OBVIOUS
<1> USE DEF IInv, TypeOK, Open, InGet, OpenInv, GetInv
<1>1. ASSUME NEW c \in Calls, Call(c) PROVE GetInv'
  BY <1>1 DEF Call
<1>2. CASE Store
  BY <1>2 DEF Store
<1>3. CASE EndOfString
  BY <1>3 DEF EndOfString
<1>4. CASE TestTail
  BY <1>4 DEF TestTail, AfterByte
<1>5. CASE TestFlow
  BY <1>5 DEF TestFlow, AfterByte
<1>6. CASE PublishAlmostFull
  BY <1>6 DEF PublishAlmostFull
<1>7. CASE RaiseIrqFull
  BY <1>7 DEF RaiseIrqFull
<1>8. CASE Publish
  BY <1>8 DEF Publish
<1>9. CASE RaiseIrq
  BY <1>9 DEF RaiseIrq
<1>10. ASSUME NEW f \in BOOLEAN, InitFlow(f) PROVE GetInv'
  BY <1>10 DEF InitFlow
<1>11. CASE InitHead
  BY <1>11 DEF InitHead
<1>12. CASE InitTail
  BY <1>12 DEF InitTail
<1>13. ASSUME NEW n \in GetSizes, GetHead(n) PROVE GetInv'
  <2>1. cput' \in Byte /\ cget \in Byte /\ n \in Nat \ {0}
    BY <1>13, LowByteType DEF GetHead
  <2>2. /\ cpc = "idle" /\ cget' = cget /\ txget' = txget /\ last' = last
        /\ base' = base /\ (Open' => Open)
    BY <1>13 DEF GetHead
  <2>3. CASE cput' = cget /\ UNCHANGED <<cpc, pos, todo, size>>
    BY <2>2, <2>3
  <2>4. CASE /\ cput' < cget
             /\ cpc' = "chunk1"
             /\ pos' = cget
             /\ todo' = Lesser(n, TxSize - cget)
    <3>1. todo' > 0 /\ pos' + todo' <= TxSize
      BY <2>1, <2>4
    <3> QED
      BY <2>1, <2>2, <2>4, <3>1
  <2>5. CASE /\ cput' > cget
             /\ cpc' = "chunk2"
             /\ pos' = cget
             /\ todo' = Lesser(n, cput' - cget)
    <3>1. todo' > 0 /\ pos' + todo' <= cput'
      BY <2>1, <2>5, ChunkFits
    <3>2. pos' <= TxSize
      BY <2>1, <2>5
    <3>3. Open' => ToByte(pos') = Wrap(txget' + (last' - base'))
      BY <2>1, <2>2, <2>5
    <3> QED
      BY <2>1, <2>2, <2>5, <3>1, <3>2, <3>3
  <2> QED
    BY <1>13, <2>3, <2>4, <2>5 DEF GetHead
<1>14. CASE ReadByte
  <2>1. Open => last' = last + 1
    BY <1>14, ReadByteNext
  <2>2. CASE cpc = "chunk1"
    BY <1>14, <2>1, <2>2 DEF ReadByte
  <2>3. CASE cpc = "chunk2"
    <3>1. /\ todo > 0 /\ pos' = pos + 1 /\ todo' = todo - 1 /\ cpc' = cpc
          /\ cput' = cput /\ txget' = txget /\ base' = base /\ (Open' => Open)
      BY <1>14, <2>3 DEF ReadByte
    <3>2. pos + todo <= cput
      BY <2>3, <3>1
    <3>3. Open => ToByte(pos') = Wrap(txget + (last' - base)) /\ last' > base
      BY <2>1, <2>3, <3>1, <3>2
    <3> QED
      <4>1. pos' <= TxSize /\ (todo' > 0 => pos' + todo' <= cput')
        BY <3>1, <3>2
      <4> QED
        BY <2>3, <3>1, <3>3, <4>1
  <2> QED
    BY <1>14, <2>2, <2>3 DEF ReadByte
<1>15. CASE SecondChunk
  BY <1>15 DEF SecondChunk
<1>16. CASE Release
  BY <1>16 DEF Release
<1>17. CASE Deinit
  BY <1>17 DEF Deinit, Gone
<1>18. CASE Die
  BY <1>18 DEF Die, Gone
<1>19. CASE UNCHANGED vars
  BY <1>19 DEF vars
<1> QED
  BY <1>1, <1>2, <1>3, <1>4, <1>5, <1>6, <1>7, <1>8, <1>9, <1>10, <1>11,
     <1>12, <1>13, <1>14, <1>15, <1>16, <1>17, <1>18, <1>19
     DEF Next, ZpuNext, CpuNext

\* The IRQ of a full ring stays up until the CPU peeks the head.
LEMMA StallStep == IInv /\ TypeOK' /\ [Next]_vars => StallIsAnnounced'
<1> SUFFICES ASSUME IInv, TypeOK', [Next]_vars
             PROVE  StallIsAnnounced'
  OBVIOUS
<1> USE DEF IInv, TypeOK, Open, InGet, ZpuInv, FlushInv, OpenInv, GetInv,
            StallIsAnnounced, Window, HeadAt, Waiting
<1>1. ASSUME NEW c \in Calls, Call(c) PROVE StallIsAnnounced'
  BY <1>1 DEF Call
<1>2. CASE Store
  BY <1>2 DEF Store
<1>3. CASE EndOfString
  BY <1>3 DEF EndOfString
<1>4. CASE TestTail
  BY <1>4 DEF TestTail, AfterByte
<1>5. CASE TestFlow
  BY <1>5 DEF TestFlow, AfterByte
<1>6. CASE PublishAlmostFull
  BY <1>6 DEF PublishAlmostFull
<1>7. CASE RaiseIrqFull
  BY <1>7 DEF RaiseIrqFull
<1>8. CASE Publish
  BY <1>8 DEF Publish
<1>9. CASE RaiseIrq
  BY <1>9 DEF RaiseIrq
<1>10. ASSUME NEW f \in BOOLEAN, InitFlow(f) PROVE StallIsAnnounced'
  BY <1>10 DEF InitFlow
<1>11. CASE InitHead
  BY <1>11 DEF InitHead
<1>12. CASE InitTail
  BY <1>12 DEF InitTail
<1>13. ASSUME NEW n \in GetSizes, GetHead(n) PROVE StallIsAnnounced'
  BY <1>13 DEF GetHead
<1>14. CASE ReadByte
  BY <1>14 DEF ReadByte
<1>15. CASE SecondChunk
  BY <1>15 DEF SecondChunk
<1>16. CASE Release
  BY <1>16 DEF Release
<1>17. CASE Deinit
  BY <1>17 DEF Deinit, Gone
<1>18. CASE Die
  BY <1>18 DEF Die, Gone
<1>19. CASE UNCHANGED vars
  BY <1>19 DEF vars
<1> QED
  BY <1>1, <1>2, <1>3, <1>4, <1>5, <1>6, <1>7, <1>8, <1>9, <1>10, <1>11,
     <1>12, <1>13, <1>14, <1>15, <1>16, <1>17, <1>18, <1>19
     DEF Next, ZpuNext, CpuNext

-----------------------------------------------------------------------------
(* The theorems. *)

\* IInv holds of every reachable state.
THEOREM TxInvariant == Spec => []IInv
<1>1. IInv /\ [Next]_vars => IInv'
  BY TypeStep, ZpuInvStep, FlushStep, OpenStep, GetStep, StallStep DEF IInv
<1> QED
  BY InitIInv, <1>1, PTL DEF Spec

\* Every variable of the TX FIFO keeps its type: among others the ZPU's put and
\* the CPU's cursors never leave the ring.
THEOREM TxTypeCorrect == Spec => []TypeOK
<1>1. IInv => TypeOK
  BY DEF IInv
<1> QED
  BY TxInvariant, <1>1, PTL

\* The ZPU never waits for room without an unanswered IRQ, unless the CPU is in
\* zpu_fifo_get.
THEOREM TxStallIsAnnounced == Spec => []StallIsAnnounced
<1>1. IInv => StallIsAnnounced
  BY DEF IInv
<1> QED
  BY TxInvariant, <1>1, PTL

\* The assert(0) of zpu_fifo_get is unreachable.
THEOREM TxGetReadsSomething == Spec => []GetReadsSomething
<1>1. IInv => GetReadsSomething
  BY DEF IInv, TypeOK, GetInv, OpenInv, GetReadsSomething
<1> QED
  BY TxInvariant, <1>1, PTL

-----------------------------------------------------------------------------
(* The TX FIFO implements the byte channel. *)

\* A step that changes neither what is written, nor what is read, nor whether
\* the channel is open is a stuttering step of the channel.
LEMMA Stutter ==
  ASSUME Open' = Open, UNCHANGED <<head, last>>
  PROVE  UNCHANGED Channel!vars
  BY DEF Channel!vars

\* So is any step between two states in which the channel is closed.
LEMMA StutterClosed ==
  ASSUME ~Open, ~Open', head' = head
  PROVE  UNCHANGED Channel!vars
<1>1. Open' = Open
  BY DEF Open
<1>2. (IF Open THEN last ELSE 0)' = (IF Open THEN last ELSE 0)
  OBVIOUS
<1> QED
  BY <1>1, <1>2 DEF Channel!vars

\* A byte stored by putc_noirq or puts is sent on the channel, within its bound.
LEMMA StoreSends ==
  ASSUME IInv, TypeOK', OpenInv', Store
  PROVE  [Channel!Next]_(Channel!vars)
<1>1. head' = head + 1 /\ last' = last /\ base' = base /\ Open' = Open
  BY DEF Store, Open
<1>2. Open => head' <= last + TxSize
  <2> SUFFICES ASSUME Open PROVE head' <= last + TxSize
    OBVIOUS
  <2>1. head' <= base + TxSize
    BY <1>1 DEF OpenInv
  <2>2. base <= last /\ base \in Nat /\ last \in Nat /\ head' \in Nat
    BY <1>1 DEF IInv, TypeOK, OpenInv
  <2> QED
    BY <2>1, <2>2
<1>3. Channel!Send
  BY <1>1, <1>2 DEF Channel!Send, IInv, TypeOK
<1> QED
  BY <1>3 DEF Channel!Next

\* A byte read by zpu_fifo_get is received from the channel, if it is open.
LEMMA ReadByteReceives ==
  ASSUME IInv, ReadByte
  PROVE  [Channel!Next]_(Channel!vars)
<1>1. head' = head /\ Open' = Open
  BY DEF ReadByte, Open
<1>2. CASE Open
  <2>1. last' = last + 1 /\ last < head
    BY <1>2, ReadByteNext DEF IInv, TypeOK, ZpuInv, OpenInv
  <2>2. Channel!Receive
    BY <1>1, <1>2, <2>1 DEF Channel!Receive
  <2> QED
    BY <2>2 DEF Channel!Next
<1>3. CASE ~Open
  BY <1>1, <1>3, StutterClosed
<1> QED
  BY <1>2, <1>3

\* The poke of the tail in zpu_fifo_init opens the channel, unless it was lapped.
LEMMA InitTailOpens ==
  ASSUME IInv, TypeOK', OpenInv', InitTail
  PROVE  [Channel!Next]_(Channel!vars)
<1>1. head' = head /\ ~Open
  BY DEF InitTail, Open, InGet
<1>2. CASE Open'
  <2>1. last' <= head /\ head <= last' + TxSize
    BY <1>1, <1>2 DEF InitTail, IInv, TypeOK, ZpuInv, FlushInv, OpenInv
  <2>2. Channel!Open
    BY <1>1, <1>2, <2>1 DEF Channel!Open
  <2> QED
    BY <2>2 DEF Channel!Next
<1>3. CASE ~Open'
  BY <1>1, <1>3, StutterClosed
<1> QED
  BY <1>2, <1>3

\* A process that ends or dies closes the channel.
LEMMA GoneCloses ==
  ASSUME Gone, head' = head
  PROVE  [Channel!Next]_(Channel!vars)
<1>1. ~Open'
  BY DEF Gone, Open, InGet
<1>2. CASE Open
  BY <1>1, <1>2 DEF Channel!Close, Channel!Next
<1>3. CASE ~Open
  BY <1>1, <1>3, StutterClosed
<1> QED
  BY <1>2, <1>3

\* Every step of the TX FIFO is a step of the channel or leaves it alone.
LEMMA StepSimulation ==
  IInv /\ IInv' /\ [Next]_vars => [Channel!Next]_(Channel!vars)
<1> SUFFICES ASSUME IInv, IInv', [Next]_vars
             PROVE  [Channel!Next]_(Channel!vars)
  OBVIOUS
<1>1. ASSUME NEW c \in Calls, Call(c) PROVE UNCHANGED Channel!vars
  BY <1>1, Stutter DEF Call, Open
<1>2. CASE Store
  BY <1>2, StoreSends DEF IInv
<1>3. CASE EndOfString \/ TestTail \/ TestFlow \/ RaiseIrqFull \/ RaiseIrq
  BY <1>3, Stutter
     DEF EndOfString, TestTail, TestFlow, RaiseIrqFull, RaiseIrq, Open
<1>4. CASE PublishAlmostFull \/ Publish
  BY <1>4, Stutter DEF PublishAlmostFull, Publish, Open
<1>5. ASSUME NEW f \in BOOLEAN, InitFlow(f) PROVE UNCHANGED Channel!vars
  BY <1>5, Stutter DEF InitFlow, Open, InGet
<1>6. CASE InitHead
  <2>1. ~Open /\ ~Open' /\ head' = head
    BY <1>6 DEF InitHead, Open, InGet
  <2> QED
    BY <2>1, StutterClosed
<1>7. CASE InitTail
  BY <1>7, InitTailOpens DEF IInv
<1>8. ASSUME NEW n \in GetSizes, GetHead(n) PROVE UNCHANGED Channel!vars
  BY <1>8, Stutter DEF GetHead, Open, InGet
<1>9. CASE ReadByte
  BY <1>9, ReadByteReceives
<1>10. CASE SecondChunk \/ Release
  BY <1>10, Stutter DEF SecondChunk, Release, Open, InGet
<1>11. CASE Deinit \/ Die
  BY <1>11, GoneCloses DEF Deinit, Die
<1>12. CASE UNCHANGED vars
  BY <1>12, Stutter DEF vars, Open
<1> QED
  BY <1>1, <1>2, <1>3, <1>4, <1>5, <1>6, <1>7, <1>8, <1>9, <1>10, <1>11, <1>12
     DEF Next, ZpuNext, CpuNext

\* The TX FIFO with flow control is a bounded, lossless, in-order channel: what
\* ByteChannel promises is kept by every behaviour of the ZPU and the CPU.
THEOREM TxImplementsChannel == Spec => ChannelSpec
<1>1. Init => Channel!Init
  BY DEF Init, Open, InGet, Channel!Init
<1> QED
  BY <1>1, TxInvariant, StepSimulation, PTL DEF Spec, ChannelSpec, Channel!Spec
=============================================================================

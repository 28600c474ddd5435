------------------------------- MODULE TxFifo -------------------------------
(***************************************************************************)
(* The TX FIFO, from the ZPU (src/src/zpu/fifo.c) to the CPU               *)
(* (src/src/tszpufifo.c): a ring of TxSize bytes in ZPU RAM, which the CPU *)
(* reads and writes over I2C one byte at a time while the ZPU runs.        *)
(*                                                                         *)
(* A step is one access of the shared RAM by either side, so every         *)
(* interleaving of the two programs is a behaviour.  A byte is modelled by *)
(* its place in the stream the ZPU produces: 1, 2, 3, ...                  *)
(***************************************************************************)
EXTENDS Integers, FiniteSets

CONSTANTS
    TxSize,         \* sizeof(fifo.txdat), 256 in the build
    ByteMod,        \* number of values of the CPU's uint8_t cursors, 256
    GetSizes,       \* sizes the CPU passes to zpu_fifo_get: 2, 2*count, 256
    MaxSend         \* bound: bytes the ZPU produces in a behaviour

ASSUME TxSizeAssumption == TxSize \in Nat /\ TxSize >= 2
ASSUME ByteModAssumption == ByteMod \in Nat /\ TxSize <= ByteMod
ASSUME GetSizesAssumption == GetSizes \subseteq Nat \ {0}
ASSUME MaxSendAssumption == MaxSend \in Nat

VARIABLES
    \* ZPU RAM, shared by the two sides
    noflow,         \* ZPU_TXFIFO_NOFLOW_OPT of fifo.flags
    txput,          \* fifo.txput, a word: -1 stands for 0xFFFFFFFF
    txget,          \* fifo.txget
    txdat,          \* fifo.txdat, the stream number in each slot, 0 if none
    irq,            \* IRQ0, raised by the ZPU, cleared when the CPU reads txput
    \* ZPU
    zpc, call, put, \* where it is, the library call it is in, its local put
    \* CPU process
    cpc,            \* where it is
    cput, cget,     \* its statics txput and txget
    pos, todo, size,\* slot being read, bytes left in the chunk, size left
    \* history
    head,           \* bytes the ZPU has stored
    pub,            \* bytes covered by the published txput
    snap,           \* bytes covered by the CPU's cput
    last,           \* stream number of the last byte the CPU took
    base,           \* ... and of the last byte released through fifo.txget
    lapped          \* the ZPU went round the ring while the CPU flushed it

shared == <<noflow, txput, txget, txdat, irq>>
zpu == <<zpc, call, put, head, pub>>
cpu == <<cpc, cput, cget, pos, todo, size, snap, last, base, lapped>>
vars == <<shared, zpu, cpu>>

Slot == 0 .. TxSize - 1
Byte == 0 .. ByteMod - 1
Calls == {"putc_noirq", "putc", "puts"}

\* Where the ZPU has stored a byte and has not yet been let past it.
Waiting == {"test", "flag", "stall", "stall_irq", "spin", "spin_flag"}
ZpuLocations == Waiting \cup {"idle", "store", "publish", "irq"}

InGet == {"idle", "chunk1", "chunk2"}
CpuLocations == InGet \cup {"down", "init_head", "init_tail"}

\* What a cursor one past the last slot becomes on the ZPU.
Wrap(i) == IF i >= TxSize THEN i - TxSize ELSE i

\* What a cursor becomes in a uint8_t of the CPU.
ToByte(i) == IF i >= ByteMod THEN i - ByteMod ELSE i

\* The least significant byte of a cursor, the only one the CPU looks at.
LowByte(w) == IF w < 0 THEN w + ByteMod ELSE w

Lesser(a, b) == IF a < b THEN a ELSE b

\* A byte the CPU reads at an offset from txdat: past the array it is not a
\* byte of the stream.
DataAt(i) == IF i \in Slot THEN txdat[i] ELSE 0

TypeOK ==
    /\ noflow \in BOOLEAN
    /\ txput \in Slot \cup {-1}
    /\ txget \in Byte
    /\ txdat \in [Slot -> Nat]
    /\ irq \in BOOLEAN
    /\ zpc \in ZpuLocations
    /\ call \in Calls
    /\ put \in Slot
    /\ cpc \in CpuLocations
    /\ cput \in Byte
    /\ cget \in Byte
    /\ pos \in Nat
    /\ todo \in Nat
    /\ size \in Nat
    /\ head \in Nat
    /\ pub \in Nat
    /\ snap \in Nat
    /\ last \in Nat
    /\ base \in Nat
    /\ lapped \in BOOLEAN

\* fifo_init has run: all of the struct but its flags is zero.
Init ==
    /\ noflow = TRUE
    /\ txput = 0
    /\ txget = 0
    /\ txdat = [i \in Slot |-> 0]
    /\ irq = FALSE
    /\ zpc = "idle"
    /\ call = "putc"
    /\ put = 0
    /\ cpc = "down"
    /\ cput = 0
    /\ cget = 0
    /\ pos = 0
    /\ todo = 0
    /\ size = 0
    /\ head = 0
    /\ pub = 0
    /\ snap = 0
    /\ last = 0
    /\ base = 0
    /\ lapped = FALSE
-----------------------------------------------------------------------------
(* ZPU: putc_noirq, putc, puts and fifo_raise_irq0.                        *)

\* A library call begins; its local put starts at the published head.
Call(c) ==
    /\ zpc = "idle"
    /\ c = "puts" \/ head < MaxSend
    /\ call' = c
    /\ put' = txput
    /\ zpc' = "store"
    /\ UNCHANGED <<shared, cpu, head, pub>>

\* Mutant: the wrap of put is forgotten.
Bug_StoreNoWrap ==
    /\ zpc = "store"
    /\ head < MaxSend
    /\ txdat' = [txdat EXCEPT ![put] = head + 1]
    /\ head' = head + 1
    /\ put' = put + 1
    /\ zpc' = "test"
    /\ UNCHANGED <<noflow, txput, txget, irq, cpu, call, pub>>

\* fifo.txdat[put++] = c, and put wraps at the end of the array.
Store ==
    /\ zpc = "store"
    /\ head < MaxSend
    /\ txdat' = [txdat EXCEPT ![put] = head + 1]
    /\ head' = head + 1
    /\ put' = Wrap(put + 1)
    /\ zpc' = "test"
    /\ UNCHANGED <<noflow, txput, txget, irq, cpu, call, pub>>

\* puts reaches the terminating null.
EndOfString ==
    /\ zpc = "store"
    /\ call = "puts"
    /\ zpc' = "publish"
    /\ UNCHANGED <<shared, cpu, call, put, head, pub>>

\* After a byte is in: puts goes on with the string, putc publishes the head.
AfterByte == IF call = "puts" THEN "store" ELSE "publish"

\* put == fifo.txget, evaluated before the first wait and in the wait loop.
TestTail ==
    /\ \/ zpc = "test" /\ zpc' = IF put = txget THEN "flag" ELSE AfterByte
       \/ zpc = "spin" /\ zpc' = IF put = txget THEN "spin_flag" ELSE AfterByte
    /\ UNCHANGED <<shared, cpu, call, put, head, pub>>

\* (fifo.flags & ZPU_TXFIFO_NOFLOW_OPT) == 0, evaluated when put == fifo.txget.
TestFlow ==
    /\ \/ zpc = "flag" /\ zpc' = IF noflow THEN AfterByte ELSE "stall"
       \/ zpc = "spin_flag" /\ zpc' = IF noflow THEN AfterByte ELSE "spin"
    /\ UNCHANGED <<shared, cpu, call, put, head, pub>>

\* The ring is full: the head is published one short of the last byte.
PublishAlmostFull ==
    /\ zpc = "stall"
    /\ txput' = put - 1
    /\ pub' = head - 1
    /\ zpc' = "stall_irq"
    /\ UNCHANGED <<noflow, txget, txdat, irq, cpu, call, put, head>>

\* Mutant: the ZPU waits without raising the IRQ first.
Bug_WaitSilently ==
    /\ zpc = "stall_irq"
    /\ zpc' = "spin"
    /\ UNCHANGED <<shared, cpu, call, put, head, pub>>

RaiseIrqFull ==
    /\ zpc = "stall_irq"
    /\ irq' = TRUE
    /\ zpc' = "spin"
    /\ UNCHANGED <<noflow, txput, txget, txdat, cpu, call, put, head, pub>>

\* fifo.txput = put
Publish ==
    /\ zpc = "publish"
    /\ txput' = put
    /\ pub' = head
    /\ zpc' = IF call = "putc_noirq" THEN "idle" ELSE "irq"
    /\ UNCHANGED <<noflow, txget, txdat, irq, cpu, call, put, head>>

\* IRQ0_REG = &fifo.txput + 3: the end of putc and puts.  Firmware also
\* calls fifo_raise_irq0 between two bytes.
RaiseIrq ==
    /\ zpc \in {"irq", "idle"}
    /\ irq' = TRUE
    /\ zpc' = "idle"
    /\ UNCHANGED <<noflow, txput, txget, txdat, cpu, call, put, head, pub>>

ZpuNext ==
    \/ \E c \in Calls : Call(c)
    \/ Store
    \/ EndOfString
    \/ TestTail
    \/ TestFlow
    \/ PublishAlmostFull
    \/ RaiseIrqFull
    \/ Publish
    \/ RaiseIrq
-----------------------------------------------------------------------------
(* CPU: zpu_fifo_init, zpu_fifo_get, zpu_fifo_deinit, and its death.       *)

\* zpu_fifo_init pokes the byte of the flags that holds the flow option.
InitFlow(flow_control) ==
    /\ cpc = "down"
    /\ noflow' = ~flow_control
    /\ cpc' = "init_head"
    /\ UNCHANGED <<txput, txget, txdat, irq, zpu, cput, cget, pos, todo, size,
                   snap, last, base, lapped>>

\* txget = txput = fpeek8(txfifo_put_adr), which also clears the IRQ.
InitHead ==
    /\ cpc = "init_head"
    /\ cput' = LowByte(txput)
    /\ cget' = LowByte(txput)
    /\ irq' = FALSE
    /\ snap' = pub
    /\ last' = pub
    /\ base' = pub
    /\ cpc' = "init_tail"
    /\ UNCHANGED <<noflow, txput, txget, txdat, zpu, pos, todo, size, lapped>>

\* fpoke8(txfifo_get_adr, txget): the ring is empty as the CPU sees it.  It is
\* lapped if the ZPU has meanwhile stored a whole ring, and was not stopped.
InitTail ==
    /\ cpc = "init_tail"
    /\ txget' = cget
    /\ lapped' = \/ head - base > TxSize
                 \/ head - base = TxSize /\ zpc \notin Waiting
    /\ cpc' = "idle"
    /\ UNCHANGED <<noflow, txput, txdat, irq, zpu, cput, cget, pos, todo, size,
                   snap, last, base>>

\* Mutant: the first chunk stops one slot short of the end of the array.
Bug_GetHeadShort(n) ==
    /\ cpc = "idle"
    /\ cput' = LowByte(txput)
    /\ irq' = FALSE
    /\ snap' = pub
    /\ \/ /\ cput' = cget
          /\ UNCHANGED <<cpc, pos, todo, size>>
       \/ /\ cput' < cget
          /\ cpc' = "chunk1"
          /\ pos' = cget
          /\ todo' = Lesser(n, TxSize - cget - 1)
          /\ size' = n - todo'
       \/ /\ cput' > cget
          /\ cpc' = "chunk2"
          /\ pos' = cget
          /\ todo' = Lesser(n, cput' - cget)
          /\ size' = n - todo'
    /\ UNCHANGED <<noflow, txput, txget, txdat, zpu, cget, last, base, lapped>>

\* zpu_fifo_get(buf, n) peeks the head, which clears the IRQ.  If the head is
\* behind the tail it reads a first chunk up to the end of the array.
GetHead(n) ==
    /\ cpc = "idle"
    /\ cput' = LowByte(txput)
    /\ irq' = FALSE
    /\ snap' = pub
    /\ \/ /\ cput' = cget
          /\ UNCHANGED <<cpc, pos, todo, size>>
       \/ /\ cput' < cget
          /\ cpc' = "chunk1"
          /\ pos' = cget
          /\ todo' = Lesser(n, TxSize - cget)
          /\ size' = n - todo'
       \/ /\ cput' > cget
          /\ cpc' = "chunk2"
          /\ pos' = cget
          /\ todo' = Lesser(n, cput' - cget)
          /\ size' = n - todo'
    /\ UNCHANGED <<noflow, txput, txget, txdat, zpu, cget, last, base, lapped>>

\* One byte of fpeekstream8.
ReadByte ==
    /\ cpc \in {"chunk1", "chunk2"}
    /\ todo > 0
    /\ last' = DataAt(pos)
    /\ pos' = pos + 1
    /\ todo' = todo - 1
    /\ UNCHANGED <<shared, zpu, cpc, cput, cget, size, snap, base, lapped>>

\* After the first chunk: txget moves, and unless the head is still behind it
\* what remains of size is read from there.
SecondChunk ==
    /\ cpc = "chunk1"
    /\ todo = 0
    /\ cget' = ToByte(pos)
    /\ pos' = cget'
    /\ todo' = IF cput < cget' THEN 0 ELSE Lesser(size, cput - cget')
    /\ cpc' = "chunk2"
    /\ UNCHANGED <<shared, zpu, cput, size, snap, last, base, lapped>>

\* Mutant: the slots up to the head are released, read or not.
Bug_ReleaseToHead ==
    /\ cpc = "chunk2"
    /\ todo = 0
    /\ cget' = cput
    /\ txget' = cput
    /\ base' = last
    /\ cpc' = "idle"
    /\ pos' = 0
    /\ size' = 0
    /\ UNCHANGED <<noflow, txput, txdat, irq, zpu, cput, todo, snap, last,
                   lapped>>

\* fpoke8(txfifo_get_adr, txget): the slots that were read are released.
Release ==
    /\ cpc = "chunk2"
    /\ todo = 0
    /\ cget' = ToByte(pos)
    /\ txget' = cget'
    /\ base' = last
    /\ cpc' = "idle"
    /\ pos' = 0
    /\ size' = 0
    /\ UNCHANGED <<noflow, txput, txdat, irq, zpu, cput, todo, snap, last,
                   lapped>>

\* The variables of a process that is gone.
Gone ==
    /\ cpc' = "down"
    /\ cput' = 0
    /\ cget' = 0
    /\ pos' = 0
    /\ todo' = 0
    /\ size' = 0
    /\ snap' = 0
    /\ last' = 0
    /\ base' = 0
    /\ lapped' = FALSE

\* zpu_fifo_deinit turns flow control off before the process exits.
Deinit ==
    /\ cpc = "idle"
    /\ noflow' = TRUE
    /\ Gone
    /\ UNCHANGED <<txput, txget, txdat, irq, zpu>>

\* The process dies, or exits without zpu_fifo_deinit as ts8820ctl does.
Die ==
    /\ cpc # "down"
    /\ Gone
    /\ UNCHANGED <<shared, zpu>>

CpuNext ==
    \/ \E f \in BOOLEAN : InitFlow(f)
    \/ InitHead
    \/ InitTail
    \/ \E n \in GetSizes : GetHead(n)
    \/ ReadByte
    \/ SecondChunk
    \/ Release
    \/ Deinit
    \/ Die

Next == ZpuNext \/ CpuNext

Spec == Init /\ [][Next]_vars
=============================================================================

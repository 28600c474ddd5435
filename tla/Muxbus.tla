------------------------------- MODULE Muxbus -------------------------------
(***************************************************************************)
(* 16-bit registers reached through the ZPU: the calls of                  *)
(* src/src/tszpufifo.c that send a request down the RX FIFO and wait for   *)
(* the IRQ, and the state machine of src/src/zpu/zpu_muxbus.c that carries *)
(* it out on the MUXBUS and answers through the TX FIFO.                   *)
(*                                                                         *)
(* A FIFO is a sequence of bytes here (TxFifo and RxFifo say why); a byte  *)
(* is the request or the word it is part of, and which part.               *)
(***************************************************************************)
EXTENDS Integers, Sequences, IrqLine

CONSTANTS
    Registers, Stream, Values, MaxCount,    \* see RegisterAccess
    RxCap,          \* bytes the RX FIFO takes, 15 in the build
    TxCap,          \* bytes the TX FIFO takes, 255 in the build
    MaxCalls,       \* bound: calls in a behaviour
    MaxKills        \* bound: processes that die connected

ASSUME RequestsFit == RxCap \in Nat /\ RxCap >= 10
\* peek16_stream asserts the 64, which are all that the command byte can say.
ASSUME AnswersFit ==
    MaxCount \in 1 .. 64 /\ TxCap \in Nat /\ TxCap >= 2 * MaxCount
ASSUME StreamAssumption == Stream \notin Registers
ASSUME ValuesAssumption == Values \subseteq Nat
ASSUME BoundsAssumption == MaxCalls \in Nat /\ MaxKills \in Nat

VARIABLES
    \* the board behind the MUXBUS
    regs, samples,
    \* ZPU RAM
    noflow,         \* ZPU_TXFIFO_NOFLOW_OPT of fifo.flags
    rxq, txq,       \* what the two FIFOs hold
    \* ZPU: the variables of zpu_muxbus
    state, req, readcnt, dat,
    stalled,        \* it has raised the IRQ of a full FIFO and waits
    \* CPU
    cpc,            \* where it is
    spc,            \* the static rxfifo_spc
    op,             \* the call in progress
    snap,           \* bytes that zpu_fifo_get will read
    got,            \* the bytes it read
    \* history
    ans,            \* words read for the call in progress, or that it is done
    ret,            \* what the last call returned
    calls,          \* calls made
    served,         \* requests whose IRQ the ZPU has raised
    kills,          \* processes that died connected
    stalls          \* times the ZPU found the TX FIFO full

board == <<regs, samples>>
ram == <<noflow, rxq, txq>>
zpu == <<state, req, readcnt, dat, stalled>>
cpu == <<cpc, spc, op, snap, got>>
counts == <<calls, served, kills, stalls>>
history == <<ans, ret, counts>>
vars == <<line, board, ram, zpu, cpu, history>>

Atomic == INSTANCE RegisterAccess

Pokes == Atomic!Pokes
Ops == Atomic!Ops
NoOp == Atomic!NoOp

\* The bytes of a request: command and address, and of a write the data.  The
\* number of the call is history: nothing is decided by it.
Size(o) == IF o.rwn = "READ" THEN 3 ELSE 5
Request(o) == [i \in 1 .. Size(o) |-> [req |-> o, part |-> i, nr |-> calls + 1]]

\* Bytes the caller passes zpu_fifo_get room for.
Wanted(o) == 2 * o.cnt

\* What the caller makes of the bytes: a word whose two bytes are not the high
\* and the low byte of one word, or were not read, is junk.
Junk == -1
Word(bytes, i) ==
    IF /\ 2 * i <= Len(bytes)
       /\ bytes[2 * i - 1] = [word |-> bytes[2 * i].word, half |-> "high"]
       /\ bytes[2 * i].half = "low"
    THEN bytes[2 * i].word
    ELSE Junk

Lesser(a, b) == IF a < b THEN a ELSE b

Gets == {"GET_CMD", "GET_ADRH", "GET_ADRL", "GET_DATH", "GET_DATL"}
Puts == {"putc_high", "putc_low"}
States == Gets \cup Puts \cup {"RET_WRITE", "RET_READ", "raise"}

TypeOK ==
    /\ irq \in BOOLEAN /\ latched \in BOOLEAN
    /\ regs \in [Registers -> Values]
    /\ samples \in Nat
    /\ noflow \in BOOLEAN
    /\ Len(rxq) <= RxCap
    /\ Len(txq) <= TxCap
    /\ state \in States
    /\ req \in Ops \cup {NoOp}
    /\ readcnt \in 0 .. MaxCount
    /\ dat \in Nat
    /\ stalled \in BOOLEAN
    /\ spc \in 0 .. RxCap
    /\ op \in Ops \cup {NoOp}
    /\ snap \in 0 .. TxCap
    /\ Len(got) <= 2 * MaxCount

Init ==
    /\ IrqInit
    /\ regs \in [Registers -> Values]
    /\ samples = 0
    /\ noflow = TRUE
    /\ rxq = <<>>
    /\ txq = <<>>
    /\ state = "GET_CMD"
    /\ req = NoOp
    /\ readcnt = 0
    /\ dat = 0
    /\ stalled = FALSE
    /\ cpc = "down"
    /\ spc = 0
    /\ op = NoOp
    /\ snap = 0
    /\ got = <<>>
    /\ ans = <<>>
    /\ ret = <<>>
    /\ calls = 0 /\ served = 0 /\ kills = 0 /\ stalls = 0
-----------------------------------------------------------------------------
(* ZPU: one pass of the loop of zpu_muxbus per action, getc included.      *)

\* Mutant: the count of the command is taken as it comes, one less than meant.
Bug_GetCmd ==
    /\ state = "GET_CMD"
    /\ rxq # <<>>
    /\ req' = Head(rxq).req
    /\ readcnt' = Head(rxq).req.cnt - 1
    /\ rxq' = Tail(rxq)
    /\ state' = "GET_ADRH"
    /\ UNCHANGED <<line, board, noflow, txq, dat, stalled, cpu, history>>

\* The command byte: its count of words is one less than meant, hence the + 1.
GetCmd ==
    /\ state = "GET_CMD"
    /\ rxq # <<>>
    /\ req' = Head(rxq).req
    /\ readcnt' = Head(rxq).req.cnt
    /\ rxq' = Tail(rxq)
    /\ state' = "GET_ADRH"
    /\ UNCHANGED <<line, board, noflow, txq, dat, stalled, cpu, history>>

\* Mutant: a read is not told from a write after the address.
Bug_GetAdr ==
    /\ state \in {"GET_ADRH", "GET_ADRL"}
    /\ rxq # <<>>
    /\ rxq' = Tail(rxq)
    /\ state' = IF state = "GET_ADRH" THEN "GET_ADRL" ELSE "GET_DATH"
    /\ UNCHANGED <<line, board, noflow, txq, req, readcnt, dat, stalled,
                   cpu, history>>

\* The address is latched by the board; a read goes on without data.
GetAdr ==
    /\ state \in {"GET_ADRH", "GET_ADRL"}
    /\ rxq # <<>>
    /\ rxq' = Tail(rxq)
    /\ state' = IF state = "GET_ADRH" THEN "GET_ADRL"
                ELSE IF req.rwn = "READ" THEN "RET_READ" ELSE "GET_DATH"
    /\ UNCHANGED <<line, board, noflow, txq, req, readcnt, dat, stalled,
                   cpu, history>>

GetDat ==
    /\ state \in {"GET_DATH", "GET_DATL"}
    /\ rxq # <<>>
    /\ rxq' = Tail(rxq)
    /\ dat' = IF state = "GET_DATL" THEN Head(rxq).req.dat ELSE dat
    /\ state' = IF state = "GET_DATH" THEN "GET_DATL" ELSE "RET_WRITE"
    /\ UNCHANGED <<line, board, noflow, txq, req, readcnt, stalled, cpu,
                   history>>

\* The strobe of the write; the IRQ that reports it comes after.
RetWrite ==
    /\ state = "RET_WRITE"
    /\ regs' = [regs EXCEPT ![req.adr] = dat]
    /\ ans' = <<Atomic!Done>>
    /\ state' = "raise"
    /\ UNCHANGED <<line, samples, ram, req, readcnt, dat, stalled, cpu, ret,
                   counts>>

\* The strobe of the read of one word.
RetRead ==
    /\ state = "RET_READ"
    /\ readcnt' = (readcnt - 1) % 256
    /\ dat' = IF req.adr = Stream THEN samples + 1 ELSE regs[req.adr]
    /\ samples' = IF req.adr = Stream THEN samples + 1 ELSE samples
    /\ ans' = Append(ans, dat')
    /\ state' = "putc_high"
    /\ UNCHANGED <<line, regs, ram, req, stalled, cpu, ret, counts>>

\* Mutant: the low byte goes first.
Bug_Half ==
    [word |-> dat, half |-> IF state = "putc_low" THEN "high" ELSE "low"]

\* The byte of the word that is put next.
Half ==
    [word |-> dat, half |-> IF state = "putc_high" THEN "high" ELSE "low"]

\* Mutant: the IRQ is raised after every word.
Bug_Putc ==
    /\ state \in Puts
    /\ Len(txq) < TxCap \/ noflow
    /\ txq' = IF Len(txq) < TxCap THEN Append(txq, Half) ELSE <<>>
    /\ state' = IF state = "putc_high" THEN "putc_low"
                ELSE IF readcnt = 0 THEN "raise" ELSE "RET_READ"
    /\ stalled' = FALSE
    /\ irq' = (irq \/ state = "putc_low")
    /\ latched' = (latched \/ (~irq /\ irq'))
    /\ UNCHANGED <<board, noflow, rxq, req, readcnt, dat, cpu, history>>

\* putc_noirq publishes a byte of the word when there is room, or need be none.
\* Without flow control the byte that fills the ring makes it look empty.
Putc ==
    /\ state \in Puts
    /\ Len(txq) < TxCap \/ noflow
    /\ txq' = IF Len(txq) < TxCap THEN Append(txq, Half) ELSE <<>>
    /\ state' = IF state = "putc_high" THEN "putc_low"
                ELSE IF readcnt = 0 THEN "raise" ELSE "RET_READ"
    /\ stalled' = FALSE
    /\ UNCHANGED <<line, board, noflow, rxq, req, readcnt, dat, cpu,
                   history>>

\* There is none: the IRQ is raised, and putc_noirq waits.
Stall ==
    /\ state \in Puts
    /\ Len(txq) = TxCap
    /\ ~noflow
    /\ ~stalled
    /\ RaiseLine
    /\ stalled' = TRUE
    /\ stalls' = stalls + 1
    /\ UNCHANGED <<board, ram, state, req, readcnt, dat, cpu, ans, ret, calls,
                   served, kills>>

\* The IRQ after a write, or after the last byte of a read.
Raise ==
    /\ state = "raise"
    /\ RaiseLine
    /\ state' = "GET_CMD"
    /\ served' = served + 1
    /\ UNCHANGED <<board, ram, req, readcnt, dat, stalled, cpu, ans, ret, calls,
                   kills, stalls>>

ZpuNext ==
    \/ GetCmd \/ GetAdr \/ GetDat
    \/ RetWrite \/ RetRead
    \/ Putc \/ Stall \/ Raise
-----------------------------------------------------------------------------
(* CPU: zpu_fifo_init, with flow control on as every caller asks for.      *)

InitFlow ==
    /\ cpc = "down"
    /\ noflow' = FALSE
    /\ cpc' = "init_head"
    /\ UNCHANGED <<line, board, rxq, txq, zpu, spc, op, snap, got, history>>

InitHead ==
    /\ cpc = "init_head"
    /\ ClearLine
    /\ snap' = Len(txq)
    /\ cpc' = "init_tail"
    /\ UNCHANGED <<board, ram, zpu, spc, op, got, history>>

\* Mutant: the new tail is not written to the ZPU.
Bug_InitTail ==
    /\ cpc = "init_tail"
    /\ snap' = 0
    /\ spc' = 0
    /\ cpc' = "init_space"
    /\ UNCHANGED <<line, board, ram, zpu, op, got, history>>

\* The bytes up to the peeked head are dropped.
InitTail ==
    /\ cpc = "init_tail"
    /\ txq' = SubSeq(txq, snap + 1, Len(txq))
    /\ snap' = 0
    /\ spc' = 0
    /\ cpc' = "init_space"
    /\ UNCHANGED <<line, board, noflow, rxq, zpu, op, got, history>>

\* The value file is opened and its event taken.
InitDrain ==
    /\ cpc = "init_drain"
    /\ ReadValueFile
    /\ cpc' = "idle"
    /\ UNCHANGED <<board, ram, zpu, spc, op, snap, got, history>>
-----------------------------------------------------------------------------
(* CPU: zpu_muxbus_poke16, zpu_muxbus_peek16 and zpu_muxbus_peek16_stream.  *)

\* The request goes down the RX FIFO, as much of it as rxfifo_spc lets through.
Call(o) ==
    /\ cpc = "idle"
    /\ calls < MaxCalls
    /\ calls' = calls + 1
    /\ LET n == Lesser(Len(Request(o)), spc) IN
       /\ rxq' = rxq \o SubSeq(Request(o), 1, n)
       /\ spc' = spc - n
    /\ op' = o
    /\ ans' = <<>>
    /\ cpc' = "recalc"
    /\ UNCHANGED <<line, board, noflow, txq, zpu, snap, got, ret, served, kills,
                   stalls>>

\* zpu_rx_recalc, at the end of a put and in zpu_fifo_init.
Recalc ==
    /\ cpc \in {"recalc", "init_space"}
    /\ spc' = IF spc = RxCap THEN spc ELSE RxCap - Len(rxq)
    /\ cpc' = IF cpc = "recalc" THEN "select" ELSE "init_drain"
    /\ UNCHANGED <<line, board, ram, zpu, op, snap, got, history>>

\* select() returns and the event is taken, whatever level the file tells.
Select ==
    /\ cpc = "select"
    /\ latched
    /\ ReadValueFile
    /\ cpc' = "get_head"
    /\ UNCHANGED <<board, ram, zpu, spc, op, snap, got, history>>

\* zpu_fifo_get peeks the head, which drops the line ...
GetHead ==
    /\ cpc = "get_head"
    /\ ClearLine
    /\ snap' = Lesser(Len(txq), Wanted(op))
    /\ cpc' = "get_tail"
    /\ UNCHANGED <<board, ram, zpu, spc, op, got, history>>

\* Mutant: it tries again until it has all that the caller has room for.
Bug_GetTail ==
    /\ cpc = "get_tail"
    /\ got' = SubSeq(txq, 1, snap)
    /\ txq' = SubSeq(txq, snap + 1, Len(txq))
    /\ snap' = 0
    /\ cpc' = IF snap < Wanted(op) THEN "get_head" ELSE "return"
    /\ UNCHANGED <<line, board, noflow, rxq, zpu, spc, op, history>>

\* ... and takes the bytes up to it, if the caller has room for them.
GetTail ==
    /\ cpc = "get_tail"
    /\ got' = SubSeq(txq, 1, snap)
    /\ txq' = SubSeq(txq, snap + 1, Len(txq))
    /\ snap' = 0
    /\ cpc' = "return"
    /\ UNCHANGED <<line, board, noflow, rxq, zpu, spc, op, history>>

\* The call returns what it made of the bytes, or nothing if it was a write.
Return ==
    /\ cpc = "return"
    /\ ret' = IF op \in Pokes THEN <<>>
              ELSE [i \in 1 .. op.cnt |-> Word(got, i)]
    /\ op' = NoOp
    /\ got' = <<>>
    /\ cpc' = "idle"
    /\ UNCHANGED <<line, board, ram, zpu, spc, snap, ans, counts>>

\* The variables of a process that is gone.
Gone ==
    /\ cpc' = "down"
    /\ spc' = 0
    /\ op' = NoOp
    /\ snap' = 0
    /\ got' = <<>>

\* The program ends between two calls: tsmuxbusctl calls zpu_fifo_deinit first,
\* which turns flow control off, and ts8820ctl does not.
Leave ==
    /\ cpc = "idle"
    /\ noflow' \in {TRUE, noflow}
    /\ Gone
    /\ UNCHANGED <<line, board, rxq, txq, zpu, history>>

\* The process is killed anywhere.
Kill ==
    /\ cpc # "down"
    /\ kills < MaxKills
    /\ kills' = kills + 1
    /\ Gone
    /\ UNCHANGED <<line, board, ram, zpu, ans, ret, calls, served, stalls>>

CpuStep ==
    \/ InitHead \/ InitTail \/ InitDrain
    \/ Recalc \/ Select \/ GetHead \/ GetTail \/ Return

Next ==
    \/ ZpuNext
    \/ InitFlow
    \/ CpuStep
    \/ \E o \in Ops : Call(o)
    \/ Leave
    \/ Kill

Spec == Init /\ [][Next]_vars

\* The ZPU never stops, and a process that is alive goes on with the call it is
\* in.  Calls, ends and new processes may come or not.
FairSpec == Spec /\ WF_vars(ZpuNext) /\ WF_vars(CpuStep)
-----------------------------------------------------------------------------
(* Properties.                                                             *)

\* Without deaths, the calls are atomic accesses of the registers: each takes
\* effect once, before it returns, and returns the words that were read for it,
\* although zpu_muxbus answers through two FIFOs, one interrupt line and an
\* event that may be stale.
AtomicAccess == Atomic!Spec

\* Without deaths, every call returns: no event is lost for the select() that
\* has no timeout (tszpufifo.c:338, 369, 412).
CallsReturn == op # NoOp ~> op = NoOp

\* The state machine stays in step with the requests, although a process may
\* die in the middle of one and rxfifo_spc, which is as old as the last request,
\* may let through less than asked for: the next byte in the RX FIFO is the one
\* that the state expects.  After every death, and every stall, one more call
\* than before may be made before its request is answered; the FIFO must have
\* room for them, for the next one and for a request it was measured with.
InStep ==
    RxCap >= 5 * (kills + stalls + 2) /\ rxq # <<>> /\ state \in Gets =>
        Head(rxq).part = CASE state = "GET_CMD"  -> 1
                           [] state = "GET_ADRH" -> 2
                           [] state = "GET_ADRL" -> 3
                           [] state = "GET_DATH" -> 4
                           [] state = "GET_DATL" -> 5

\* A word never spans two answers: the bytes in the TX FIFO are a suffix of one
\* answer and those of the next, high byte before low byte, unless bytes were
\* overrun without flow control.
WholeWords ==
    \A i \in 1 .. Len(txq) - 1 :
        txq[i].half = "high" => txq[i + 1] = [txq[i] EXCEPT !.half = "low"]

\* A ZPU that waits for room goes on when a new process connects.
StallEnds == (stalled /\ cpc = "init_head") ~> (~stalled \/ cpc = "down")
=============================================================================

---------------------------- MODULE ConnectLoop ----------------------------
(***************************************************************************)
(* tszpuctl --connect (main in src/src/tszpuctl.c): one loop that moves    *)
(* bytes from stdin to the RX FIFO and from the TX FIFO to stdout, asleep  *)
(* in select() between the two, against the firmware of                    *)
(* the shape of src/src/zpu/zpu_demo.c, which answers every byte it        *)
(* receives before it takes the next.                                      *)
(*                                                                         *)
(* TxFifo and RxFifo say what goes on inside a FIFO; here the two are      *)
(* counts of bytes, and what matters is who is told of them, and when.     *)
(***************************************************************************)
EXTENDS Integers, IrqLine

CONSTANTS
    TxSize,         \* sizeof(fifo.txdat), 256 in the build
    RxSize,         \* sizeof(fifo.rxdat), 16 in the build
    Replies,        \* bytes the firmware answers one byte with: in zpu_demo 1,
                    \* or a line of at most 14
    ReadSizes       \* what read(0, buf, 16) may return: 1 to 16

ASSUME SizesAssumption ==
    /\ TxSize \in Nat /\ TxSize >= 2
    /\ RxSize \in Nat /\ RxSize >= 2
ASSUME RepliesAssumption == Replies \subseteq Nat \ {0}
ASSUME ReadSizesAssumption == ReadSizes \subseteq Nat \ {0}

VARIABLES
    \* ZPU
    noflow,         \* ZPU_TXFIFO_NOFLOW_OPT of fifo.flags
    tx,             \* bytes from fifo.txget to fifo.txput
    rx,             \* bytes from fifo.rxget to fifo.rxput
    zpc,            \* where the firmware is
    owed,           \* bytes of the answer it has not put yet
    \* tszpuctl
    cpc,            \* where it is
    seen,           \* bytes up to the head that zpu_fifo_get peeked
    left,           \* bytes read from stdin and not yet put
    efds, rfds,     \* whether irqfd is in efds, and stdin in rfds
    term,           \* a signal was received
    \* environment and history
    stdin,          \* "empty", "data" or "eof"
    missed          \* zpu_fifo_init took the event of a line that was up

zpu == <<tx, rx, zpc, owed>>
loop == <<cpc, seen, left, efds, rfds, term>>
vars == <<line, noflow, zpu, loop, stdin, missed>>

\* No process is connected: the last one has come to its end, or was killed.
Absent == {"down", "killed"}
Connecting == {"init_head", "init_tail", "init_drain"}
Looping == {"top", "get_head", "get_tail", "stdin", "put", "check_term",
            "check_irq", "enter_select", "select"}

TypeOK ==
    /\ irq \in BOOLEAN
    /\ latched \in BOOLEAN
    /\ noflow \in BOOLEAN
    /\ tx \in 0 .. TxSize - 1
    /\ rx \in 0 .. RxSize - 1
    /\ zpc \in {"run", "irq", "stall_irq", "stall"}
    /\ owed \in Nat
    /\ cpc \in Absent \cup Connecting \cup Looping
    /\ seen \in 0 .. TxSize - 1
    /\ left \in Nat
    /\ efds \in BOOLEAN
    /\ rfds \in BOOLEAN
    /\ term \in BOOLEAN
    /\ stdin \in {"empty", "data", "eof"}
    /\ missed \in BOOLEAN

Init ==
    /\ IrqInit
    /\ noflow = TRUE
    /\ tx = 0
    /\ rx = 0
    /\ zpc = "run"
    /\ owed = 0
    /\ cpc = "down"
    /\ seen = 0
    /\ left = 0
    /\ efds = FALSE
    /\ rfds = FALSE
    /\ term = FALSE
    /\ stdin = "empty"
    /\ missed = FALSE
-----------------------------------------------------------------------------
(* ZPU: the loop of zpu_demo.                                              *)

\* getc returns a byte: it is echoed, or a line is printed.
Getc ==
    /\ zpc = "run"
    /\ owed = 0
    /\ rx > 0
    /\ rx' = rx - 1
    /\ owed' \in Replies
    /\ UNCHANGED <<line, noflow, tx, zpc, loop, stdin, missed>>

\* putc stores a byte and finds room after it, or may do without, and publishes.
\* Without flow control a head that reaches the tail makes the ring look empty.
Putc ==
    /\ zpc = "run"
    /\ owed > 0
    /\ tx < TxSize - 1 \/ noflow
    /\ tx' = (tx + 1) % TxSize
    /\ owed' = owed - 1
    /\ zpc' = "irq"
    /\ UNCHANGED <<line, noflow, rx, loop, stdin, missed>>

\* putc stores a byte and finds the ring full.
PutcFull ==
    /\ zpc = "run"
    /\ owed > 0
    /\ tx = TxSize - 1
    /\ ~noflow
    /\ zpc' = "stall_irq"
    /\ UNCHANGED <<line, noflow, tx, rx, owed, loop, stdin, missed>>

\* It raises the IRQ, and waits ...
RaiseFull ==
    /\ zpc = "stall_irq"
    /\ RaiseLine
    /\ zpc' = "stall"
    /\ UNCHANGED <<noflow, tx, rx, owed, loop, stdin, missed>>

\* ... until there is room or flow control is turned off.
Unstall ==
    /\ zpc = "stall"
    /\ tx < TxSize - 1 \/ noflow
    /\ tx' = (tx + 1) % TxSize
    /\ owed' = owed - 1
    /\ zpc' = "irq"
    /\ UNCHANGED <<line, noflow, rx, loop, stdin, missed>>

\* The IRQ at the end of putc.
Raise ==
    /\ zpc = "irq"
    /\ RaiseLine
    /\ zpc' = "run"
    /\ UNCHANGED <<noflow, tx, rx, owed, loop, stdin, missed>>

ZpuNext == Getc \/ Putc \/ PutcFull \/ RaiseFull \/ Unstall \/ Raise
-----------------------------------------------------------------------------
(* zpu_fifo_init, called with flow control on.                             *)

InitFlow ==
    /\ cpc \in Absent
    /\ noflow' = FALSE
    /\ cpc' = "init_head"
    /\ stdin' \in {"empty", "data", "eof"}
    /\ UNCHANGED <<line, zpu, seen, left, efds, rfds, term, missed>>

\* txget = txput = fpeek8(txfifo_put_adr)
InitHead ==
    /\ cpc = "init_head"
    /\ ClearLine
    /\ seen' = tx
    /\ cpc' = "init_tail"
    /\ UNCHANGED <<noflow, zpu, left, efds, rfds, term, stdin, missed>>

\* fpoke8(txfifo_get_adr, txget): the bytes up to the peeked head are dropped.
InitTail ==
    /\ cpc = "init_tail"
    /\ tx' = (tx - seen) % TxSize
    /\ seen' = 0
    /\ cpc' = "init_drain"
    /\ UNCHANGED <<line, noflow, rx, zpc, owed, left, efds, rfds, term,
                   stdin, missed>>

\* The value file is opened and read once; the level it tells is not looked at.
InitDrain ==
    /\ cpc = "init_drain"
    /\ ReadValueFile
    /\ missed' = irq
    /\ cpc' = "top"
    /\ UNCHANGED <<noflow, zpu, seen, left, efds, rfds, term, stdin>>

-----------------------------------------------------------------------------
(* The loop.                                                               *)

\* Mutant: stdin is served first.
Bug_TopStdinFirst ==
    /\ cpc = "top"
    /\ cpc' = IF efds /\ ~rfds THEN "get_head" ELSE "stdin"
    /\ UNCHANGED <<line, noflow, zpu, seen, left, efds, rfds, term, stdin,
                   missed>>

\* if (FD_ISSET(irqfd, &efds))
Top ==
    /\ cpc = "top"
    /\ cpc' = IF efds THEN "get_head" ELSE "stdin"
    /\ UNCHANGED <<line, noflow, zpu, seen, left, efds, rfds, term, stdin,
                   missed>>

\* zpu_fifo_get peeks the head, and is done if there is nothing.
GetHead ==
    /\ cpc = "get_head"
    /\ ClearLine
    /\ seen' = tx
    /\ cpc' = IF tx = 0 THEN "stdin" ELSE "get_tail"
    /\ UNCHANGED <<noflow, zpu, left, efds, rfds, term, stdin, missed>>

\* Mutant: one zpu_fifo_get, and no second one to find the FIFO empty.
Bug_GetOnce ==
    /\ cpc = "get_tail"
    /\ tx' = (tx - seen) % TxSize
    /\ seen' = 0
    /\ cpc' = "stdin"
    /\ UNCHANGED <<line, noflow, rx, zpc, owed, left, efds, rfds, term,
                   stdin, missed>>

\* ... or reads it all and pokes the tail: while (rdsz && !term).
GetTail ==
    /\ cpc = "get_tail"
    /\ tx' = (tx - seen) % TxSize
    /\ seen' = 0
    /\ cpc' = IF term THEN "stdin" ELSE "get_head"
    /\ UNCHANGED <<line, noflow, rx, zpc, owed, left, efds, rfds, term,
                   stdin, missed>>

\* if (FD_ISSET(0, &rfds)) read(0, buf, 16): data to put, or nothing.
ReadStdin ==
    /\ cpc = "stdin"
    /\ \/ /\ rfds /\ stdin = "data"
          /\ left' \in ReadSizes
          /\ stdin' \in {"empty", "data", "eof"}
          /\ cpc' = "put"
       \/ /\ ~rfds \/ stdin = "empty"
          /\ cpc' = "check_term"
          /\ UNCHANGED <<left, stdin>>
    /\ UNCHANGED <<line, noflow, zpu, seen, efds, rfds, term, missed>>

\* The variables of a process that is gone.
Gone(end) ==
    /\ cpc' = end
    /\ seen' = 0
    /\ left' = 0
    /\ efds' = FALSE
    /\ rfds' = FALSE
    /\ term' = FALSE
    /\ stdin' = "empty"
    /\ missed' = FALSE

\* Mutant: the program ends without zpu_fifo_deinit.
Bug_EndOfFile ==
    /\ cpc = "stdin"
    /\ rfds
    /\ stdin = "eof"
    /\ Gone("down")
    /\ UNCHANGED <<line, noflow, zpu>>

\* zpu_fifo_deinit and the end of the program, at the end of stdin ...
EndOfFile ==
    /\ cpc = "stdin"
    /\ rfds
    /\ stdin = "eof"
    /\ noflow' = TRUE
    /\ Gone("down")
    /\ UNCHANGED <<line, zpu>>

\* Mutant: what did not fit is written all the same.
Bug_PutAll ==
    /\ cpc = "put"
    /\ rx' = rx + left
    /\ left' = 0
    /\ cpc' = "check_term"
    /\ UNCHANGED <<line, noflow, tx, zpc, owed, seen, efds, rfds, term,
                   stdin, missed>>

\* One zpu_fifo_put of do { } while (r != wrsz): it writes what the space it
\* knows of lets through, which may be less than there is by now.  One that
\* writes nothing is a stutter.
Put ==
    /\ cpc = "put"
    /\ \E n \in 1 .. left :
          /\ rx + n <= RxSize - 1
          /\ rx' = rx + n
          /\ left' = left - n
          /\ cpc' = IF left = n THEN "check_term" ELSE "put"
    /\ UNCHANGED <<line, noflow, tx, zpc, owed, seen, efds, rfds, term,
                   stdin, missed>>

\* ... or after a signal.
Terminate ==
    /\ cpc = "check_term"
    /\ term
    /\ noflow' = TRUE
    /\ Gone("down")
    /\ UNCHANGED <<line, zpu>>

NoSignal ==
    /\ cpc = "check_term"
    /\ ~term
    /\ cpc' = "check_irq"
    /\ UNCHANGED <<line, noflow, zpu, seen, left, efds, rfds, term, stdin,
                   missed>>

\* Mutant: the event is taken and the level is not looked at.
Bug_CheckIrq ==
    /\ cpc = "check_irq"
    /\ efds
    /\ ReadValueFile
    /\ cpc' = "enter_select"
    /\ rfds' = TRUE
    /\ UNCHANGED <<noflow, zpu, seen, left, efds, term, stdin, missed>>

\* if (FD_ISSET(irqfd, &efds)) the value is read, and a 1 goes round again.
CheckIrq ==
    /\ cpc = "check_irq"
    /\ efds
    /\ ReadValueFile
    /\ cpc' = IF irq THEN "top" ELSE "enter_select"
    /\ rfds' = (rfds \/ ~irq)
    /\ UNCHANGED <<noflow, zpu, seen, left, efds, term, stdin, missed>>

\* Mutant: only stdin is put back, as for a loop that was woken by the IRQ.
Bug_SetFds ==
    /\ cpc = "check_irq"
    /\ ~efds
    /\ rfds' = TRUE
    /\ cpc' = "enter_select"
    /\ UNCHANGED <<line, noflow, zpu, seen, left, efds, term, stdin,
                   missed>>

\* Otherwise irqfd is put in efds, and what the file holds is left there.
SetFds ==
    /\ cpc = "check_irq"
    /\ ~efds
    /\ efds' = TRUE
    /\ rfds' = TRUE
    /\ cpc' = "enter_select"
    /\ UNCHANGED <<line, noflow, zpu, seen, left, term, stdin, missed>>

\* select() finds nothing ready and goes to sleep ...
Sleep ==
    /\ cpc = "enter_select"
    /\ ~(efds /\ latched)
    /\ ~(rfds /\ stdin # "empty")
    /\ cpc' = "select"
    /\ UNCHANGED <<line, noflow, zpu, seen, left, efds, rfds, term, stdin,
                   missed>>

\* ... or returns what is ready.
SelectReturns ==
    /\ cpc \in {"enter_select", "select"}
    /\ (efds /\ latched) \/ (rfds /\ stdin # "empty")
    /\ efds' = (efds /\ latched)
    /\ rfds' = (rfds /\ stdin # "empty")
    /\ cpc' = "top"
    /\ UNCHANGED <<line, noflow, zpu, seen, left, term, stdin, missed>>

\* A signal: termsig sets term; a sleeping select() returns -1.
Signal ==
    /\ cpc \in Looping
    /\ ~term
    /\ term' = TRUE
    /\ \/ /\ cpc = "select"
          /\ efds' = FALSE
          /\ rfds' = FALSE
          /\ cpc' = "top"
       \/ /\ cpc # "select"
          /\ UNCHANGED <<efds, rfds, cpc>>
    /\ UNCHANGED <<line, noflow, zpu, seen, left, stdin, missed>>

\* The terminal or the pipe: data, or its end.
StdinArrives ==
    /\ cpc \in Looping
    /\ stdin = "empty"
    /\ stdin' \in {"data", "eof"}
    /\ UNCHANGED <<line, noflow, zpu, loop, missed>>

\* The process is killed, or a signal finds it before its handlers are set.
Die ==
    /\ cpc \notin Absent
    /\ Gone("killed")
    /\ UNCHANGED <<line, noflow, zpu>>

CpuStep ==
    \/ InitHead \/ InitTail \/ InitDrain
    \/ Top \/ GetHead \/ GetTail
    \/ ReadStdin \/ EndOfFile \/ Put
    \/ Terminate \/ NoSignal
    \/ CheckIrq \/ SetFds
    \/ Sleep \/ SelectReturns

Next == ZpuNext \/ InitFlow \/ CpuStep \/ Signal \/ StdinArrives \/ Die

Spec == Init /\ [][Next]_vars

\* The ZPU never stops, and neither does a process that is alive.  Signals,
\* input, death and a new process may come or not.
FairSpec == Spec /\ WF_vars(ZpuNext) /\ WF_vars(CpuStep)
-----------------------------------------------------------------------------
(* Properties.                                                             *)

\* The firmware waits for room in the TX FIFO and the loop for room in the RX
\* FIFO: the put loop of tszpuctl.c:362-365 calls nothing that ends either.
Embrace ==
    /\ cpc = "put" /\ rx = RxSize - 1
    /\ zpc \in {"stall_irq", "stall"} /\ tx = TxSize - 1 /\ ~noflow

\* It does not come to that when the answers to a full RX FIFO and to the byte
\* the firmware is at fit in the TX FIFO, as those of zpu_demo do: the TX FIFO
\* is emptied before stdin is read.  Two cases are excepted: the event of the
\* output was taken by zpu_fifo_init, and a signal was caught, after which the
\* loop over zpu_fifo_get ends before the FIFO is empty.
NoEmbrace == Embrace => missed \/ term

\* The loop sleeps in select() only if an event will wake it for every byte that
\* is in the TX FIFO: the event is there, or the line is down and the putc that
\* put the byte has yet to raise it.  The exception is an event that
\* zpu_fifo_init took.
SleepIsSafe ==
    cpc = "select" /\ ~missed =>
        /\ efds
        /\ irq => latched
        /\ tx > 0 /\ ~latched => zpc \in {"irq", "stall_irq"}

\* Output of the firmware comes out of the loop, unless zpu_fifo_init took its
\* event or the two sides wait for each other.
OutputDelivered ==
    (cpc \in Looping /\ tx > 0)
        ~> (tx = 0 \/ cpc \in Absent \/ missed \/ Embrace)

\* The end of stdin ends the program with flow control turned off, unless it is
\* killed first or the two sides wait for each other; and a program that has come
\* to its end, also by a signal, has not left flow control on.
EofEnds ==
    /\ (cpc \in Looping /\ stdin = "eof")
         ~> (cpc = "down" /\ noflow) \/ cpc = "killed" \/ Embrace
    /\ [](cpc = "down" => noflow)

\* The firmware never waits for ever for a loop that is alive.
StallEnds ==
    (cpc \in Looping /\ zpc = "stall")
        ~> (zpc # "stall" \/ cpc \in Absent \/ missed \/ Embrace)
=============================================================================

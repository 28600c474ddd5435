---------------------------- MODULE ConnectProofs ---------------------------
(***************************************************************************)
(* Proofs about the loop of tszpuctl --connect, for every size of the two  *)
(* FIFOs, every firmware of the shape of zpu_demo, and every way its steps *)
(* fall between those of the loop.                                         *)
(***************************************************************************)
EXTENDS ConnectLoop, TLAPS

USE DEF Absent

\* Types, with what each side has in hand where it is; while a program is
\* connected flow control is on, so that the TX FIFO is never overrun.
TypeInv ==
    /\ TypeOK
    /\ cpc \notin Absent => ~noflow
    /\ cpc = "init_tail" => seen <= tx
    /\ cpc = "get_tail" => seen <= tx
    /\ zpc \in {"stall_irq", "stall"} => owed > 0

\* A line that is up has its event, but where the loop has taken it and goes on
\* to empty the FIFO, which drops the line.
LineInv ==
    cpc \in Looping /\ ~missed /\ irq /\ ~latched => efds /\ cpc \in {"top", "get_head"}

\* While the line is down, the bytes that came after the FIFO was last seen empty
\* are one at most, which the ZPU is about to announce; after a signal the loop
\* may stop to empty it, and then ends.
Announced(n) == n > 0 /\ ~irq => n = 1 /\ zpc = "irq"
QuietInv ==
    /\ cpc = "init_tail" => Announced(tx - seen)
    /\ cpc = "init_drain" => Announced(tx)
    /\ cpc \in {"top", "check_irq", "enter_select", "select"} =>
          Announced(tx) \/ missed
    /\ cpc \in {"stdin", "put", "check_term"} => Announced(tx) \/ missed \/ term

\* What is in efds when select() is called.
FdsInv == cpc \in {"enter_select", "select"} => efds

SleepInv == TypeInv /\ LineInv /\ QuietInv /\ FdsInv

-----------------------------------------------------------------------------
LEMMA InitSleepInv == Init => SleepInv
<1> SUFFICES ASSUME Init PROVE SleepInv
  OBVIOUS
<1>1. /\ tx = 0 /\ rx = 0 /\ owed = 0 /\ seen = 0 /\ left = 0
      /\ zpc = "run" /\ cpc = "down" /\ stdin = "empty"
  BY DEF Init
<1>2. /\ tx \in 0 .. TxSize - 1 /\ rx \in 0 .. RxSize - 1 /\ seen \in 0 .. TxSize - 1
      /\ owed \in Nat /\ left \in Nat
  BY <1>1, SizesAssumption
<1>3. /\ irq \in BOOLEAN /\ latched \in BOOLEAN /\ noflow \in BOOLEAN /\ efds \in BOOLEAN
      /\ rfds \in BOOLEAN /\ term \in BOOLEAN /\ missed \in BOOLEAN
  BY DEF Init, IrqInit
<1>4. TypeInv
  BY <1>1, <1>2, <1>3 DEF TypeInv, TypeOK
<1>5. LineInv /\ QuietInv /\ FdsInv
  BY <1>1 DEF LineInv, QuietInv, FdsInv, Looping
<1> QED
  BY <1>4, <1>5 DEF SleepInv

\* The tail moves to the head that was peeked: no more is dropped than there is.
LEMMA Drained == ASSUME TypeInv, seen <= tx PROVE (tx - seen) % TxSize = tx - seen
<1>1. tx - seen \in 0 .. TxSize - 1 /\ TxSize \in Nat
  BY SizesAssumption DEF TypeInv, TypeOK
<1>2. \A n \in Nat : \A k \in 0 .. n - 1 : k % n = k
  OBVIOUS
<1> QED
  BY <1>1, <1>2

\* A byte more is in the ring, unless it makes a full one look empty.
LEMMA Stored == ASSUME TypeInv PROVE (tx + 1) % TxSize \in 0 .. TxSize - 1
                                 /\ (tx < TxSize - 1 => (tx + 1) % TxSize = tx + 1)
<1>1. tx \in 0 .. TxSize - 1 /\ TxSize \in Nat \ {0}
  BY SizesAssumption DEF TypeInv, TypeOK
<1>2. \A n \in Nat \ {0} : \A k \in Nat : k % n \in 0 .. n - 1
  OBVIOUS
<1>3. \A n \in Nat : \A k \in 0 .. n - 1 : k % n = k
  OBVIOUS
<1>4. (tx + 1) % TxSize \in 0 .. TxSize - 1
  <2>1. tx + 1 \in Nat
    BY <1>1
  <2> QED
    BY <1>1, <1>2, <2>1
<1>5. ASSUME tx < TxSize - 1 PROVE (tx + 1) % TxSize = tx + 1
  <2>1. tx + 1 \in 0 .. TxSize - 1 /\ TxSize \in Nat
    BY <1>1, <1>5
  <2> QED
    BY <1>3, <2>1
<1> QED
  BY <1>4, <1>5

\* Each step keeps the types.
LEMMA TypeStep == ASSUME TypeInv, [Next]_vars PROVE TypeInv'
<1> USE DEF TypeInv, TypeOK, line, zpu, loop, Looping, Connecting
<1>1. CASE Getc
  BY SizesAssumption, RepliesAssumption, <1>1 DEF Getc
<1>2. CASE Putc
  BY SizesAssumption, Stored, <1>2 DEF Putc
<1>3. CASE PutcFull
  BY SizesAssumption, <1>3 DEF PutcFull
<1>4. CASE RaiseFull
  BY SizesAssumption, <1>4 DEF RaiseFull, RaiseLine
<1>5. CASE Unstall
  BY SizesAssumption, Stored, <1>5 DEF Unstall
<1>6. CASE Raise
  BY SizesAssumption, <1>6 DEF Raise, RaiseLine
<1>7. CASE InitFlow
  BY SizesAssumption, <1>7 DEF InitFlow
<1>8. CASE InitHead
  <2>1. tx' = tx /\ seen' = tx /\ irq' = FALSE
    BY <1>8 DEF InitHead, ClearLine
  <2>2. tx' \in 0 .. TxSize - 1 /\ seen' \in 0 .. TxSize - 1 /\ seen' <= tx'
    BY SizesAssumption, <2>1
  <2>3. irq' \in BOOLEAN /\ latched' \in BOOLEAN
    BY <1>8, <2>1 DEF InitHead, ClearLine
  <2> QED
    BY <1>8, <2>2, <2>3 DEF InitHead
<1>9. CASE InitTail
  BY SizesAssumption, Drained, <1>9 DEF InitTail
<1>10. CASE InitDrain
  BY SizesAssumption, <1>10 DEF InitDrain, ReadValueFile
<1>11. CASE Top
  BY SizesAssumption, <1>11 DEF Top
<1>12. CASE GetHead
  <2>1. tx' = tx /\ seen' = tx /\ irq' = FALSE
    BY <1>12 DEF GetHead, ClearLine
  <2>2. tx' \in 0 .. TxSize - 1 /\ seen' \in 0 .. TxSize - 1 /\ seen' <= tx'
    BY SizesAssumption, <2>1
  <2>3. irq' \in BOOLEAN /\ latched' \in BOOLEAN
    BY <1>12, <2>1 DEF GetHead, ClearLine
  <2> QED
    BY <1>12, <2>2, <2>3 DEF GetHead
<1>13. CASE GetTail
  BY SizesAssumption, Drained, <1>13 DEF GetTail
<1>14. CASE ReadStdin
  BY SizesAssumption, ReadSizesAssumption, <1>14 DEF ReadStdin
<1>15. CASE EndOfFile
  <2>1. seen' \in 0 .. TxSize - 1 /\ left' \in Nat
    BY SizesAssumption, <1>15 DEF EndOfFile, Gone
  <2>2. /\ efds' \in BOOLEAN /\ rfds' \in BOOLEAN /\ term' \in BOOLEAN /\ missed' \in BOOLEAN
        /\ noflow' \in BOOLEAN /\ cpc' = "down" /\ stdin' = "empty"
    BY <1>15 DEF EndOfFile, Gone
  <2> QED
    BY <1>15, <2>1, <2>2 DEF EndOfFile
<1>16. CASE Put
  BY SizesAssumption, <1>16 DEF Put
<1>17. CASE Terminate
  <2>1. seen' \in 0 .. TxSize - 1 /\ left' \in Nat
    BY SizesAssumption, <1>17 DEF Terminate, Gone
  <2>2. /\ efds' \in BOOLEAN /\ rfds' \in BOOLEAN /\ term' \in BOOLEAN /\ missed' \in BOOLEAN
        /\ noflow' \in BOOLEAN /\ cpc' = "down" /\ stdin' = "empty"
    BY <1>17 DEF Terminate, Gone
  <2> QED
    BY <1>17, <2>1, <2>2 DEF Terminate
<1>18. CASE NoSignal
  BY SizesAssumption, <1>18 DEF NoSignal
<1>19. CASE CheckIrq
  BY SizesAssumption, <1>19 DEF CheckIrq, ReadValueFile
<1>20. CASE SetFds
  BY SizesAssumption, <1>20 DEF SetFds
<1>21. CASE Sleep
  BY SizesAssumption, <1>21 DEF Sleep
<1>22. CASE SelectReturns
  BY SizesAssumption, <1>22 DEF SelectReturns
<1>23. CASE Signal
  <2>1. cpc' = cpc \/ (cpc = "select" /\ cpc' = "top")
    BY <1>23 DEF Signal
  <2>2. /\ efds' \in BOOLEAN /\ rfds' \in BOOLEAN /\ term' \in BOOLEAN
        /\ UNCHANGED <<line, noflow, zpu, seen, left, stdin, missed>>
    BY <1>23 DEF Signal
  <2> QED
    BY SizesAssumption, <2>1, <2>2
<1>24. CASE StdinArrives
  BY SizesAssumption, <1>24 DEF StdinArrives
<1>25. CASE Die
  <2>1. seen' \in 0 .. TxSize - 1 /\ left' \in Nat
    BY SizesAssumption, <1>25 DEF Die, Gone
  <2>2. /\ efds' \in BOOLEAN /\ rfds' \in BOOLEAN /\ term' \in BOOLEAN /\ missed' \in BOOLEAN
        /\ noflow' \in BOOLEAN /\ cpc' = "killed" /\ stdin' = "empty"
    BY <1>25 DEF Die, Gone
  <2> QED
    BY <1>25, <2>1, <2>2 DEF Die
<1>26. CASE UNCHANGED vars
  BY SizesAssumption, <1>26 DEF vars
<1> QED
  BY <1>1, <1>2, <1>3, <1>4, <1>5, <1>6, <1>7, <1>8, <1>9, <1>10, <1>11, <1>12,
     <1>13, <1>14, <1>15, <1>16, <1>17, <1>18, <1>19, <1>20, <1>21, <1>22, <1>23,
     <1>24, <1>25, <1>26
     DEF Next, ZpuNext, CpuStep

\* An event that is taken is taken by a loop that goes on, or by zpu_fifo_init.
LEMMA LineStep == ASSUME TypeInv, LineInv, [Next]_vars PROVE LineInv'
<1> USE DEF TypeInv, TypeOK, LineInv, line, zpu, loop, Looping, Connecting
<1>1. CASE Getc
  BY <1>1 DEF Getc
<1>2. CASE Putc
  BY <1>2 DEF Putc
<1>3. CASE PutcFull
  BY <1>3 DEF PutcFull
<1>4. CASE RaiseFull
  BY <1>4 DEF RaiseFull, RaiseLine
<1>5. CASE Unstall
  BY <1>5 DEF Unstall
<1>6. CASE Raise
  BY <1>6 DEF Raise, RaiseLine
<1>7. CASE InitFlow
  BY <1>7 DEF InitFlow
<1>8. CASE InitHead
  BY <1>8 DEF InitHead, ClearLine
<1>9. CASE InitTail
  BY <1>9 DEF InitTail
<1>10. CASE InitDrain
  BY <1>10 DEF InitDrain, ReadValueFile
<1>11. CASE Top
  BY <1>11 DEF Top
<1>12. CASE GetHead
  BY <1>12 DEF GetHead, ClearLine
<1>13. CASE GetTail
  BY <1>13 DEF GetTail
<1>14. CASE ReadStdin
  BY <1>14 DEF ReadStdin
<1>15. CASE EndOfFile
  BY <1>15 DEF EndOfFile, Gone
<1>16. CASE Put
  BY <1>16 DEF Put
<1>17. CASE Terminate
  BY <1>17 DEF Terminate, Gone
<1>18. CASE NoSignal
  BY <1>18 DEF NoSignal
<1>19. CASE CheckIrq
  BY <1>19 DEF CheckIrq, ReadValueFile
<1>20. CASE SetFds
  BY <1>20 DEF SetFds
<1>21. CASE Sleep
  BY <1>21 DEF Sleep
<1>22. CASE SelectReturns
  BY <1>22 DEF SelectReturns
<1>23. CASE Signal
  BY <1>23 DEF Signal
<1>24. CASE StdinArrives
  BY <1>24 DEF StdinArrives
<1>25. CASE Die
  BY <1>25 DEF Die, Gone
<1>26. CASE UNCHANGED vars
  BY <1>26 DEF vars
<1> QED
  BY <1>1, <1>2, <1>3, <1>4, <1>5, <1>6, <1>7, <1>8, <1>9, <1>10, <1>11, <1>12,
     <1>13, <1>14, <1>15, <1>16, <1>17, <1>18, <1>19, <1>20, <1>21, <1>22, <1>23,
     <1>24, <1>25, <1>26
     DEF Next, ZpuNext, CpuStep

\* irqfd is in efds before select() is called.
LEMMA FdsStep == ASSUME TypeInv, FdsInv, [Next]_vars PROVE FdsInv'
<1> USE DEF TypeInv, TypeOK, FdsInv, line, zpu, loop, Looping, Connecting
<1>1. CASE Getc
  BY <1>1 DEF Getc
<1>2. CASE Putc
  BY <1>2 DEF Putc
<1>3. CASE PutcFull
  BY <1>3 DEF PutcFull
<1>4. CASE RaiseFull
  BY <1>4 DEF RaiseFull, RaiseLine
<1>5. CASE Unstall
  BY <1>5 DEF Unstall
<1>6. CASE Raise
  BY <1>6 DEF Raise, RaiseLine
<1>7. CASE InitFlow
  BY <1>7 DEF InitFlow
<1>8. CASE InitHead
  BY <1>8 DEF InitHead, ClearLine
<1>9. CASE InitTail
  BY <1>9 DEF InitTail
<1>10. CASE InitDrain
  BY <1>10 DEF InitDrain, ReadValueFile
<1>11. CASE Top
  BY <1>11 DEF Top
<1>12. CASE GetHead
  BY <1>12 DEF GetHead, ClearLine
<1>13. CASE GetTail
  BY <1>13 DEF GetTail
<1>14. CASE ReadStdin
  BY <1>14 DEF ReadStdin
<1>15. CASE EndOfFile
  BY <1>15 DEF EndOfFile, Gone
<1>16. CASE Put
  BY <1>16 DEF Put
<1>17. CASE Terminate
  BY <1>17 DEF Terminate, Gone
<1>18. CASE NoSignal
  BY <1>18 DEF NoSignal
<1>19. CASE CheckIrq
  BY <1>19 DEF CheckIrq, ReadValueFile
<1>20. CASE SetFds
  BY <1>20 DEF SetFds
<1>21. CASE Sleep
  BY <1>21 DEF Sleep
<1>22. CASE SelectReturns
  BY <1>22 DEF SelectReturns
<1>23. CASE Signal
  BY <1>23 DEF Signal
<1>24. CASE StdinArrives
  BY <1>24 DEF StdinArrives
<1>25. CASE Die
  BY <1>25 DEF Die, Gone
<1>26. CASE UNCHANGED vars
  BY <1>26 DEF vars
<1> QED
  BY <1>1, <1>2, <1>3, <1>4, <1>5, <1>6, <1>7, <1>8, <1>9, <1>10, <1>11, <1>12,
     <1>13, <1>14, <1>15, <1>16, <1>17, <1>18, <1>19, <1>20, <1>21, <1>22, <1>23,
     <1>24, <1>25, <1>26
     DEF Next, ZpuNext, CpuStep

\* The line comes up with the first byte after it went down.
LEMMA QuietStep == ASSUME TypeInv, QuietInv, [Next]_vars PROVE QuietInv'
<1> USE DEF TypeInv, TypeOK, QuietInv, Announced, line, zpu, loop, Looping, Connecting
<1>1. CASE Getc
  BY SizesAssumption, <1>1 DEF Getc
<1>2. CASE Putc
  BY SizesAssumption, Stored, <1>2 DEF Putc
<1>3. CASE PutcFull
  BY SizesAssumption, <1>3 DEF PutcFull
<1>4. CASE RaiseFull
  BY SizesAssumption, <1>4 DEF RaiseFull, RaiseLine
<1>5. CASE Unstall
  BY SizesAssumption, Stored, <1>5 DEF Unstall
<1>6. CASE Raise
  BY SizesAssumption, <1>6 DEF Raise, RaiseLine
<1>7. CASE InitFlow
  BY SizesAssumption, <1>7 DEF InitFlow
<1>8. CASE InitHead
  BY SizesAssumption, <1>8 DEF InitHead, ClearLine
<1>9. CASE InitTail
  BY SizesAssumption, Drained, <1>9 DEF InitTail
<1>10. CASE InitDrain
  BY SizesAssumption, <1>10 DEF InitDrain, ReadValueFile
<1>11. CASE Top
  BY SizesAssumption, <1>11 DEF Top
<1>12. CASE GetHead
  BY SizesAssumption, <1>12 DEF GetHead, ClearLine
<1>13. CASE GetTail
  BY SizesAssumption, Drained, <1>13 DEF GetTail
<1>14. CASE ReadStdin
  BY SizesAssumption, <1>14 DEF ReadStdin
<1>15. CASE EndOfFile
  BY SizesAssumption, <1>15 DEF EndOfFile, Gone
<1>16. CASE Put
  BY SizesAssumption, <1>16 DEF Put
<1>17. CASE Terminate
  BY SizesAssumption, <1>17 DEF Terminate, Gone
<1>18. CASE NoSignal
  BY SizesAssumption, <1>18 DEF NoSignal
<1>19. CASE CheckIrq
  BY SizesAssumption, <1>19 DEF CheckIrq, ReadValueFile
<1>20. CASE SetFds
  BY SizesAssumption, <1>20 DEF SetFds
<1>21. CASE Sleep
  BY SizesAssumption, <1>21 DEF Sleep
<1>22. CASE SelectReturns
  BY SizesAssumption, <1>22 DEF SelectReturns
<1>23. CASE Signal
  BY SizesAssumption, <1>23 DEF Signal
<1>24. CASE StdinArrives
  BY SizesAssumption, <1>24 DEF StdinArrives
<1>25. CASE Die
  BY SizesAssumption, <1>25 DEF Die, Gone
<1>26. CASE UNCHANGED vars
  BY SizesAssumption, <1>26 DEF vars
<1> QED
  BY <1>1, <1>2, <1>3, <1>4, <1>5, <1>6, <1>7, <1>8, <1>9, <1>10, <1>11, <1>12,
     <1>13, <1>14, <1>15, <1>16, <1>17, <1>18, <1>19, <1>20, <1>21, <1>22, <1>23,
     <1>24, <1>25, <1>26
     DEF Next, ZpuNext, CpuStep

LEMMA SleepStep == SleepInv /\ [Next]_vars => SleepInv'
  BY TypeStep, LineStep, QuietStep, FdsStep DEF SleepInv

\* The event is there, or the line is down and the putc under way will raise it.
LEMMA SleepSafe == SleepInv => SleepIsSafe
  BY DEF SleepInv, TypeInv, TypeOK, LineInv, QuietInv, FdsInv, Announced, SleepIsSafe, Looping

-----------------------------------------------------------------------------
(* The put loop and the firmware.                                          *)

\* What is on its way into the TX FIFO: each byte of the RX FIFO, and each that was
\* read from stdin, is answered with at most R bytes.
Due(R) == tx + owed + R * (rx + left)

\* When the loop reads stdin the TX FIFO was seen empty, so that no more is due than
\* for the byte in hand and a full RX FIFO; M bytes are read.
RoomInv(R, M) ==
    /\ zpc = "irq" => owed < R
    /\ owed <= R
    /\ cpc # "put" => left = 0
    /\ cpc = "put" => left > 0
    /\ cpc \in Absent \cup Connecting => ~rfds
    /\ ~missed /\ ~term =>
          /\ cpc = "top" /\ ~efds /\ rfds => Due(R) <= R + R * (RxSize - 1)
          /\ cpc = "stdin" /\ rfds => Due(R) <= R + R * (RxSize - 1)
          /\ cpc = "put" => Due(R) <= R + R * (RxSize - 1) + R * M

\* The largest answer is R bytes, the largest read M.
Sizes(R, M) ==
    R \in Nat /\ M \in Nat /\ Replies \subseteq 1 .. R /\ ReadSizes \subseteq 1 .. M

LEMMA InitRoom == ASSUME NEW R, NEW M, Sizes(R, M), Init PROVE RoomInv(R, M)
<1>1. zpc = "run" /\ owed = 0 /\ cpc = "down" /\ left = 0 /\ ~rfds /\ 0 <= R
  BY DEF Init, Sizes
<1> QED
  BY <1>1 DEF RoomInv

\* The product, without its laws.
LEMMA Times ==
    /\ \A R, m \in Nat : R * m \in Nat
    /\ \A R, m, n \in Nat : R * (m + n) = R * m + R * n /\ (m <= n => R * m <= R * n)
    /\ \A R \in Nat : \A m \in Nat \ {0} : R * (m - 1) = R * m - R
  OBVIOUS

\* A step of the ZPU answers for what it takes.
LEMMA DueKept ==
    ASSUME NEW R \in Nat, Replies \subseteq 1 .. R, TypeInv, cpc \notin Absent, ZpuNext,
           owed <= R
    PROVE  Due(R)' \in Nat /\ Due(R)' <= Due(R)
<1>1. /\ tx \in Nat /\ owed \in Nat /\ rx \in Nat /\ left \in Nat /\ ~noflow
      /\ TxSize \in Nat /\ UNCHANGED left
  BY SizesAssumption
     DEF TypeInv, TypeOK, ZpuNext, Getc, Putc, PutcFull, RaiseFull, Unstall, Raise, loop
<1>2. CASE Getc
  <2>1. /\ rx > 0 /\ rx' = rx - 1 /\ owed' \in 1 .. R /\ owed = 0 /\ UNCHANGED <<tx, left>>
    BY <1>2 DEF Getc, loop
  <2> DEFINE m == rx + left
  <2>2. m \in Nat \ {0} /\ rx' + left' = m - 1
    BY <1>1, <2>1
  <2>3. R * (m - 1) = R * m - R /\ R * m \in Nat /\ R * (m - 1) \in Nat
    BY <2>2, Times
  <2>4. Due(R) = tx + owed + R * m /\ Due(R)' = tx' + owed' + R * (m - 1)
    BY <2>2 DEF Due
  <2> HIDE DEF m
  <2> QED
    BY <1>1, <2>1, <2>3, <2>4
<1>3. CASE Putc \/ Unstall
  <2>1. tx' = tx + 1 /\ owed' = owed - 1 /\ owed > 0 /\ UNCHANGED <<rx, left>>
    <3>1. tx < TxSize - 1 /\ owed > 0
      BY <1>1, <1>3 DEF Putc, Unstall, TypeInv
    <3> QED
      BY <1>1, <1>3, <3>1, Stored DEF Putc, Unstall, loop
  <2>2. R * (rx + left) \in Nat
    BY <1>1, Times
  <2>3. Due(R) = tx + owed + R * (rx + left) /\ Due(R)' = tx' + owed' + R * (rx + left)
    BY <2>1 DEF Due
  <2> QED
    BY <1>1, <2>1, <2>2, <2>3
<1>4. CASE PutcFull \/ RaiseFull \/ Raise
  <2>1. UNCHANGED <<tx, owed, rx, left>>
    BY <1>4 DEF PutcFull, RaiseFull, Raise, loop
  <2>2. R * (rx + left) \in Nat /\ Due(R)' = Due(R)
    BY <1>1, <2>1, Times DEF Due
  <2> QED
    BY <1>1, <2>2 DEF Due
<1> QED
  BY <1>2, <1>3, <1>4 DEF ZpuNext

\* A TX FIFO of which at most R is due for the byte in hand, an RX FIFO, nothing read.
LEMMA FewDue ==
    ASSUME NEW R \in Nat, TypeInv, left = 0, tx + owed <= R
    PROVE  Due(R) <= R + R * (RxSize - 1)
<1>1. /\ tx \in Nat /\ owed \in Nat /\ rx \in Nat /\ RxSize - 1 \in Nat
      /\ rx <= RxSize - 1 /\ rx + left = rx
  BY SizesAssumption DEF TypeInv, TypeOK
<1>2. R * rx <= R * (RxSize - 1) /\ R * rx \in Nat /\ R * (RxSize - 1) \in Nat
  BY <1>1, Times
<1> QED
  BY <1>1, <1>2 DEF Due

LEMMA RoomStep ==
    ASSUME NEW R, NEW M, Sizes(R, M), SleepInv, RoomInv(R, M), [Next]_vars
    PROVE  RoomInv(R, M)'
<1>1. R \in Nat /\ M \in Nat /\ Replies \subseteq 1 .. R /\ ReadSizes \subseteq 1 .. M
  BY DEF Sizes
<1>2. TypeInv /\ TypeInv'
  BY TypeStep DEF SleepInv
<1>3. owed \in Nat /\ owed <= R /\ rx \in Nat /\ left \in Nat
  BY <1>2 DEF RoomInv, TypeInv, TypeOK
\* The bounds are numbers.
<1>4. Due(R) \in Nat /\ R * (RxSize - 1) \in Nat /\ R * M \in Nat
  <2>1. rx + left \in Nat /\ RxSize - 1 \in Nat
    BY <1>3, SizesAssumption
  <2>2. R * (rx + left) \in Nat /\ R * (RxSize - 1) \in Nat /\ R * M \in Nat
    BY <1>1, <2>1, Times
  <2> QED
    BY <1>2, <2>2 DEF Due, TypeInv, TypeOK
<1> DEFINE full == R + R * (RxSize - 1)
           more == R * M
<1>5. full \in Nat /\ more \in Nat
  BY <1>1, <1>4
<1> HIDE DEF full, more
\* What holds of the ZPU.
<1>6. CASE ZpuNext
  <2>1. (zpc' = "irq" => owed' < R) /\ owed' <= R
    <3>1. CASE Getc
      BY <1>1, <3>1 DEF Getc, RoomInv
    <3>2. CASE Putc
      BY <1>1, <1>3, <3>2 DEF Putc
    <3>3. CASE Unstall
      BY <1>1, <1>3, <3>3 DEF Unstall
    <3>4. CASE PutcFull \/ RaiseFull \/ Raise
      BY <1>3, <3>4 DEF PutcFull, RaiseFull, Raise
    <3> QED
      BY <1>6, <3>1, <3>2, <3>3, <3>4 DEF ZpuNext
  <2>2. UNCHANGED <<cpc, left, efds, rfds, term, missed>>
    BY <1>6 DEF ZpuNext, Getc, Putc, PutcFull, RaiseFull, Unstall, Raise, loop
  <2>3. CASE cpc \in Absent
    BY <2>1, <2>2, <2>3 DEF RoomInv, Connecting
  <2>4. CASE cpc \notin Absent
    <3>1. Due(R)' \in Nat /\ Due(R)' <= Due(R)
      BY <1>1, <1>2, <1>3, <1>6, <2>4, DueKept
    <3>2. ~missed /\ ~term =>
            /\ cpc = "top" /\ ~efds /\ rfds => Due(R)' <= full
            /\ cpc = "stdin" /\ rfds => Due(R)' <= full
            /\ cpc = "put" => Due(R)' <= full + more
      BY <1>4, <1>5, <3>1 DEF RoomInv, full, more
    <3> QED
      BY <2>1, <2>2, <3>2 DEF RoomInv, full, more
  <2> QED
    BY <2>3, <2>4
\* The loop comes to its reads with little due.
<1>7. CASE GetHead
  <2>1. /\ cpc' \in {"stdin", "get_tail"} /\ (cpc' = "stdin" => tx = 0)
        /\ UNCHANGED <<zpc, tx, owed, rx, left, rfds>> /\ cpc = "get_head"
    BY <1>7 DEF GetHead, zpu
  <2>2. left = 0
    BY <2>1 DEF RoomInv
  <2>3. cpc' = "stdin" => Due(R)' <= R + R * (RxSize - 1)
    <3> SUFFICES ASSUME tx = 0 PROVE Due(R)' <= R + R * (RxSize - 1)
      BY <2>1
    <3>1. tx + owed <= R
      BY <1>3
    <3> QED
      BY <1>1, <1>2, <2>1, <2>2, <3>1, FewDue DEF Due
  <2> QED
    BY <2>1, <2>2, <2>3 DEF RoomInv, Connecting
<1>8. CASE SelectReturns
  <2>1. /\ cpc' = "top" /\ cpc \in {"enter_select", "select"} /\ efds' = (efds /\ latched)
        /\ UNCHANGED <<zpc, tx, owed, rx, left, term, missed>>
    BY <1>8 DEF SelectReturns, zpu
  <2>2. left = 0
    BY <2>1 DEF RoomInv
  <2>3. ASSUME ~missed, ~term, ~efds' PROVE Due(R)' <= R + R * (RxSize - 1)
    <3>1. efds /\ ~latched /\ ~irq
      BY <2>1, <2>3 DEF SleepInv, FdsInv, LineInv, Looping
    <3>2. tx > 0 => tx = 1 /\ zpc = "irq"
      BY <2>1, <2>3, <3>1 DEF SleepInv, QuietInv, Announced
    <3>3. tx + owed <= R
      BY <1>1, <1>2, <1>3, <3>2 DEF RoomInv, TypeInv, TypeOK
    <3> QED
      BY <1>1, <1>2, <2>1, <2>2, <3>3, FewDue DEF Due
  <2> QED
    BY <2>1, <2>2, <2>3 DEF RoomInv, Connecting
\* It reads, and puts what it has read.
<1>9. CASE ReadStdin
  <2>1. /\ cpc = "stdin" /\ left = 0 /\ UNCHANGED <<zpc, tx, owed, rx, rfds, term, missed>>
    BY <1>9 DEF ReadStdin, zpu, RoomInv
  <2>2. CASE cpc' = "check_term"
    <3>1. left' = 0
      BY <1>9, <2>1, <2>2 DEF ReadStdin
    <3> QED
      BY <2>1, <2>2, <3>1 DEF RoomInv, Connecting
  <2>3. CASE rfds /\ left' \in ReadSizes /\ cpc' = "put"
    <3>1. left' \in Nat /\ left' > 0 /\ left' <= M /\ rx + left = rx
      BY <1>1, <1>3, <2>1, <2>3
    <3>2. R * (rx + left') = R * rx + R * left' /\ R * left' <= R * M
          /\ R * left' \in Nat /\ R * rx \in Nat
      BY <1>1, <1>3, <3>1, Times
    <3>3. Due(R) = tx + owed + R * rx /\ Due(R)' = tx + owed + R * (rx + left')
      BY <2>1, <3>1 DEF Due
    <3>4. Due(R)' <= Due(R) + R * M /\ Due(R)' \in Nat
      BY <1>2, <1>3, <1>4, <3>2, <3>3 DEF TypeInv, TypeOK
    <3>5. ~missed /\ ~term => Due(R)' <= full + more
      BY <1>4, <1>5, <2>1, <2>3, <3>4 DEF RoomInv, full, more
    <3> QED
      BY <2>1, <2>3, <3>1, <3>5 DEF RoomInv, Connecting, full, more
  <2> QED
    BY <1>9, <2>2, <2>3 DEF ReadStdin
<1>10. CASE Put
  <2>1. PICK n \in 1 .. left :
          /\ rx' = rx + n /\ left' = left - n
          /\ cpc' = IF left = n THEN "check_term" ELSE "put"
    BY <1>10 DEF Put
  <2>2. cpc = "put" /\ UNCHANGED <<zpc, tx, owed, rfds, term, missed>>
    BY <1>10 DEF Put
  <2>3. rx' + left' = rx + left
    BY <1>3, <2>1
  <2>4. Due(R)' = Due(R)
    BY <2>2, <2>3 DEF Due
  <2>5. /\ cpc' \in {"put", "check_term"} /\ (cpc' # "put" => left' = 0)
        /\ cpc' = "put" => left' > 0
    BY <1>3, <2>1
  <2> QED
    BY <2>2, <2>4, <2>5 DEF RoomInv, Connecting
\* The rest leaves what is due alone.
<1>11. CASE InitFlow \/ InitHead \/ InitTail \/ InitDrain
  <2>1. /\ cpc \in Absent \cup Connecting /\ cpc' \in Connecting \cup {"top"}
        /\ UNCHANGED <<zpc, owed, left, rfds>>
    BY <1>11 DEF InitFlow, InitHead, InitTail, InitDrain, Connecting, zpu
  <2> QED
    BY <2>1 DEF RoomInv, Connecting
<1>12. CASE Top
  <2>1. /\ cpc = "top" /\ cpc' = (IF efds THEN "get_head" ELSE "stdin")
        /\ UNCHANGED <<zpc, tx, owed, rx, left, rfds, term, missed>>
    BY <1>12 DEF Top, zpu
  <2> QED
    BY <2>1 DEF RoomInv, Connecting, Due
<1>13. CASE GetTail
  <2>1. /\ cpc = "get_tail" /\ cpc' \in {"stdin", "get_head"} /\ (cpc' = "stdin" => term)
        /\ UNCHANGED <<zpc, owed, left, rfds, term>>
    BY <1>13 DEF GetTail
  <2> QED
    BY <2>1 DEF RoomInv, Connecting
<1>14. CASE NoSignal \/ CheckIrq \/ SetFds \/ Sleep
  <2>1. /\ cpc \in {"check_term", "check_irq", "enter_select"}
        /\ cpc' \in {"top", "check_irq", "enter_select", "select"} /\ (cpc' = "top" => efds')
        /\ UNCHANGED <<zpc, owed, left>>
    BY <1>14 DEF NoSignal, CheckIrq, SetFds, Sleep, zpu
  <2> QED
    BY <2>1 DEF RoomInv, Connecting
<1>15. CASE EndOfFile \/ Terminate \/ Die
  <2>1. cpc' \in Absent /\ left' = 0 /\ ~rfds' /\ UNCHANGED <<zpc, owed>>
    BY <1>15 DEF EndOfFile, Terminate, Die, Gone, zpu
  <2> QED
    BY <2>1 DEF RoomInv
<1>16. CASE Signal
  <2>1. /\ term' = TRUE /\ cpc \in Looping /\ UNCHANGED <<zpc, owed, left>>
    BY <1>16 DEF Signal, zpu
  <2>2. cpc' = cpc \/ (cpc = "select" /\ cpc' = "top")
    BY <1>16 DEF Signal
  <2> QED
    BY <2>1, <2>2 DEF RoomInv, Connecting, Looping
<1>17. CASE StdinArrives \/ UNCHANGED vars
  <2>1. UNCHANGED <<zpc, tx, owed, rx, left, cpc, efds, rfds, term, missed>>
    BY <1>17 DEF StdinArrives, vars, zpu, loop
  <2> QED
    BY <2>1 DEF RoomInv, Due
<1> QED
  BY <1>6, <1>7, <1>8, <1>9, <1>10, <1>11, <1>12, <1>13, <1>14, <1>15, <1>16, <1>17
     DEF Next, CpuStep

\* With both FIFOs full more would be due than can be.
LEMMA RoomSafe ==
    ASSUME NEW R, NEW M, Sizes(R, M), R * M < TxSize, TypeInv, RoomInv(R, M)
    PROVE  NoEmbrace
<1> SUFFICES ASSUME Embrace, ~missed, ~term PROVE FALSE
  BY DEF NoEmbrace
<1>1. /\ R \in Nat /\ M \in Nat /\ RxSize - 1 \in Nat /\ TxSize \in Nat /\ left \in Nat
      /\ rx = RxSize - 1 /\ tx = TxSize - 1 /\ owed \in Nat /\ owed > 0 /\ cpc = "put"
  BY SizesAssumption DEF Sizes, Embrace, TypeInv, TypeOK
<1>2. Due(R) <= R + R * (RxSize - 1) + R * M
  BY <1>1 DEF RoomInv
<1>3. left > 0
  BY <1>1 DEF RoomInv
<1>4. R * (RxSize - 1 + left) = R * (RxSize - 1) + R * left /\ R * 1 <= R * left
  BY <1>1, <1>3, Times
<1>5. R * 1 = R /\ R * (RxSize - 1) \in Nat /\ R * left \in Nat /\ R * M \in Nat
  BY <1>1, Times
<1>6. Due(R) = TxSize - 1 + owed + R * (RxSize - 1) + R * left
  BY <1>1, <1>4, <1>5 DEF Due
<1>7. TxSize <= R * M
  BY <1>1, <1>2, <1>4, <1>5, <1>6
<1> QED
  BY <1>1, <1>5, <1>7

-----------------------------------------------------------------------------
\* Whatever the sizes and the answers, a line that is up has its event, and at most
\* one byte has come that is not announced yet.
THEOREM ConnectInvariant == Spec => []SleepInv
<1>1. Init => SleepInv
  BY InitSleepInv
<1>2. SleepInv /\ [Next]_vars => SleepInv'
  BY SleepStep
<1> QED
  BY <1>1, <1>2, PTL DEF Spec

\* The counts of bytes stay within their rings, whatever the firmware answers and
\* whenever a program is killed (zpu_fifo_init and zpu_fifo_get of tszpufifo.c).
THEOREM TypesAreKept == Spec => []TypeOK
<1>1. SleepInv => TypeOK
  BY DEF SleepInv, TypeInv
<1> QED
  BY <1>1, ConnectInvariant, PTL

\* The loop sleeps in select() only if an event will wake it for every byte that
\* is in the TX FIFO (the loop of tszpuctl --connect and putc of zpu/fifo.c).
THEOREM SleepsSafely == Spec => []SleepIsSafe
  BY SleepSafe, ConnectInvariant, PTL

\* The firmware and the put loop of tszpuctl --connect do not wait for each other
\* when the answers to one read from stdin fit in the TX FIFO: of zpu_demo 14 bytes
\* to each of 16, which are 224 of the 255 there is room for.
THEOREM NeverEmbraces ==
    ASSUME NEW R, NEW M, Sizes(R, M), R * M < TxSize
    PROVE  Spec => []NoEmbrace
<1> DEFINE I == SleepInv /\ RoomInv(R, M)
<1>1. Init => I
  BY InitSleepInv, InitRoom
<1>2. I /\ [Next]_vars => I'
  BY SleepStep, RoomStep
<1>3. I => NoEmbrace
  BY RoomSafe DEF SleepInv
<1> QED
  BY <1>1, <1>2, <1>3, PTL DEF Spec
=============================================================================

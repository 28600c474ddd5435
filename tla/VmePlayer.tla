------------------------------ MODULE VmePlayer -----------------------------
(***************************************************************************)
(* The JTAG player: ispVM of src/src/ispvm.c, which plays a VME file into  *)
(* the devices, and main of src/src/load_fpga.c around it.                 *)
(*                                                                         *)
(* A file is a sequence of opcodes with their operands; one step plays one *)
(* opcode.  What the devices answer is a choice, made where it is compared.*)
(* The bytes of the data are left to VmeData, the port to Tap, the buffers *)
(* to VmeMemory.                                                           *)
(***************************************************************************)
EXTENDS Tap, VmeMemory

CONSTANTS
    Images,     \* the files that may be given
    Tries       \* times a failed read of a XILINX device is repeated, 30

\* The results of ispVM, and of the last opcode that had one.
Ok == 0
VME_VERIFICATION_FAILURE == -1
VME_FILE_READ_FAILURE == -2
VME_VERSION_FAILURE == -3
VME_INVALID_FILE == -4
SECUREHEAP == 96

ASSUME TriesAssumption == Tries \in Nat \ {0}

VARIABLES
    image,                      \* the file given
    file,                       \* what of it was not read yet
    heap, g_iHeapCounter,       \* the loop kept by REPEAT
    intel, g_usIntelDataIndex,  \* the commands kept by LCOUNT
    g_usDataType,               \* HEAP_IN and LHEAP_IN
    g_usFlowControl,            \* a set of flags
    port, mem,
    g_usHead, g_usTail,         \* bits of header and trailer, of IR and DR
    g_ucEnd,                    \* state after a scan of IR, of DR
    g_usMaxSize, g_cVendor,
    loops, shift,               \* g_usRepeatLoops, g_usShiftValue
    stack,                      \* the loops that are played, outermost first
    pc, scan, tries, ret,       \* cRetCode
    taken,                      \* pins of the JTAG port that are exported
    reset,                      \* times the FPGA was reset
    \* history
    mid,                        \* the last frame of a cascade is to come
    miss,                       \* comparisons that failed and were not repeated
    stale,                      \* a poll compared what a capture did not renew
    repeated,                   \* a read was repeated for XILINX
    lapses                      \* what the file did that the buffers do not allow for

sources == <<file, heap, g_iHeapCounter, intel, g_usIntelDataIndex>>
settings == <<g_usHead, g_usTail, g_ucEnd, g_usMaxSize, g_cVendor>>
loop == <<loops, shift, stack>>
board == <<taken, reset>>
history == <<mid, miss, stale, repeated, lapses>>
control == <<pc, scan, tries, ret>>
flags == <<g_usDataType, g_usFlowControl>>
vars == <<image, sources, flags, port, mem, settings, loop, board, control,
          history>>

JtagPins == <<"TMS", "TCK", "TDO", "TDI">>
Scans == {"SIR", "SDR", "XSDR"}
NoScan == [op |-> "none"]
Reg(op) == IF op = "SIR" THEN "IR" ELSE "DR"

\* The flags of g_usDataType tell the source of the opcodes, the others are those of
\* g_usFlowControl.
Has(flag) ==
    flag \in (IF flag \in {"HEAP_IN", "LHEAP_IN"} THEN g_usDataType ELSE g_usFlowControl)
Innermost == stack[Len(stack)]
Outer == SubSeq(stack, 1, Len(stack) - 1)
Playing(kind) == \E i \in 1 .. Len(stack) : stack[i].kind = kind

-----------------------------------------------------------------------------
\* GetByte: the next opcode comes from the loop, else from the intelligent
\* commands, else from the file; past the end of what it reads it gives 0xFF.
End == [op |-> "0xFF"]
Unset == [op |-> "?"]       \* of a buffer, and never stored
Ops == ToSet(image.code) \cup {End, Unset}
At(s, i, past) == IF i <= Len(s) THEN s[i] ELSE past
Ahead(n) ==
    IF Has("HEAP_IN")
    THEN At(heap, g_iHeapCounter + n,
            IF g_iHeapCounter + n > Len(heap) + 1 THEN End ELSE Unset)
    ELSE IF Has("LHEAP_IN") THEN At(intel, g_usIntelDataIndex + n, End)
    ELSE At(file, n, End)
Opcode == Ahead(1)

\* The sources after the opcode and n more of it.
InHeap(n) == IF Has("HEAP_IN") THEN g_iHeapCounter + 1 + n ELSE g_iHeapCounter
InIntel(n) ==
    IF Has("LHEAP_IN") /\ ~Has("HEAP_IN") THEN g_usIntelDataIndex + 1 + n
    ELSE g_usIntelDataIndex
InFile(n) ==
    IF Has("HEAP_IN") \/ Has("LHEAP_IN") THEN file ELSE SubSeq(file, n + 2, Len(file))
Consumed(n) ==
    /\ file' = InFile(n)
    /\ g_iHeapCounter' = InHeap(n) /\ g_usIntelDataIndex' = InIntel(n)
Read == Consumed(0) /\ UNCHANGED <<heap, intel>>

\* The n opcodes after this one, which a loop takes from its source.
Body(n) == [i \in 1 .. n |-> Ahead(1 + i)]

Is(ops) == pc = "code" /\ Opcode.op \in ops
Return(r) == ret' = r /\ pc' = "return" /\ UNCHANGED <<scan, tries>>
\* What was called returned r: anything but 0 is returned at once.
Result(r) == ret' = r /\ pc' = (IF r = Ok THEN "code" ELSE "return")

-----------------------------------------------------------------------------
\* Start of ispVM.

Init ==
    /\ image \in Images
    /\ file = image.code
    /\ heap = <<>> /\ g_iHeapCounter = 0
    /\ intel = <<>> /\ g_usIntelDataIndex = 0
    /\ g_usDataType = {} /\ g_usFlowControl = {}
    /\ port = [cur |-> "RESET", tap |-> TapStates, stray |-> TRUE,
               due |-> 0, fresh |-> FALSE]
    /\ mem = NoMemory
    /\ g_usHead = [IR |-> 0, DR |-> 0] /\ g_usTail = [IR |-> 0, DR |-> 0]
    /\ g_ucEnd = [IR |-> "IRPAUSE", DR |-> "DRPAUSE"]
    /\ g_usMaxSize = 0 /\ g_cVendor = "LATTICE"
    /\ loops = 0 /\ shift = 0 /\ stack = <<>>
    /\ pc = "open" /\ scan = NoScan /\ tries = 0 /\ ret = Ok
    /\ taken = {} /\ reset = 0
    /\ mid = FALSE /\ miss = {} /\ stale = {} /\ repeated = FALSE /\ lapses = {}

play == <<image, sources, flags, port, mem, settings, loop, scan, tries,
          history>>

\* A file that is not there is an error; an empty one, or a pipe that gave
\* nothing, fails an assertion of memstore, which reads on for ever if it cannot.
Open ==
    /\ pc = "open"
    /\ CASE image.kind = "missing" -> pc' = "exit" /\ ret' = VME_FILE_READ_FAILURE
         [] image.kind = "empty" -> pc' = "abort" /\ UNCHANGED ret
         [] image.kind = "unreadable" -> pc' = "spin" /\ UNCHANGED ret
         [] OTHER -> pc' = "init" /\ UNCHANGED ret
    /\ UNCHANGED <<play, board>>

\* The pins of the port are exported; one that cannot be fails an assertion.
hardware_init ==
    /\ pc = "init"
    /\ \/ taken' = ToSet(JtagPins) /\ pc' = "version"
       \/ \E n \in 0 .. 4 : taken' = ToSet(SubSeq(JtagPins, 1, n)) /\ pc' = "abort"
    /\ UNCHANGED <<play, reset, ret>>

\* The CRC a file may give is read and not compared.
CheckVersion ==
    /\ pc = "version"
    /\ IF image.kind = "version" THEN pc' = "exit" /\ ret' = VME_VERSION_FAILURE
       ELSE pc' = "start" /\ ret' = Ok
    /\ UNCHANGED <<play, board>>

\* ispVMStart, and the mark that says whether data is compressed.
ispVMStart ==
    /\ pc = "start"
    /\ port' = Move(port, "RESET")
    /\ IF Opcode.op = "MARK" THEN pc' = "code" /\ UNCHANGED ret
       ELSE pc' = "return" /\ ret' = VME_INVALID_FILE
    /\ Read
    /\ UNCHANGED <<image, flags, mem, settings, loop, scan, tries, board,
                   history>>
-----------------------------------------------------------------------------
\* The opcodes of ispVMCode.

\* A poll that pauses where it is takes the way by the capture.
Polls(to) == Has("LHEAP_IN") /\ to = "DRPAUSE" /\ port.cur = to
\* Mutant: the pause of a poll is taken for one like any other.
Bug_StateTo(to) == Move(port, to)
StateTo(to) == IF Polls(to) THEN Move(Move(port, "DRCAPTURE"), to) ELSE Move(port, to)
State ==
    /\ Is({"STATE"})
    /\ port' = StateTo(Opcode.to)
    /\ Read
    /\ UNCHANGED <<image, flags, mem, settings, loop, board, control, history>>

\* The move to the shift state, with the header before the first frame.
Enter(op) ==
    IF op = "SIR"
    THEN IF Has("CASCADE") THEN Move(port, "SHIFTIR")
         ELSE Header(Move(Move(port, "IRPAUSE"), "SHIFTIR"), g_usHead.IR)
    ELSE IF port.cur = "SHIFTDR" THEN port
    ELSE IF ~Has("CASCADE")
    THEN Header(Move(Move(port, "DRPAUSE"), "SHIFTDR"), g_usHead.DR)
    ELSE IF port.cur = "DRPAUSE" THEN Header(Move(port, "SHIFTDR"), g_usHead.DR)
    ELSE Move(port, "SHIFTDR")

\* The trailer and the move to the end state, after the last frame only.
Leave(op) ==
    IF Has("CASCADE") THEN port
    ELSE Move(Trailer(port, g_usTail[Reg(op)]), g_ucEnd[Reg(op)])

Dynamic(t) == "DMASK" \in ToSet(t.rows)
Compared(t) == {"TDO", "XTDO"} \cap ToSet(t.rows) # {} /\ ~Dynamic(t)

\* The bits the scan asks for: a header before its first frame, a trailer after
\* its last one, all of it twice for dynamic I/O.
Asked(t) ==
    LET head == g_usHead[Reg(t.op)]
        tail == g_usTail[Reg(t.op)]
    IN  t.size + (IF mid THEN 0 ELSE head) + (IF Has("CASCADE") THEN 0 ELSE tail)
               + (IF Dynamic(t) THEN head + t.size + tail ELSE 0)

\* Data that varies from round to round is not in the loop: it comes from what
\* the loop itself came from, which has that of each round in turn.
Variable(t) ==
    IF t.var /\ Has("HEAP_IN")
    THEN /\ g_iHeapCounter' = g_iHeapCounter + 1
         /\ IF Has("LHEAP_IN")
            THEN g_usIntelDataIndex' = g_usIntelDataIndex + 1 /\ UNCHANGED file
            ELSE file' = SubSeq(file, 2, Len(file)) /\ UNCHANGED g_usIntelDataIndex
    ELSE Consumed(0)

\* ispVMShift up to its data, with ispVMDataCode, which uses up the shifts.
ispVMShift ==
    LET t == Opcode
    IN  /\ Is(Scans)
        /\ port' = [Enter(t.op) EXCEPT !.due = @ + Asked(t)]
        /\ mem' = ispVMDataCode(mem, t.rows, g_usMaxSize, t.size)
        /\ mid' = IF t.op = "SIR" THEN mid ELSE Has("CASCADE")
        /\ g_usFlowControl' = g_usFlowControl \
             (IF "TDI" \in ToSet(t.rows) THEN {"SHIFTLEFT", "SHIFTRIGHT"} ELSE {})
        /\ IF t.sound
           THEN scan' = t /\ ret' = Ok /\ pc' = "data" /\ UNCHANGED tries
           ELSE Return(VME_INVALID_FILE)
        /\ Variable(t)
        /\ UNCHANGED <<image, heap, intel, g_usDataType, settings, loop, board,
                       miss, stale, repeated, lapses>>

Sent == ispVMSend(port, scan.size, Has("CASCADE"))

Send ==
    /\ pc = "data" /\ ~Dynamic(scan) /\ ~Compared(scan)
    /\ port' = Sent
    /\ pc' = "leave"
    /\ UNCHANGED <<image, sources, flags, mem, settings, loop, board, scan,
                   tries, ret, history>>

\* The comparison, when VUES asked to go on if it fails and to stop if it does
\* not.
Stop == 1
Verdict(wrong) ==
    IF Has("VERIFYUES") THEN IF wrong THEN Ok ELSE Stop
    ELSE IF wrong THEN VME_VERIFICATION_FAILURE ELSE Ok

\* What a poll compares, and what no capture has renewed since the last bit was
\* compared; a comparison uses up what a capture brought.
Outdated(by) ==
    IF Has("LHEAP_IN") /\ scan.op # "SIR" /\ ~port.stray /\ ~port.fresh
    THEN {by} ELSE {}
UsedUp(p) == [p EXCEPT !.fresh = FALSE]

\* Whether the data read is what the file wants is up to the devices.
ispVMRead ==
    /\ pc = "data" /\ Compared(scan)
    /\ stale' = stale \cup Outdated("read")
    /\ port' = UsedUp(Sent)
    /\ g_usFlowControl' = g_usFlowControl \ {"VERIFYUES"}
    /\ \E wrong \in BOOLEAN :
        /\ ret' = Verdict(wrong)
        /\ miss' = miss \cup (IF Has("VERIFYUES") /\ wrong THEN {"VUES"} ELSE {})
        /\ IF Verdict(wrong) = VME_VERIFICATION_FAILURE /\ g_cVendor = "XILINX"
           THEN pc' = "retry" /\ tries' = Tries
           ELSE pc' = "leave" /\ UNCHANGED tries
    /\ UNCHANGED <<image, sources, g_usDataType, mem, settings, loop, board,
                   scan, mid, repeated, lapses>>

\* A read of a XILINX device that failed is repeated, from where the read
\* before it left the controllers.
Retry ==
    LET read == Move(UsedUp(Sent), "DRPAUSE")
    IN  /\ pc = "retry"
        /\ stale' = stale \cup Outdated("retry")
        /\ \/ port' = UsedUp(Sent) /\ ret' = Ok /\ pc' = "leave" /\ tries' = 0
           \/ /\ port' = Move(Move(ispVMBypass(read, g_usTail.DR), g_ucEnd.DR), "IDLE")
              /\ tries' = tries - 1
              /\ pc' = (IF tries = 1 THEN "leave" ELSE "retry")
              /\ UNCHANGED ret
        /\ repeated' = TRUE
        /\ UNCHANGED <<image, sources, flags, mem, settings, loop, board, scan,
                       mid, miss, lapses>>

\* Dynamic I/O: what was read, less what DMASK masks, is sent back in a second
\* scan.
ispVMReadandSave ==
    /\ pc = "data" /\ Dynamic(scan)
    /\ port' = Move(Trailer(ispVMSend(port, scan.size, FALSE), g_usTail.DR), "DRPAUSE")
    /\ mem' = TransferIn(mem, scan.size)
    /\ pc' = "back"
    /\ UNCHANGED <<image, sources, flags, settings, loop, board, scan, tries,
                   ret, history>>
SendBack ==
    /\ pc = "back"
    /\ port' = ispVMSend(Header(Move(port, "SHIFTDR"), g_usHead.DR), scan.size,
                         Has("CASCADE"))
    /\ pc' = "leave"
    /\ UNCHANGED <<image, sources, flags, mem, settings, loop, board, scan,
                   tries, ret, history>>

\* The end of ispVMShift.
LeaveShift ==
    /\ pc = "leave"
    /\ port' = UsedUp(Leave(scan.op))
    /\ mem' = IF scan.op = "SIR" THEN mem ELSE TransferOut(mem, scan.size)
    /\ miss' = miss \cup (IF ret < 0 THEN {"read"} ELSE {})
    /\ scan' = NoScan /\ Result(ret)
    /\ UNCHANGED <<image, sources, flags, settings, loop, board, tries, mid,
                   stale, repeated, lapses>>

TCK ==
    /\ Is({"TCK"})
    /\ port' = ispVMClocks(port, Opcode.n)
    /\ Read
    /\ UNCHANGED <<image, flags, mem, settings, loop, board, control, history>>

ENDDR ==
    /\ Is({"ENDDR"}) /\ g_ucEnd' = [g_ucEnd EXCEPT !.DR = Opcode.to] /\ Read
    /\ UNCHANGED <<image, flags, port, mem, g_usHead, g_usTail, g_usMaxSize,
                   g_cVendor, loop, board, control, history>>

ENDIR ==
    /\ Is({"ENDIR"}) /\ g_ucEnd' = [g_ucEnd EXCEPT !.IR = Opcode.to] /\ Read
    /\ UNCHANGED <<image, flags, port, mem, g_usHead, g_usTail, g_usMaxSize,
                   g_cVendor, loop, board, control, history>>

\* A header or trailer: its length, and a buffer of its own for its data.
ispVMAmble ==
    /\ Is({"HIR", "TIR", "HDR", "TDR"})
    /\ LET t == Opcode
           reg == IF t.op \in {"HIR", "TIR"} THEN "IR" ELSE "DR"
           head == t.op \in {"HIR", "HDR"}
       IN  /\ g_usHead' = IF head THEN [g_usHead EXCEPT ![reg] = t.size] ELSE g_usHead
           /\ g_usTail' = IF head THEN g_usTail ELSE [g_usTail EXCEPT ![reg] = t.size]
           /\ mem' = IF t.size = 0 THEN mem
                     ELSE Touch(ispVMMemManager(mem, t.op, t.size), t.op, Bytes(t.size))
           /\ Result(IF t.size > 0 /\ ~t.sound THEN VME_INVALID_FILE ELSE Ok)
    /\ Read
    /\ UNCHANGED <<image, flags, port, g_ucEnd, g_usMaxSize, g_cVendor, loop,
                   board, scan, tries, history>>

\* The rows loaded before may be in buffers that are too small for what comes.
MEM ==
    /\ Is({"MEM"}) /\ g_usMaxSize' = Opcode.size /\ Read
    /\ lapses' = lapses \cup
         (IF Opcode.size > g_usMaxSize /\ mem.prev # 0 THEN {"grown"} ELSE {})
    /\ UNCHANGED <<image, flags, port, mem, g_usHead, g_usTail, g_ucEnd,
                   g_cVendor, loop, board, control, mid, miss, stale, repeated>>

VENDOR ==
    /\ Is({"VENDOR"}) /\ Read
    /\ g_cVendor' = IF Opcode.vendor \in {"LATTICE", "ALTERA", "XILINX"}
                    THEN Opcode.vendor ELSE g_cVendor
    /\ UNCHANGED <<image, flags, port, mem, g_usHead, g_usTail, g_ucEnd,
                   g_usMaxSize, loop, board, control, history>>

SETFLOW ==
    /\ Is({"SETFLOW"}) /\ Read
    /\ g_usFlowControl' = g_usFlowControl \cup Opcode.flags
    /\ UNCHANGED <<image, g_usDataType, port, mem, settings, loop, board,
                   control, history>>

RESETFLOW ==
    /\ Is({"RESETFLOW"}) /\ Read
    /\ g_usFlowControl' = g_usFlowControl \ Opcode.flags
    /\ UNCHANGED <<image, g_usDataType, port, mem, settings, loop, board,
                   control, history>>

SHR ==
    /\ Is({"SHR", "SHL"}) /\ Read
    /\ g_usFlowControl' = g_usFlowControl
         \cup {IF Opcode.op = "SHR" THEN "SHIFTRIGHT" ELSE "SHIFTLEFT"}
    /\ shift' = (loops * Opcode.step) % 2^16
    /\ UNCHANGED <<image, g_usDataType, port, mem, settings, loops, stack,
                   board, control, history>>

VUES ==
    /\ Is({"VUES"}) /\ Read
    /\ g_usFlowControl' = g_usFlowControl \cup {"VERIFYUES"}
    /\ UNCHANGED <<image, g_usDataType, port, mem, settings, loop, board,
                   control, history>>

\* Opcodes that only wait, set pins that the board lacks, or skip their text.
\* Memory that was never stored ("?") may hold one of them, the end of a loop or
\* no opcode; that it may hold a scan is left out.
Skipped ==
    /\ Is({"WAIT", "FREQUENCY", "COMMENT", "HEADER", "ispEN", "TRST", "?"}) /\ Read
    /\ UNCHANGED <<image, flags, port, mem, settings, loop, board, control,
                   history>>

\* A vector of LVDS pairs gets a buffer of its own.
ispVMProcessLVDS ==
    /\ Is({"LVDS"}) /\ Read
    /\ mem' = ispVMMemManager(mem, "LVDS", Opcode.size)
    /\ UNCHANGED <<image, flags, port, settings, loop, board, control, history>>

Invalid ==
    /\ Is({"0xFF", "?", "DATA"}) /\ Read
    /\ Return(VME_INVALID_FILE)
    /\ UNCHANGED <<image, flags, port, mem, settings, loop, board, history>>

\* ispVMDataSize, when its source ends within the number: every byte from there
\* on is 0xFF, whose top bit says that the number goes on.
ispVMDataSize ==
    /\ Is({"CUT"})
    /\ pc' = "spin"
    /\ UNCHANGED <<image, sources, flags, port, mem, settings, loop, board, scan,
                   tries, ret, history>>

-----------------------------------------------------------------------------
\* The loops.  There is one buffer and one flag for all the loops of a kind: one
\* that is begun inside another of its kind takes them away from it.
Nested(kind) == IF Playing(kind) THEN {"nested"} ELSE {}

\* What is compared with SECUREHEAP stays in cRetCode.
HEAP ==
    /\ Is({"HEAP"})
    /\ IF Opcode.secure
       THEN /\ heap' = [i \in 1 .. Opcode.size |-> Unset]
            /\ mem' = ispVMMemManager(mem, "HEAP", Opcode.size)
            /\ ret' = SECUREHEAP /\ UNCHANGED <<pc, scan, tries>>
       ELSE Return(VME_INVALID_FILE) /\ UNCHANGED <<heap, mem>>
    /\ Consumed(0)
    /\ lapses' = lapses \cup Nested("REPEAT")
    /\ UNCHANGED <<image, intel, flags, port, settings, loop, board, mid, miss,
                   stale, repeated>>

\* Mutant: the rounds of the loop before are counted on.
Bug_NewLoop == UNCHANGED loops /\ shift' = 0
NewLoop == loops' = 0 /\ shift' = 0

\* ispVMLoop up to its first round; inside a loop it copies what follows in the
\* buffer to its beginning, and finds no ENDLOOP at the end.  Without a HEAP
\* before it, it looks for the ENDLOOP below NULL.
REPEAT ==
    LET size == Len(heap)
        body == Body(size)
        frame == [kind |-> "REPEAT", left |-> Opcode.count,
                  total |-> Opcode.count, heap |-> FALSE, miss |-> {}]
    IN  /\ Is({"REPEAT"})
        /\ heap' = body
        /\ NewLoop
        /\ file' = InFile(size) /\ g_usIntelDataIndex' = InIntel(size)
        /\ IF size = 0 \/ Last(body).op # "ENDLOOP"
           THEN /\ \/ Return(VME_INVALID_FILE)
                   \/ size = 0 /\ pc' = "abort" /\ UNCHANGED <<scan, tries, ret>>
                /\ g_iHeapCounter' = InHeap(size)
                /\ UNCHANGED <<flags, stack>>
           ELSE /\ ret' = Ok
                /\ UNCHANGED <<pc, scan, tries>>
                /\ IF Opcode.count = 0
                   THEN /\ g_usDataType' = g_usDataType \ {"HEAP_IN"}
                        /\ g_usFlowControl' = g_usFlowControl \ {"REPEATLOOP"}
                        /\ g_iHeapCounter' = InHeap(size)
                        /\ UNCHANGED stack
                   ELSE /\ g_usDataType' = g_usDataType \cup {"HEAP_IN"}
                        /\ g_usFlowControl' = g_usFlowControl \cup {"REPEATLOOP"}
                        /\ g_iHeapCounter' = 0
                        /\ stack' = Append(stack, frame)
        /\ lapses' = lapses \cup Nested("REPEAT")
        /\ UNCHANGED <<image, intel, port, mem, settings, board, mid, miss, stale,
                       repeated>>

\* The commands that LCOUNT keeps.  Inside of commands it copies them from the
\* buffer it has just allocated, which nothing was stored in.
Commands(n) ==
    IF Has("LHEAP_IN") /\ ~Has("HEAP_IN")
    THEN [i \in 1 .. n |-> IF g_usIntelDataIndex + 1 + i > n THEN End ELSE Unset]
    ELSE Body(n)

\* ispVMLCOUNT up to its first round.
LCOUNT ==
    LET frame == [kind |-> "LCOUNT", left |-> Opcode.count,
                  total |-> Opcode.count, heap |-> Has("HEAP_IN"), miss |-> miss]
        none == Opcode.count = 0
    IN  /\ Is({"LCOUNT"})
        /\ intel' = Commands(Opcode.size)
        /\ mem' = ispVMMemManager(mem, "LHEAP", Opcode.size)
        /\ ret' = Ok
        /\ IF none THEN g_usDataType' = g_usDataType \ {"LHEAP_IN"} /\ UNCHANGED stack
           ELSE /\ g_usDataType' = (g_usDataType \cup {"LHEAP_IN"}) \ {"HEAP_IN"}
                /\ stack' = Append(stack, frame)
        /\ file' = InFile(Opcode.size) /\ g_iHeapCounter' = InHeap(Opcode.size)
        /\ g_usIntelDataIndex' = IF none THEN InIntel(Opcode.size) ELSE 0
        /\ lapses' = lapses \cup Nested("LCOUNT")
        /\ UNCHANGED <<image, heap, g_usFlowControl, port, settings, loops,
                       shift, board, pc, scan, tries, mid, miss, stale, repeated>>

\* ENDLOOP and ENDVME.
EndCode ==
    /\ Is({"ENDLOOP", "ENDVME", "?"}) /\ Read
    /\ Return(ret)
    /\ lapses' = lapses \cup
         (IF Opcode.op = "ENDLOOP" /\ stack = <<>> THEN {"ended"} ELSE {})
    /\ UNCHANGED <<image, flags, port, mem, settings, loop, board, mid, miss,
                   stale, repeated>>

InLoop(kind) == pc = "return" /\ stack # <<>> /\ Innermost.kind = kind
Round == Append(Outer, [Innermost EXCEPT !.left = @ - 1])

\* Mutant: one round too many.
Bug_MoreRounds == ret >= 0 /\ Innermost.left > 0
\* A loop is left when a round failed; the commands when one did not.
MoreRounds == ret >= 0 /\ Innermost.left > 1
RepeatAgain ==
    /\ InLoop("REPEAT") /\ MoreRounds
    /\ g_iHeapCounter' = 0
    /\ loops' = (loops + 1) % 2^16
    /\ stack' = Round
    /\ ret' = Ok /\ pc' = "code"
    /\ UNCHANGED <<image, file, heap, intel, g_usIntelDataIndex, flags, port,
                   mem, settings, shift, board, scan, tries, history>>

\* Mutant: the last round is not played.
Bug_LastRound == ret < 0 \/ Innermost.left <= 2
LastRound == ret < 0 \/ Innermost.left = 1
RepeatEnds ==
    /\ InLoop("REPEAT") /\ LastRound
    /\ g_usDataType' = g_usDataType \ {"HEAP_IN"}
    /\ g_usFlowControl' = g_usFlowControl \ {"REPEATLOOP"}
    /\ loops' = (loops + 1) % 2^16
    /\ stack' = Outer
    /\ Result(ret)
    /\ UNCHANGED <<image, sources, port, mem, settings, shift, board, scan,
                   tries, history>>

NextPoll == stack' = Round
CountAgain ==
    /\ InLoop("LCOUNT") /\ ret < 0 /\ Innermost.left > 1
    /\ g_usIntelDataIndex' = 0
    /\ NextPoll
    /\ ret' = Ok /\ pc' = "code"
    /\ miss' = Innermost.miss
    /\ UNCHANGED <<image, file, heap, g_iHeapCounter, intel, flags, port, mem,
                   settings, loops, shift, board, scan, tries, mid, stale,
                   repeated, lapses>>

\* Mutant: the loop around the commands is not gone back to.
Bug_AfterCount == g_usDataType \ {"LHEAP_IN"}
AfterCount ==
    (g_usDataType \ {"LHEAP_IN"}) \cup (IF Innermost.heap THEN {"HEAP_IN"} ELSE {})
\* Mutant: commands that never succeed are given up silently.
Bug_GivenUp == Result(Ok)
GivenUp == Result(ret)
CountEnds ==
    /\ InLoop("LCOUNT") /\ (ret >= 0 \/ Innermost.left = 1)
    /\ g_usDataType' = AfterCount
    /\ stack' = Outer
    /\ GivenUp
    /\ UNCHANGED <<image, sources, g_usFlowControl, port, mem, settings, loops,
                   shift, board, scan, tries, history>>

-----------------------------------------------------------------------------
\* The end of ispVM, and main.

\* Mutant: the controllers are left where they are.
Bug_EndState == port
EndState == Move(port, "RESET")
ispVMEnd ==
    /\ pc = "return" /\ stack = <<>>
    /\ port' = EndState
    /\ taken' = {} /\ mem' = ispVMFreeMem(mem)
    /\ pc' = "exit"
    /\ UNCHANGED <<image, sources, flags, settings, loop, reset, scan, tries,
                   ret, history>>

main ==
    /\ pc = "exit"
    /\ pc' = IF ret > 0 THEN "abort" ELSE "done"
    /\ reset' = IF ret = Ok THEN reset + 1 ELSE reset
    /\ UNCHANGED <<play, taken, ret>>

Ended == pc \in {"done", "abort"}
Gone == (Ended \/ pc = "spin") /\ UNCHANGED vars

Play ==
    \/ Open \/ hardware_init \/ CheckVersion \/ ispVMStart
    \/ State \/ ispVMShift \/ Send \/ ispVMRead \/ Retry \/ ispVMReadandSave
    \/ SendBack \/ LeaveShift \/ TCK \/ ENDDR \/ ENDIR \/ ispVMAmble
    \/ MEM \/ VENDOR \/ SETFLOW \/ RESETFLOW \/ SHR \/ VUES \/ Skipped
    \/ ispVMProcessLVDS \/ Invalid \/ ispVMDataSize \/ HEAP \/ REPEAT \/ LCOUNT
    \/ EndCode \/ RepeatAgain \/ RepeatEnds \/ CountAgain \/ CountEnds
    \/ ispVMEnd \/ main
Next == Play \/ Gone

\* Weak fairness of Play, which is enabled until the program has ended or reads
\* on for ever: the player is one process that waits for nobody.
Fairness == []<>(Ended \/ pc = "spin") \/ []<><<Play>>_vars
Spec == Init /\ [][Next]_vars /\ Fairness

-----------------------------------------------------------------------------
\* Properties.

\* The variables have their types: a loop keeps opcodes of the file, and at most
\* two loops are played at once, one of each kind, unless one was begun inside
\* another of its kind.
TypeOK ==
    /\ {file, heap, intel} \subseteq Seq(Ops)
    /\ {g_iHeapCounter, g_usIntelDataIndex} \subseteq Nat
    /\ g_usDataType \subseteq {"HEAP_IN", "LHEAP_IN"}
    /\ g_usFlowControl \subseteq {"CASCADE", "REPEATLOOP", "SHIFTLEFT",
                                  "SHIFTRIGHT", "VERIFYUES"}
    /\ port.cur \in Names /\ port.tap \subseteq TapStates
    /\ \A b \in DOMAIN mem.cap : mem.cap[b] \in Int /\ mem.cap[b] >= Null
    /\ \A i \in 1 .. Len(stack) : stack[i].left \in 1 .. stack[i].total
    /\ "nested" \in lapses \/ Len(stack) <= 2
    /\ taken \subseteq ToSet(JtagPins) /\ reset \in 0 .. 1
    /\ tries \in 0 .. Tries /\ (tries # 0 <=> pc = "retry")
    /\ pc \in {"open", "init", "version", "start", "code", "data", "retry", "back",
               "leave", "return", "exit", "done", "abort", "spin"}
    /\ miss \subseteq {"read", "VUES"} /\ stale \subseteq {"read", "retry"}
    /\ lapses \subseteq {"nested", "grown", "ended"}

\* From the first reset on the controllers are in the state that
\* g_cCurrentJTAGState names, through every scan, header, trailer, retry and
\* clock, unless a transition that is not in the table was asked for.
TapInStep == port.stray \/ port.tap \subseteq Meant[port.cur]

\* Between two opcodes every bit of every scan, with its header and trailer,
\* was clocked exactly once, the last one with the change of the state; a read
\* that is repeated for XILINX alone clocks more, and after a transition that is
\* not in the table nothing is counted until the next reset.
ScansComplete == pc = "code" /\ ~port.stray /\ ~repeated => port.due = 0

\* When ispVM has ended its JTAG session the controllers are reset, unless a
\* transition that is not in the table was asked for on the way and no row that
\* resets from every state was played since.
ResetAtEnd == pc = "exit" /\ ~port.stray => port.tap = {"TestLogicReset"}

\* A poll for a status, repeated by LCOUNT, compares what a capture has renewed
\* since the last comparison: that is what the detour by DRCAPTURE is for.  The
\* reads that are repeated for XILINX inside of ispVMShift are excepted: they go
\* from SHIFTDR by DRPAUSE to IDLE, and compare again without a capture.
PollReadsFresh == stale \subseteq {"retry"}

\* The FPGA is reset into the new image only if every comparison held, or failed
\* and was repeated until it held, but for those that VUES asked for: it wants the
\* session to go on when the device holds another image;
NothingMissed == reset = 1 => miss \subseteq {"VUES"}
\* and only after all of a file that has ENDVME at its end was played, unless an
\* ENDLOOP outside of the loops ended it.
WholeFile == reset = 1 /\ "ended" \notin lapses => file = <<>>
Programmed == NothingMissed /\ WholeFile

\* The data that a loop takes from its source for its rounds is never played as
\* opcodes: the loop ends with the data of its last round used up, unless its
\* buffer was taken by a loop inside of it.
NoDataPlayed == pc = "code" /\ "nested" \notin lapses => Opcode.op # "DATA"

\* No row is stored in or taken from a buffer that is too small for it, although
\* one size stands for the sizes of four buffers, and MEM may tell another one in
\* the middle of the file; a larger one, once rows were loaded, is excepted, since
\* then the buffer of TDO or of a mask may be kept as it is.
BuffersFit == "grown" \notin lapses => ~mem.over

\* The next opcode comes from where the innermost loop keeps its commands, and
\* from the file again when no loop is left, as long as no loop was begun inside
\* of another of its kind, and HEAP not inside of a loop.
Source ==
    IF Has("HEAP_IN") THEN "REPEAT" ELSE IF Has("LHEAP_IN") THEN "LCOUNT" ELSE "none"
SourceMatchesLoop ==
    /\ pc \in {"code", "data", "retry", "back", "leave"} /\ "nested" \notin lapses =>
          Source = (IF stack = <<>> THEN "none" ELSE Innermost.kind)
    /\ stack = <<>> => Source = "none"

\* The data of a scan inside a loop is shifted by as many steps as rounds were
\* played before in this loop, unless a loop inside of it began to count anew.
ShiftOfThisRound ==
    [][ispVMShift /\ Has("HEAP_IN") /\ "nested" \notin lapses
         /\ {"SHIFTLEFT", "SHIFTRIGHT"} \cap g_usFlowControl # {}
         => shift = (Innermost.total - Innermost.left) * image.step]_vars

\* Every file comes to its end that can be read and does not end within a number:
\* loops, polls and retries are bounded, also where the loops take each other's
\* buffer and play what they did not keep.
Readable ==
    image.kind # "unreadable" /\ \A i \in 1 .. Len(image.code) : image.code[i].op # "CUT"
=============================================================================

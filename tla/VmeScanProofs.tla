---------------------------- MODULE VmeScanProofs ---------------------------
(***************************************************************************)
(* Proofs about the JTAG player that depend on what the file is: the bits  *)
(* its scans clock, for headers, data and trailers of every length, the    *)
(* shifts of its rounds, the buffers, the polls, and the types.            *)
(***************************************************************************)
EXTENDS VmePlayerProofs, WellFoundedInduction

-----------------------------------------------------------------------------
(* The bits that a port owes. *)

Stable == {"RESET", "IDLE", "IRPAUSE", "DRPAUSE"}
Shifts == {"SHIFTIR", "SHIFTDR"}

\* The player is in the state of that name, with n bits to be clocked, unless nothing
\* is known of the controllers.
Owes(p, name, n) ==
    /\ PortInv(p) /\ p.cur = name /\ p.due \in Int
    /\ ~p.stray => p.due = n

\* Bits are shifted in the shift states alone.
LEMMA WhereBitsShift ==
    ASSUME NEW p, PortInv(p), ~p.stray
    PROVE  /\ p.cur \in Stable => ~(p.tap \subseteq ShiftStates)
           /\ p.cur \in Shifts => p.tap \subseteq ShiftStates
<1>1. p.tap \subseteq Meant[p.cur] /\ p.tap # {}
  BY DEF PortInv
<1>2. ASSUME p.cur \in Stable PROVE \A t \in Meant[p.cur] : t \notin ShiftStates
  BY <1>2, MeantTable DEF Stable, ShiftStates
<1>3. ASSUME p.cur \in Shifts PROVE \A t \in Meant[p.cur] : t \in ShiftStates
  BY <1>3, MeantTable DEF Shifts, ShiftStates
<1> QED
  BY <1>1, <1>2, <1>3

\* What a change of the state does to the bits that are due: one bit is clocked on the
\* way out of a shift state.
LEMMA MoveDue ==
    ASSUME NEW p, PortInv(p), p.due \in Int, NEW to
    PROVE  LET q == Move(p, to)
           IN  /\ PortInv(q) /\ q.cur = to /\ q.due \in Int
               /\ p.stray => q.stray \/ (to = "RESET" /\ q.due = 0)
               /\ ~p.stray /\ ~q.stray =>
                     \/ p.cur = to /\ q.due = p.due
                     \/ q.due = IF p.tap \subseteq ShiftStates THEN p.due - 1 ELSE p.due
<1> DEFINE rows == {r \in g_JTAGTransistions : r.from = p.cur /\ r.to = to}
           row == CHOOSE r \in rows : TRUE
           q == Move(p, to)
<1>0. PortInv(q)
  BY MoveInv
<1>1. CASE p.cur = to /\ to # "RESET"
  <2>1. q = p
    BY <1>1 DEF Move
  <2> QED
    BY <1>0, <1>1, <2>1
<1>2. CASE ~(p.cur = to /\ to # "RESET") /\ rows = {}
  <2>1. q = [p EXCEPT !.cur = to, !.tap = TapStates, !.stray = TRUE]
    BY <1>2 DEF Move
  <2>2. q.cur = to /\ q.stray = TRUE /\ q.due = p.due
    BY <2>1 DEF PortInv, PortShape
  <2> QED
    BY <1>0, <2>2
<1>3. CASE ~(p.cur = to /\ to # "RESET") /\ rows # {}
  <2>1. row.to = to
    BY <1>3
  <2>2. /\ q.cur = to /\ q.stray = (p.stray /\ ~Resets(row))
        /\ q.due = IF p.stray /\ Resets(row) THEN 0
                   ELSE IF p.tap \subseteq ShiftStates THEN p.due - 1 ELSE p.due
    <3> HIDE DEF row
    <3> QED
      BY <1>3 DEF Move, PortInv, PortShape, row
  <2>3. q.due \in Int
    BY <2>2
  <2>4. Resets(row) => to = "RESET"
    BY <2>1 DEF Resets
  <2> HIDE DEF row, rows, q
  <2>5. p.stray => q.stray \/ (to = "RESET" /\ q.due = 0)
    BY <2>2, <2>4
  <2>6. ~p.stray => q.due = IF p.tap \subseteq ShiftStates THEN p.due - 1 ELSE p.due
    BY <2>2
  <2> QED
    BY <1>0, <2>2, <2>3, <2>5, <2>6 DEF q
<1> QED
  BY <1>1, <1>2, <1>3

\* From a state between the scans, a move clocks none of the bits that are due.
LEMMA MoveOwes ==
    ASSUME NEW p, NEW a \in Stable, NEW n \in Int, Owes(p, a, n),
           NEW to, to # "RESET" \/ n = 0
    PROVE  Owes(Move(p, to), to, n)
<1> DEFINE q == Move(p, to)
<1>1. /\ PortInv(q) /\ q.cur = to /\ q.due \in Int
      /\ p.stray => q.stray \/ (to = "RESET" /\ q.due = 0)
      /\ ~p.stray /\ ~q.stray =>
            \/ p.cur = to /\ q.due = p.due
            \/ q.due = IF p.tap \subseteq ShiftStates THEN p.due - 1 ELSE p.due
  BY MoveDue DEF Owes
<1>2. ~p.stray => ~(p.tap \subseteq ShiftStates) /\ p.due = n
  BY WhereBitsShift DEF Owes
<1> HIDE DEF q
<1>3. ~q.stray => q.due = n
  BY <1>1, <1>2
<1> QED
  BY <1>1, <1>3 DEF q, Owes

\* A move out of a shift state clocks the last bit.
LEMMA MoveOut ==
    ASSUME NEW p, NEW a \in Shifts, NEW n \in Int, Owes(p, a, n),
           NEW to, to # a, to # "RESET" \/ n = 1
    PROVE  Owes(Move(p, to), to, n - 1)
<1> DEFINE q == Move(p, to)
<1>1. /\ PortInv(q) /\ q.cur = to /\ q.due \in Int
      /\ p.stray => q.stray \/ (to = "RESET" /\ q.due = 0)
      /\ ~p.stray /\ ~q.stray =>
            \/ p.cur = to /\ q.due = p.due
            \/ q.due = IF p.tap \subseteq ShiftStates THEN p.due - 1 ELSE p.due
  BY MoveDue DEF Owes
<1>2. /\ ~p.stray => p.tap \subseteq ShiftStates /\ p.due = n
      /\ p.cur # to
  BY WhereBitsShift DEF Owes
<1> HIDE DEF q
<1>3. ~q.stray => q.due = n - 1
  BY <1>1, <1>2
<1> QED
  BY <1>1, <1>3 DEF q, Owes

LEMMA ClocksOwe ==
    ASSUME NEW p, NEW a, NEW n \in Int, Owes(p, a, n), NEW m \in Int
    PROVE  /\ a \in Stable => Owes(ispVMClocks(p, m), a, n)
           /\ a \in Shifts /\ m >= 0 => Owes(ispVMClocks(p, m), a, n - m)
<1> DEFINE q == ispVMClocks(p, m)
<1>1. PortInv(q)
  BY ClocksInv DEF Owes
<1>2. CASE m <= 0
  <2>1. q = p
    BY <1>2 DEF ispVMClocks
  <2>2. m >= 0 => n - m = n
    BY <1>2
  <2> QED
    BY <2>1, <2>2
<1>3. CASE ~(m <= 0)
  <2>1. /\ q.cur = p.cur /\ q.stray = p.stray
        /\ q.due = IF p.tap \subseteq ShiftStates THEN p.due - m ELSE p.due
    BY <1>3 DEF ispVMClocks, Owes, PortInv, PortShape
  <2>2. ~p.stray => /\ a \in Stable => ~(p.tap \subseteq ShiftStates)
                    /\ a \in Shifts => p.tap \subseteq ShiftStates
    BY WhereBitsShift DEF Owes
  <2>3. q.due \in Int
    BY <2>1 DEF Owes
  <2> HIDE DEF q
  <2>4. p.cur = a /\ (~p.stray => p.due = n)
    BY DEF Owes
  <2>5. a \in Stable /\ ~q.stray => q.due = n
    BY <2>1, <2>2, <2>4
  <2>6. a \in Shifts /\ ~q.stray => q.due = n - m
    BY <2>1, <2>2, <2>4
  <2> QED
    BY <1>1, <2>1, <2>3, <2>4, <2>5, <2>6 DEF Owes, q
<1> QED
  BY <1>2, <1>3

\* A header and a trailer of so many bits, and the data, of which the last bit is left
\* to the move unless another frame follows.
LEMMA PartsOwe ==
    ASSUME NEW p, NEW a \in Shifts, NEW n \in Int, Owes(p, a, n), NEW m \in Nat
    PROVE  /\ Owes(Header(p, m), a, n - m) /\ Owes(Trailer(p, m), a, n - m)
           /\ m > 0 => Owes(ispVMSend(p, m, FALSE), a, n - m + 1)
           /\ Owes(ispVMSend(p, m, TRUE), a, n - m)
<1>1. ASSUME NEW q, NEW k \in Int, NEW i \in Nat, Owes(q, a, k)
      PROVE  Owes(ispVMClocks(q, i), a, k - i)
  BY <1>1, ClocksOwe
<1>2. CASE m = 0
  <2>1. Header(p, m) = p /\ Trailer(p, m) = p /\ n - m = n /\ ~(m > 0)
    BY <1>2 DEF Header, Trailer
  <2>2. Owes(ispVMSend(p, m, TRUE), a, n - m)
    <3>1. ispVMSend(p, m, TRUE) = ispVMClocks(p, m)
      BY DEF ispVMSend
    <3> QED
      BY <1>1, <3>1
  <2> QED
    BY <2>1, <2>2
<1>3. CASE m > 0
  <2>1. m - 1 \in Nat /\ 1 \in Nat
    BY <1>3
  <2>2. Owes(ispVMClocks(p, m - 1), a, n - m + 1)
    <3>1. n - (m - 1) = n - m + 1
      OBVIOUS
    <3> QED
      BY <1>1, <2>1, <3>1
  <2>3. Owes(ispVMClocks(ispVMClocks(p, m - 1), 1), a, n - m)
    <3>1. n - m + 1 - 1 = n - m /\ n - m + 1 \in Int
      OBVIOUS
    <3> QED
      BY <1>1, <2>1, <2>2, <3>1
  <2>4. Owes(ispVMClocks(ispVMClocks(p, 1), m - 1), a, n - m)
    <3>1. (n - 1) - (m - 1) = n - m /\ n - 1 \in Int
      OBVIOUS
    <3>2. Owes(ispVMClocks(p, 1), a, n - 1)
      BY <1>1, <2>1
    <3> QED
      BY <1>1, <2>1, <3>1, <3>2
  <2>5. Header(p, m) = ispVMClocks(ispVMClocks(p, m - 1), 1)
    BY <1>3 DEF Header, ispVMBypass
  <2>6. Trailer(p, m) = ispVMClocks(ispVMClocks(p, 1), m - 1)
    BY <1>3 DEF Trailer, ispVMBypass
  <2>7. Owes(ispVMClocks(p, m), a, n - m)
    BY <1>1
  <2> QED
    BY <2>2, <2>3, <2>4, <2>5, <2>6, <2>7 DEF ispVMSend
<1>4. m = 0 \/ m > 0
  OBVIOUS
<1> QED
  BY <1>2, <1>3, <1>4, Zenon

\* The way of a poll by the capture shifts nothing.
LEMMA DetourRow ==
    \A row \in g_JTAGTransistions :
        row.from = "DRPAUSE" /\ row.to = "DRCAPTURE" => row.tms = <<1, 1, 1, 0>>
  BY DEF g_JTAGTransistions, Row

LEMMA DetourOwes ==
    ASSUME NEW p, NEW n \in Int, Owes(p, "DRPAUSE", n)
    PROVE  Owes(Move(Move(p, "DRCAPTURE"), "DRPAUSE"), "DRPAUSE", n)
<1> DEFINE r == Move(p, "DRCAPTURE")
           q == Move(r, "DRPAUSE")
<1>1. Owes(r, "DRCAPTURE", n)
  BY MoveOwes DEF Stable
<1>2. ASSUME ~r.stray PROVE ~(r.tap \subseteq ShiftStates)
  <2> DEFINE rows == {x \in g_JTAGTransistions : x.from = p.cur /\ x.to = "DRCAPTURE"}
             row == CHOOSE x \in rows : TRUE
  <2>1. p.cur = "DRPAUSE" /\ PortInv(p)
    BY DEF Owes
  <2>2. rows # {}
    BY <1>2, <2>1 DEF Move, PortInv, PortShape
  <2>3. row \in g_JTAGTransistions /\ row.from = "DRPAUSE" /\ row.to = "DRCAPTURE"
    BY <2>1, <2>2
  <2>4. row.tms = <<1, 1, 1, 0>> /\ ~Resets(row)
    BY <2>3, DetourRow DEF Resets
  <2>5. r.tap = {Walk(t, row.tms) : t \in p.tap} /\ r.stray = (p.stray /\ ~Resets(row))
    <3> HIDE DEF row
    <3> QED
      BY <2>1, <2>2 DEF Move, PortInv, PortShape, row
  <2>6. p.tap # {} /\ p.tap \subseteq {"PauseDR"}
    BY <1>2, <2>1, <2>4, <2>5, MeantTable DEF PortInv
  <2>7. Walk("PauseDR", <<1, 1, 1, 0>>) = "CaptureDR"
    BY Walk1110, LowTable, HighTable
  <2> QED
    BY <2>4, <2>5, <2>6, <2>7 DEF ShiftStates
<1>3. /\ PortInv(q) /\ q.cur = "DRPAUSE" /\ q.due \in Int
      /\ r.stray => q.stray
      /\ ~r.stray /\ ~q.stray =>
            \/ r.cur = "DRPAUSE" /\ q.due = r.due
            \/ q.due = IF r.tap \subseteq ShiftStates THEN r.due - 1 ELSE r.due
  <2>1. PortInv(r) /\ r.due \in Int
    BY <1>1 DEF Owes
  <2> HIDE DEF r
  <2> QED
    BY <2>1, MoveDue
<1> HIDE DEF q, r
<1>4. ~q.stray => q.due = n
  BY <1>1, <1>2, <1>3 DEF Owes
<1> QED
  BY <1>3, <1>4 DEF Owes, q, r

\* A scan adds what it asks for, and a comparison forgets what was captured.
LEMMA MoreOwed ==
    ASSUME NEW p, NEW a, NEW n \in Int, Owes(p, a, n), NEW m \in Int, NEW b
    PROVE  Owes([p EXCEPT !.due = @ + m], a, n + m) /\ Owes([p EXCEPT !.fresh = b], a, n)
  BY DEF Owes, PortInv, PortShape

-----------------------------------------------------------------------------
(* What a file must be for its scans to be counted. *)

\* What the opcodes of a file must be: they end in the states that are stable, as the
\* statements of a test file do; headers and trailers have a length, scans at least one
\* bit, and what is read back from the devices is data.
WellFormed(t) ==
    /\ t.op \in {"STATE", "ENDDR", "ENDIR"} => t.to \in Stable
    /\ t.op = "TCK" => t.n \in Nat
    /\ t.op \in {"HIR", "TIR", "HDR", "TDR"} => t.size \in Nat
    /\ t.op \in Scans => t.size \in Nat \ {0}
    /\ t.op = "SIR" => ~Dynamic(t)

\* The frames of a cascade follow each other with no move or clock between them, the
\* first one from the pause state; a cascade is of data.
CascadesWhole ==
    pc = "code" =>
        /\ mid => Opcode.op \notin {"SIR", "STATE", "TCK"}
        /\ Has("CASCADE") => Opcode.op # "SIR"
        /\ Has("CASCADE") /\ ~mid /\ Opcode.op \in {"SDR", "XSDR"} => port.cur = "DRPAUSE"

\* Only a loop for a status would go on after a scan whose data is torn, with the bits
\* of it not clocked; anything else ends.
TornEnds ==
    pc = "code" /\ Opcode.op \in Scans /\ ~Opcode.sound => ~Playing("LCOUNT")
Aborts == pc = "return" /\ ret = VME_INVALID_FILE /\ ~Playing("LCOUNT")

FormInv == \A t \in Ops : WellFormed(t)
SettingsInv ==
    /\ g_usHead \in [{"IR", "DR"} -> Nat] /\ g_usTail \in [{"IR", "DR"} -> Nat]
    /\ g_ucEnd \in [{"IR", "DR"} -> Stable]

LEMMA SettingsStep ==
    DataInv /\ FormInv /\ SettingsInv /\ [Next]_vars => FormInv' /\ SettingsInv'
<1> SUFFICES ASSUME DataInv, FormInv, SettingsInv, [Next]_vars
             PROVE  FormInv' /\ SettingsInv'
  OBVIOUS
<1>1. Opcode \in Ops
  BY AheadIsOp DEF Opcode
<1>2. UNCHANGED image => FormInv'
  BY DEF FormInv, Ops
<1>3. ASSUME UNCHANGED <<image, settings>> PROVE FormInv' /\ SettingsInv'
  BY <1>2, <1>3 DEF settings, SettingsInv
<1>4. CASE ENDDR \/ ENDIR
  <2>1. /\ UNCHANGED <<image, g_usHead, g_usTail>> /\ Opcode.op \in {"ENDDR", "ENDIR"}
        /\ \E r \in {"IR", "DR"} : g_ucEnd' = [g_ucEnd EXCEPT ![r] = Opcode.to]
    BY <1>4 DEF ENDDR, ENDIR, Is
  <2>2. Opcode.to \in Stable
    BY <1>1, <2>1 DEF FormInv, WellFormed
  <2>3. g_ucEnd' \in [{"IR", "DR"} -> Stable]
    BY <2>1, <2>2 DEF SettingsInv
  <2> QED
    BY <1>2, <2>1, <2>3 DEF SettingsInv
<1>5. CASE ispVMAmble
  <2>1. /\ UNCHANGED <<image, g_ucEnd>> /\ Opcode.op \in {"HIR", "TIR", "HDR", "TDR"}
        /\ \E r \in {"IR", "DR"} :
              /\ g_usHead' \in {g_usHead, [g_usHead EXCEPT ![r] = Opcode.size]}
              /\ g_usTail' \in {g_usTail, [g_usTail EXCEPT ![r] = Opcode.size]}
    BY <1>5 DEF ispVMAmble, Is
  <2>2. Opcode.size \in Nat
    BY <1>1, <2>1 DEF FormInv, WellFormed
  <2>3. g_usHead' \in [{"IR", "DR"} -> Nat] /\ g_usTail' \in [{"IR", "DR"} -> Nat]
    BY <2>1, <2>2 DEF SettingsInv
  <2> QED
    BY <1>2, <2>1, <2>3 DEF SettingsInv
<1>6. CASE MEM \/ VENDOR
  BY <1>2, <1>6 DEF MEM, VENDOR, SettingsInv
<1>7. CASE Open \/ hardware_init \/ CheckVersion \/ ispVMStart \/ main
  BY <1>3, <1>7 DEF Open, hardware_init, CheckVersion, ispVMStart, main, play
<1>8. CASE State \/ ispVMShift \/ Send \/ ispVMRead \/ Retry \/ ispVMReadandSave
  BY <1>3, <1>8 DEF State, ispVMShift, Send, ispVMRead, Retry, ispVMReadandSave
<1>9. CASE SendBack \/ LeaveShift \/ TCK \/ SETFLOW \/ RESETFLOW \/ SHR \/ VUES
  BY <1>3, <1>9 DEF SendBack, LeaveShift, TCK, SETFLOW, RESETFLOW, SHR, VUES
<1>10. CASE Skipped \/ ispVMProcessLVDS \/ Invalid \/ ispVMDataSize \/ EndCode
  BY <1>3, <1>10 DEF Skipped, ispVMProcessLVDS, Invalid, ispVMDataSize, EndCode
<1>13. CASE HEAP \/ REPEAT \/ LCOUNT
  BY <1>3, <1>13 DEF HEAP, REPEAT, LCOUNT
<1>11. CASE RepeatAgain \/ RepeatEnds \/ CountAgain \/ CountEnds \/ ispVMEnd
  BY <1>3, <1>11 DEF RepeatAgain, RepeatEnds, CountAgain, CountEnds, ispVMEnd
<1>12. CASE Gone \/ UNCHANGED vars
  BY <1>3, <1>12 DEF Gone, vars
<1> QED
  BY <1>4, <1>5, <1>6, <1>7, <1>8, <1>9, <1>10, <1>11, <1>12, <1>13 DEF Next, Play

-----------------------------------------------------------------------------
(* Where the player is between the scans and in them. *)

Between == {"open", "init", "version", "start", "code", "return"}
InScan == {"data", "retry", "back", "leave"}
Early == {"open", "init", "version", "start"}
Shifting(op) == IF op = "SIR" THEN "SHIFTIR" ELSE "SHIFTDR"
Cascading == "CASCADE" \in g_usFlowControl
LEMMA CascadingIs == Has("CASCADE") <=> Cascading
  BY DEF Has, Cascading
LEMMA SendIs ==
    \A p, n : ispVMSend(p, n, Has("CASCADE")) =
                 IF Cascading THEN ispVMSend(p, n, TRUE) ELSE ispVMSend(p, n, FALSE)
  BY CascadingIs DEF ispVMSend

WhereInv ==
    /\ mid \in BOOLEAN /\ (pc \in Early => ~mid)
    /\ pc \in Between /\ ~Aborts =>
          port.cur \in Stable \cup {"SHIFTDR"} /\ (port.cur = "SHIFTDR" => mid)
    /\ pc \in InScan =>
          /\ scan \in Ops /\ scan.op \in Scans
          /\ mid <=> Cascading
          /\ scan.op = "SIR" => ~mid
          /\ port.cur \in Stable \cup {Shifting(scan.op)}
          /\ pc = "back" => Dynamic(scan)

LEMMA MoveCur == ASSUME NEW p, PortInv(p), NEW to PROVE Move(p, to).cur = to
<1> DEFINE rows == {r \in g_JTAGTransistions : r.from = p.cur /\ r.to = to}
           row == CHOOSE r \in rows : TRUE
<1> HIDE DEF row
<1>1. CASE p.cur = to /\ to # "RESET"
  BY <1>1 DEF Move
<1>2. CASE ~(p.cur = to /\ to # "RESET") /\ rows = {}
  BY <1>2 DEF Move, PortInv, PortShape
<1>3. CASE ~(p.cur = to /\ to # "RESET") /\ rows # {}
  BY <1>3 DEF Move, PortInv, PortShape, row
<1> QED
  BY <1>1, <1>2, <1>3

LEMMA PartsCur ==
    ASSUME NEW p, PortInv(p), NEW n, NEW c
    PROVE  /\ ispVMClocks(p, n).cur = p.cur /\ ispVMSend(p, n, c).cur = p.cur
           /\ Header(p, n).cur = p.cur /\ Trailer(p, n).cur = p.cur
           /\ ispVMBypass(p, n).cur = p.cur
<1>1. \A q, k : PortInv(q) => ispVMClocks(q, k).cur = q.cur /\ PortInv(ispVMClocks(q, k))
  <2> TAKE q, k
  <2>1. PortInv(q) => ispVMClocks(q, k).cur = q.cur
    BY DEF ispVMClocks, PortInv, PortShape
  <2> QED
    BY <2>1, ClocksInv
<1> QED
  BY <1>1 DEF ispVMSend, Header, Trailer, ispVMBypass

LEMMA UsedUpCur == ASSUME NEW p, PortInv(p) PROVE UsedUp(p).cur = p.cur
  BY DEF UsedUp, PortInv, PortShape

LEMMA EnterCur ==
    ASSUME PortInv(port), NEW op \in Scans PROVE Enter(op).cur = Shifting(op)
<1>1. \A q, to : PortInv(q) => Move(q, to).cur = to /\ PortInv(Move(q, to))
  BY MoveCur, MoveInv
<1>2. \A q, n : PortInv(q) => Header(q, n).cur = q.cur
  BY PartsCur
<1> QED
  BY <1>1, <1>2 DEF Enter, Shifting, Scans

\* Nothing but a loop for a status goes on after a failure.
LEMMA AbortsOn ==
    ASSUME LoopInv, Aborts, RepeatAgain \/ RepeatEnds \/ CountAgain \/ CountEnds
    PROVE  Aborts'
<1>1. ret = -4 /\ \A i \in 1 .. Len(stack) : stack[i].kind # "LCOUNT"
  BY DEF Aborts, Playing, VME_INVALID_FILE
<1>2. stack # <<>> /\ Stacked
  BY DEF RepeatAgain, RepeatEnds, CountAgain, CountEnds, InLoop, LoopInv
<1>3. Innermost.kind # "LCOUNT"
  <2>1. Len(stack) \in 1 .. Len(stack)
    BY <1>2, OuterIs
  <2> QED
    BY <1>1, <2>1 DEF Innermost
<1>4. RepeatEnds
  BY <1>1, <1>3 DEF RepeatAgain, CountAgain, CountEnds, MoreRounds, InLoop
<1>5. ret' = ret /\ pc' = "return" /\ stack' = Outer
  BY <1>1, <1>4 DEF RepeatEnds, Result, Ok
<1>6. /\ Len(stack') = Len(stack) - 1
      /\ \A i \in 1 .. Len(stack) - 1 : stack'[i] = stack[i]
      /\ Len(stack) \in Nat \ {0}
  BY <1>2, <1>5, Popped
<1>7. \A i \in 1 .. Len(stack') : stack'[i].kind # "LCOUNT"
  BY <1>1, <1>6
<1> QED
  BY <1>1, <1>5, <1>7 DEF Aborts, Playing, VME_INVALID_FILE

LEMMA TornAborts ==
    ASSUME TornEnds, ispVMShift, ~Opcode.sound PROVE Aborts'
<1>1. /\ pc = "code" /\ Opcode.op \in Scans /\ pc' = "return"
      /\ ret' = VME_INVALID_FILE /\ UNCHANGED stack
  BY DEF ispVMShift, Is, Return, loop
<1> QED
  BY <1>1 DEF TornEnds, Aborts, Playing

LEMMA WhereStep ==
    PlayerInv /\ DataInv /\ FormInv /\ SettingsInv /\ CascadesWhole /\ TornEnds
       /\ LoopInv /\ WhereInv /\ [Next]_vars => WhereInv'
<1> SUFFICES ASSUME PlayerInv, DataInv, FormInv, SettingsInv, CascadesWhole, TornEnds,
                    LoopInv, WhereInv, [Next]_vars
             PROVE  WhereInv'
  OBVIOUS
<1>0. PortInv(port) /\ Opcode \in Ops
  BY AheadIsOp DEF PlayerInv, Opcode
\* Steps between the scans that leave the port alone.
<1>1. ASSUME pc \in Between, pc' \in Between \cup {"exit", "abort", "done", "spin"},
             UNCHANGED <<port, mid>>, Aborts => Aborts',
             pc' \in Early => pc \in Early
      PROVE  WhereInv'
  BY <1>1 DEF WhereInv, Aborts, Between, InScan, Early
<1>2. ASSUME pc' \notin Between \cup InScan, UNCHANGED mid PROVE WhereInv'
  BY <1>2 DEF WhereInv, Aborts, Between, InScan, Early
\* Steps inside a scan.
<1>3. ASSUME pc \in InScan, pc' \in InScan, UNCHANGED <<image, scan, mid>>,
             Cascading' <=> Cascading, port'.cur \in Stable \cup {Shifting(scan.op)},
             pc' = "back" => Dynamic(scan)
      PROVE  WhereInv'
  <2>1. Ops' = Ops
    BY <1>3 DEF Ops
  <2>2. Dynamic(scan)' <=> Dynamic(scan)
    BY <1>3 DEF Dynamic
  <2> QED
    BY <1>3, <2>1, <2>2 DEF WhereInv, Aborts, Between, InScan, Early
<1>4. CASE ispVMStart
  <2>1. port' = Move(port, "RESET") /\ pc' \in {"code", "return"} /\ UNCHANGED mid
    BY <1>4 DEF ispVMStart, history
  <2>2. port'.cur = "RESET"
    BY <1>0, <2>1, MoveCur
  <2> QED
    BY <2>1, <2>2 DEF WhereInv, Aborts, Between, InScan, Early, Stable
<1>5. CASE State
  <2>1. /\ pc = "code" /\ pc' = "code" /\ UNCHANGED mid /\ Opcode.op = "STATE"
        /\ port' = StateTo(Opcode.to)
    BY <1>5 DEF State, Is, control, history
  <2>2. Opcode.to \in Stable
    BY <1>0, <2>1 DEF FormInv, WellFormed
  <2>3. port'.cur = Opcode.to
    BY <1>0, <2>1, MoveCur, MoveInv DEF StateTo
  <2>4. Opcode.to # "SHIFTDR"
    BY <2>2 DEF Stable
  <2> QED
    BY <2>1, <2>2, <2>3, <2>4 DEF WhereInv, Aborts, Between, InScan, Early
<1>6. CASE ispVMShift
  <2>1. /\ pc = "code" /\ Opcode.op \in Scans /\ UNCHANGED image
        /\ port' = [Enter(Opcode.op) EXCEPT !.due = @ + Asked(Opcode)]
        /\ mid' = IF Opcode.op = "SIR" THEN mid ELSE Has("CASCADE")
        /\ g_usFlowControl' = g_usFlowControl \
             (IF "TDI" \in ToSet(Opcode.rows) THEN {"SHIFTLEFT", "SHIFTRIGHT"} ELSE {})
        /\ IF Opcode.sound THEN scan' = Opcode /\ pc' = "data" ELSE pc' = "return"
    BY <1>6 DEF ispVMShift, Is, Return
  <2>3. Cascading' <=> Cascading
    BY <2>1 DEF Cascading
  <2>4. Opcode.op = "SIR" => ~mid /\ ~Cascading
    BY <2>1, CascadingIs DEF CascadesWhole
  <2>5. /\ mid' <=> Cascading'
        /\ mid' \in BOOLEAN /\ (Opcode.op = "SIR" => ~mid')
    <3>1. mid' \in BOOLEAN
      <4>1. mid' = mid \/ mid' = Has("CASCADE")
        BY <2>1, Zenon
      <4>2. Has("CASCADE") \in BOOLEAN
        BY DEF Has
      <4>3. mid \in BOOLEAN
        BY Zenon DEF WhereInv
      <4> QED
        BY <4>1, <4>2, <4>3, Zenon
    <3>2. CASE Opcode.op = "SIR"
      BY <2>1, <2>3, <2>4, <3>1, <3>2, Zenon
    <3>3. CASE Opcode.op # "SIR"
      BY <2>1, <2>3, <3>1, <3>3, CascadingIs, Zenon
    <3> QED
      BY <3>1, <3>2, <3>3, Zenon
  <2>6. port'.cur = Shifting(Opcode.op)
    <3>1. PortInv(Enter(Opcode.op)) /\ Enter(Opcode.op).cur = Shifting(Opcode.op)
      <4>1. PortInv(Enter(Opcode.op))
        BY <1>0, EnterInv
      <4>2. Enter(Opcode.op).cur = Shifting(Opcode.op)
        BY <1>0, <2>1, EnterCur
      <4> QED
        BY <4>1, <4>2
    <3> QED
      BY <2>1, <3>1 DEF PortInv, PortShape
  <2>7. Ops' = Ops
    BY <2>1 DEF Ops
  <2>2. CASE ~Opcode.sound
    <3>1. Aborts'
      BY <1>6, <2>2, TornAborts
    <3> QED
      BY <2>1, <2>2, <2>5, <3>1 DEF WhereInv, Aborts, Between, InScan, Early
  <2>8. CASE Opcode.sound
    <3>1. scan' \in Ops' /\ scan'.op \in Scans /\ pc' = "data" /\ scan' = Opcode
      BY <1>0, <2>1, <2>7, <2>8
    <3> QED
      BY <2>5, <2>6, <3>1 DEF WhereInv, Aborts, Between, InScan, Early
  <2> QED
    BY <2>2, <2>8
<1>7. CASE Send
  <2>1. /\ pc = "data" /\ pc' = "leave" /\ UNCHANGED <<image, scan, mid, g_usFlowControl>>
        /\ port' = Sent
    BY <1>7 DEF Send, flags, history
  <2>2. port'.cur = port.cur
    BY <1>0, <2>1, PartsCur DEF Sent
  <2>3. port.cur \in Stable \cup {Shifting(scan.op)}
    BY <2>1 DEF WhereInv, InScan, Early
  <2> QED
    BY <1>3, <2>1, <2>2, <2>3 DEF InScan, Early, Cascading
<1>8. CASE ispVMRead
  <2>1. /\ pc = "data" /\ pc' \in {"retry", "leave"} /\ UNCHANGED <<image, scan, mid>>
        /\ port' = UsedUp(Sent) /\ g_usFlowControl' = g_usFlowControl \ {"VERIFYUES"}
    BY <1>8 DEF ispVMRead
  <2>2. port'.cur = port.cur
    <3>1. Sent.cur = port.cur /\ PortInv(Sent)
      BY <1>0, PartsCur, SentInv DEF Sent
    <3> QED
      BY <2>1, <3>1, UsedUpCur
  <2>3. port.cur \in Stable \cup {Shifting(scan.op)}
    BY <2>1 DEF WhereInv, InScan, Early
  <2> QED
    BY <1>3, <2>1, <2>2, <2>3 DEF InScan, Early, Cascading
<1>9. CASE Retry
  <2>1. /\ pc = "retry" /\ pc' \in {"retry", "leave"}
        /\ UNCHANGED <<image, scan, mid, g_usFlowControl>>
        /\ \/ port' = UsedUp(Sent)
           \/ \E q : /\ q = Move(ispVMBypass(Move(UsedUp(Sent), "DRPAUSE"), g_usTail.DR),
                               g_ucEnd.DR)
                     /\ port' = Move(q, "IDLE")
    BY <1>9 DEF Retry, flags
  <2>2. UsedUp(Sent).cur = port.cur /\ PortInv(UsedUp(Sent))
    <3>1. Sent.cur = port.cur /\ PortInv(Sent)
      BY <1>0, PartsCur, SentInv DEF Sent
    <3> QED
      BY <3>1, UsedUpCur, UsedUpInv
  <2>3. PortInv(Move(ispVMBypass(Move(UsedUp(Sent), "DRPAUSE"), g_usTail.DR), g_ucEnd.DR))
    BY <2>2, MoveInv, ScanInv
  <2>4. port'.cur \in {port.cur, "IDLE"}
    BY <2>1, <2>2, <2>3, MoveCur
  <2>5. port.cur \in Stable \cup {Shifting(scan.op)} /\ "IDLE" \in Stable
    BY <2>1 DEF WhereInv, InScan, Stable
  <2> QED
    BY <1>3, <2>1, <2>4, <2>5 DEF InScan, Early, Cascading
<1>10. CASE ispVMReadandSave
  <2>1. /\ pc = "data" /\ pc' = "back" /\ Dynamic(scan)
        /\ UNCHANGED <<image, scan, mid, g_usFlowControl>>
        /\ port' = Move(Trailer(ispVMSend(port, scan.size, FALSE), g_usTail.DR), "DRPAUSE")
    BY <1>10 DEF ispVMReadandSave, flags, history
  <2>2. PortInv(Trailer(ispVMSend(port, scan.size, FALSE), g_usTail.DR))
    BY <1>0, ScanInv
  <2>3. port'.cur = "DRPAUSE"
    BY <2>1, <2>2, MoveCur
  <2>4. "DRPAUSE" \in Stable
    BY DEF Stable
  <2> QED
    BY <1>3, <2>1, <2>3, <2>4 DEF InScan, Early, Cascading
<1>11. CASE SendBack
  <2>1. /\ pc = "back" /\ pc' = "leave" /\ UNCHANGED <<image, scan, mid, g_usFlowControl>>
        /\ port' = ispVMSend(Header(Move(port, "SHIFTDR"), g_usHead.DR), scan.size,
                             Has("CASCADE"))
    BY <1>11 DEF SendBack, flags, history
  <2>2. PortInv(Move(port, "SHIFTDR")) /\ Move(port, "SHIFTDR").cur = "SHIFTDR"
    BY <1>0, MoveInv, MoveCur
  <2>3. port'.cur = "SHIFTDR"
    BY <2>1, <2>2, PartsCur, ScanInv
  <2>4. Shifting(scan.op) = "SHIFTDR"
    <3>1. scan \in Ops /\ Dynamic(scan)
      BY <2>1 DEF WhereInv, InScan, Early
    <3> QED
      BY <3>1 DEF FormInv, WellFormed, Shifting
  <2> QED
    BY <1>3, <2>1, <2>3, <2>4 DEF InScan, Early, Cascading
\* The end of a scan, in its end state or still in the cascade.
<1>12. CASE LeaveShift
  <2>1. /\ pc = "leave" /\ pc' \in {"code", "return"} /\ UNCHANGED mid
        /\ port' = UsedUp(Leave(scan.op))
    BY <1>12 DEF LeaveShift, Result
  <2>2. /\ mid <=> Cascading
        /\ mid \in BOOLEAN /\ (scan.op = "SIR" => ~mid)
        /\ scan.op \in Scans /\ port.cur \in Stable \cup {Shifting(scan.op)}
    BY <2>1 DEF WhereInv, InScan, Early
  <2>3. port'.cur = Leave(scan.op).cur
    <3>1. PortInv(Leave(scan.op))
      BY <1>0, LeaveInv
    <3> QED
      BY <2>1, <3>1, UsedUpCur
  <2>4. CASE Cascading
    <3>1. Leave(scan.op) = port /\ Shifting(scan.op) = "SHIFTDR"
      BY <2>2, <2>4, CascadingIs DEF Leave, Shifting
    <3> QED
      BY <2>1, <2>2, <2>3, <2>4, <3>1 DEF WhereInv, Aborts, Between, InScan, Early
  <2>5. CASE ~Cascading
    <3>1. Leave(scan.op) = Move(Trailer(port, g_usTail[Reg(scan.op)]), g_ucEnd[Reg(scan.op)])
      BY <2>5, CascadingIs DEF Leave
    <3>2. PortInv(Trailer(port, g_usTail[Reg(scan.op)]))
      BY <1>0, ScanInv
    <3>3. port'.cur = g_ucEnd[Reg(scan.op)]
      BY <2>3, <3>1, <3>2, MoveCur
    <3>4. Reg(scan.op) \in {"IR", "DR"}
      BY DEF Reg
    <3>5. port'.cur \in Stable /\ port'.cur # "SHIFTDR"
      BY <3>3, <3>4 DEF SettingsInv, Stable
    <3> QED
      BY <2>1, <2>2, <3>5 DEF WhereInv, Aborts, Between, InScan, Early
  <2> QED
    BY <2>4, <2>5
<1>13. CASE TCK
  <2>1. pc = "code" /\ pc' = "code" /\ UNCHANGED mid /\ port' = ispVMClocks(port, Opcode.n)
    BY <1>13 DEF TCK, Is, control, history
  <2>2. port'.cur = port.cur
    BY <1>0, <2>1, PartsCur
  <2> QED
    BY <2>1, <2>2 DEF WhereInv, Aborts, Between, InScan, Early
<1>14. CASE Open \/ hardware_init \/ CheckVersion \/ main
  <2>1. /\ UNCHANGED <<port, mid>>
        /\ \/ pc \in {"open", "init", "version"}
              /\ pc' \in {"init", "version", "start", "exit", "abort", "spin"}
           \/ pc' \in {"done", "abort"}
    BY <1>14 DEF Open, hardware_init, CheckVersion, main, play, history
  <2> QED
    BY <1>1, <1>2, <2>1 DEF Aborts, Between, InScan, Early
<1>15. CASE ENDDR \/ ENDIR \/ MEM \/ VENDOR \/ SETFLOW \/ RESETFLOW
  <2>1. pc = "code" /\ pc' = "code" /\ UNCHANGED <<port, mid>>
    BY <1>15 DEF ENDDR, ENDIR, MEM, VENDOR, SETFLOW, RESETFLOW, Is, control, history
  <2> QED
    BY <1>1, <2>1 DEF Aborts, Between, Early
<1>16. CASE SHR \/ VUES \/ Skipped \/ ispVMProcessLVDS
  <2>1. pc = "code" /\ pc' = "code" /\ UNCHANGED <<port, mid>>
    BY <1>16 DEF SHR, VUES, Skipped, ispVMProcessLVDS, Is, control, history
  <2> QED
    BY <1>1, <2>1 DEF Aborts, Between, Early
<1>17. CASE ispVMAmble \/ Invalid \/ HEAP \/ REPEAT \/ LCOUNT \/ EndCode
  <2>1. pc = "code" /\ pc' \in {"code", "return", "abort"} /\ UNCHANGED <<port, mid>>
    BY <1>17 DEF ispVMAmble, Invalid, HEAP, REPEAT, LCOUNT, EndCode, Is, Return, Result,
                 history
  <2> QED
    BY <1>1, <2>1 DEF Aborts, Between, Early
<1>21. CASE ispVMDataSize
  <2>1. pc' = "spin" /\ UNCHANGED mid
    BY <1>21 DEF ispVMDataSize, history
  <2> QED
    BY <1>2, <2>1 DEF Between, InScan, Early
<1>18. CASE RepeatAgain \/ RepeatEnds \/ CountAgain \/ CountEnds
  <2>1. pc = "return" /\ pc' \in {"code", "return"} /\ UNCHANGED <<port, mid>>
    BY <1>18 DEF RepeatAgain, RepeatEnds, CountAgain, CountEnds, InLoop, GivenUp, Result,
                 history
  <2> QED
    BY <1>1, <1>18, <2>1, AbortsOn DEF Between, Early
<1>19. CASE ispVMEnd
  <2>1. pc' = "exit" /\ UNCHANGED mid
    BY <1>19 DEF ispVMEnd, history
  <2> QED
    BY <1>2, <2>1 DEF Between, InScan, Early
<1>20. CASE Gone \/ UNCHANGED vars
  <2>1. /\ UNCHANGED <<image, pc, port, mid, scan, g_usFlowControl>>
        /\ UNCHANGED <<stack, ret>>
    BY <1>20 DEF Gone, vars, control, history, flags, loop
  <2>2. Ops' = Ops /\ (Cascading' <=> Cascading) /\ (Dynamic(scan)' <=> Dynamic(scan))
    BY <2>1 DEF Ops, Cascading, Dynamic
  <2> QED
    BY <2>1, <2>2 DEF WhereInv, Aborts, Playing
<1> QED
  BY <1>4, <1>5, <1>6, <1>7, <1>8, <1>9, <1>10, <1>11, <1>12, <1>13, <1>14, <1>15, <1>16,
     <1>17, <1>18, <1>19, <1>20, <1>21 DEF Next, Play

-----------------------------------------------------------------------------
(* What a scan owes in each of its phases. *)

\* The trailer that follows the data, the second scan of dynamic I/O, and what remains
\* when all but the last bit of the data are clocked.
TailLeft == IF Cascading THEN 0 ELSE g_usTail[Reg(scan.op)]
SecondScan == g_usHead["DR"] + scan.size + g_usTail["DR"]
DataLeft == scan.size + TailLeft + (IF Dynamic(scan) THEN SecondScan ELSE 0)
BackLeft == g_usHead["DR"] + scan.size + TailLeft
LastLeft == IF Cascading THEN 0 ELSE 1 + g_usTail[Reg(scan.op)]

\* Nothing is owed between the scans.  A read that is repeated is not counted.
DueInv ==
    ~repeated =>
        /\ pc \in Between /\ ~Aborts =>
              Owes(port, port.cur, 0) /\ (mid => port.cur = "SHIFTDR")
        /\ pc = "data" => Owes(port, Shifting(scan.op), DataLeft)
        /\ pc = "back" => Owes(port, "DRPAUSE", BackLeft)
        /\ pc = "leave" => Owes(port, Shifting(scan.op), LastLeft)

LEMMA Lengths ==
    ASSUME SettingsInv, NEW op
    PROVE  /\ g_usHead[Reg(op)] \in Nat /\ g_usTail[Reg(op)] \in Nat
           /\ g_usHead["DR"] \in Nat /\ g_usHead["IR"] \in Nat
           /\ g_usTail["DR"] \in Nat /\ g_usTail["IR"] \in Nat
           /\ g_ucEnd[Reg(op)] \in Stable
<1>1. Reg(op) \in {"IR", "DR"}
  BY DEF Reg
<1> QED
  BY <1>1 DEF SettingsInv

\* What the scan in play owes are numbers.
LEMMA Amounts ==
    ASSUME SettingsInv, FormInv, scan \in Ops, scan.op \in Scans
    PROVE  /\ scan.size \in Nat /\ scan.size > 0
           /\ TailLeft \in Nat /\ SecondScan \in Nat /\ DataLeft \in Nat
           /\ BackLeft \in Nat /\ LastLeft \in Nat
<1>1. scan.size \in Nat /\ scan.size > 0
  BY DEF FormInv, WellFormed
<1>2. /\ g_usTail[Reg(scan.op)] \in Nat /\ g_usHead["DR"] \in Nat
      /\ g_usTail["DR"] \in Nat
  BY Lengths
<1>3. TailLeft \in Nat /\ LastLeft \in Nat
  BY <1>2 DEF TailLeft, LastLeft
<1>4. SecondScan \in Nat
  BY <1>1, <1>2 DEF SecondScan
<1>5. BackLeft \in Nat
  BY <1>1, <1>2, <1>3 DEF BackLeft
<1>6. DataLeft \in Nat
  BY <1>1, <1>3, <1>4 DEF DataLeft
<1> QED
  BY <1>1, <1>3, <1>4, <1>5, <1>6

\* On the way into a scan the header of its first frame is clocked.
LEMMA EnterOwes ==
    ASSUME SettingsInv, NEW op \in Scans, Owes(port, port.cur, 0),
           port.cur \in Stable \cup {"SHIFTDR"}, port.cur = "SHIFTDR" <=> mid,
           op = "SIR" => ~mid /\ ~Cascading,
           Cascading /\ ~mid => port.cur = "DRPAUSE"
    PROVE  Owes(Enter(op), Shifting(op), 0 - IF mid THEN 0 ELSE g_usHead[Reg(op)])
<1>1. g_usHead["DR"] \in Nat /\ g_usHead["IR"] \in Nat
  BY Lengths
<1>2. ASSUME port.cur \in Stable, NEW a \in Stable \ {"RESET"}, NEW to \in Shifts, NEW m \in Nat
      PROVE  Owes(Header(Move(Move(port, a), to), m), to, 0 - m)
  <2>1. Owes(Move(port, a), a, 0)
    BY <1>2, MoveOwes
  <2>2. to # "RESET"
    BY DEF Shifts
  <2>3. Owes(Move(Move(port, a), to), to, 0)
    <3>1. 0 \in Int /\ a \in Stable
      OBVIOUS
    <3> QED
      BY <2>1, <2>2, <3>1, MoveOwes
  <2>4. 0 \in Int
    OBVIOUS
  <2> QED
    BY <2>3, <2>4, PartsOwe
<1>3. CASE op = "SIR"
  <2>1. Enter(op) = Header(Move(Move(port, "IRPAUSE"), "SHIFTIR"), g_usHead["IR"])
    BY <1>3, CascadingIs DEF Enter
  <2>2. port.cur \in Stable /\ ~mid
    BY <1>3
  <2>3. "IRPAUSE" \in Stable \ {"RESET"} /\ "SHIFTIR" \in Shifts
    BY DEF Stable, Shifts
  <2>4. Owes(Enter(op), "SHIFTIR", 0 - g_usHead["IR"])
    BY <1>1, <1>2, <2>1, <2>2, <2>3
  <2> QED
    BY <1>3, <2>2, <2>4 DEF Shifting, Reg
<1>4. CASE op # "SIR" /\ mid
  <2>1. Enter(op) = port /\ port.cur = "SHIFTDR"
    BY <1>4 DEF Enter
  <2> QED
    BY <1>4, <2>1 DEF Shifting
<1>5. CASE op # "SIR" /\ ~mid
  <2>0. /\ port.cur \in Stable /\ port.cur # "SHIFTDR"
        /\ "DRPAUSE" \in Stable \ {"RESET"} /\ "SHIFTDR" \in Shifts /\ 0 \in Int
        /\ "SHIFTDR" # "RESET"
    BY <1>5 DEF Stable, Shifts
  <2>1. Owes(Enter(op), "SHIFTDR", 0 - g_usHead["DR"])
    <3>1. CASE ~Cascading
      <4>1. Enter(op) = Header(Move(Move(port, "DRPAUSE"), "SHIFTDR"), g_usHead["DR"])
        BY <1>5, <2>0, <3>1, CascadingIs DEF Enter
      <4> QED
        BY <1>1, <1>2, <2>0, <4>1
    <3>2. CASE Cascading
      <4>1. port.cur = "DRPAUSE"
        BY <1>5, <3>2
      <4>2. Enter(op) = Header(Move(port, "SHIFTDR"), g_usHead["DR"])
        BY <1>5, <2>0, <3>2, <4>1, CascadingIs DEF Enter
      <4>3. Owes(Move(port, "SHIFTDR"), "SHIFTDR", 0)
        BY <2>0, <4>1, MoveOwes
      <4> QED
        BY <1>1, <2>0, <4>2, <4>3, PartsOwe
    <3> QED
      BY <3>1, <3>2
  <2> QED
    BY <1>5, <2>1 DEF Shifting, Reg
<1> QED
  BY <1>3, <1>4, <1>5

LEMMA DueStep ==
    PlayerInv /\ DataInv /\ FormInv /\ SettingsInv /\ CascadesWhole /\ TornEnds
       /\ LoopInv /\ WhereInv /\ DueInv /\ [Next]_vars => DueInv'
<1> SUFFICES ASSUME PlayerInv, DataInv, FormInv, SettingsInv, CascadesWhole, TornEnds,
                    LoopInv, WhereInv, DueInv, [Next]_vars, ~repeated'
             PROVE  DueInv'
  BY DEF DueInv
<1>0. PortInv(port) /\ Opcode \in Ops
  BY AheadIsOp DEF PlayerInv, Opcode
\* Steps between the scans that leave the port alone.
<1>1. ASSUME pc \in Between, pc' \in Between \cup {"exit", "abort", "done", "spin"},
             UNCHANGED <<port, mid, repeated>>, Aborts => Aborts'
      PROVE  DueInv'
  BY <1>1 DEF DueInv, Aborts, Between
<1>2. ASSUME pc' \notin Between \cup InScan PROVE DueInv'
  BY <1>2 DEF DueInv, InScan
<1>3. ASSUME pc' \in Between, Owes(port', port'.cur, 0), mid' => port'.cur = "SHIFTDR"
      PROVE  DueInv'
  BY <1>3 DEF DueInv, Aborts, Between
<1>4. 0 \in Int
  OBVIOUS
\* What holds in the scan that is played.
<1>5. ASSUME pc \in InScan
      PROVE  /\ scan \in Ops /\ scan.op \in Scans /\ scan.size \in Nat /\ scan.size > 0
             /\ TailLeft \in Nat /\ SecondScan \in Nat /\ DataLeft \in Nat
             /\ BackLeft \in Nat /\ LastLeft \in Nat
             /\ mid <=> Cascading
             /\ scan.op = "SIR" => ~mid
             /\ Shifting(scan.op) \in Shifts
  <2>1. scan \in Ops /\ scan.op \in Scans /\ (mid <=> Cascading) /\ (scan.op = "SIR" => ~mid)
    BY <1>5 DEF WhereInv
  <2>2. Shifting(scan.op) \in Shifts
    BY DEF Shifting, Shifts
  <2> QED
    BY <2>1, <2>2, Amounts
<1>6. CASE ispVMStart
  <2>1. /\ pc = "start" /\ port' = Move(port, "RESET") /\ pc' \in {"code", "return"}
        /\ UNCHANGED <<mid, repeated>>
    BY <1>6 DEF ispVMStart, history
  <2>2. Owes(port, port.cur, 0) /\ port.cur \in Stable /\ ~mid
    <3>1. ~mid /\ port.cur \in Stable \cup {"SHIFTDR"} /\ (port.cur = "SHIFTDR" => mid)
      BY <2>1 DEF WhereInv, Aborts, Between, Early
    <3>2. Owes(port, port.cur, 0)
      BY <2>1 DEF DueInv, Aborts, Between
    <3> QED
      BY <3>1, <3>2
  <2>3. Owes(port', "RESET", 0)
    BY <1>4, <2>1, <2>2, MoveOwes
  <2> QED
    BY <1>3, <2>1, <2>2, <2>3 DEF Between, Owes
<1>7. CASE State
  <2>1. /\ pc = "code" /\ pc' = "code" /\ UNCHANGED <<mid, repeated>> /\ Opcode.op = "STATE"
        /\ port' = StateTo(Opcode.to)
    BY <1>7 DEF State, Is, control, history
  <2>2. Opcode.to \in Stable
    BY <1>0, <2>1 DEF FormInv, WellFormed
  <2>3. ~mid /\ port.cur \in Stable /\ Owes(port, port.cur, 0)
    <3>1. ~mid
      BY <2>1 DEF CascadesWhole
    <3>2. port.cur \in Stable \cup {"SHIFTDR"} /\ (port.cur = "SHIFTDR" => mid)
      BY <2>1 DEF WhereInv, Aborts, Between
    <3>3. Owes(port, port.cur, 0)
      BY <2>1 DEF DueInv, Aborts, Between
    <3> QED
      BY <3>1, <3>2, <3>3
  <2>4. Owes(port', Opcode.to, 0)
    <3>1. CASE Polls(Opcode.to)
      <4>1. port.cur = "DRPAUSE" /\ Opcode.to = "DRPAUSE"
        BY <3>1 DEF Polls
      <4> QED
        BY <1>4, <2>1, <2>3, <3>1, <4>1, DetourOwes DEF StateTo
    <3>2. CASE ~Polls(Opcode.to)
      BY <1>4, <2>1, <2>3, <3>2, MoveOwes DEF StateTo
    <3> QED
      BY <3>1, <3>2
  <2> QED
    BY <1>3, <2>1, <2>3, <2>4 DEF Between, Owes
\* The opcode of a scan: the header is clocked, the rest is owed.
<1>8. CASE ispVMShift
  <2> DEFINE t == Opcode
             head == IF mid THEN 0 ELSE g_usHead[Reg(t.op)]
  <2>1. /\ pc = "code" /\ t.op \in Scans
        /\ port' = [Enter(t.op) EXCEPT !.due = @ + Asked(t)]
        /\ UNCHANGED <<repeated, g_usHead, g_usTail>>
        /\ g_usFlowControl' = g_usFlowControl \
             (IF "TDI" \in ToSet(t.rows) THEN {"SHIFTLEFT", "SHIFTRIGHT"} ELSE {})
        /\ IF t.sound THEN scan' = t /\ pc' = "data" ELSE pc' = "return"
    BY <1>8 DEF ispVMShift, Is, Return, settings
  <2>0. CASE ~t.sound
    <3>1. Aborts'
      BY <1>8, <2>0, TornAborts
    <3> QED
      BY <2>0, <2>1, <3>1 DEF DueInv
  <2> SUFFICES ASSUME t.sound PROVE DueInv'
    BY <2>0
  <2>2. scan' = t /\ pc' = "data" /\ t.size \in Nat
    BY <1>0, <2>1 DEF FormInv, WellFormed
  <2>3. /\ Owes(port, port.cur, 0) /\ port.cur \in Stable \cup {"SHIFTDR"}
        /\ port.cur = "SHIFTDR" <=> mid
    BY <2>1 DEF WhereInv, DueInv, Aborts, Between
  <2>4. /\ t.op = "SIR" => ~mid /\ ~Cascading
        /\ Cascading /\ ~mid => port.cur = "DRPAUSE"
    BY <2>1, CascadingIs DEF CascadesWhole, Scans
  <2>5. Owes(Enter(t.op), Shifting(t.op), 0 - head)
    <3> HIDE DEF t
    <3> QED
      BY <2>1, <2>3, <2>4, EnterOwes
  <2>6. /\ g_usHead[Reg(t.op)] \in Nat /\ g_usTail[Reg(t.op)] \in Nat
        /\ g_usHead["DR"] \in Nat /\ g_usTail["DR"] \in Nat
    BY Lengths
  <2>7. Dynamic(t) => Reg(t.op) = "DR"
    BY <1>0 DEF FormInv, WellFormed, Reg
  <2>8. Cascading' <=> Cascading
    BY <2>1 DEF Cascading
  <2>9. DataLeft' = t.size + (IF Cascading THEN 0 ELSE g_usTail[Reg(t.op)])
                  + (IF Dynamic(t) THEN g_usHead["DR"] + t.size + g_usTail["DR"] ELSE 0)
    <3>1. Dynamic(scan)' <=> Dynamic(t)
      BY <2>2 DEF Dynamic
    <3>2. TailLeft' = IF Cascading THEN 0 ELSE g_usTail[Reg(t.op)]
      BY <2>1, <2>2, <2>8 DEF TailLeft
    <3>3. SecondScan' = g_usHead["DR"] + t.size + g_usTail["DR"]
      BY <2>1, <2>2 DEF SecondScan
    <3> QED
      BY <2>2, <3>1, <3>2, <3>3 DEF DataLeft
  <2>10. Asked(t) = t.size + head + (IF Cascading THEN 0 ELSE g_usTail[Reg(t.op)])
                    + (IF Dynamic(t) THEN g_usHead["DR"] + t.size + g_usTail["DR"] ELSE 0)
    BY <2>7, CascadingIs DEF Asked
  <2>11. head \in Nat /\ Asked(t) \in Int /\ 0 - head \in Int
    <3>1. head \in Nat
      BY <2>6
    <3> HIDE DEF head
    <3> QED
      BY <2>2, <2>6, <2>10, <3>1
  <2>12. 0 - head + Asked(t) = DataLeft'
    <3> HIDE DEF head, t
    <3> QED
      BY <2>2, <2>6, <2>9, <2>10, <2>11
  <2>13. Owes(port', Shifting(t.op), DataLeft')
    <3> HIDE DEF head, t
    <3> QED
      BY <2>1, <2>5, <2>11, <2>12, MoreOwed
  <2> QED
    BY <2>2, <2>13 DEF DueInv, Aborts, Between
\* The data is sent, all of it but its last bit unless another frame follows.
<1>9. CASE Send \/ ispVMRead
  <2>1. /\ pc = "data" /\ pc' \in {"retry", "leave"} /\ ~Dynamic(scan)
        /\ port' = Sent \/ port' = UsedUp(Sent)
        /\ UNCHANGED <<scan, repeated, g_usHead, g_usTail>>
        /\ g_usFlowControl' \in {g_usFlowControl, g_usFlowControl \ {"VERIFYUES"}}
    BY <1>9 DEF Send, ispVMRead, flags, settings, history, Compared
  <2>2. Cascading' <=> Cascading
    BY <2>1 DEF Cascading
  <2>3. LastLeft' = LastLeft
    BY <2>1, <2>2 DEF LastLeft
  <2>4. Owes(port, Shifting(scan.op), DataLeft) /\ DataLeft = scan.size + TailLeft
    <3>1. DataLeft = scan.size + TailLeft + 0
      BY <2>1 DEF DataLeft
    <3>2. scan.size \in Nat /\ TailLeft \in Nat
      BY <1>5, <2>1 DEF InScan
    <3>3. Owes(port, Shifting(scan.op), DataLeft)
      BY <2>1 DEF DueInv
    <3> QED
      BY <3>1, <3>2, <3>3
  <2>5. /\ scan.size \in Nat /\ scan.size > 0 /\ Shifting(scan.op) \in Shifts
        /\ DataLeft \in Int /\ TailLeft \in Nat /\ LastLeft \in Int
    BY <1>5, <2>1 DEF InScan
  <2>8. Owes(Sent, Shifting(scan.op), LastLeft) /\ LastLeft \in Int
    <3>1. CASE Cascading
      <4>1. Sent = ispVMSend(port, scan.size, TRUE)
        BY <2>1, <3>1, SendIs DEF Sent
      <4>2. DataLeft - scan.size = LastLeft
        BY <2>4, <2>5, <3>1 DEF TailLeft, LastLeft
      <4>3. Owes(ispVMSend(port, scan.size, TRUE), Shifting(scan.op), DataLeft - scan.size)
        BY <2>4, <2>5, PartsOwe
      <4> QED
        BY <2>5, <4>1, <4>2, <4>3
    <3>2. CASE ~Cascading
      <4>1. Sent = ispVMSend(port, scan.size, FALSE)
        BY <2>1, <3>2, SendIs DEF Sent
      <4>2. DataLeft - scan.size + 1 = LastLeft
        BY <2>4, <2>5, <3>2 DEF TailLeft, LastLeft
      <4>3. Owes(ispVMSend(port, scan.size, FALSE), Shifting(scan.op),
                 DataLeft - scan.size + 1)
        BY <2>4, <2>5, PartsOwe
      <4> QED
        BY <2>5, <4>1, <4>2, <4>3
    <3> QED
      BY <3>1, <3>2
  <2>6. Owes(port', Shifting(scan.op), LastLeft)
    <3>1. Owes(UsedUp(Sent), Shifting(scan.op), LastLeft)
      BY <2>8, MoreOwed DEF UsedUp
    <3> QED
      BY <2>1, <2>8, <3>1
  <2>7. Shifting(scan.op)' = Shifting(scan.op)
    BY <2>1
  <2> QED
    BY <2>1, <2>3, <2>6, <2>7 DEF DueInv, Aborts, Between
<1>10. CASE Retry
  BY <1>10 DEF Retry, DueInv
\* Dynamic I/O: a scan of its own, with its trailer, and then another one.
<1>11. CASE ispVMReadandSave
  <2>1. /\ pc = "data" /\ pc' = "back" /\ Dynamic(scan)
        /\ port' = Move(Trailer(ispVMSend(port, scan.size, FALSE), g_usTail.DR), "DRPAUSE")
        /\ UNCHANGED <<scan, repeated, g_usHead, g_usTail, g_usFlowControl>>
    BY <1>11 DEF ispVMReadandSave, flags, settings, history
  <2>2. BackLeft' = BackLeft
    BY <2>1 DEF BackLeft, TailLeft, Cascading
  <2>3. /\ scan \in Ops /\ scan.size \in Nat /\ scan.size > 0
        /\ Shifting(scan.op) \in Shifts /\ DataLeft \in Int
        /\ TailLeft \in Nat /\ g_usTail["DR"] \in Nat /\ g_usHead["DR"] \in Nat
    BY <1>5, <2>1, Lengths DEF InScan
  <2>4. Owes(port, Shifting(scan.op), DataLeft)
    BY <2>1 DEF DueInv
  <2> DEFINE p == ispVMSend(port, scan.size, FALSE)
             a == Shifting(scan.op)
             i == DataLeft - scan.size + 1
             j == i - g_usTail["DR"]
  <2>5. Owes(p, a, i) /\ i \in Int
    <3>1. i \in Int
      BY <2>3
    <3> HIDE DEF a
    <3>2. a \in Shifts /\ Owes(port, a, DataLeft)
      BY <2>3, <2>4 DEF a
    <3>3. Owes(p, a, i)
      BY <2>3, <3>2, PartsOwe
    <3> QED
      BY <3>1, <3>3
  <2>6. Owes(Trailer(p, g_usTail["DR"]), a, j) /\ j \in Int
    <3> HIDE DEF p, i, a
    <3>1. a \in Shifts
      BY <2>3 DEF a
    <3>2. j \in Int
      BY <2>3, <2>5
    <3>3. Owes(Trailer(p, g_usTail["DR"]), a, j)
      BY <2>3, <2>5, <3>1, PartsOwe
    <3> QED
      BY <3>2, <3>3
  <2>7. Owes(port', "DRPAUSE", j - 1)
    <3>1. a \in Shifts /\ "DRPAUSE" # a /\ "DRPAUSE" # "RESET"
      BY <2>3 DEF Shifts
    <3> HIDE DEF p, j, a
    <3> QED
      BY <2>1, <2>6, <3>1, MoveOut DEF p
  <2>8. j - 1 = BackLeft
    BY <2>1, <2>3 DEF DataLeft, SecondScan, BackLeft
  <2> QED
    BY <2>1, <2>2, <2>7, <2>8 DEF DueInv, Aborts, Between
<1>12. CASE SendBack
  <2>1. /\ pc = "back" /\ pc' = "leave"
        /\ port' = ispVMSend(Header(Move(port, "SHIFTDR"), g_usHead.DR), scan.size,
                             Has("CASCADE"))
        /\ UNCHANGED <<scan, repeated, g_usHead, g_usTail, g_usFlowControl>>
    BY <1>12 DEF SendBack, flags, settings, history
  <2>2. LastLeft' = LastLeft
    BY <2>1 DEF LastLeft, Cascading
  <2>3. /\ scan.size \in Nat /\ scan.size > 0 /\ TailLeft \in Nat /\ BackLeft \in Int
        /\ g_usHead["DR"] \in Nat
    BY <1>5, <2>1, Lengths DEF InScan
  <2>4. Shifting(scan.op) = "SHIFTDR" /\ "SHIFTDR" \in Shifts
    <3>1. scan \in Ops /\ Dynamic(scan)
      BY <2>1 DEF WhereInv, InScan
    <3> QED
      BY <3>1 DEF FormInv, WellFormed, Shifting, Shifts
  <2>5. Owes(Move(port, "SHIFTDR"), "SHIFTDR", BackLeft)
    <3>1. Owes(port, "DRPAUSE", BackLeft)
      BY <2>1 DEF DueInv
    <3>2. "DRPAUSE" \in Stable /\ "SHIFTDR" # "RESET"
      BY DEF Stable
    <3> QED
      BY <2>3, <3>1, <3>2, MoveOwes
  <2> DEFINE p == Header(Move(port, "SHIFTDR"), g_usHead["DR"])
             n == BackLeft - g_usHead["DR"]
  <2>6. Owes(p, "SHIFTDR", n) /\ n \in Int
    <3>1. n \in Int
      BY <2>3
    <3>2. Owes(p, "SHIFTDR", n)
      BY <2>3, <2>4, <2>5, PartsOwe
    <3> QED
      BY <3>1, <3>2
  <2>7. n = scan.size + TailLeft
    BY <2>3 DEF BackLeft
  <2>8. port' = ispVMSend(p, scan.size, Has("CASCADE"))
    BY <2>1
  <2> HIDE DEF p, n
  <2>9. Owes(port', "SHIFTDR", LastLeft)
    <3>1. CASE Cascading
      <4>1. port' = ispVMSend(p, scan.size, TRUE)
        BY <2>8, <3>1, SendIs
      <4>2. n - scan.size = LastLeft
        BY <2>3, <2>7, <3>1 DEF TailLeft, LastLeft
      <4>3. Owes(ispVMSend(p, scan.size, TRUE), "SHIFTDR", n - scan.size)
        BY <2>3, <2>4, <2>6, PartsOwe
      <4> QED
        BY <4>1, <4>2, <4>3
    <3>2. CASE ~Cascading
      <4>1. port' = ispVMSend(p, scan.size, FALSE)
        BY <2>8, <3>2, SendIs
      <4>2. n - scan.size + 1 = LastLeft
        BY <2>3, <2>7, <3>2 DEF TailLeft, LastLeft
      <4>3. Owes(ispVMSend(p, scan.size, FALSE), "SHIFTDR", n - scan.size + 1)
        BY <2>3, <2>4, <2>6, PartsOwe
      <4> QED
        BY <4>1, <4>2, <4>3
    <3> QED
      BY <3>1, <3>2
  <2>10. Shifting(scan.op)' = Shifting(scan.op)
    BY <2>1
  <2> QED
    BY <2>1, <2>2, <2>4, <2>9, <2>10 DEF DueInv, Aborts, Between
\* The trailer, and the last bit with the move to the end state.
<1>13. CASE LeaveShift
  <2>1. /\ pc = "leave" /\ pc' \in {"code", "return"} /\ UNCHANGED <<mid, repeated>>
        /\ port' = [Leave(scan.op) EXCEPT !.fresh = FALSE]
    BY <1>13 DEF LeaveShift, Result, UsedUp
  <2>2. /\ Owes(port, Shifting(scan.op), LastLeft) /\ LastLeft \in Int
        /\ mid <=> Cascading
        /\ scan.op = "SIR" => ~mid
        /\ Shifting(scan.op) \in Shifts
    <3>1. Owes(port, Shifting(scan.op), LastLeft)
      BY <2>1 DEF DueInv
    <3> QED
      BY <1>5, <2>1, <3>1 DEF InScan
  <2>3. CASE Cascading
    <3>1. Leave(scan.op) = port /\ Shifting(scan.op) = "SHIFTDR" /\ LastLeft = 0
      BY <2>2, <2>3, CascadingIs DEF Leave, Shifting, LastLeft
    <3>2. Owes(port', "SHIFTDR", 0)
      BY <1>4, <2>1, <2>2, <3>1, MoreOwed
    <3> QED
      BY <1>3, <2>1, <3>2 DEF Between, Owes
  <2>4. CASE ~Cascading
    <3> DEFINE m == g_usTail[Reg(scan.op)]
               to == g_ucEnd[Reg(scan.op)]
               a == Shifting(scan.op)
    <3>1. Leave(scan.op) = Move(Trailer(port, m), to)
      BY <2>4, CascadingIs DEF Leave
    <3>2. m \in Nat /\ to \in Stable
      BY Lengths
    <3>3. LastLeft = 1 + m
      BY <2>4 DEF LastLeft
    <3>4. a \in Shifts /\ to # a
      BY <2>2, <3>2 DEF Shifts, Stable
    <3>5. Owes(Trailer(port, m), a, 1)
      <4> HIDE DEF m, a
      <4>1. Owes(port, a, LastLeft) /\ LastLeft - m = 1
        BY <2>2, <3>2, <3>3 DEF a
      <4>2. Owes(Trailer(port, m), a, LastLeft - m)
        BY <2>2, <3>2, <3>4, <4>1, PartsOwe
      <4> QED
        BY <4>1, <4>2
    <3>6. Owes(Leave(scan.op), to, 0)
      <4> HIDE DEF m, to, a
      <4>1. 1 \in Int /\ 1 - 1 = 0
        OBVIOUS
      <4>2. Owes(Move(Trailer(port, m), to), to, 1 - 1)
        BY <3>4, <3>5, <4>1, MoveOut
      <4> QED
        BY <3>1, <4>1, <4>2
    <3>7. Owes(port', to, 0)
      BY <1>4, <2>1, <3>6, MoreOwed
    <3>8. ~mid'
      BY <2>1, <2>2, <2>4
    <3> QED
      BY <1>3, <2>1, <3>7, <3>8 DEF Between, Owes
  <2> QED
    BY <2>3, <2>4
<1>14. CASE TCK
  <2>1. /\ pc = "code" /\ pc' = "code" /\ UNCHANGED <<mid, repeated>> /\ Opcode.op = "TCK"
        /\ port' = ispVMClocks(port, Opcode.n)
    BY <1>14 DEF TCK, Is, control, history
  <2>2. ~mid /\ port.cur \in Stable /\ Owes(port, port.cur, 0)
    <3>1. ~mid
      BY <2>1 DEF CascadesWhole
    <3>2. port.cur \in Stable \cup {"SHIFTDR"} /\ (port.cur = "SHIFTDR" => mid)
      BY <2>1 DEF WhereInv, Aborts, Between
    <3>3. Owes(port, port.cur, 0)
      BY <2>1 DEF DueInv, Aborts, Between
    <3> QED
      BY <3>1, <3>2, <3>3
  <2>3. Opcode.n \in Int
    BY <1>0, <2>1 DEF FormInv, WellFormed
  <2>4. Owes(port', port.cur, 0)
    BY <1>4, <2>1, <2>2, <2>3, ClocksOwe
  <2> QED
    BY <1>3, <2>1, <2>2, <2>4 DEF Between, Owes
<1>15. CASE Open \/ hardware_init \/ CheckVersion \/ main
  <2>1. /\ UNCHANGED <<port, mid, repeated>>
        /\ \/ pc \in {"open", "init", "version"}
              /\ pc' \in {"init", "version", "start", "exit", "abort", "spin"}
           \/ pc' \in {"done", "abort"}
    BY <1>15 DEF Open, hardware_init, CheckVersion, main, play, history
  <2> QED
    BY <1>1, <1>2, <2>1 DEF Aborts, Between, InScan
<1>16. CASE ENDDR \/ ENDIR \/ MEM \/ VENDOR \/ SETFLOW \/ RESETFLOW
  <2>1. pc = "code" /\ pc' = "code" /\ UNCHANGED <<port, mid, repeated>>
    BY <1>16 DEF ENDDR, ENDIR, MEM, VENDOR, SETFLOW, RESETFLOW, Is, control, history
  <2> QED
    BY <1>1, <2>1 DEF Aborts, Between
<1>17. CASE SHR \/ VUES \/ Skipped \/ ispVMProcessLVDS
  <2>1. pc = "code" /\ pc' = "code" /\ UNCHANGED <<port, mid, repeated>>
    BY <1>17 DEF SHR, VUES, Skipped, ispVMProcessLVDS, Is, control, history
  <2> QED
    BY <1>1, <2>1 DEF Aborts, Between
<1>18. CASE ispVMAmble \/ Invalid \/ HEAP \/ REPEAT \/ LCOUNT \/ EndCode
  <2>1. /\ pc = "code" /\ pc' \in {"code", "return", "abort"}
        /\ UNCHANGED <<port, mid, repeated>>
    BY <1>18 DEF ispVMAmble, Invalid, HEAP, REPEAT, LCOUNT, EndCode, Is, Return, Result,
                 history
  <2> QED
    BY <1>1, <2>1 DEF Aborts, Between
<1>19. CASE RepeatAgain \/ RepeatEnds \/ CountAgain \/ CountEnds
  <2>1. pc = "return" /\ pc' \in {"code", "return"} /\ UNCHANGED <<port, mid, repeated>>
    BY <1>19 DEF RepeatAgain, RepeatEnds, CountAgain, CountEnds, InLoop, GivenUp, Result,
                 history
  <2> QED
    BY <1>1, <1>19, <2>1, AbortsOn DEF Between
<1>20. CASE ispVMEnd \/ ispVMDataSize
  BY <1>2, <1>20 DEF ispVMEnd, ispVMDataSize, Between, InScan
<1>21. CASE Gone \/ UNCHANGED vars
  <2>1. /\ UNCHANGED <<pc, port, mid, scan, repeated, g_usFlowControl, g_usHead, g_usTail>>
        /\ UNCHANGED <<stack, ret>>
        /\ (Dynamic(scan)' <=> Dynamic(scan))
    BY <1>21 DEF Gone, vars, control, history, flags, settings, loop, Dynamic
  <2>2. Cascading' <=> Cascading
    BY <2>1 DEF Cascading
  <2>3. TailLeft' = TailLeft /\ SecondScan' = SecondScan /\ LastLeft' = LastLeft
    BY <2>1, <2>2 DEF TailLeft, SecondScan, LastLeft
  <2>4. DataLeft' = DataLeft /\ BackLeft' = BackLeft
    BY <2>1, <2>3 DEF DataLeft, BackLeft
  <2> QED
    BY <2>1, <2>3, <2>4 DEF DueInv, Aborts, Playing
<1> QED
  BY <1>6, <1>7, <1>8, <1>9, <1>10, <1>11, <1>12, <1>13, <1>14, <1>15, <1>16, <1>17, <1>18,
     <1>19, <1>20, <1>21 DEF Next, Play

-----------------------------------------------------------------------------
(* Theorems. *)

\* A file of opcodes that are well formed.
Sound(code) == Complete(code) /\ \A t \in ToSet(code) : WellFormed(t)

ScanInvs == PlayerInv /\ DataInv /\ FormInv /\ SettingsInv
               /\ LoopInv /\ WhereInv /\ DueInv

LEMMA InitScan ==
    ASSUME \A im \in Images : Sound(im.code) PROVE Init => ScanInvs
<1> SUFFICES ASSUME Init PROVE ScanInvs
  OBVIOUS
<1>1. PlayerInv
  BY InitInv
<1>2. DataInv
  BY InitData DEF Sound
<1>3. FormInv
  <2>1. \A t \in ToSet(image.code) : WellFormed(t)
    BY DEF Init, Sound
  <2>2. WellFormed(End) /\ WellFormed(Unset)
    BY DEF WellFormed, End, Unset, Scans
  <2> QED
    BY <2>1, <2>2 DEF FormInv, Ops
<1>4. SettingsInv
  BY DEF Init, SettingsInv, Stable
<1>5. WhereInv
  BY DEF Init, WhereInv, Aborts, Between, InScan, Early, Stable
<1>6. DueInv
  <2>1. port.due \in Int /\ port.due = 0 /\ pc = "open" /\ mid = FALSE
    BY DEF Init
  <2> QED
    BY <1>1, <2>1 DEF DueInv, Aborts, Between, InScan, Owes, PlayerInv
<1>7. LoopInv
  BY InitLoops
<1> QED
  BY <1>1, <1>2, <1>3, <1>4, <1>5, <1>6, <1>7 DEF ScanInvs

LEMMA ScanStep == ScanInvs /\ CascadesWhole /\ TornEnds /\ [Next]_vars => ScanInvs'
  BY StepInv, DataStep, SettingsStep, LoopStep, WhereStep, DueStep DEF ScanInvs

LEMMA ScansCounted == ScanInvs => ScansComplete
  BY DEF ScanInvs, DueInv, Aborts, Between, Owes, ScansComplete

\* A bit too many or too few goes unnoticed until the devices compare: between two
\* opcodes every bit that the scans asked for was clocked once, for headers, data and
\* trailers of every length, in every frame of a cascade, in both scans of dynamic I/O
\* and whatever the devices answer, in a file whose opcodes are well formed, whose
\* cascades are whole and whose polls for a status have their data (ispVMShift,
\* ispVMSend, ispVMBypass and the read functions of ispvm.c).
THEOREM EveryBitClocked ==
    ASSUME \A im \in Images : Sound(im.code)
    PROVE  Spec /\ []CascadesWhole /\ []TornEnds => []ScansComplete
<1>1. Init => ScanInvs
  BY InitScan
<1> QED
  BY <1>1, ScanStep, ScansCounted, PTL DEF Spec

\* Without the flag there is no cascade.
NoCascade(code) ==
    \A t \in ToSet(code) : t.op = "SETFLOW" => "CASCADE" \notin t.flags
NoCascadeInv ==
    /\ \A t \in Ops : t.op = "SETFLOW" => "CASCADE" \notin t.flags
    /\ ~Cascading /\ mid = FALSE

LEMMA NoCascadeStep == DataInv /\ NoCascadeInv /\ [Next]_vars => NoCascadeInv'
<1> SUFFICES ASSUME DataInv, NoCascadeInv, [Next]_vars
             PROVE  NoCascadeInv'
  OBVIOUS
<1>1. ASSUME UNCHANGED <<image, mid>>, ~Cascading' PROVE NoCascadeInv'
  BY <1>1 DEF NoCascadeInv, Ops
<1>2. ~Cascading /\ mid = FALSE /\ ~Has("CASCADE") /\ Opcode \in Ops
  BY CascadingIs, AheadIsOp DEF NoCascadeInv, Opcode
<1>3. ASSUME UNCHANGED <<image, mid, g_usFlowControl>> PROVE NoCascadeInv'
  BY <1>1, <1>2, <1>3 DEF Cascading
<1>4. CASE ispVMShift
  <2>1. /\ UNCHANGED image /\ mid' = (IF Opcode.op = "SIR" THEN mid ELSE Has("CASCADE"))
        /\ g_usFlowControl' \subseteq g_usFlowControl
    BY <1>4 DEF ispVMShift
  <2>2. ~mid' /\ mid' \in BOOLEAN
    <3>1. mid' = mid \/ mid' = Has("CASCADE")
      BY <2>1, Zenon
    <3>2. Has("CASCADE") \in BOOLEAN
      BY DEF Has
    <3> QED
      BY <1>2, <3>1, <3>2, Zenon
  <2>3. mid' = mid
    BY <1>2, <2>2, Zenon
  <2> QED
    BY <1>1, <1>2, <2>1, <2>3 DEF Cascading
<1>5. CASE SETFLOW
  <2>1. /\ Opcode.op = "SETFLOW" /\ UNCHANGED <<image, mid>>
        /\ g_usFlowControl' = g_usFlowControl \cup Opcode.flags
    BY <1>5 DEF SETFLOW, Is, history
  <2>2. "CASCADE" \notin Opcode.flags
    BY <1>2, <2>1 DEF NoCascadeInv
  <2> QED
    BY <1>1, <1>2, <2>1, <2>2 DEF Cascading
<1>6. CASE RESETFLOW \/ SHR \/ VUES \/ REPEAT \/ RepeatEnds \/ ispVMRead
  <2>1. /\ UNCHANGED <<image, mid>>
        /\ g_usFlowControl' \subseteq
             g_usFlowControl \cup {"SHIFTRIGHT", "SHIFTLEFT", "VERIFYUES", "REPEATLOOP"}
    BY <1>6 DEF RESETFLOW, SHR, VUES, REPEAT, RepeatEnds, ispVMRead, history, flags
  <2> QED
    BY <1>1, <1>2, <2>1 DEF Cascading
<1>7. CASE Open \/ hardware_init \/ CheckVersion \/ ispVMStart \/ main
  BY <1>3, <1>7 DEF Open, hardware_init, CheckVersion, ispVMStart, main, play, flags,
                    history
<1>8. CASE State \/ Send \/ Retry \/ ispVMReadandSave \/ SendBack \/ LeaveShift \/ TCK
  BY <1>3, <1>8 DEF State, Send, Retry, ispVMReadandSave, SendBack, LeaveShift, TCK, flags,
                    history
<1>9. CASE ENDDR \/ ENDIR \/ ispVMAmble \/ MEM \/ VENDOR \/ Skipped \/ ispVMProcessLVDS
  BY <1>3, <1>9 DEF ENDDR, ENDIR, ispVMAmble, MEM, VENDOR, Skipped, ispVMProcessLVDS, flags,
                    history
<1>10. CASE Invalid \/ ispVMDataSize \/ HEAP \/ LCOUNT \/ EndCode
  BY <1>3, <1>10 DEF Invalid, ispVMDataSize, HEAP, LCOUNT, EndCode, flags, history
<1>11. CASE RepeatAgain \/ CountAgain \/ CountEnds \/ ispVMEnd
  BY <1>3, <1>11 DEF RepeatAgain, CountAgain, CountEnds, ispVMEnd, flags, history
<1>12. CASE Gone \/ UNCHANGED vars
  BY <1>3, <1>12 DEF Gone, vars, flags, history
<1> QED
  BY <1>4, <1>5, <1>6, <1>7, <1>8, <1>9, <1>10, <1>11, <1>12 DEF Next, Play

\* The same for a file without cascades, with nothing else asked of the order of its
\* opcodes: they may move to any stable state and be played in loops of any kind.
THEOREM EveryBitOfPlainFiles ==
    ASSUME \A im \in Images : Sound(im.code) /\ NoCascade(im.code)
    PROVE  Spec /\ []TornEnds => []ScansComplete
<1>1. Init => ScanInvs
  BY InitScan
<1>2. Init => NoCascadeInv
  <2> SUFFICES ASSUME Init PROVE NoCascadeInv
    OBVIOUS
  <2>1. \A t \in Ops : t.op = "SETFLOW" => "CASCADE" \notin t.flags
    BY DEF Init, NoCascade, Ops, End, Unset
  <2> QED
    BY <2>1 DEF NoCascadeInv, Init, Cascading
<1>3. NoCascadeInv => CascadesWhole
  BY CascadingIs DEF NoCascadeInv, CascadesWhole
<1>4. ScanInvs /\ NoCascadeInv /\ TornEnds /\ [Next]_vars => ScanInvs' /\ NoCascadeInv'
  BY <1>3, ScanStep, NoCascadeStep DEF ScanInvs
<1> QED
  BY <1>1, <1>2, <1>4, ScansCounted, PTL DEF Spec

-----------------------------------------------------------------------------
(* The data of a scan that is shifted by the rounds of its loop. *)

ShiftFlags == {"SHIFTLEFT", "SHIFTRIGHT"}
Pending == ShiftFlags \cap g_usFlowControl # {}

\* A file whose loops shift their data by one step, and whose last round is shifted by
\* less than the 16 bits of g_usShiftValue hold; a shift is asked for by its opcode.
Stepped(step, t) ==
    /\ t.op \in {"SHR", "SHL"} => t.step = step
    /\ t.op = "SETFLOW" => t.flags \cap ShiftFlags = {}
    /\ t.op = "REPEAT" => /\ t.count \in Nat /\ t.count <= 2^16
                          /\ (t.count - 1) * step < 2^16
SteppedFile(im) ==
    im.step \in Nat /\ \A t \in ToSet(im.code) : Stepped(im.step, t)

\* A shift that a round asked for is used up by the data of that round.
ShiftsUsed == InLoop("REPEAT") /\ MoreRounds => ~Pending

\* The rounds that were played of a loop, and the shift that is to be used.
Counted(f) ==
    /\ f.total \in Nat /\ f.left \in 1 .. f.total /\ loops = f.total - f.left
    /\ f.total <= 2^16 /\ (f.total - 1) * image.step < 2^16
    /\ Pending => shift = loops * image.step
Rounds == \A i \in 1 .. Len(stack) : stack[i].kind = "REPEAT" => Counted(stack[i])
StepsInv == image.step \in Nat /\ \A t \in Ops : Stepped(image.step, t)
RoundInv == StepsInv /\ ("nested" \in lapses \/ Rounds)

\* A step count below the bound of the last round does not wrap.
LEMMA NoWrap ==
    ASSUME NEW n \in Nat, NEW k \in 0 .. n - 1, NEW step \in Nat, (n - 1) * step < 2^16
    PROVE  k * step \in Nat /\ (k * step) % 2^16 = k * step
<1>1. 2^16 = 65536
  OBVIOUS
<1>2. k \in Nat /\ n - 1 \in Nat /\ k <= n - 1
  OBVIOUS
<1>3. k * step \in Nat /\ k * step <= (n - 1) * step /\ (n - 1) * step \in Nat
  BY <1>2
<1>4. k * step < 65536
  BY <1>1, <1>3
<1>5. \A a \in Nat : a < 65536 => a % 65536 = a
  OBVIOUS
<1> QED
  BY <1>1, <1>3, <1>4, <1>5

LEMMA SameImage == [Next]_vars => UNCHANGED image
  BY DEF Next, Play, Open, hardware_init, CheckVersion, ispVMStart, State, ispVMShift, Send,
         ispVMRead, Retry, ispVMReadandSave, SendBack, LeaveShift, TCK, ENDDR, ENDIR,
         ispVMAmble, MEM, VENDOR, SETFLOW, RESETFLOW, SHR, VUES, Skipped, ispVMProcessLVDS,
         Invalid, ispVMDataSize, HEAP, REPEAT, LCOUNT, EndCode, RepeatAgain, RepeatEnds, CountAgain,
         CountEnds, ispVMEnd, main, Gone, play, vars

LEMMA LapsesStay == [Next]_vars => lapses \subseteq lapses'
<1> SUFFICES ASSUME [Next]_vars PROVE lapses \subseteq lapses'
  OBVIOUS
<1>1. CASE MEM \/ EndCode \/ HEAP \/ REPEAT \/ LCOUNT
  BY <1>1 DEF MEM, EndCode, HEAP, REPEAT, LCOUNT
<1>2. CASE Open \/ hardware_init \/ CheckVersion \/ ispVMStart \/ main \/ State \/ Send
  BY <1>2 DEF Open, hardware_init, CheckVersion, ispVMStart, main, State, Send, play, history
<1>3. CASE ispVMShift \/ ispVMRead \/ Retry \/ ispVMReadandSave \/ SendBack \/ LeaveShift
  BY <1>3 DEF ispVMShift, ispVMRead, Retry, ispVMReadandSave, SendBack, LeaveShift, history
<1>4. CASE TCK \/ ENDDR \/ ENDIR \/ ispVMAmble \/ VENDOR \/ SETFLOW \/ RESETFLOW
  BY <1>4 DEF TCK, ENDDR, ENDIR, ispVMAmble, VENDOR, SETFLOW, RESETFLOW, history
<1>5. CASE SHR \/ VUES \/ Skipped \/ ispVMProcessLVDS \/ Invalid \/ ispVMDataSize
  BY <1>5 DEF SHR, VUES, Skipped, ispVMProcessLVDS, Invalid, ispVMDataSize, history
<1>6. CASE RepeatAgain \/ RepeatEnds \/ CountAgain \/ CountEnds \/ ispVMEnd
  BY <1>6 DEF RepeatAgain, RepeatEnds, CountAgain, CountEnds, ispVMEnd, history
<1>7. CASE Gone \/ UNCHANGED vars
  BY <1>7 DEF Gone, vars, history
<1> QED
  BY <1>1, <1>2, <1>3, <1>4, <1>5, <1>6, <1>7 DEF Next, Play

\* Where no loop took the buffer of another one, a loop with rounds has no other such
\* loop around it.
LEMMA OneLoop ==
    ASSUME LoopInv, "nested" \notin lapses, stack # <<>>, Innermost.kind = "REPEAT"
    PROVE  \A i \in 1 .. Len(stack) - 1 : stack[i].kind # "REPEAT"
<1>1. Plain /\ Len(stack) \in Nat
  BY StackIs DEF LoopInv
<1> QED
  BY <1>1 DEF Plain, Innermost

LEMMA RoundStep ==
    LoopInv /\ DataInv /\ RoundInv /\ ShiftsUsed /\ [Next]_vars => RoundInv'
<1> SUFFICES ASSUME LoopInv, DataInv, RoundInv, ShiftsUsed, [Next]_vars
             PROVE  RoundInv'
  OBVIOUS
<1>1. UNCHANGED image
  BY SameImage
<1>2. StepsInv'
  BY <1>1 DEF RoundInv, StepsInv, Ops
<1>3. Opcode \in Ops
  BY AheadIsOp DEF Opcode
<1>4. Stepped(image.step, Opcode) /\ image.step \in Nat
  BY <1>3 DEF RoundInv, StepsInv
\* Where a loop took the buffer of another one nothing is said.
<1> SUFFICES ASSUME "nested" \notin lapses' PROVE Rounds'
  BY <1>2 DEF RoundInv
<1>21. "nested" \notin lapses /\ Rounds /\ Stacked
  BY LapsesStay DEF RoundInv, LoopInv
\* Most steps change neither the loops nor what they count, and ask for no shift.
<1>5. ASSUME UNCHANGED <<loops, shift>>, Pending' => Pending,
             \A i \in 1 .. Len(stack') : stack'[i].kind = "REPEAT"
                => i \in 1 .. Len(stack) /\ stack'[i] = stack[i]
      PROVE  Rounds'
  BY <1>1, <1>21, <1>5 DEF Rounds, Counted
<1>6. ASSUME UNCHANGED loop, Pending' => Pending PROVE Rounds'
  BY <1>5, <1>6 DEF loop
<1>7. ASSUME UNCHANGED <<loop, g_usFlowControl>> PROVE Rounds'
  BY <1>6, <1>7 DEF Pending
\* A loop with rounds that is begun has none around it.
<1>8. CASE REPEAT
  <2> DEFINE f == [kind |-> "REPEAT", left |-> Opcode.count, total |-> Opcode.count,
                   heap |-> FALSE, miss |-> {}]
  <2>1. /\ Opcode.op = "REPEAT" /\ loops' = 0 /\ shift' = 0
        /\ stack' = stack \/ (Opcode.count # 0 /\ stack' = Append(stack, f))
        /\ lapses' = lapses \cup Nested("REPEAT")
    BY <1>8 DEF REPEAT, NewLoop, Is
  <2>2. \A i \in 1 .. Len(stack) : stack[i].kind # "REPEAT"
    BY <2>1 DEF Nested, Playing
  <2>3. CASE stack' = stack
    BY <2>2, <2>3 DEF Rounds
  <2>4. CASE Opcode.count # 0 /\ stack' = Append(stack, f)
    <3>1. Frame(f)
      BY DEF Frame, Keys
    <3> HIDE DEF f
    <3>2. /\ Len(stack') = Len(stack) + 1 /\ stack'[Len(stack) + 1] = f
          /\ \A i \in 1 .. Len(stack) : stack'[i] = stack[i]
      BY <1>21, <2>4, <3>1, Pushed
    <3>3. Len(stack) \in Nat
      BY <1>21, StackIs
    <3>4. /\ Opcode.count \in Nat \ {0} /\ Opcode.count <= 2^16
          /\ (Opcode.count - 1) * image.step < 2^16
      BY <1>4, <2>1, <2>4 DEF Stepped
    <3>5. 0 * image.step = 0
      BY <1>4
    <3>6. f.total = Opcode.count /\ f.left = Opcode.count
      BY DEF f
    <3>7. ASSUME NEW g, g = f PROVE Counted(g)'
      BY <1>1, <2>1, <3>4, <3>5, <3>6, <3>7 DEF Counted
    <3>8. \A i \in 1 .. Len(stack') : stack'[i].kind = "REPEAT" => stack'[i] = f
      BY <2>2, <3>2, <3>3
    <3> QED
      BY <3>7, <3>8 DEF Rounds
  <2> QED
    BY <2>1, <2>3, <2>4
<1>9. CASE RepeatAgain
  <2> DEFINE f == Innermost
  <2>1. /\ InLoop("REPEAT") /\ MoreRounds /\ stack' = Round
        /\ loops' = (loops + 1) % 2^16 /\ UNCHANGED <<shift, g_usFlowControl>>
    BY <1>9 DEF RepeatAgain, flags
  <2>2. stack # <<>> /\ f.kind = "REPEAT" /\ f.left > 1
    BY <2>1 DEF InLoop, MoreRounds
  <2>3. /\ Len(stack') = Len(stack) /\ Len(stack) \in Nat \ {0}
        /\ \A i \in 1 .. Len(stack) - 1 : stack'[i] = stack[i]
        /\ stack'[Len(stack)] = Less(f)
    BY <1>21, <2>1, <2>2, OneLess
  <2>4. \A i \in 1 .. Len(stack) - 1 : stack[i].kind # "REPEAT"
    BY <1>21, <2>2, OneLoop
  <2>5. f = stack[Len(stack)] /\ Len(stack) \in 1 .. Len(stack)
    BY <2>3 DEF Innermost
  <2>6. Counted(f) /\ Frame(f)
    BY <1>21, <2>2, <2>5, StackIs DEF Rounds
  <2> HIDE DEF f
  <2>7. Less(f).total = f.total /\ Less(f).left = f.left - 1
    BY <2>6 DEF Frame, Less, Keys
  <2>8. ~Pending'
    BY <2>1 DEF ShiftsUsed, Pending
  <2>9. loops' = loops + 1
    <3>1. loops + 1 \in Nat /\ loops + 1 < 2^16
      BY <2>2, <2>6 DEF Counted
    <3>2. \A a \in Nat : a < 65536 => a % 65536 = a
      OBVIOUS
    <3>3. 2^16 = 65536
      OBVIOUS
    <3> QED
      BY <2>1, <3>1, <3>2, <3>3
  <2>10. ASSUME NEW g, g = Less(f) PROVE Counted(g)'
    <3>1. f.left - 1 \in 1 .. f.total /\ loops' = f.total - (f.left - 1)
      BY <2>2, <2>6, <2>9 DEF Counted
    <3> QED
      BY <1>1, <2>6, <2>7, <2>8, <2>10, <3>1 DEF Counted
  <2>11. \A i \in 1 .. Len(stack') : stack'[i].kind = "REPEAT" => stack'[i] = Less(f)
    BY <2>3, <2>4
  <2> QED
    BY <2>10, <2>11 DEF Rounds
<1>10. CASE RepeatEnds
  <2>1. stack # <<>> /\ Innermost.kind = "REPEAT" /\ stack' = Outer
    BY <1>10 DEF RepeatEnds, InLoop
  <2>2. /\ Len(stack') = Len(stack) - 1
        /\ \A i \in 1 .. Len(stack) - 1 : stack'[i] = stack[i]
    BY <1>21, <2>1, Popped
  <2>3. \A i \in 1 .. Len(stack) - 1 : stack[i].kind # "REPEAT"
    BY <1>21, <2>1, OneLoop
  <2> QED
    BY <2>2, <2>3 DEF Rounds
\* The commands that are repeated are not a loop of this kind, and leave the one around
\* them.
<1>11. CASE LCOUNT
  <2> DEFINE g == [kind |-> "LCOUNT", left |-> Opcode.count, total |-> Opcode.count,
                   heap |-> Has("HEAP_IN"), miss |-> miss]
  <2>1. /\ UNCHANGED <<loops, shift, g_usFlowControl>>
        /\ stack' = stack \/ stack' = Append(stack, g)
    BY <1>11 DEF LCOUNT
  <2>2. CASE stack' = stack
    BY <1>7, <2>1, <2>2 DEF loop
  <2>3. CASE stack' = Append(stack, g)
    <3>1. Frame(g) /\ g.kind = "LCOUNT"
      BY DEF Frame, Keys
    <3> HIDE DEF g
    <3>2. /\ Len(stack') = Len(stack) + 1 /\ stack'[Len(stack) + 1] = g
          /\ \A i \in 1 .. Len(stack) : stack'[i] = stack[i]
      BY <1>21, <2>3, <3>1, Pushed
    <3>3. Len(stack) \in Nat
      BY <1>21, StackIs
    <3>4. \A i \in 1 .. Len(stack') : stack'[i].kind = "REPEAT"
             => i \in 1 .. Len(stack) /\ stack'[i] = stack[i]
      BY <3>1, <3>2, <3>3
    <3> QED
      BY <1>5, <2>1, <3>4 DEF Pending
  <2> QED
    BY <2>1, <2>2, <2>3
<1>12. CASE CountAgain \/ CountEnds
  <2>1. /\ stack # <<>> /\ Innermost.kind = "LCOUNT"
        /\ UNCHANGED <<loops, shift, g_usFlowControl>>
        /\ stack' = Round \/ stack' = Outer
    BY <1>12 DEF CountAgain, CountEnds, NextPoll, InLoop, flags
  <2>2. /\ Len(stack) \in Nat \ {0}
        /\ Len(stack') = Len(stack) - 1 \/ (Len(stack') = Len(stack)
                                               /\ stack'[Len(stack)].kind = "LCOUNT")
        /\ \A i \in 1 .. Len(stack) - 1 : stack'[i] = stack[i]
    <3>1. CASE stack' = Round
      <4>1. Len(stack) \in Nat \ {0} /\ stack'[Len(stack)].kind = stack[Len(stack)].kind
        BY <1>21, <2>1, <3>1, OneLess
      <4> QED
        BY <1>21, <2>1, <3>1, <4>1, OneLess DEF Innermost
    <3>2. CASE stack' = Outer
      BY <1>21, <2>1, <3>2, Popped
    <3> QED
      BY <2>1, <3>1, <3>2
  <2>3. \A i \in 1 .. Len(stack') : stack'[i].kind = "REPEAT"
           => i \in 1 .. Len(stack) /\ stack'[i] = stack[i]
    BY <2>2
  <2> QED
    BY <1>5, <2>1, <2>3 DEF Pending
<1>13. CASE SHR
  <2>1. /\ Opcode.op \in {"SHR", "SHL"} /\ UNCHANGED <<loops, stack>>
        /\ shift' = (loops * Opcode.step) % 2^16
    BY <1>13 DEF SHR, Is
  <2>2. Opcode.step = image.step
    BY <1>4, <2>1 DEF Stepped
  <2>3. ASSUME NEW f, Counted(f) PROVE Counted(f)'
    <3>1. /\ f.total \in Nat /\ loops \in 0 .. f.total - 1
          /\ (f.total - 1) * image.step < 2^16
      BY <2>3 DEF Counted
    <3>2. (loops * image.step) % 2^16 = loops * image.step
      BY <1>4, <3>1, NoWrap
    <3>3. shift' = loops * image.step
      BY <2>1, <2>2, <3>2
    <3> QED
      BY <1>1, <2>1, <2>3, <3>3 DEF Counted
  <2> QED
    BY <1>21, <2>1, <2>3 DEF Rounds
<1>14. CASE SETFLOW
  <2>1. /\ Opcode.op = "SETFLOW" /\ UNCHANGED loop
        /\ g_usFlowControl' = g_usFlowControl \cup Opcode.flags
    BY <1>14 DEF SETFLOW, Is
  <2>2. Opcode.flags \cap ShiftFlags = {}
    BY <1>4, <2>1 DEF Stepped
  <2> QED
    BY <1>6, <2>1, <2>2 DEF Pending
<1>15. CASE RESETFLOW \/ VUES \/ ispVMRead \/ ispVMShift
  <2>1. UNCHANGED loop /\ g_usFlowControl' \subseteq g_usFlowControl \cup {"VERIFYUES"}
    BY <1>15 DEF RESETFLOW, VUES, ispVMRead, ispVMShift
  <2> QED
    BY <1>6, <2>1 DEF Pending, ShiftFlags
<1>16. CASE Open \/ hardware_init \/ CheckVersion \/ ispVMStart \/ main
  BY <1>7, <1>16 DEF Open, hardware_init, CheckVersion, ispVMStart, main, play, flags
<1>17. CASE State \/ Send \/ Retry \/ ispVMReadandSave \/ SendBack \/ LeaveShift \/ TCK
  BY <1>7, <1>17 DEF State, Send, Retry, ispVMReadandSave, SendBack, LeaveShift, TCK, flags
<1>18. CASE ENDDR \/ ENDIR \/ ispVMAmble \/ MEM \/ VENDOR \/ Skipped \/ ispVMProcessLVDS
  BY <1>7, <1>18 DEF ENDDR, ENDIR, ispVMAmble, MEM, VENDOR, Skipped, ispVMProcessLVDS, flags
<1>19. CASE Invalid \/ ispVMDataSize \/ HEAP \/ EndCode \/ ispVMEnd
  BY <1>7, <1>19 DEF Invalid, ispVMDataSize, HEAP, EndCode, ispVMEnd, flags
<1>20. CASE Gone \/ UNCHANGED vars
  BY <1>7, <1>20 DEF Gone, vars, flags
<1> QED
  BY <1>8, <1>9, <1>10, <1>11, <1>12, <1>13, <1>14, <1>15, <1>16, <1>17, <1>18, <1>19,
     <1>20 DEF Next, Play

\* The value a scan is shifted by is computed when its opcode is played and used when
\* data comes, maybe after polls and in another loop: what is used is the count of the
\* rounds of this loop, for loops of every count and in files of every kind whose last
\* round is shifted by no more than 16 bits hold and whose rounds use their shifts, as
\* long as no loop took the buffer of another (ispVMLoop, SHR, SHL and ispVMDataCode of
\* ispvm.c).
THEOREM ShiftsCountRounds ==
    ASSUME \A im \in Images : Complete(im.code) /\ SteppedFile(im)
    PROVE  Spec /\ []ShiftsUsed => ShiftOfThisRound
<1>1. Init => LoopInv /\ DataInv /\ RoundInv
  <2> SUFFICES ASSUME Init PROVE LoopInv /\ DataInv /\ RoundInv
    OBVIOUS
  <2>1. LoopInv
    BY InitLoops
  <2>2. DataInv
    BY InitData
  <2>3. image.step \in Nat /\ \A t \in ToSet(image.code) : Stepped(image.step, t)
    BY DEF Init, SteppedFile
  <2>4. Stepped(image.step, End) /\ Stepped(image.step, Unset)
    BY DEF Stepped, End, Unset
  <2>5. StepsInv
    BY <2>3, <2>4 DEF StepsInv, Ops
  <2>6. Rounds
    <3>1. stack = <<>> /\ Stacked
      BY <2>1 DEF Init, LoopInv
    <3>2. Len(stack) = 0
      BY <3>1, Emptied
    <3> QED
      BY <3>2 DEF Rounds
  <2> QED
    BY <2>1, <2>2, <2>5, <2>6 DEF RoundInv
<1> DEFINE Used == ispVMShift /\ Has("HEAP_IN") /\ "nested" \notin lapses
                     /\ {"SHIFTLEFT", "SHIFTRIGHT"} \cap g_usFlowControl # {}
                   => shift = (Innermost.total - Innermost.left) * image.step
<1>2. LoopInv /\ RoundInv => Used
  <2> SUFFICES ASSUME LoopInv, RoundInv, Has("HEAP_IN"), "nested" \notin lapses, Pending
               PROVE  shift = (Innermost.total - Innermost.left) * image.step
    BY DEF Pending, ShiftFlags
  <2>1. Plain /\ "HEAP_IN" \in g_usDataType /\ Rounds
    BY DEF LoopInv, RoundInv, Has
  <2>2. Len(stack) \in 1 .. Len(stack) /\ Innermost.kind = "REPEAT"
    BY <2>1 DEF Plain, Innermost
  <2>3. Counted(Innermost)
    BY <2>1, <2>2 DEF Rounds, Innermost
  <2> QED
    BY <2>3 DEF Counted
<1>3. LoopInv /\ DataInv /\ RoundInv /\ ShiftsUsed /\ [Next]_vars
        => LoopInv' /\ DataInv' /\ RoundInv'
  BY LoopStep, DataStep, RoundStep
<1> QED
  BY <1>1, <1>2, <1>3, PTL DEF Spec, ShiftOfThisRound

-----------------------------------------------------------------------------
(* The buffers of the rows. *)

RowKinds == {"TDI", "TDO", "XTDO", "MASK", "DMASK"}

\* A memory that has not been overrun: the buffers of rows have room for max bits or are
\* not there, as before the first size was used, and data that is compared has a buffer
\* when data that is sent has.
Roomy(m, max) ==
    /\ m \in [cap : [Rows \cup Others -> Int], prev : Int, over : {FALSE}]
    /\ \A b \in Rows : m.cap[b] = Null \/ m.cap[b] >= max
    /\ m.prev = 0 => \A b \in Rows : m.cap[b] = Null
Held(m, max) ==
    /\ Roomy(m, max)
    /\ m.cap["In"] # Null => m.cap["Out"] # Null

LEMMA FitsRow ==
    ASSUME NEW max \in Nat, NEW m, Held(m, max), NEW b \in Rows, m.cap[b] # Null,
           NEW bits \in 0 .. max
    PROVE  Fits(m, b, Bytes(bits)) /\ Fits(m, b, bits \div 8 + 1)
<1> DEFINE c == m.cap[b]
<1>1. c \in Int /\ c >= max
  BY DEF Held, Roomy
<1> HIDE DEF c
<1>2. (bits + 7) \div 8 <= c \div 8 + 2 /\ bits \div 8 + 1 <= c \div 8 + 2
  BY <1>1
<1> QED
  BY <1>2 DEF Fits, Bytes, c

\* What fits leaves the memory as it is.
LEMMA TouchFits ==
    ASSUME NEW max, NEW m, Held(m, max), NEW b, NEW n, Fits(m, b, n)
    PROVE  Touch(m, b, n) = m
<1>1. m.over = FALSE /\ m = [cap |-> m.cap, prev |-> m.prev, over |-> m.over]
  BY DEF Held, Roomy
<1>2. (m.over \/ ~Fits(m, b, n)) = FALSE
  BY <1>1
<1>3. Touch(m, b, n) = [m EXCEPT !.over = FALSE]
  BY <1>2 DEF Touch
<1> QED
  BY <1>1, <1>3

\* A buffer that is renewed has room for max bits, and the others are as they were.
LEMMA RenewHeld ==
    ASSUME NEW max \in Nat \ {0}, NEW m, NEW b \in Rows, Roomy(m, max)
    PROVE  LET n == Renew(m, b, max)
           IN  /\ Roomy(n, max) /\ n.cap[b] # Null
               /\ \A c \in Rows \ {b} : n.cap[c] = m.cap[c]
<1> DEFINE n == Renew(m, b, max)
<1>1. CASE Kept(m, b, max)
  <2>1. n = m /\ m.cap[b] # Null
    BY <1>1 DEF Renew, Kept, Roomy
  <2> QED
    BY <2>1
<1>2. CASE ~Kept(m, b, max)
  <2>1. n = [[m EXCEPT !.cap[b] = max] EXCEPT !.prev = max]
    BY <1>2 DEF Renew, Alloc
  <2>2. max # Null /\ max \in Int
    BY DEF Null
  <2>3. /\ n.cap = [m.cap EXCEPT ![b] = max] /\ n.prev = max /\ n.over = m.over
        /\ n = [cap |-> n.cap, prev |-> n.prev, over |-> n.over]
    <3>1. m = [cap |-> m.cap, prev |-> m.prev, over |-> m.over]
      BY DEF Roomy
    <3>2. n = [cap |-> [m.cap EXCEPT ![b] = max], prev |-> max, over |-> m.over]
      BY <2>1, <3>1
    <3> QED
      BY <3>2
  <2> HIDE DEF n
  <2>4. m.cap \in [Rows \cup Others -> Int] /\ b \in Rows \cup Others /\ m.over = FALSE
    BY DEF Roomy
  <2>5. n.cap \in [Rows \cup Others -> Int] /\ n.over = FALSE
    BY <2>2, <2>3, <2>4
  <2>6. n.cap[b] = max /\ \A c \in Rows \ {b} : n.cap[c] = m.cap[c]
    BY <2>3, <2>4
  <2>7. n \in [cap : [Rows \cup Others -> Int], prev : Int, over : {FALSE}]
    BY <2>2, <2>3, <2>5
  <2>8. \A c \in Rows : n.cap[c] = Null \/ n.cap[c] >= max
    BY <2>6 DEF Roomy
  <2>9. n.prev # 0
    BY <2>3
  <2> QED
    BY <2>2, <2>6, <2>7, <2>8, <2>9 DEF n, Roomy
<1> QED
  BY <1>1, <1>2

\* A row is stored in a buffer that has room for it.
LEMMA StoredHeld ==
    ASSUME NEW max \in Nat \ {0}, NEW m, Held(m, max), NEW row \in RowKinds, NEW bits \in 0 .. max
    PROVE  LET n == Stored(m, row, max, bits)
           IN  /\ Held(n, max)
               /\ row = "TDI" \/ m.cap["In"] # Null => n.cap["In"] # Null
<1> DEFINE n == ispVMMemManager(m, row, max)
<1>1. /\ Held(n, max) /\ n.cap[Target(row)] # Null /\ Target(row) \in Rows
      /\ row = "TDI" \/ m.cap["In"] # Null => n.cap["In"] # Null
  <2>1. CASE row = "TDI"
    <3>1. n = IF Kept(m, "In", max) THEN m ELSE Renew(Renew(m, "In", max), "Out", max)
      BY <2>1 DEF ispVMMemManager, Others
    <3>2. Target(row) = "In" /\ "In" \in Rows /\ "Out" \in Rows
      BY <2>1 DEF Target, Rows
    <3>3. CASE Kept(m, "In", max)
      BY <3>1, <3>2, <3>3 DEF Kept
    <3>4. CASE ~Kept(m, "In", max)
      <4> DEFINE i == Renew(m, "In", max)
                 o == Renew(i, "Out", max)
      <4>1. Roomy(i, max) /\ i.cap["In"] # Null
        BY <3>2, RenewHeld DEF Held
      <4> HIDE DEF i
      <4>2. /\ Roomy(o, max) /\ o.cap["Out"] # Null
            /\ \A c \in Rows \ {"Out"} : o.cap[c] = i.cap[c]
        BY <3>2, <4>1, RenewHeld
      <4>3. o.cap["In"] # Null
        BY <3>2, <4>1, <4>2
      <4>4. n = o
        BY <3>1, <3>4 DEF i
      <4> QED
        BY <3>2, <4>2, <4>3, <4>4 DEF Held
    <3> QED
      BY <3>3, <3>4
  <2>2. CASE row # "TDI"
    <3> DEFINE b == Target(row)
    <3>1. b \in Rows \ {"In"} /\ n = Renew(m, b, max) /\ "In" \in Rows /\ "Out" \in Rows
      BY <2>2 DEF ispVMMemManager, Others, RowKinds, Target, Rows
    <3> HIDE DEF b, n
    <3>2. Roomy(n, max) /\ n.cap[b] # Null /\ \A c \in Rows \ {b} : n.cap[c] = m.cap[c]
      BY <3>1, RenewHeld DEF Held
    <3>3. n.cap["In"] = m.cap["In"] /\ (m.cap["Out"] # Null => n.cap["Out"] # Null)
      BY <3>1, <3>2
    <3> QED
      BY <2>2, <3>1, <3>2, <3>3 DEF Held, b
  <2> QED
    BY <2>1, <2>2
<1> HIDE DEF n
<1>2. Stored(m, row, max, bits) = n
  <2>1. Fits(n, Target(row), Bytes(bits))
    BY <1>1, FitsRow
  <2>2. Touch(n, Target(row), Bytes(bits)) = n
    BY <1>1, <2>1, TouchFits
  <2> QED
    BY <2>2 DEF Stored, n
<1> QED
  BY <1>1, <1>2

\* Induction on the natural numbers, for a set of them.
Precedes == {pair \in Nat \X Nat : pair[1] < pair[2]}
LEMMA Induction ==
    ASSUME NEW S, 0 \in S, \A n \in Nat : n \in S => n + 1 \in S
    PROVE  \A n \in Nat : n \in S
<1> DEFINE T == {n \in Nat : n \notin S}
<1> SUFFICES ASSUME T # {} PROVE FALSE
  OBVIOUS
<1>1. IsWellFoundedOn(Precedes, Nat)
  <2>1. OpToRel(<, Nat) = Precedes
    BY DEF OpToRel, Precedes
  <2> QED
    BY <2>1, NatLessThanWellFounded, Zenon
<1>2. PICK n \in T : \A m \in T : <<m, n>> \notin Precedes
  <2>1. T \subseteq Nat
    OBVIOUS
  <2> HIDE DEF T
  <2> QED
    BY <1>1, <2>1, WFMin
<1>3. n \in Nat \ {0} /\ n \notin S
  OBVIOUS
<1>4. n - 1 \in Nat /\ n - 1 \notin T
  <2>1. n - 1 \in Nat /\ n - 1 < n
    BY <1>3
  <2>2. <<n - 1, n>> \in Precedes
    BY <1>3, <2>1 DEF Precedes
  <2> HIDE DEF T
  <2> QED
    BY <1>2, <2>1, <2>2
<1>5. n - 1 \in S /\ n - 1 + 1 = n
  BY <1>3, <1>4
<1> QED
  BY <1>3, <1>4, <1>5

\* The rows of a scan, one after the other.
LEMMA RowsInTurn ==
    ASSUME NEW m, NEW rows, Len(rows) \in Nat, NEW max, NEW bits
    PROVE  \E f : /\ ispVMDataCode(m, rows, max, bits) = f[Len(rows)] /\ f[0] = m
                  /\ \A i \in 1 .. Len(rows) :
                        f[i] = Stored(f[i - 1], rows[i], max, bits)
<1> DEFINE Turns(f, n) ==
              f = [i \in 0 .. n |-> IF i = 0 THEN m ELSE Stored(f[i - 1], rows[i], max, bits)]
           S == {n \in Nat : \E f : Turns(f, n)}
<1>1. 0 \in S
  <2> DEFINE f == [i \in 0 .. 0 |-> m]
  <2>1. Turns(f, 0)
    OBVIOUS
  <2> QED
    BY <2>1
<1>2. ASSUME NEW n \in Nat, n \in S PROVE n + 1 \in S
  <2>1. PICK f : Turns(f, n)
    BY <1>2
  <2> DEFINE next == Stored(f[n], rows[n + 1], max, bits)
             g == [i \in 0 .. n + 1 |-> IF i = n + 1 THEN next ELSE f[i]]
             e(i) == IF i = 0 THEN m ELSE Stored(g[i - 1], rows[i], max, bits)
  <2>2. \A i \in 0 .. n : g[i] = f[i]
    OBVIOUS
  <2>3. \A i \in 0 .. n : f[i] = IF i = 0 THEN m ELSE Stored(f[i - 1], rows[i], max, bits)
    BY <2>1
  <2>4. \A i \in 0 .. n + 1 : g[i] = e(i)
    <3> TAKE i \in 0 .. n + 1
    <3>1. CASE i = n + 1
      <4>1. g[i] = next /\ i # 0 /\ i - 1 = n /\ n \in 0 .. n
        BY <3>1
      <4>2. g[i - 1] = f[n]
        BY <2>2, <4>1
      <4> QED
        BY <3>1, <4>1, <4>2
    <3>2. CASE i \in 0 .. n
      <4>1. i # 0 => i - 1 \in 0 .. n
        BY <3>2
      <4>2. i # 0 => g[i - 1] = f[i - 1]
        BY <2>2, <4>1
      <4> QED
        BY <2>2, <2>3, <3>2, <4>2
    <3> QED
      BY <3>1, <3>2
  <2>5. g = [i \in 0 .. n + 1 |-> e(i)]
    <3>1. g = [i \in 0 .. n + 1 |-> g[i]]
      OBVIOUS
    <3> HIDE DEF g, e
    <3> QED
      BY <2>4, <3>1
  <2>6. Turns(g, n + 1)
    BY <2>5
  <2> HIDE DEF g, e, Turns
  <2>7. \E h : Turns(h, n + 1)
    BY <2>6
  <2> QED
    BY <2>7
<1>3. Len(rows) \in S
  <2> HIDE DEF S
  <2> QED
    BY <1>1, <1>2, Induction
<1> DEFINE after == CHOOSE f : Turns(f, Len(rows))
<1>4. Turns(after, Len(rows))
  BY <1>3
<1>5. ispVMDataCode(m, rows, max, bits) = after[Len(rows)]
  BY DEF ispVMDataCode
<1> HIDE DEF after
<1>6. after[0] = m
  BY <1>4
<1>7. \A i \in 1 .. Len(rows) : after[i] = Stored(after[i - 1], rows[i], max, bits)
  BY <1>4
<1> QED
  BY <1>5, <1>6, <1>7

LEMMA RowsHeld ==
    ASSUME NEW max \in Nat \ {0}, NEW m, Held(m, max), NEW rows \in Seq(RowKinds), rows # <<>>,
           rows[1] = "TDI", NEW bits \in 0 .. max
    PROVE  LET n == ispVMDataCode(m, rows, max, bits)
           IN  Held(n, max) /\ n.cap["In"] # Null
<1>1. Len(rows) \in Nat \ {0} /\ \A i \in 1 .. Len(rows) : rows[i] \in RowKinds
  BY EmptySeq, LenProperties, ElementOfSeq
<1>2. PICK f : /\ ispVMDataCode(m, rows, max, bits) = f[Len(rows)] /\ f[0] = m
               /\ \A i \in 1 .. Len(rows) : f[i] = Stored(f[i - 1], rows[i], max, bits)
  BY <1>1, RowsInTurn
<1> DEFINE Good(i) == Held(f[i], max) /\ (i > 0 => f[i].cap["In"] # Null)
           S == {i \in Nat : i <= Len(rows) => Good(i)}
<1>3. 0 \in S
  BY <1>2
<1>4. ASSUME NEW n \in Nat, n \in S PROVE n + 1 \in S
  <2> SUFFICES ASSUME n + 1 <= Len(rows) PROVE Good(n + 1)
    OBVIOUS
  <2>1. n + 1 \in 1 .. Len(rows) /\ n + 1 - 1 = n /\ n <= Len(rows)
    BY <1>1
  <2>2. Good(n)
    BY <1>4, <2>1
  <2>3. f[n + 1] = Stored(f[n], rows[n + 1], max, bits) /\ rows[n + 1] \in RowKinds
    BY <1>1, <1>2, <2>1
  <2>4. rows[n + 1] = "TDI" \/ f[n].cap["In"] # Null
    <3>1. CASE n = 0
      BY <3>1
    <3>2. CASE n > 0
      BY <2>2, <3>2
    <3> QED
      BY <3>1, <3>2
  <2>5. Held(f[n + 1], max) /\ f[n + 1].cap["In"] # Null
    BY <2>2, <2>3, <2>4, StoredHeld
  <2> QED
    BY <2>5
<1>5. Len(rows) \in S
  <2> HIDE DEF S
  <2> QED
    BY <1>1, <1>3, <1>4, Induction
<1> QED
  BY <1>1, <1>2, <1>5

\* What is not a row has a buffer of its own.
LEMMA OthersHeld ==
    ASSUME NEW max \in Nat, NEW m, Held(m, max), NEW b \in Others, NEW size \in Nat
    PROVE  LET n == ispVMMemManager(m, b, size)
           IN  /\ Held(n, max) /\ n.cap["In"] = m.cap["In"]
               /\ Touch(n, b, Bytes(size)) = n
<1> DEFINE n == ispVMMemManager(m, b, size)
<1>1. n = [m EXCEPT !.cap[b] = size] /\ b \notin Rows /\ "In" \in Rows /\ "Out" \in Rows
  BY DEF ispVMMemManager, Others, Alloc, Rows
<1>2. /\ m.cap \in [Rows \cup Others -> Int]
      /\ m = [cap |-> m.cap, prev |-> m.prev, over |-> m.over]
      /\ m.prev \in Int /\ m.over = FALSE
  BY DEF Held, Roomy
<1>3. n = [cap |-> [m.cap EXCEPT ![b] = size], prev |-> m.prev, over |-> m.over]
  BY <1>1, <1>2
<1> HIDE DEF n
<1>4. /\ n.cap \in [Rows \cup Others -> Int] /\ n.cap[b] = size
      /\ \A c \in Rows : n.cap[c] = m.cap[c]
  BY <1>1, <1>2, <1>3
<1>5. n \in [cap : [Rows \cup Others -> Int], prev : Int, over : {FALSE}]
  BY <1>2, <1>3, <1>4
<1>6. Held(n, max) /\ n.cap["In"] = m.cap["In"]
  BY <1>1, <1>4, <1>5 DEF Held, Roomy
<1>7. Touch(n, b, Bytes(size)) = n
  <2>1. size # Null /\ (size + 7) \div 8 <= size \div 8 + 2
    BY DEF Null
  <2>2. Fits(n, b, Bytes(size))
    BY <1>4, <2>1 DEF Fits, Bytes
  <2> QED
    BY <1>6, <2>2, TouchFits
<1> QED
  BY <1>6, <1>7 DEF n

\* What a scan moves between the buffers fits into them.
LEMMA TransfersFit ==
    ASSUME NEW max \in Nat, NEW m, Held(m, max), m.cap["In"] # Null, NEW bits \in 0 .. max
    PROVE  TransferOut(m, bits) = m /\ TransferIn(m, bits) = m
<1>1. "In" \in Rows /\ "Out" \in Rows /\ m.cap["Out"] # Null
  BY DEF Rows, Held
<1>2. Fits(m, "In", bits \div 8 + 1) /\ Fits(m, "Out", bits \div 8 + 1)
  BY <1>1, FitsRow
<1>3. Touch(m, "In", bits \div 8 + 1) = m /\ Touch(m, "Out", bits \div 8 + 1) = m
  BY <1>2, TouchFits
<1> QED
  BY <1>1, <1>3 DEF TransferOut, TransferIn

LEMMA FreedHeld == ASSUME NEW max, NEW m, Held(m, max) PROVE Held(ispVMFreeMem(m), max)
<1> DEFINE n == ispVMFreeMem(m)
<1>1. m = [cap |-> m.cap, prev |-> m.prev, over |-> m.over] /\ m.prev \in Int /\ m.over = FALSE
  BY DEF Held, Roomy
<1>2. n = [cap |-> NoMemory.cap, prev |-> m.prev, over |-> FALSE]
  <2> DEFINE c == NoMemory.cap
  <2>1. n = [m EXCEPT !.cap = c]
    BY DEF ispVMFreeMem
  <2> HIDE DEF c, n
  <2>2. n = [cap |-> c, prev |-> m.prev, over |-> FALSE]
    BY <1>1, <2>1
  <2> QED
    BY <2>2 DEF c
<1>3. NoMemory.cap \in [Rows \cup Others -> Int] /\ \A b \in Rows : NoMemory.cap[b] = Null
  BY DEF NoMemory, Null
<1> HIDE DEF n
<1>4. "In" \in Rows
  BY DEF Rows
<1> QED
  BY <1>1, <1>2, <1>3, <1>4 DEF Held, Roomy, n

\* A larger size needs no larger buffers before the first was used, a smaller one never.
LEMMA Resized ==
    ASSUME NEW max \in Nat, NEW m, Held(m, max), NEW size \in Nat,
           size <= max \/ m.prev = 0
    PROVE  Held(m, size)
<1>1. \A b \in Rows : m.cap[b] \in Int
  BY DEF Held, Roomy
<1>2. CASE size <= max
  <2>1. \A b \in Rows : m.cap[b] >= max => m.cap[b] >= size
    BY <1>1, <1>2
  <2> QED
    BY <2>1 DEF Held, Roomy
<1>3. CASE m.prev = 0
  BY <1>3 DEF Held, Roomy
<1> QED
  BY <1>2, <1>3

\* A file whose sizes are numbers; a scan begins with the data that is sent.
Storable(t) ==
    /\ t.op = "MEM" => t.size \in Nat
    /\ t.op \in Scans => /\ t.size \in Nat \ {0} /\ t.rows \in Seq(RowKinds)
                         /\ t.rows # <<>> /\ t.rows[1] = "TDI"
    /\ t.op \in {"HIR", "TIR", "HDR", "TDR", "LVDS"} => t.size \in Nat
StorableFile(code) == \A t \in ToSet(code) : Storable(t)

\* No scan is longer than the size that MEM told last.
ScansInSize == pc = "code" /\ Opcode.op \in Scans => Opcode.size <= g_usMaxSize

\* The buffers have room for the size that was told last, whatever was told before.
StoreInv == \A t \in Ops : Storable(t)
Ample ==
    /\ Held(mem, g_usMaxSize)
    /\ pc \in InScan => scan.size \in 0 .. g_usMaxSize /\ mem.cap["In"] # Null
MemInv == g_usMaxSize \in Nat /\ ("grown" \in lapses \/ Ample)

LEMMA SameSize == [Next]_vars => MEM \/ UNCHANGED g_usMaxSize
<1> SUFFICES ASSUME [Next]_vars, ~MEM PROVE UNCHANGED g_usMaxSize
  OBVIOUS
<1>1. CASE ENDDR \/ ENDIR \/ ispVMAmble \/ VENDOR
  BY <1>1 DEF ENDDR, ENDIR, ispVMAmble, VENDOR
<1>2. CASE Open \/ hardware_init \/ CheckVersion \/ ispVMStart \/ main \/ State \/ Send
  BY <1>2 DEF Open, hardware_init, CheckVersion, ispVMStart, main, State, Send, play, settings
<1>3. CASE ispVMShift \/ ispVMRead \/ Retry \/ ispVMReadandSave \/ SendBack \/ LeaveShift
  BY <1>3 DEF ispVMShift, ispVMRead, Retry, ispVMReadandSave, SendBack, LeaveShift, settings
<1>4. CASE TCK \/ SETFLOW \/ RESETFLOW \/ HEAP \/ REPEAT \/ LCOUNT \/ EndCode
  BY <1>4 DEF TCK, SETFLOW, RESETFLOW, HEAP, REPEAT, LCOUNT, EndCode, settings
<1>5. CASE SHR \/ VUES \/ Skipped \/ ispVMProcessLVDS \/ Invalid \/ ispVMDataSize
  BY <1>5 DEF SHR, VUES, Skipped, ispVMProcessLVDS, Invalid, ispVMDataSize, settings
<1>6. CASE RepeatAgain \/ RepeatEnds \/ CountAgain \/ CountEnds \/ ispVMEnd
  BY <1>6 DEF RepeatAgain, RepeatEnds, CountAgain, CountEnds, ispVMEnd, settings
<1>7. CASE Gone \/ UNCHANGED vars
  BY <1>7 DEF Gone, vars, settings
<1> QED
  BY <1>1, <1>2, <1>3, <1>4, <1>5, <1>6, <1>7 DEF Next, Play

\* No step overruns a buffer or ends with a scan that has none.
LEMMA MemStep ==
    DataInv /\ StoreInv /\ MemInv /\ ScansInSize /\ [Next]_vars => StoreInv' /\ MemInv'
<1> SUFFICES ASSUME DataInv, StoreInv, MemInv, ScansInSize, [Next]_vars
             PROVE  StoreInv' /\ MemInv'
  OBVIOUS
<1>1. StoreInv'
  BY SameImage DEF StoreInv, Ops
<1>2. Opcode \in Ops /\ Storable(Opcode)
  <2>1. Opcode \in Ops
    BY AheadIsOp DEF Opcode
  <2> QED
    BY <2>1 DEF StoreInv
<1>3. CASE MEM
  <2>1. /\ Opcode.op = "MEM" /\ g_usMaxSize' = Opcode.size /\ UNCHANGED mem /\ pc' = "code"
        /\ lapses' = lapses \cup
             (IF Opcode.size > g_usMaxSize /\ mem.prev # 0 THEN {"grown"} ELSE {})
    BY <1>3 DEF MEM, Is, control
  <2>2. g_usMaxSize' \in Nat /\ g_usMaxSize \in Nat
    BY <1>2, <2>1 DEF Storable, MemInv
  <2>3. ASSUME "grown" \notin lapses' PROVE Ample'
    <3>1. Ample /\ (g_usMaxSize' <= g_usMaxSize \/ mem.prev = 0)
      BY <2>1, <2>2, <2>3 DEF MemInv
    <3>2. Held(mem, g_usMaxSize')
      BY <2>2, <3>1, Resized DEF Ample
    <3> QED
      BY <2>1, <3>2 DEF Ample, InScan, Held, Roomy
  <2> QED
    BY <1>1, <2>2, <2>3 DEF MemInv
<1> SUFFICES ASSUME ~MEM PROVE MemInv'
  BY <1>1, <1>3
<1>4. UNCHANGED g_usMaxSize
  BY SameSize
<1> SUFFICES ASSUME "grown" \notin lapses' PROVE Ample'
  BY <1>4 DEF MemInv
<1> DEFINE max == g_usMaxSize
           Good == Held(mem', max) /\ (pc' \in InScan => scan'.size \in 0 .. max
                                                          /\ mem'.cap["In"] # Null)
<1>5. /\ max \in Nat /\ Held(mem, max)
      /\ pc \in InScan => scan.size \in 0 .. max /\ mem.cap["In"] # Null
  BY LapsesStay DEF MemInv, Ample
<1> SUFFICES Good
  BY <1>4 DEF Ample, Held, Roomy
<1> HIDE DEF max
<1>6. ASSUME UNCHANGED mem, pc' \notin InScan PROVE Good
  BY <1>5, <1>6
<1>7. ASSUME UNCHANGED <<mem, scan>>, pc \in InScan PROVE Good
  BY <1>5, <1>7
<1>8. ASSUME NEW b \in Others, NEW size \in Nat, mem' = ispVMMemManager(mem, b, size),
             pc' \notin InScan
      PROVE  Good
  BY <1>5, <1>8, OthersHeld
<1>9. CASE Open \/ hardware_init \/ CheckVersion \/ ispVMStart \/ main
  <2>1. UNCHANGED mem /\ pc' \notin InScan
    BY <1>9 DEF Open, hardware_init, CheckVersion, ispVMStart, main, play, InScan
  <2> QED
    BY <1>6, <2>1
<1>10. CASE State \/ TCK \/ ENDDR \/ ENDIR \/ VENDOR \/ SETFLOW \/ RESETFLOW
  <2>1. UNCHANGED mem /\ pc' \notin InScan
    BY <1>10 DEF State, TCK, ENDDR, ENDIR, VENDOR, SETFLOW, RESETFLOW, Is, control, InScan
  <2> QED
    BY <1>6, <2>1
<1>11. CASE SHR \/ VUES \/ Skipped \/ Invalid \/ ispVMDataSize \/ REPEAT \/ EndCode
  <2>1. UNCHANGED mem /\ pc' \notin InScan
    BY <1>11 DEF SHR, VUES, Skipped, Invalid, ispVMDataSize, REPEAT, EndCode, Is, Return, control, InScan
  <2> QED
    BY <1>6, <2>1
<1>12. CASE RepeatAgain \/ RepeatEnds \/ CountAgain \/ CountEnds
  <2>1. UNCHANGED mem /\ pc' \notin InScan
    BY <1>12 DEF RepeatAgain, RepeatEnds, CountAgain, CountEnds, GivenUp, Result, InScan
  <2> QED
    BY <1>6, <2>1
<1>13. CASE Send \/ ispVMRead \/ Retry \/ SendBack
  <2>1. UNCHANGED <<mem, scan>> /\ pc \in InScan
    BY <1>13 DEF Send, ispVMRead, Retry, SendBack, InScan
  <2> QED
    BY <1>7, <2>1
<1>14. CASE ispVMShift
  <2> DEFINE t == Opcode
  <2>1. /\ pc = "code" /\ t.op \in Scans
        /\ mem' = ispVMDataCode(mem, t.rows, g_usMaxSize, t.size)
        /\ (pc' = "data" /\ scan' = t) \/ pc' = "return"
    BY <1>14 DEF ispVMShift, Is, Return
  <2>2. g_usMaxSize = max
    BY DEF max
  <2>3. /\ t.size \in 0 .. max /\ max # 0 /\ t.rows \in Seq(RowKinds) /\ t.rows # <<>>
        /\ t.rows[1] = "TDI"
    <3>1. t.size \in Nat \ {0} /\ t.size <= max
      BY <1>2, <2>1 DEF Storable, ScansInSize, max
    <3>2. t.rows \in Seq(RowKinds) /\ t.rows # <<>> /\ t.rows[1] = "TDI"
      BY <1>2, <2>1 DEF Storable
    <3> HIDE DEF t
    <3> QED
      BY <1>5, <3>1, <3>2
  <2> HIDE DEF t
  <2>4. Held(mem', max) /\ mem'.cap["In"] # Null
    BY <1>5, <2>1, <2>2, <2>3, RowsHeld
  <2> QED
    BY <2>1, <2>3, <2>4 DEF InScan
<1>15. CASE ispVMReadandSave
  <2>1. /\ mem' = TransferIn(mem, scan.size) /\ UNCHANGED scan /\ pc \in InScan
    BY <1>15 DEF ispVMReadandSave, InScan
  <2>2. mem' = mem
    BY <1>5, <2>1, TransfersFit
  <2> QED
    BY <1>7, <2>1, <2>2
<1>16. CASE LeaveShift
  <2>1. /\ (mem' = mem \/ mem' = TransferOut(mem, scan.size))
        /\ pc \in InScan /\ pc' \notin InScan
    BY <1>16 DEF LeaveShift, Result, InScan
  <2>2. mem' = mem
    BY <1>5, <2>1, TransfersFit
  <2> QED
    BY <1>6, <2>1, <2>2
<1>17. CASE ispVMAmble
  <2> DEFINE t == Opcode
  <2>1. /\ t.op \in {"HIR", "TIR", "HDR", "TDR"} /\ pc' \notin InScan
        /\ mem' = IF t.size = 0 THEN mem
                  ELSE Touch(ispVMMemManager(mem, t.op, t.size), t.op, Bytes(t.size))
    BY <1>17 DEF ispVMAmble, Is, Result, InScan
  <2>2. t.size \in Nat /\ t.op \in Others
    BY <1>2, <2>1 DEF Storable, Others
  <2> HIDE DEF t
  <2>3. CASE t.size = 0
    BY <1>6, <2>1, <2>3
  <2>4. CASE t.size # 0
    <3>1. mem' = ispVMMemManager(mem, t.op, t.size)
      BY <1>5, <2>1, <2>2, <2>4, OthersHeld
    <3> QED
      BY <1>8, <2>1, <2>2, <3>1
  <2> QED
    BY <2>3, <2>4
<1>18. CASE ispVMProcessLVDS
  <2>1. /\ Opcode.op = "LVDS" /\ pc' \notin InScan
        /\ mem' = ispVMMemManager(mem, "LVDS", Opcode.size)
    BY <1>18 DEF ispVMProcessLVDS, Is, control, InScan
  <2>2. Opcode.size \in Nat /\ "LVDS" \in Others
    BY <1>2, <2>1 DEF Storable, Others
  <2> QED
    BY <1>8, <2>1, <2>2
<1>19. CASE HEAP
  <2>1. /\ Opcode.op = "HEAP" /\ pc' \notin InScan
        /\ mem' = mem \/ mem' = ispVMMemManager(mem, "HEAP", Opcode.size)
    BY <1>19 DEF HEAP, Is, Return, InScan
  <2>2. Opcode.size \in Nat /\ "HEAP" \in Others
    BY <1>2, <2>1 DEF DataInv, OpsInv, Others
  <2> QED
    BY <1>6, <1>8, <2>1, <2>2
<1>20. CASE LCOUNT
  <2>1. /\ Opcode.op = "LCOUNT" /\ pc' \notin InScan
        /\ mem' = ispVMMemManager(mem, "LHEAP", Opcode.size)
    BY <1>20 DEF LCOUNT, Is, InScan
  <2>2. Opcode.size \in Nat /\ "LHEAP" \in Others
    BY <1>2, <2>1 DEF DataInv, OpsInv, Others
  <2> QED
    BY <1>8, <2>1, <2>2
<1>21. CASE ispVMEnd
  <2>1. mem' = ispVMFreeMem(mem) /\ pc' \notin InScan
    BY <1>21 DEF ispVMEnd, InScan
  <2> QED
    BY <1>5, <2>1, FreedHeld
<1>22. CASE Gone \/ UNCHANGED vars
  <2>1. UNCHANGED <<mem, scan, pc>>
    BY <1>22 DEF Gone, vars, control
  <2> QED
    BY <1>6, <1>7, <2>1
<1> QED
  BY <1>9, <1>10, <1>11, <1>12, <1>13, <1>14, <1>15, <1>16, <1>17, <1>18, <1>19, <1>20, <1>21,
     <1>22 DEF Next, Play

\* The buffers of the rows are allocated when a scan needs them, again when
\* g_usPreviousSize differs, and one such size stands for all four of them.  A file may
\* tell one size after the other, each smaller than the one before or told before a row
\* was loaded: no row is stored in or sent from a buffer too small for it, as long as no
\* scan is longer than the size told last.  After a larger size this is not so, because
\* ispVMMemManager may keep the buffer of TDO or of a mask (ispvm.c:3054-3160).
THEOREM BuffersAreLargeEnough ==
    ASSUME \A im \in Images : Complete(im.code) /\ StorableFile(im.code)
    PROVE  Spec /\ []ScansInSize => []BuffersFit
<1>1. Init => DataInv /\ StoreInv /\ MemInv
  <2> SUFFICES ASSUME Init PROVE DataInv /\ StoreInv /\ MemInv
    OBVIOUS
  <2>1. DataInv
    BY InitData
  <2>2. StoreInv
    <3>1. Storable(End) /\ Storable(Unset)
      BY DEF Storable, End, Unset, Scans
    <3> QED
      BY <3>1 DEF Init, StoreInv, StorableFile, Ops
  <2>3. Held(NoMemory, 0)
    <3> DEFINE c == [b \in Rows \cup Others |-> Null]
    <3>1. NoMemory = [cap |-> c, prev |-> 0, over |-> FALSE]
      BY DEF NoMemory
    <3>2. c \in [Rows \cup Others -> Int] /\ \A b \in Rows : c[b] = Null
      BY DEF Null
    <3>3. "In" \in Rows
      BY DEF Rows
    <3> HIDE DEF c
    <3> QED
      BY <3>1, <3>2, <3>3 DEF Held, Roomy
  <2>4. MemInv
    BY <2>3 DEF MemInv, Ample, InScan, Init
  <2> QED
    BY <2>1, <2>2, <2>4
<1>2. DataInv /\ StoreInv /\ MemInv /\ ScansInSize /\ [Next]_vars
        => DataInv' /\ StoreInv' /\ MemInv'
  BY DataStep, MemStep
<1>3. MemInv => BuffersFit
  BY DEF MemInv, Ample, Held, Roomy, BuffersFit
<1> QED
  BY <1>1, <1>2, <1>3, PTL DEF Spec

-----------------------------------------------------------------------------
(* What a poll compares. *)

\* A scan of a loop for a status, whose data is compared, follows a move to the pause
\* state with no other move or scan between, and the loop has no other in it.
Rested(n) ==
    \E k \in 1 .. n :
        /\ intel[k].op = "STATE" /\ intel[k].to = "DRPAUSE"
        /\ \A j \in k + 1 .. n : intel[j].op \notin Scans \cup {"STATE"}
Polling(t) == t.op \in {"SDR", "XSDR"} /\ Compared(t)
PollsPause ==
    Has("LHEAP_IN") => \A i \in 1 .. Len(intel) :
        /\ Polling(intel[i]) => Rested(i - 1)
        /\ intel[i].op \notin {"REPEAT", "LCOUNT"}

\* Such commands begin no loop: theirs is the innermost, and the opcodes come from them.
PollPlace ==
    "LHEAP_IN" \in g_usDataType =>
        "HEAP_IN" \notin g_usDataType /\ Innermost.kind = "LCOUNT"

\* What the data registers hold is new, unless nothing is known of the controllers.
Renewed(p) == p.fresh \/ p.stray
PollInv ==
    /\ pc \in Early => g_usDataType = {}
    /\ Has("LHEAP_IN") =>
          /\ pc = "code" /\ Rested(g_usIntelDataIndex) => Renewed(port)
          /\ pc \in InScan => /\ g_usIntelDataIndex \in 1 .. Len(intel)
                              /\ intel[g_usIntelDataIndex].op \in Scans
          /\ pc = "data" /\ Polling(scan) => Renewed(port)

\* A controller in the state that captures within four pulses.
LEMMA CapturesIn ==
    ASSUME NEW t, NEW m,
           \/ Pulse(Pulse(t, m, 1), m, 2) = "CaptureDR"
           \/ Pulse(Pulse(Pulse(t, m, 1), m, 2), m, 3) = "CaptureDR"
           \/ Pulse(Pulse(Pulse(Pulse(t, m, 1), m, 2), m, 3), m, 4) = "CaptureDR"
    PROVE  Captures(t, m)
<1>1. /\ Path(t, m)[2] = Pulse(Pulse(t, m, 1), m, 2)
      /\ Path(t, m)[3] = Pulse(Pulse(Pulse(t, m, 1), m, 2), m, 3)
      /\ Path(t, m)[4] = Pulse(Pulse(Pulse(Pulse(t, m, 1), m, 2), m, 3), m, 4)
  BY DEF Path
<1> QED
  BY <1>1 DEF Captures

LEMMA CapturingRows ==
    /\ \A t \in Meant["RESET"] : Captures(t, <<0, 1, 0, 1, 0>>)
    /\ \A t \in Meant["IDLE"] : Captures(t, <<1, 0, 1, 0>>)
    /\ \A t \in Meant["IRPAUSE"] : Captures(t, <<1, 1, 1, 0, 1, 0>>)
    /\ \A t \in Meant["DRPAUSE"] : Captures(t, <<1, 1, 1, 0>>)
<1>1. ASSUME NEW t \in Meant["RESET"] PROVE Captures(t, <<0, 1, 0, 1, 0>>)
  <2> DEFINE m == <<0, 1, 0, 1, 0>>
  <2>1. \A u : Pulse(u, m, 1) = Low[u] /\ Pulse(u, m, 2) = High[u] /\ Pulse(u, m, 3) = Low[u]
    BY DEF Pulse
  <2> HIDE DEF m
  <2>2. Pulse(Pulse(Pulse(t, m, 1), m, 2), m, 3) = Low[High[Low[t]]]
    BY <2>1
  <2>3. Low[High[Low[t]]] = "CaptureDR"
    BY MeantTable, LowTable, HighTable
  <2>4. Captures(t, m)
    BY <2>2, <2>3, CapturesIn
  <2> QED
    BY <2>4 DEF m
<1>2. ASSUME NEW t \in Meant["IDLE"] PROVE Captures(t, <<1, 0, 1, 0>>)
  <2> DEFINE m == <<1, 0, 1, 0>>
  <2>1. \A u : Pulse(u, m, 1) = High[u] /\ Pulse(u, m, 2) = Low[u]
    BY DEF Pulse
  <2> HIDE DEF m
  <2>2. Pulse(Pulse(t, m, 1), m, 2) = Low[High[t]]
    BY <2>1
  <2>3. Low[High[t]] = "CaptureDR"
    BY MeantTable, LowTable, HighTable
  <2>4. Captures(t, m)
    BY <2>2, <2>3, CapturesIn
  <2> QED
    BY <2>4 DEF m
<1>3. ASSUME NEW m,
             \A u : /\ Pulse(u, m, 1) = High[u] /\ Pulse(u, m, 2) = High[u]
                    /\ Pulse(u, m, 3) = High[u] /\ Pulse(u, m, 4) = Low[u],
             NEW t \in Meant["IRPAUSE"] \cup Meant["DRPAUSE"]
      PROVE  Captures(t, m)
  <2>1. Pulse(Pulse(Pulse(Pulse(t, m, 1), m, 2), m, 3), m, 4) = Low[High[High[High[t]]]]
    BY <1>3
  <2>2. Low[High[High[High[t]]]] = "CaptureDR"
    BY MeantTable, LowTable, HighTable
  <2> QED
    BY <2>1, <2>2, CapturesIn
<1>4. \A u : /\ Pulse(u, <<1, 1, 1, 0, 1, 0>>, 1) = High[u]
             /\ Pulse(u, <<1, 1, 1, 0, 1, 0>>, 2) = High[u]
             /\ Pulse(u, <<1, 1, 1, 0, 1, 0>>, 3) = High[u]
             /\ Pulse(u, <<1, 1, 1, 0, 1, 0>>, 4) = Low[u]
  BY DEF Pulse
<1>5. \A u : /\ Pulse(u, <<1, 1, 1, 0>>, 1) = High[u] /\ Pulse(u, <<1, 1, 1, 0>>, 2) = High[u]
             /\ Pulse(u, <<1, 1, 1, 0>>, 3) = High[u] /\ Pulse(u, <<1, 1, 1, 0>>, 4) = Low[u]
  BY DEF Pulse
<1> QED
  BY <1>1, <1>2, <1>3, <1>4, <1>5

\* The moves to the pause state of the data registers, and the detour, go by a capture.
LEMMA PausingRows ==
    \A row \in g_JTAGTransistions :
        /\ row.to = "DRPAUSE" /\ row.from \in {"RESET", "IDLE", "IRPAUSE"} =>
              \A t \in Meant[row.from] : Captures(t, row.tms)
        /\ row.to = "DRCAPTURE" /\ row.from = "DRPAUSE" =>
              \A t \in Meant[row.from] : Captures(t, row.tms)
<1>1. \A row \in g_JTAGTransistions :
          /\ row.to = "DRPAUSE" /\ row.from = "RESET" => row.tms = <<0, 1, 0, 1, 0>>
          /\ row.to = "DRPAUSE" /\ row.from = "IDLE" => row.tms = <<1, 0, 1, 0>>
          /\ row.to = "DRPAUSE" /\ row.from = "IRPAUSE" => row.tms = <<1, 1, 1, 0, 1, 0>>
          /\ row.to = "DRCAPTURE" /\ row.from = "DRPAUSE" => row.tms = <<1, 1, 1, 0>>
  BY DEF g_JTAGTransistions, Row
<1> QED
  BY <1>1, CapturingRows

\* A move by rows that all capture renews; one that does not reset takes nothing back.
LEMMA MoveRenews ==
    ASSUME NEW p, PortInv(p), NEW to, to # "RESET"
    PROVE  /\ Renewed(p) => Renewed(Move(p, to))
           /\ /\ p.cur # to
              /\ \A row \in g_JTAGTransistions : row.from = p.cur /\ row.to = to =>
                    \A t \in Meant[p.cur] : Captures(t, row.tms)
              => Renewed(Move(p, to))
<1> DEFINE rows == {r \in g_JTAGTransistions : r.from = p.cur /\ r.to = to}
           row == CHOOSE r \in rows : TRUE
           q == Move(p, to)
<1>1. CASE p.cur = to
  BY <1>1 DEF Move
<1>2. CASE p.cur # to /\ rows = {}
  <2>1. q = [p EXCEPT !.cur = to, !.tap = TapStates, !.stray = TRUE]
    BY <1>2 DEF Move
  <2>2. q.stray = TRUE
    BY <2>1 DEF PortInv, PortShape
  <2> QED
    BY <1>2, <2>2 DEF Renewed
<1>3. CASE p.cur # to /\ rows # {}
  <2>1. row \in g_JTAGTransistions /\ row.from = p.cur /\ row.to = to
    BY <1>3
  <2>2. ~Resets(row)
    BY <2>1 DEF Resets
  <2>3. /\ q.stray = (p.stray /\ ~Resets(row))
        /\ q.fresh = (p.fresh \/ \A t \in p.tap : Captures(t, row.tms))
    <3> HIDE DEF row
    <3> QED
      BY <1>3 DEF Move, PortInv, PortShape, row
  <2>4. ~p.stray => p.tap \subseteq Meant[p.cur]
    BY DEF PortInv
  <2> HIDE DEF row, q
  <2>5. p.stray => q.stray
    BY <2>2, <2>3
  <2>6. p.fresh => q.fresh
    BY <2>3
  <2>7. (\A t \in p.tap : Captures(t, row.tms)) => q.fresh
    BY <2>3
  <2> QED
    BY <2>1, <2>4, <2>5, <2>6, <2>7 DEF Renewed, q
<1> QED
  BY <1>1, <1>2, <1>3

LEMMA ClocksRenewed ==
    ASSUME NEW p, PortInv(p), Renewed(p), NEW n
    PROVE  Renewed(ispVMClocks(p, n)) /\ Renewed(Header(p, n))
<1>1. ASSUME NEW q, PortInv(q), Renewed(q), NEW k PROVE Renewed(ispVMClocks(q, k))
  <2>1. ispVMClocks(q, k).fresh = q.fresh /\ ispVMClocks(q, k).stray = q.stray
    BY <1>1 DEF ispVMClocks, PortInv, PortShape
  <2> QED
    BY <1>1, <2>1 DEF Renewed
<1>2. PortInv(ispVMBypass(p, n)) /\ Renewed(ispVMBypass(p, n))
  BY <1>1, ScanInv DEF ispVMBypass
<1> QED
  BY <1>1, <1>2 DEF Header

LEMMA EnterRenewed ==
    ASSUME PortInv(port), Renewed(port), NEW op PROVE Renewed(Enter(op))
<1>1. ASSUME NEW p, PortInv(p), Renewed(p), NEW to \in {"IRPAUSE", "DRPAUSE", "SHIFTIR", "SHIFTDR"}
      PROVE  PortInv(Move(p, to)) /\ Renewed(Move(p, to))
  BY <1>1, MoveInv, MoveRenews
<1>2. ASSUME NEW p, PortInv(p), Renewed(p), NEW n PROVE Renewed(Header(p, n))
  BY <1>2, ClocksRenewed
<1> QED
  BY <1>1, <1>2 DEF Enter

\* The move to the pause state renews, by the detour if the player is there already.
LEMMA PauseRenews ==
    ASSUME PortInv(port), port.cur \in Stable, Has("LHEAP_IN")
    PROVE  Renewed(StateTo("DRPAUSE"))
<1>1. CASE port.cur = "DRPAUSE"
  <2>1. StateTo("DRPAUSE") = Move(Move(port, "DRCAPTURE"), "DRPAUSE")
    BY <1>1 DEF StateTo, Polls
  <2>2. Renewed(Move(port, "DRCAPTURE"))
    BY <1>1, MoveRenews, PausingRows
  <2>3. PortInv(Move(port, "DRCAPTURE"))
    BY MoveInv
  <2> QED
    BY <2>1, <2>2, <2>3, MoveRenews
<1>2. CASE port.cur \in {"RESET", "IDLE", "IRPAUSE"}
  <2>1. StateTo("DRPAUSE") = Move(port, "DRPAUSE")
    BY <1>2 DEF StateTo, Polls
  <2>2. Renewed(Move(port, "DRPAUSE"))
    BY <1>2, MoveRenews, PausingRows
  <2> QED
    BY <2>1, <2>2
<1> QED
  BY <1>1, <1>2 DEF Stable

\* How far the rest goes on.
LEMMA RestedOn ==
    ASSUME NEW n \in Nat, Rested(n + 1)
    PROVE  /\ intel[n + 1].op \notin Scans
           /\ \/ intel[n + 1].op = "STATE" /\ intel[n + 1].to = "DRPAUSE"
              \/ intel[n + 1].op # "STATE" /\ Rested(n)
<1>1. PICK k \in 1 .. n + 1 :
          /\ intel[k].op = "STATE" /\ intel[k].to = "DRPAUSE"
          /\ \A j \in k + 1 .. n + 1 : intel[j].op \notin Scans \cup {"STATE"}
  BY DEF Rested
<1>2. CASE k = n + 1
  BY <1>1, <1>2 DEF Scans
<1>3. CASE k # n + 1
  <2>1. k \in 1 .. n /\ n + 1 \in k + 1 .. n + 1
    BY <1>3
  <2>2. intel[n + 1].op \notin Scans \cup {"STATE"}
    BY <1>1, <2>1
  <2>3. \A j \in k + 1 .. n : j \in k + 1 .. n + 1
    OBVIOUS
  <2>4. Rested(n)
    BY <1>1, <2>1, <2>3 DEF Rested
  <2> QED
    BY <2>2, <2>4
<1> QED
  BY <1>2, <1>3

\* In a loop for a status the opcodes are its commands.
LEMMA AheadInPoll ==
    ASSUME PollPlace, DataInv, Has("LHEAP_IN"), Opcode.op # "0xFF"
    PROVE  /\ g_usIntelDataIndex \in Nat /\ g_usIntelDataIndex + 1 \in 1 .. Len(intel)
           /\ Opcode = intel[g_usIntelDataIndex + 1]
           /\ Consumed(0) => g_usIntelDataIndex' = g_usIntelDataIndex + 1
<1>1. "LHEAP_IN" \in g_usDataType /\ "HEAP_IN" \notin g_usDataType
  BY DEF PollPlace, Has
<1>2. g_usIntelDataIndex \in Nat /\ Len(intel) \in Nat
  BY DEF DataInv, LoopData
<1>3. Opcode = IF g_usIntelDataIndex + 1 <= Len(intel)
               THEN intel[g_usIntelDataIndex + 1] ELSE End
  BY <1>1 DEF Opcode, Ahead, At, Has
<1>4. Consumed(0) => g_usIntelDataIndex' = g_usIntelDataIndex + 1
  BY <1>1, <1>2 DEF Consumed, InIntel, Has
<1>5. g_usIntelDataIndex + 1 <= Len(intel)
  BY <1>3 DEF End
<1> QED
  BY <1>2, <1>3, <1>4, <1>5

LEMMA PlaceStep ==
    LoopInv /\ DataInv /\ PollsPause /\ PollPlace /\ [Next]_vars => PollPlace'
<1> SUFFICES ASSUME LoopInv, DataInv, PollsPause, PollPlace, [Next]_vars PROVE PollPlace'
  OBVIOUS
<1>1. ASSUME UNCHANGED <<g_usDataType, stack>> PROVE PollPlace'
  BY <1>1 DEF PollPlace, Innermost
<1>2. CASE REPEAT
  <2>1. Is({"REPEAT"}) /\ g_usDataType' \subseteq g_usDataType \cup {"HEAP_IN"}
    BY <1>2 DEF REPEAT, flags
  <2>2. Opcode.op = "REPEAT"
    BY <2>1 DEF Is
  <2>3. ~Has("LHEAP_IN")
    <3> SUFFICES ASSUME Has("LHEAP_IN") PROVE FALSE
      OBVIOUS
    <3>1. /\ g_usIntelDataIndex + 1 \in 1 .. Len(intel)
          /\ Opcode = intel[g_usIntelDataIndex + 1]
      BY <2>2, AheadInPoll
    <3> QED
      BY <2>2, <3>1 DEF PollsPause
  <2> QED
    BY <2>1, <2>3 DEF PollPlace, Has
<1>3. CASE LCOUNT
  <2> DEFINE f == [kind |-> "LCOUNT", left |-> Opcode.count, total |-> Opcode.count,
                   heap |-> Has("HEAP_IN"), miss |-> miss]
  <2>1. \/ "LHEAP_IN" \notin g_usDataType'
        \/ "HEAP_IN" \notin g_usDataType' /\ stack' = Append(stack, f)
    BY <1>3 DEF LCOUNT
  <2>2. Frame(f) /\ f.kind = "LCOUNT"
    BY DEF Frame, Keys
  <2> HIDE DEF f
  <2>3. ASSUME stack' = Append(stack, f) PROVE stack'[Len(stack')].kind = "LCOUNT"
    BY <2>2, <2>3, Pushed DEF LoopInv
  <2> QED
    BY <2>1, <2>3 DEF PollPlace, Innermost
<1>4. CASE CountAgain
  <2>1. /\ stack # <<>> /\ stack' = Round /\ Innermost.kind = "LCOUNT"
        /\ UNCHANGED g_usDataType
    BY <1>4 DEF CountAgain, InLoop, NextPoll, flags
  <2>2. /\ Len(stack') = Len(stack) /\ Len(stack) \in Nat \ {0}
        /\ stack'[Len(stack)].kind = stack[Len(stack)].kind
    BY <2>1, OneLess DEF LoopInv
  <2> QED
    BY <2>1, <2>2 DEF PollPlace, Innermost
<1>5. CASE CountEnds
  BY <1>5 DEF CountEnds, AfterCount, PollPlace
<1>6. CASE RepeatAgain \/ RepeatEnds
  <2>1. Innermost.kind = "REPEAT" /\ g_usDataType' \subseteq g_usDataType
    BY <1>6 DEF RepeatAgain, RepeatEnds, InLoop, flags
  <2> QED
    BY <2>1 DEF PollPlace
<1>7. CASE Open \/ hardware_init \/ CheckVersion \/ ispVMStart \/ ispVMEnd \/ main
  BY <1>1, <1>7 DEF Open, hardware_init, CheckVersion, ispVMStart, ispVMEnd, main, play,
                    loop, flags
<1>8. CASE State \/ ispVMShift \/ Send \/ ispVMRead \/ Retry \/ ispVMReadandSave
  BY <1>1, <1>8 DEF State, ispVMShift, Send, ispVMRead, Retry, ispVMReadandSave, loop, flags
<1>9. CASE SendBack \/ LeaveShift \/ TCK \/ ENDDR \/ ENDIR \/ ispVMAmble \/ MEM
  BY <1>1, <1>9 DEF SendBack, LeaveShift, TCK, ENDDR, ENDIR, ispVMAmble, MEM, loop, flags
<1>10. CASE VENDOR \/ SETFLOW \/ RESETFLOW \/ SHR \/ VUES \/ Skipped \/ ispVMProcessLVDS
  BY <1>1, <1>10 DEF VENDOR, SETFLOW, RESETFLOW, SHR, VUES, Skipped, ispVMProcessLVDS, loop,
                     flags
<1>11. CASE Invalid \/ ispVMDataSize \/ HEAP \/ EndCode \/ Gone \/ UNCHANGED vars
  BY <1>1, <1>11 DEF Invalid, ispVMDataSize, HEAP, EndCode, Gone, vars, loop, flags
<1> QED
  BY <1>2, <1>3, <1>4, <1>5, <1>6, <1>7, <1>8, <1>9, <1>10, <1>11 DEF Next, Play

LEMMA PollStep ==
    ScanInvs /\ CascadesWhole /\ PollsPause /\ PollPlace /\ PollInv /\ PollReadsFresh
       /\ [Next]_vars => PollInv' /\ PollReadsFresh'
<1> SUFFICES ASSUME ScanInvs, CascadesWhole, PollsPause, PollPlace, PollInv, PollReadsFresh,
                    [Next]_vars
             PROVE  PollInv' /\ PollReadsFresh'
  OBVIOUS
<1>0. PortInv(port) /\ LoopInv /\ DataInv /\ WhereInv /\ Opcode \in Ops
  BY AheadIsOp DEF ScanInvs, PlayerInv, Opcode
\* Outside of the loops for a status, and on the way out, nothing is claimed.
<1>1. ASSUME UNCHANGED stale, pc' \notin Early,
             \/ pc' \notin InScan \cup {"code"}
             \/ "LHEAP_IN" \notin g_usDataType'
      PROVE  PollInv' /\ PollReadsFresh'
  BY <1>1 DEF PollInv, PollReadsFresh, InScan, Has
\* An opcode that neither moves nor scans.
<1>2. ASSUME pc = "code", pc' \in {"code", "return"}, UNCHANGED <<g_usDataType, intel, stale>>,
             Opcode.op \notin Scans \cup {"STATE", "0xFF"}, Consumed(0),
             Renewed(port) => Renewed(port')
      PROVE  PollInv' /\ PollReadsFresh'
  <2> SUFFICES ASSUME Has("LHEAP_IN"), pc' = "code" PROVE PollInv' /\ PollReadsFresh'
    BY <1>1, <1>2 DEF Early, InScan, Has
  <2> DEFINE n == g_usIntelDataIndex
  <2>1. n \in Nat /\ Opcode = intel[n + 1] /\ n' = n + 1
    BY <1>0, <1>2, AheadInPoll
  <2>2. Rested(n + 1) => Renewed(port')
    <3> HIDE DEF n
    <3>1. ASSUME Rested(n + 1) PROVE Rested(n)
      BY <1>2, <2>1, <3>1, RestedOn
    <3>2. Rested(n) => Renewed(port)
      BY <1>2 DEF PollInv, n
    <3> QED
      BY <1>2, <3>1, <3>2
  <2>3. Rested(g_usIntelDataIndex)' => Renewed(port)'
    <3>1. Rested(g_usIntelDataIndex)' => Rested(n + 1)
      BY <1>2, <2>1 DEF Rested
    <3>2. Renewed(port') = Renewed(port)'
      BY DEF Renewed
    <3> QED
      BY <2>2, <3>1, <3>2
  <2> QED
    BY <1>2, <2>3 DEF PollInv, PollReadsFresh, Early, InScan
\* Steps inside a scan.
<1>3. ASSUME pc \in InScan, pc' \in InScan \ {"data"},
             UNCHANGED <<g_usDataType, intel, g_usIntelDataIndex>>
      PROVE  PollInv'
  BY <1>3 DEF PollInv, Early, InScan, Has
<1>4. CASE ispVMStart
  <2>1. pc = "start" /\ pc' \in {"code", "return"} /\ UNCHANGED <<g_usDataType, stale>>
    BY <1>4 DEF ispVMStart, flags, history
  <2> QED
    BY <1>1, <2>1 DEF PollInv, Early
<1>5. CASE State
  <2>1. /\ pc = "code" /\ pc' = "code" /\ UNCHANGED <<g_usDataType, intel, stale>>
        /\ Opcode.op = "STATE" /\ port' = StateTo(Opcode.to) /\ Consumed(0)
    BY <1>5 DEF State, Is, Read, control, history, flags
  <2> SUFFICES ASSUME Has("LHEAP_IN") PROVE PollInv' /\ PollReadsFresh'
    BY <1>1, <2>1 DEF Early, Has
  <2> DEFINE n == g_usIntelDataIndex
  <2>2. n \in Nat /\ Opcode = intel[n + 1] /\ n' = n + 1
    BY <1>0, <2>1, AheadInPoll
  <2>3. port.cur \in Stable
    <3>1. ~mid
      BY <2>1 DEF CascadesWhole
    <3>2. ~Aborts
      BY <2>1 DEF Aborts
    <3> QED
      BY <1>0, <2>1, <3>1, <3>2 DEF WhereInv, Between, Stable
  <2>4. Opcode.to = "DRPAUSE" => Renewed(port')
    BY <1>0, <2>1, <2>3, PauseRenews
  <2>5. Rested(n + 1) => Renewed(port')
    <3> HIDE DEF n
    <3>1. Rested(n + 1) => Opcode.to = "DRPAUSE"
      BY <2>1, <2>2, RestedOn
    <3> QED
      BY <2>4, <3>1
  <2>6. Rested(g_usIntelDataIndex)' => Renewed(port)'
    <3>1. Rested(g_usIntelDataIndex)' => Rested(n + 1)
      BY <2>1, <2>2 DEF Rested
    <3>2. Renewed(port') = Renewed(port)'
      BY DEF Renewed
    <3> QED
      BY <2>5, <3>1, <3>2
  <2> QED
    BY <2>1, <2>6 DEF PollInv, PollReadsFresh, Early, InScan
<1>6. CASE ispVMShift
  <2>1. /\ pc = "code" /\ Opcode.op \in Scans /\ UNCHANGED <<g_usDataType, intel, stale>>
        /\ port' = [Enter(Opcode.op) EXCEPT !.due = @ + Asked(Opcode)]
        /\ "HEAP_IN" \notin g_usDataType => Consumed(0)
        /\ (pc' = "data" /\ scan' = Opcode) \/ pc' = "return"
    BY <1>6 DEF ispVMShift, Is, Variable, Return, Has
  <2> SUFFICES ASSUME Has("LHEAP_IN"), pc' = "data", scan' = Opcode
               PROVE  PollInv' /\ PollReadsFresh'
    BY <1>1, <2>1 DEF Early, InScan, Has
  <2> DEFINE n == g_usIntelDataIndex
  <2>2. n \in Nat /\ n + 1 \in 1 .. Len(intel) /\ Opcode = intel[n + 1] /\ n' = n + 1
    <3>1. "HEAP_IN" \notin g_usDataType
      BY DEF PollPlace, Has
    <3>2. Opcode.op # "0xFF"
      BY <2>1 DEF Scans
    <3> QED
      BY <1>0, <2>1, <3>1, <3>2, AheadInPoll
  <2>3. Polling(Opcode) => Renewed(port)
    <3>1. Polling(Opcode) => Rested(n)
      <4>1. n + 1 - 1 = n
        BY <2>2
      <4>2. Polling(intel[n + 1]) => Rested(n + 1 - 1)
        BY <2>2 DEF PollsPause
      <4> HIDE DEF n
      <4> QED
        BY <2>2, <4>1, <4>2
    <3> QED
      BY <2>1, <3>1 DEF PollInv
  <2>4. Renewed(port) => Renewed(port')
    <3>1. PortInv(Enter(Opcode.op))
      BY <1>0, EnterInv
    <3>2. Renewed(port) => Renewed(Enter(Opcode.op))
      BY <1>0, EnterRenewed
    <3>3. port'.fresh = Enter(Opcode.op).fresh /\ port'.stray = Enter(Opcode.op).stray
      BY <2>1, <3>1 DEF PortInv, PortShape
    <3> QED
      BY <3>2, <3>3 DEF Renewed
  <2>5. (Polling(scan) => Renewed(port))'
    BY <2>3, <2>4 DEF Polling, Compared, Dynamic, Renewed
  <2>6. (g_usIntelDataIndex \in 1 .. Len(intel) /\ intel[g_usIntelDataIndex].op \in Scans)'
    BY <2>1, <2>2
  <2> QED
    BY <2>1, <2>5, <2>6 DEF PollInv, PollReadsFresh, Early, InScan
<1>7. CASE ispVMRead
  <2>1. /\ pc = "data" /\ pc' \in {"leave", "retry"} /\ Compared(scan)
        /\ stale' = stale \cup Outdated("read")
        /\ UNCHANGED <<g_usDataType, intel, g_usIntelDataIndex>>
    BY <1>7 DEF ispVMRead, sources
  <2>2. scan.op # "SIR" => Polling(scan)
    BY <1>0, <2>1 DEF WhereInv, InScan, Scans, Polling
  <2>3. ~(Has("LHEAP_IN") /\ scan.op # "SIR" /\ ~port.stray /\ ~port.fresh)
    BY <2>1, <2>2 DEF PollInv, Renewed
  <2>4. PollReadsFresh'
    BY <2>1, <2>3 DEF PollReadsFresh, Outdated
  <2> QED
    BY <1>3, <2>1, <2>4 DEF InScan
<1>8. CASE Send \/ Retry \/ ispVMReadandSave \/ SendBack
  <2>1. /\ pc \in InScan /\ pc' \in {"leave", "retry", "back"}
        /\ UNCHANGED <<g_usDataType, intel, g_usIntelDataIndex>>
        /\ stale' \subseteq stale \cup {"retry"}
    BY <1>8 DEF Outdated, Send, Retry, ispVMReadandSave, SendBack, flags, sources, history, InScan
  <2> QED
    BY <1>3, <2>1 DEF InScan, PollReadsFresh
<1>9. CASE LeaveShift
  <2>1. /\ pc = "leave" /\ pc' \in {"code", "return"}
        /\ UNCHANGED <<g_usDataType, intel, g_usIntelDataIndex, stale>>
    BY <1>9 DEF LeaveShift, Result, flags, sources
  <2> SUFFICES ASSUME Has("LHEAP_IN") PROVE PollInv' /\ PollReadsFresh'
    BY <1>1, <2>1 DEF Early, Has
  <2>2. ~Rested(g_usIntelDataIndex)
    <3> DEFINE n == g_usIntelDataIndex - 1
    <3>1. n \in Nat /\ n + 1 = g_usIntelDataIndex /\ intel[n + 1].op \in Scans
      BY <2>1 DEF PollInv, InScan
    <3>2. ~Rested(n + 1)
      <4> HIDE DEF n
      <4> QED
        BY <3>1, RestedOn
    <3> QED
      BY <3>1, <3>2
  <2>3. ~Rested(g_usIntelDataIndex)'
    BY <2>1, <2>2 DEF Rested
  <2> QED
    BY <2>1, <2>3 DEF PollInv, PollReadsFresh, Early, InScan
<1>10. CASE TCK
  <2>1. /\ pc = "code" /\ pc' = "code" /\ UNCHANGED <<g_usDataType, intel, stale>>
        /\ Opcode.op = "TCK" /\ port' = ispVMClocks(port, Opcode.n) /\ Consumed(0)
    BY <1>10 DEF TCK, Is, Read, control, history, flags
  <2> QED
    BY <1>0, <1>2, <2>1, ClocksRenewed DEF Scans
<1>11. CASE ENDDR \/ ENDIR \/ MEM \/ VENDOR \/ SETFLOW \/ RESETFLOW
  <2>1. /\ pc = "code" /\ pc' = "code" /\ UNCHANGED <<g_usDataType, intel, stale, port>>
        /\ Opcode.op \in {"ENDDR", "ENDIR", "MEM", "VENDOR", "SETFLOW", "RESETFLOW"}
        /\ Consumed(0)
    BY <1>11 DEF ENDDR, ENDIR, MEM, VENDOR, SETFLOW, RESETFLOW, Is, Read, control, history,
                 flags
  <2> QED
    BY <1>2, <2>1 DEF Scans
<1>12. CASE SHR \/ VUES \/ Skipped \/ ispVMProcessLVDS
  <2>1. /\ pc = "code" /\ pc' = "code" /\ UNCHANGED <<g_usDataType, intel, stale, port>>
        /\ Opcode.op \in {"SHR", "SHL", "VUES", "WAIT", "FREQUENCY", "COMMENT", "HEADER",
                          "ispEN", "TRST", "LVDS", "?"}
        /\ Consumed(0)
    BY <1>12 DEF SHR, VUES, Skipped, ispVMProcessLVDS, Is, Read, control, history, flags
  <2> QED
    BY <1>2, <2>1 DEF Scans
<1>13. CASE ispVMAmble \/ HEAP
  <2>1. /\ pc = "code" /\ pc' \in {"code", "return"}
        /\ UNCHANGED <<g_usDataType, intel, stale, port>>
        /\ Opcode.op \in {"HIR", "TIR", "HDR", "TDR", "HEAP"} /\ Consumed(0)
    BY <1>13 DEF ispVMAmble, HEAP, Is, Read, Return, Result, history, flags
  <2> QED
    BY <1>2, <2>1 DEF Scans
<1>14. CASE Invalid \/ EndCode \/ ispVMDataSize
  <2>1. pc' \in {"return", "spin"} /\ UNCHANGED stale
    BY <1>14 DEF Invalid, EndCode, ispVMDataSize, Return, history
  <2> QED
    BY <1>1, <2>1 DEF Early, InScan
<1>15. CASE REPEAT
  <2>1. /\ UNCHANGED stale /\ pc = "code" /\ pc' \in {"code", "return", "abort"}
        /\ Opcode.op = "REPEAT" /\ g_usDataType' \subseteq g_usDataType \cup {"HEAP_IN"}
    BY <1>15 DEF REPEAT, Is, Return, history, flags
  <2>2. ~Has("LHEAP_IN")
    <3> SUFFICES ASSUME Has("LHEAP_IN") PROVE FALSE
      OBVIOUS
    <3>1. /\ g_usIntelDataIndex + 1 \in 1 .. Len(intel)
          /\ Opcode = intel[g_usIntelDataIndex + 1]
      BY <1>0, <2>1, AheadInPoll
    <3> QED
      BY <2>1, <3>1 DEF PollsPause
  <2> QED
    BY <1>1, <2>1, <2>2 DEF Early, Has
<1>16. CASE LCOUNT
  <2>1. /\ pc = "code" /\ pc' = "code" /\ UNCHANGED stale
        /\ "LHEAP_IN" \notin g_usDataType' \/ g_usIntelDataIndex' = 0
    BY <1>16 DEF LCOUNT, Is, Has, history
  <2>2. CASE "LHEAP_IN" \notin g_usDataType'
    BY <1>1, <2>1, <2>2 DEF Early
  <2>3. CASE g_usIntelDataIndex' = 0
    <3>1. ~Rested(g_usIntelDataIndex)'
      BY <2>3 DEF Rested
    <3> QED
      BY <2>1, <3>1 DEF PollInv, PollReadsFresh, Early, InScan
  <2> QED
    BY <2>1, <2>2, <2>3
<1>17. CASE RepeatAgain \/ RepeatEnds
  <2>1. /\ pc' \in {"code", "return"} /\ UNCHANGED stale /\ InLoop("REPEAT")
        /\ g_usDataType' \subseteq g_usDataType
    BY <1>17 DEF RepeatAgain, RepeatEnds, Result, history, flags
  <2>2. "LHEAP_IN" \notin g_usDataType
    BY <2>1 DEF InLoop, PollPlace
  <2> QED
    BY <1>1, <2>1, <2>2 DEF Early
<1>18. CASE CountAgain
  <2>1. pc' = "code" /\ UNCHANGED stale /\ g_usIntelDataIndex' = 0
    BY <1>18 DEF CountAgain
  <2>2. ~Rested(g_usIntelDataIndex)'
    BY <2>1 DEF Rested
  <2> QED
    BY <2>1, <2>2 DEF PollInv, PollReadsFresh, Early, InScan
<1>19. CASE CountEnds
  <2>1. /\ pc' \in {"code", "return"} /\ UNCHANGED stale
        /\ "LHEAP_IN" \notin g_usDataType'
    BY <1>19 DEF CountEnds, GivenUp, AfterCount, Result, history
  <2> QED
    BY <1>1, <2>1 DEF Early
<1>20. CASE Open \/ hardware_init \/ CheckVersion
  <2>1. /\ UNCHANGED <<stale, g_usDataType>> /\ pc \in Early
        /\ pc' \in Early \cup {"exit", "abort", "spin"}
    BY <1>20 DEF Open, hardware_init, CheckVersion, play, history, flags, Early
  <2> QED
    BY <2>1 DEF PollInv, PollReadsFresh, Early, InScan, Has
<1>21. CASE ispVMEnd \/ main
  <2>1. UNCHANGED stale /\ pc' \in {"exit", "done", "abort"}
    BY <1>21 DEF ispVMEnd, main, play, history
  <2> QED
    BY <1>1, <2>1 DEF Early, InScan
<1>22. CASE Gone \/ UNCHANGED vars
  <2>1. UNCHANGED <<stale, g_usDataType, intel, g_usIntelDataIndex, pc, port, scan>>
    BY <1>22 DEF Gone, vars, control, flags, sources, history
  <2>2. PollInv' = PollInv
    BY <2>1 DEF PollInv, Has, Rested, Polling, Compared, Dynamic, Renewed
  <2> QED
    BY <2>1, <2>2 DEF PollReadsFresh
<1> QED
  BY <1>4, <1>5, <1>6, <1>7, <1>8, <1>9, <1>10, <1>11, <1>12, <1>13, <1>14, <1>15, <1>16,
     <1>17, <1>18, <1>19, <1>20, <1>21, <1>22 DEF Next, Play

\* A register that is read again without a capture gives what was shifted into it, and
\* a poll would compare that: the comparison of a scan in a loop for a status is of data
\* that a capture renewed since the comparison before, in a file whose polls move to the
\* pause state before they scan and begin no loop of their own, although the player is
\* there already from the second round on (the detour by DRCAPTURE in ispVMCode).  That
\* does not hold of the comparisons that ispVMRead repeats for XILINX, which are excepted.
THEOREM PollsReadFresh ==
    ASSUME \A im \in Images : Sound(im.code)
    PROVE  Spec /\ []CascadesWhole /\ []TornEnds /\ []PollsPause => []PollReadsFresh
<1>1. Init => ScanInvs
  BY InitScan
<1>2. Init => PollPlace /\ PollInv /\ PollReadsFresh
  BY DEF Init, PollPlace, PollInv, PollReadsFresh, Early, InScan, Has
<1>3. ScanInvs => LoopInv /\ DataInv
  BY DEF ScanInvs
<1> QED
  BY <1>1, <1>2, <1>3, ScanStep, PlaceStep, PollStep, PTL DEF Spec

-----------------------------------------------------------------------------
(* The types of the variables. *)

Flags == {"CASCADE", "REPEATLOOP", "SHIFTLEFT", "SHIFTRIGHT", "VERIFYUES"}

\* The operands have their types.
Typed(t) ==
    /\ t.op = "SETFLOW" => t.flags \subseteq Flags
    /\ t.op \in Scans => t.rows \in Seq(RowKinds)
    /\ t.op \in {"REPEAT", "LCOUNT"} => t.count \in Nat
    /\ t.op \in {"MEM", "LVDS"} => t.size \in Nat
OperandInv == \A t \in Ops : Typed(t)

Steps == {"open", "init", "version", "start", "code", "data", "retry", "back",
          "leave", "return", "exit", "done", "abort", "spin"}
ControlInv ==
    /\ pc \in Steps
    /\ tries \in 0 .. Tries /\ (tries # 0 <=> pc = "retry")
    /\ taken \subseteq ToSet(JtagPins)
    /\ reset \in 0 .. 1 /\ (pc # "done" => reset = 0)

Counts(f) == f.total \in Nat /\ f.left \in 1 .. f.total
CountsInv == \A i \in 1 .. Len(stack) : Counts(stack[i])

\* A memory is what it is, with a size or none for each buffer.
Sized(m) ==
    /\ m = [cap |-> m.cap, prev |-> m.prev, over |-> m.over]
    /\ m.cap \in [Rows \cup Others -> Nat \cup {Null}]
StateInv ==
    /\ g_usFlowControl \subseteq Flags /\ g_usMaxSize \in Nat
    /\ port.cur \in Names
    /\ Sized(mem)
HistoryInv ==
    stale \subseteq {"read", "retry"} /\ lapses \subseteq {"nested", "grown", "ended"}
TypeInvs == OperandInv /\ ControlInv /\ CountsInv /\ StateInv /\ HistoryInv

LEMMA OperandStep == OperandInv /\ [Next]_vars => OperandInv'
  BY SameImage DEF OperandInv, Ops

LEMMA OpcodeTyped == ASSUME DataInv, OperandInv PROVE Typed(Opcode)
  BY AheadIsOp DEF OperandInv, Opcode

LEMMA Pins == \A n \in 0 .. 4 : ToSet(SubSeq(JtagPins, 1, n)) \subseteq ToSet(JtagPins)
<1> SUFFICES ASSUME NEW n \in 0 .. 4 PROVE ToSet(SubSeq(JtagPins, 1, n)) \subseteq ToSet(JtagPins)
  OBVIOUS
<1> DEFINE s == JtagPins
<1>1. s \in Seq({"TMS", "TCK", "TDO", "TDI"}) /\ Len(s) = 4
  BY DEF JtagPins
<1> HIDE DEF s
<1>2. /\ Len(SubSeq(s, 1, n)) = n
      /\ \A i \in 1 .. n : SubSeq(s, 1, n)[i] = s[i]
      /\ DOMAIN SubSeq(s, 1, n) = 1 .. n /\ DOMAIN s = 1 .. 4
  BY <1>1
<1> QED
  BY <1>2 DEF ToSet, s

LEMMA ControlStep == ControlInv /\ [Next]_vars => ControlInv'
<1> SUFFICES ASSUME ControlInv, [Next]_vars PROVE ControlInv'
  OBVIOUS
<1>0. Tries \in Nat \ {0}
  BY TriesAssumption
\* Steps that leave the retries and the board alone.
<1>1. ASSUME UNCHANGED <<tries, taken, reset>>, pc \notin {"retry", "done"},
             pc' \in Steps \ {"retry"}
      PROVE  ControlInv'
  BY <1>1 DEF ControlInv
<1>2. ASSUME UNCHANGED <<pc, tries, taken, reset>> PROVE ControlInv'
  BY <1>2 DEF ControlInv
<1>3. CASE hardware_init
  <2>1. /\ pc = "init" /\ pc' \in {"version", "abort"} /\ UNCHANGED <<tries, reset>>
        /\ taken' \subseteq ToSet(JtagPins)
    BY <1>3, Pins DEF hardware_init, play
  <2> QED
    BY <2>1 DEF ControlInv, Steps
<1>4. CASE ispVMRead
  <2>1. /\ pc = "data" /\ UNCHANGED <<taken, reset>>
        /\ \/ pc' = "retry" /\ tries' = Tries
           \/ pc' = "leave" /\ UNCHANGED tries
    BY <1>4 DEF ispVMRead, board
  <2> QED
    BY <1>0, <2>1 DEF ControlInv, Steps
<1>5. CASE Retry
  <2>1. /\ pc = "retry" /\ UNCHANGED <<taken, reset>>
        /\ \/ pc' = "leave" /\ tries' = 0
           \/ tries' = tries - 1 /\ pc' = IF tries = 1 THEN "leave" ELSE "retry"
    BY <1>5 DEF Retry, board
  <2> QED
    BY <1>0, <2>1 DEF ControlInv, Steps
<1>6. CASE ispVMEnd
  <2>1. pc = "return" /\ pc' = "exit" /\ taken' = {} /\ UNCHANGED <<tries, reset>>
    BY <1>6 DEF ispVMEnd
  <2> QED
    BY <2>1 DEF ControlInv, Steps
<1>7. CASE main
  <2>1. /\ pc = "exit" /\ UNCHANGED <<tries, taken>>
        /\ \/ pc' = "abort" /\ reset' = reset
           \/ pc' = "done" /\ reset' \in {reset, reset + 1}
    BY <1>7 DEF main, play, Ok
  <2> QED
    BY <2>1 DEF ControlInv, Steps
<1>8. CASE Open \/ CheckVersion \/ ispVMStart
  <2>1. /\ UNCHANGED <<tries, taken, reset>> /\ pc \in {"open", "version", "start"}
        /\ pc' \in {"exit", "abort", "spin", "init", "start", "code", "return"}
    BY <1>8 DEF Open, CheckVersion, ispVMStart, play, board
  <2> QED
    BY <1>1, <2>1 DEF Steps
<1>9. CASE ispVMShift \/ Send \/ ispVMReadandSave \/ SendBack \/ LeaveShift \/ ispVMAmble \/ Invalid
  <2>1. /\ UNCHANGED <<tries, taken, reset>> /\ pc \in {"code", "data", "back", "leave"}
        /\ pc' \in {"code", "data", "back", "leave", "return"}
    BY <1>9 DEF ispVMShift, Send, ispVMReadandSave, SendBack, LeaveShift, ispVMAmble, Invalid,
                Is, board, Return, Result
  <2> QED
    BY <1>1, <2>1 DEF Steps
<1>10. CASE HEAP \/ REPEAT \/ LCOUNT \/ EndCode \/ ispVMDataSize
  <2>1. /\ UNCHANGED <<tries, taken, reset>> /\ pc = "code"
        /\ pc' \in {"code", "return", "abort", "spin"}
    BY <1>10 DEF HEAP, ispVMDataSize, REPEAT, LCOUNT, EndCode, Is, board, Return
  <2> QED
    BY <1>1, <2>1 DEF Steps
<1>11. CASE RepeatAgain \/ RepeatEnds \/ CountAgain \/ CountEnds
  <2>1. /\ UNCHANGED <<tries, taken, reset>> /\ pc = "return" /\ pc' \in {"code", "return"}
    BY <1>11 DEF RepeatAgain, RepeatEnds, CountAgain, CountEnds, InLoop, board, Result, GivenUp
  <2> QED
    BY <1>1, <2>1 DEF Steps
<1>12. CASE State \/ TCK \/ ENDDR \/ ENDIR \/ MEM \/ VENDOR \/ SETFLOW \/ RESETFLOW \/ SHR
  BY <1>2, <1>12 DEF State, TCK, ENDDR, ENDIR, MEM, VENDOR, SETFLOW, RESETFLOW, SHR, board, control
<1>13. CASE VUES \/ Skipped \/ ispVMProcessLVDS \/ Gone \/ UNCHANGED vars
  BY <1>2, <1>13 DEF VUES, Skipped, ispVMProcessLVDS, Gone, vars, board, control
<1> QED
  BY <1>3, <1>4, <1>5, <1>6, <1>7, <1>8, <1>9, <1>10, <1>11, <1>12, <1>13 DEF Next, Play

LEMMA CountsStep == LoopInv /\ DataInv /\ OperandInv /\ CountsInv /\ [Next]_vars => CountsInv'
<1> SUFFICES ASSUME LoopInv, DataInv, OperandInv, CountsInv, [Next]_vars PROVE CountsInv'
  OBVIOUS
<1>0. Stacked /\ Typed(Opcode)
  BY OpcodeTyped DEF LoopInv
<1>1. ASSUME UNCHANGED stack PROVE CountsInv'
  BY <1>1 DEF CountsInv, Counts
\* A loop that begins has all of its rounds to play.
<1>2. ASSUME NEW f, Frame(f), Counts(f), stack' = Append(stack, f) PROVE CountsInv'
  <2>1. /\ Len(stack') = Len(stack) + 1 /\ stack'[Len(stack) + 1] = f
        /\ \A i \in 1 .. Len(stack) : stack'[i] = stack[i]
    BY <1>0, <1>2, Pushed
  <2>2. Len(stack) \in Nat
    BY <1>0, StackIs
  <2>3. ASSUME NEW i \in 1 .. Len(stack') PROVE Counts(stack'[i])
    <3>1. i = Len(stack) + 1 \/ i \in 1 .. Len(stack)
      BY <2>1, <2>2
    <3> QED
      BY <1>2, <2>1, <3>1 DEF CountsInv
  <2> QED
    BY <2>3 DEF CountsInv, Counts
<1>3. CASE REPEAT
  <2> DEFINE f == [kind |-> "REPEAT", left |-> Opcode.count, total |-> Opcode.count,
                   heap |-> FALSE, miss |-> {}]
  <2>1. /\ Opcode.op = "REPEAT"
        /\ stack' = stack \/ (Opcode.count # 0 /\ stack' = Append(stack, f))
    BY <1>3 DEF REPEAT, Is
  <2>2. Opcode.count \in Nat
    BY <1>0, <2>1 DEF Typed
  <2>3. Frame(f) /\ f.left = Opcode.count /\ f.total = Opcode.count
    BY DEF Frame, Keys
  <2> HIDE DEF f
  <2>4. Opcode.count # 0 => Counts(f)
    BY <2>2, <2>3 DEF Counts
  <2> QED
    BY <1>1, <1>2, <2>1, <2>3, <2>4
<1>4. CASE LCOUNT
  <2> DEFINE f == [kind |-> "LCOUNT", left |-> Opcode.count, total |-> Opcode.count,
                   heap |-> Has("HEAP_IN"), miss |-> miss]
  <2>1. /\ Opcode.op = "LCOUNT"
        /\ stack' = stack \/ (Opcode.count # 0 /\ stack' = Append(stack, f))
    BY <1>4 DEF LCOUNT, Is
  <2>2. Opcode.count \in Nat
    BY <1>0, <2>1 DEF Typed
  <2>3. Frame(f) /\ f.left = Opcode.count /\ f.total = Opcode.count
    BY DEF Frame, Keys
  <2> HIDE DEF f
  <2>4. Opcode.count # 0 => Counts(f)
    BY <2>2, <2>3 DEF Counts
  <2> QED
    BY <1>1, <1>2, <2>1, <2>3, <2>4
\* A round less.
<1>5. CASE RepeatAgain \/ CountAgain
  <2>1. stack # <<>> /\ Innermost.left > 1 /\ stack' = Round
    BY <1>5 DEF RepeatAgain, CountAgain, InLoop, MoreRounds, NextPoll
  <2>2. /\ Len(stack') = Len(stack) /\ Len(stack) \in Nat \ {0}
        /\ \A i \in 1 .. Len(stack) - 1 : stack'[i] = stack[i]
        /\ stack'[Len(stack)] = Less(Innermost)
    BY <1>0, <2>1, OneLess
  <2>3. Frame(Innermost) /\ Counts(Innermost)
    BY <1>0, <2>2, StackIs DEF Innermost, CountsInv
  <2>4. Less(Innermost).total = Innermost.total /\ Less(Innermost).left = Innermost.left - 1
    BY <2>3 DEF Less, Frame, Keys
  <2>5. Counts(Less(Innermost))
    BY <2>1, <2>3, <2>4 DEF Counts
  <2>6. ASSUME NEW i \in 1 .. Len(stack') PROVE Counts(stack'[i])
    <3>1. i = Len(stack) \/ i \in 1 .. Len(stack) - 1
      BY <2>2
    <3> QED
      BY <2>2, <2>5, <3>1 DEF CountsInv
  <2> QED
    BY <2>6 DEF CountsInv, Counts
<1>6. CASE RepeatEnds \/ CountEnds
  <2>1. stack # <<>> /\ stack' = Outer
    BY <1>6 DEF RepeatEnds, CountEnds, InLoop
  <2>2. /\ Len(stack') = Len(stack) - 1 /\ Len(stack) \in Nat \ {0}
        /\ \A i \in 1 .. Len(stack) - 1 : stack'[i] = stack[i]
    BY <1>0, <2>1, Popped
  <2>3. ASSUME NEW i \in 1 .. Len(stack') PROVE Counts(stack'[i])
    BY <2>2, <2>3 DEF CountsInv
  <2> QED
    BY <2>3 DEF CountsInv, Counts
<1>7. CASE Open \/ hardware_init \/ CheckVersion \/ ispVMStart \/ main
  BY <1>1, <1>7 DEF Open, hardware_init, CheckVersion, ispVMStart, main, play, loop
<1>8. CASE State \/ ispVMShift \/ Send \/ ispVMRead \/ Retry \/ ispVMReadandSave
  BY <1>1, <1>8 DEF State, ispVMShift, Send, ispVMRead, Retry, ispVMReadandSave, loop
<1>9. CASE SendBack \/ LeaveShift \/ TCK \/ ENDDR \/ ENDIR \/ ispVMAmble \/ MEM \/ VENDOR
  BY <1>1, <1>9 DEF SendBack, LeaveShift, TCK, ENDDR, ENDIR, ispVMAmble, MEM, VENDOR, loop
<1>10. CASE SETFLOW \/ RESETFLOW \/ SHR \/ VUES \/ Skipped \/ ispVMProcessLVDS
  BY <1>1, <1>10 DEF SETFLOW, RESETFLOW, SHR, VUES, Skipped, ispVMProcessLVDS, loop
<1>11. CASE Invalid \/ ispVMDataSize \/ HEAP \/ EndCode \/ ispVMEnd \/ Gone \/ UNCHANGED vars
  BY <1>1, <1>11 DEF Invalid, ispVMDataSize, HEAP, EndCode, ispVMEnd, Gone, vars, loop
<1> QED
  BY <1>3, <1>4, <1>5, <1>6, <1>7, <1>8, <1>9, <1>10, <1>11 DEF Next, Play

\* What gives a buffer its size, and what only looks at it.
LEMMA AllocSized ==
    ASSUME NEW m, Sized(m), NEW b \in Rows \cup Others, NEW size \in Nat
    PROVE  Sized(Alloc(m, b, size)) /\ Sized(Renew(m, b, size))
<1>1. Alloc(m, b, size) = [cap |-> [m.cap EXCEPT ![b] = size], prev |-> m.prev, over |-> m.over]
  BY DEF Alloc, Sized
<1>2. [m.cap EXCEPT ![b] = size] \in [Rows \cup Others -> Nat \cup {Null}]
  BY DEF Sized
<1> DEFINE c == [m.cap EXCEPT ![b] = size]
<1> HIDE DEF c
<1>3. Alloc(m, b, size) = [cap |-> c, prev |-> m.prev, over |-> m.over]
  BY <1>1 DEF c
<1>4. c \in [Rows \cup Others -> Nat \cup {Null}]
  BY <1>2 DEF c
<1>5. Sized(Alloc(m, b, size))
  BY <1>3, <1>4 DEF Sized
<1>6. [Alloc(m, b, size) EXCEPT !.prev = size] = [cap |-> c, prev |-> size, over |-> m.over]
  BY <1>3
<1>7. Sized([Alloc(m, b, size) EXCEPT !.prev = size])
  BY <1>4, <1>6 DEF Sized
<1> QED
  BY <1>5, <1>7 DEF Renew

LEMMA TouchSized == ASSUME NEW m, Sized(m), NEW b, NEW n PROVE Sized(Touch(m, b, n))
<1>1. Touch(m, b, n) = [cap |-> m.cap, prev |-> m.prev, over |-> m.over \/ ~Fits(m, b, n)]
  BY DEF Touch, Sized
<1> DEFINE o == m.over \/ ~Fits(m, b, n)
<1> HIDE DEF o
<1>2. Touch(m, b, n) = [cap |-> m.cap, prev |-> m.prev, over |-> o]
  BY <1>1 DEF o
<1> QED
  BY <1>2 DEF Sized

LEMMA ManagerSized ==
    ASSUME NEW m, Sized(m), NEW target, NEW size \in Nat
    PROVE  Sized(ispVMMemManager(m, target, size))
<1>1. \A n, b : Sized(n) /\ b \in Rows \cup Others =>
          Sized(Alloc(n, b, size)) /\ Sized(Renew(n, b, size))
  BY AllocSized
<1>2. {"In", "Out", "Mask", "DMask"} \subseteq Rows
  BY DEF Rows
<1>3. CASE target \in {"TDI", "XTDI"}
  BY <1>1, <1>2, <1>3 DEF ispVMMemManager, Others
<1>4. CASE target \in {"TDO", "XTDO"}
  BY <1>1, <1>2, <1>4 DEF ispVMMemManager, Others
<1>5. CASE target \in {"MASK", "DMASK"}
  BY <1>1, <1>2, <1>5 DEF ispVMMemManager, Others
<1>6. CASE target \in Others
  BY <1>1, <1>6 DEF ispVMMemManager, Others
<1>7. CASE target \notin {"TDI", "XTDI", "TDO", "XTDO", "MASK", "DMASK"} \cup Others
  BY <1>7 DEF ispVMMemManager
<1> QED
  BY <1>3, <1>4, <1>5, <1>6, <1>7

LEMMA RowsSized ==
    ASSUME NEW m, Sized(m), NEW rows \in Seq(RowKinds), NEW max \in Nat, NEW bits
    PROVE  Sized(ispVMDataCode(m, rows, max, bits))
<1>1. Len(rows) \in Nat
  BY LenProperties
<1>2. PICK f : /\ ispVMDataCode(m, rows, max, bits) = f[Len(rows)] /\ f[0] = m
               /\ \A i \in 1 .. Len(rows) : f[i] = Stored(f[i - 1], rows[i], max, bits)
  BY <1>1, RowsInTurn
<1> DEFINE S == {i \in Nat : i <= Len(rows) => Sized(f[i])}
<1>3. 0 \in S
  BY <1>2
<1>4. ASSUME NEW n \in Nat, n \in S PROVE n + 1 \in S
  <2> SUFFICES ASSUME n + 1 <= Len(rows) PROVE Sized(f[n + 1])
    OBVIOUS
  <2>1. n + 1 \in 1 .. Len(rows) /\ n + 1 - 1 = n /\ n <= Len(rows)
    BY <1>1
  <2>2. Sized(f[n])
    BY <1>4, <2>1
  <2>3. f[n + 1] = Stored(f[n], rows[n + 1], max, bits)
    BY <1>2, <2>1
  <2> QED
    BY <2>2, <2>3, ManagerSized, TouchSized DEF Stored
<1>5. Len(rows) \in S
  <2> HIDE DEF S
  <2> QED
    BY <1>1, <1>3, <1>4, Induction
<1> QED
  BY <1>1, <1>2, <1>5

LEMMA TransfersSized ==
    ASSUME NEW m, Sized(m), NEW bits
    PROVE  Sized(TransferOut(m, bits)) /\ Sized(TransferIn(m, bits)) /\ Sized(ispVMFreeMem(m))
<1>1. \A n, b, k : Sized(n) => Sized(Touch(n, b, k))
  BY TouchSized
<1>2. Sized(ispVMFreeMem(m))
  <2> DEFINE c == NoMemory.cap
  <2>1. ispVMFreeMem(m) = [m EXCEPT !.cap = c]
    BY DEF ispVMFreeMem
  <2>2. c \in [Rows \cup Others -> Nat \cup {Null}]
    BY DEF NoMemory
  <2> HIDE DEF c
  <2>3. ispVMFreeMem(m) = [cap |-> c, prev |-> m.prev, over |-> m.over]
    BY <2>1 DEF Sized
  <2> QED
    BY <2>2, <2>3 DEF Sized
<1> QED
  BY <1>1, <1>2 DEF TransferOut, TransferIn

LEMMA StateStep ==
    PlayerInv /\ DataInv /\ FormInv /\ SettingsInv /\ OperandInv /\ StateInv /\ [Next]_vars
       => StateInv'
<1> SUFFICES ASSUME PlayerInv, DataInv, FormInv, SettingsInv, OperandInv, StateInv, [Next]_vars
             PROVE  StateInv'
  OBVIOUS
<1>0. /\ PortInv(port) /\ Opcode \in Ops /\ WellFormed(Opcode) /\ Typed(Opcode)
      /\ Stable \subseteq Names
      /\ {"RESET", "IDLE", "IRPAUSE", "DRPAUSE", "SHIFTIR", "SHIFTDR"} \subseteq Names
      /\ g_usMaxSize \in Nat /\ Sized(mem) /\ port.cur \in Names
      /\ g_usFlowControl \subseteq Flags
      /\ g_ucEnd.DR \in Stable /\ g_ucEnd.IR \in Stable
  <2>1. Opcode \in Ops /\ WellFormed(Opcode) /\ Typed(Opcode)
    BY AheadIsOp, OpcodeTyped DEF FormInv, Opcode
  <2>2. Stable \subseteq Names
        /\ {"RESET", "IDLE", "IRPAUSE", "DRPAUSE", "SHIFTIR", "SHIFTDR"} \subseteq Names
    BY MeantTable DEF Stable, Names
  <2> QED
    BY <2>1, <2>2 DEF PlayerInv, StateInv, SettingsInv
<1>1. \A p, to : PortInv(p) => PortInv(Move(p, to)) /\ Move(p, to).cur = to
  BY MoveInv, MoveCur
<1>2. \A p, n, c : PortInv(p) =>
          /\ PortInv(ispVMBypass(p, n)) /\ ispVMBypass(p, n).cur = p.cur
          /\ PortInv(ispVMSend(p, n, c)) /\ ispVMSend(p, n, c).cur = p.cur
          /\ PortInv(Header(p, n)) /\ Header(p, n).cur = p.cur
          /\ PortInv(Trailer(p, n)) /\ Trailer(p, n).cur = p.cur
          /\ ispVMClocks(p, n).cur = p.cur
  BY ScanInv, PartsCur
<1>3. ASSUME g_usFlowControl' \subseteq Flags, UNCHANGED <<g_usMaxSize, port, mem>> PROVE StateInv'
  BY <1>3 DEF StateInv, Sized
<1>4. ASSUME UNCHANGED <<flags, g_usMaxSize, mem>>, port'.cur \in Names PROVE StateInv'
  BY <1>4 DEF StateInv, Sized, flags
<1>5. ASSUME UNCHANGED <<flags, g_usMaxSize, port>>, Sized(mem') PROVE StateInv'
  BY <1>5 DEF StateInv, Sized, flags
<1>6. /\ PortInv(Sent) /\ Sent.cur = port.cur
      /\ PortInv(UsedUp(Sent)) /\ UsedUp(Sent).cur = port.cur
  <2>1. PortInv(Sent) /\ Sent.cur = port.cur
    BY <1>0, <1>2 DEF Sent
  <2> QED
    BY <2>1, UsedUpInv, UsedUpCur
<1>7. CASE ispVMStart
  <2>1. port' = Move(port, "RESET") /\ UNCHANGED <<flags, g_usMaxSize, mem>>
    BY <1>7 DEF ispVMStart, settings
  <2> QED
    BY <1>0, <1>1, <1>4, <2>1
<1>8. CASE State
  <2>1. /\ port' = StateTo(Opcode.to) /\ UNCHANGED <<flags, g_usMaxSize, mem>>
        /\ Opcode.op = "STATE"
    BY <1>8 DEF State, Is, settings
  <2>2. Opcode.to \in Stable
    BY <1>0, <2>1 DEF WellFormed
  <2>3. StateTo(Opcode.to).cur = Opcode.to
    BY <1>0, <1>1 DEF StateTo
  <2> QED
    BY <1>0, <1>4, <2>1, <2>2, <2>3
<1>9. CASE ispVMShift
  <2>1. /\ port' = [Enter(Opcode.op) EXCEPT !.due = @ + Asked(Opcode)]
        /\ mem' = ispVMDataCode(mem, Opcode.rows, g_usMaxSize, Opcode.size)
        /\ g_usFlowControl' \subseteq g_usFlowControl /\ UNCHANGED g_usMaxSize
        /\ Opcode.op \in Scans
    BY <1>9 DEF ispVMShift, Is, settings
  <2>2. Enter(Opcode.op).cur = Shifting(Opcode.op)
    BY <1>0, <2>1, EnterCur
  <2>3. PortShape(Enter(Opcode.op))
    BY <1>0, EnterInv DEF PortInv
  <2>4. port'.cur = Shifting(Opcode.op)
    BY <2>1, <2>2, <2>3 DEF PortShape
  <2>5. port'.cur \in Names
    BY <1>0, <2>4 DEF Shifting
  <2>6. Opcode.rows \in Seq(RowKinds)
    BY <1>0, <2>1 DEF Typed
  <2>7. Sized(mem')
    BY <1>0, <2>1, <2>6, RowsSized
  <2>8. Sized(mem)'
    BY <2>7 DEF Sized
  <2> QED
    BY <1>0, <2>1, <2>5, <2>8 DEF StateInv
<1>10. CASE Send \/ SendBack
  <2>1. /\ UNCHANGED <<flags, g_usMaxSize, mem>>
        /\ port' = Sent \/ port' = ispVMSend(Header(Move(port, "SHIFTDR"), g_usHead.DR),
                                            scan.size, Has("CASCADE"))
    BY <1>10 DEF Send, SendBack, settings
  <2>2. ispVMSend(Header(Move(port, "SHIFTDR"), g_usHead.DR), scan.size,
                  Has("CASCADE")).cur = "SHIFTDR"
    <3> DEFINE q == Header(Move(port, "SHIFTDR"), g_usHead.DR)
    <3>1. PortInv(q) /\ q.cur = "SHIFTDR"
      BY <1>0, <1>1, <1>2
    <3> HIDE DEF q
    <3>2. ispVMSend(q, scan.size, Has("CASCADE")).cur = "SHIFTDR"
      BY <1>2, <3>1 DEF ispVMSend
    <3> QED
      BY <3>2 DEF q
  <2> QED
    BY <1>0, <1>4, <1>6, <2>1, <2>2
<1>11. CASE ispVMRead
  <2>1. /\ UNCHANGED <<g_usMaxSize, mem>> /\ port' = UsedUp(Sent)
        /\ g_usFlowControl' = g_usFlowControl \ {"VERIFYUES"}
    BY <1>11 DEF ispVMRead, settings
  <2>2. port'.cur \in Names /\ g_usFlowControl' \subseteq Flags
    BY <1>0, <1>6, <2>1
  <2> QED
    BY <1>0, <2>1, <2>2 DEF StateInv, Sized
<1>12. CASE Retry
  <2> DEFINE again == Move(Move(ispVMBypass(Move(UsedUp(Sent), "DRPAUSE"), g_usTail.DR),
                                g_ucEnd.DR), "IDLE")
  <2>1. UNCHANGED <<flags, g_usMaxSize, mem>> /\ (port' = UsedUp(Sent) \/ port' = again)
    BY <1>12 DEF Retry, settings
  <2>2. again.cur = "IDLE"
    BY <1>1, <1>2, <1>6
  <2> QED
    BY <1>0, <1>4, <1>6, <2>1, <2>2
<1>13. CASE ispVMReadandSave
  <2>1. /\ UNCHANGED <<flags, g_usMaxSize>> /\ mem' = TransferIn(mem, scan.size)
        /\ port' = Move(Trailer(ispVMSend(port, scan.size, FALSE), g_usTail.DR), "DRPAUSE")
    BY <1>13 DEF ispVMReadandSave, settings
  <2>2. port'.cur = "DRPAUSE"
    BY <1>0, <1>1, <1>2, <2>1
  <2>3. Sized(mem')
    BY <1>0, <2>1, TransfersSized
  <2> QED
    BY <1>0, <2>1, <2>2, <2>3 DEF StateInv, Sized, flags
<1>14. CASE LeaveShift
  <2>1. /\ UNCHANGED <<flags, g_usMaxSize>>
        /\ mem' = mem \/ mem' = TransferOut(mem, scan.size)
        /\ port' = UsedUp(Leave(scan.op))
    BY <1>14 DEF LeaveShift, settings
  <2>2. Leave(scan.op).cur \in Names
    <3>1. g_ucEnd[Reg(scan.op)] \in Stable
      BY <1>0 DEF Reg
    <3> QED
      BY <1>0, <1>1, <1>2, <3>1 DEF Leave
  <2>3. PortInv(Leave(scan.op))
    BY <1>0, LeaveInv
  <2>4. port'.cur \in Names
    BY <2>1, <2>2, <2>3, UsedUpCur
  <2>5. Sized(mem')
    BY <1>0, <2>1, TransfersSized
  <2> QED
    BY <1>0, <2>1, <2>4, <2>5 DEF StateInv, Sized, flags
<1>15. CASE TCK
  <2>1. port' = ispVMClocks(port, Opcode.n) /\ UNCHANGED <<flags, g_usMaxSize, mem>>
    BY <1>15 DEF TCK, settings
  <2> QED
    BY <1>0, <1>2, <1>4, <2>1
<1>16. CASE ispVMAmble
  <2>1. /\ UNCHANGED <<flags, g_usMaxSize, port>> /\ Opcode.op \in {"HIR", "TIR", "HDR", "TDR"}
        /\ \/ mem' = mem
           \/ mem' = Touch(ispVMMemManager(mem, Opcode.op, Opcode.size), Opcode.op,
                           Bytes(Opcode.size))
    BY <1>16 DEF ispVMAmble, Is
  <2>2. Opcode.size \in Nat
    BY <1>0, <2>1 DEF WellFormed
  <2>3. Sized(mem')
    BY <1>0, <2>1, <2>2, ManagerSized, TouchSized
  <2> QED
    BY <1>5, <2>1, <2>3
<1>17. CASE ispVMProcessLVDS \/ HEAP \/ LCOUNT
  <2>1. /\ UNCHANGED <<g_usFlowControl, g_usMaxSize, port>>
        /\ Opcode.op \in {"LVDS", "HEAP", "LCOUNT"}
        /\ mem' = mem \/ \E b : mem' = ispVMMemManager(mem, b, Opcode.size)
    BY <1>17 DEF ispVMProcessLVDS, HEAP, LCOUNT, Is, settings, flags
  <2>2. Opcode.size \in Nat
    BY <1>0, <2>1 DEF Typed, DataInv, OpsInv
  <2>3. Sized(mem')
    BY <1>0, <2>1, <2>2, ManagerSized
  <2> QED
    BY <1>0, <2>1, <2>3 DEF StateInv, Sized
<1>18. CASE MEM
  <2>1. g_usMaxSize' = Opcode.size /\ Opcode.op = "MEM" /\ UNCHANGED <<flags, port, mem>>
    BY <1>18 DEF MEM, Is
  <2>2. Opcode.size \in Nat
    BY <1>0, <2>1 DEF Typed
  <2> QED
    BY <1>0, <2>1, <2>2 DEF StateInv, Sized, flags
<1>19. CASE SETFLOW
  <2>1. /\ g_usFlowControl' = g_usFlowControl \cup Opcode.flags /\ Opcode.op = "SETFLOW"
        /\ UNCHANGED <<g_usMaxSize, port, mem>>
    BY <1>19 DEF SETFLOW, Is, settings
  <2>2. Opcode.flags \subseteq Flags
    BY <1>0, <2>1 DEF Typed
  <2> QED
    BY <1>0, <1>3, <2>1, <2>2
<1>20. CASE RESETFLOW \/ SHR \/ VUES \/ REPEAT \/ RepeatEnds
  <2>1. /\ UNCHANGED <<g_usMaxSize, port, mem>>
        /\ g_usFlowControl' \subseteq g_usFlowControl
              \cup {"SHIFTRIGHT", "SHIFTLEFT", "VERIFYUES", "REPEATLOOP"}
    BY <1>20 DEF RESETFLOW, SHR, VUES, REPEAT, RepeatEnds, settings, flags
  <2>2. g_usFlowControl' \subseteq Flags
    BY <1>0, <2>1 DEF Flags
  <2> QED
    BY <1>3, <2>1, <2>2
<1>21. CASE ispVMEnd
  <2>1. /\ port' = Move(port, "RESET") /\ mem' = ispVMFreeMem(mem)
        /\ UNCHANGED <<flags, g_usMaxSize>>
    BY <1>21 DEF ispVMEnd, EndState, settings
  <2>2. Sized(mem') /\ port'.cur = "RESET"
    BY <1>0, <1>1, <2>1, TransfersSized
  <2> QED
    BY <1>0, <2>1, <2>2 DEF StateInv, Sized, flags
<1>22. CASE Open \/ hardware_init \/ CheckVersion \/ main \/ Gone \/ UNCHANGED vars
  BY <1>0, <1>3, <1>22 DEF Open, hardware_init, CheckVersion, main, Gone, play, vars, settings, flags
<1>23. CASE ENDDR \/ ENDIR \/ VENDOR \/ Skipped \/ Invalid \/ EndCode \/ ispVMDataSize
  BY <1>0, <1>3, <1>23 DEF ispVMDataSize, ENDDR, ENDIR, VENDOR, Skipped, Invalid, EndCode, settings, flags
<1>24. CASE RepeatAgain \/ CountAgain \/ CountEnds
  BY <1>0, <1>3, <1>24 DEF RepeatAgain, CountAgain, CountEnds, settings, flags
<1> QED
  BY <1>7, <1>8, <1>9, <1>10, <1>11, <1>12, <1>13, <1>14, <1>15, <1>16, <1>17, <1>18, <1>19,
     <1>20, <1>21, <1>22, <1>23, <1>24 DEF Next, Play

LEMMA HistoryStep == HistoryInv /\ [Next]_vars => HistoryInv'
<1> SUFFICES ASSUME HistoryInv, [Next]_vars PROVE HistoryInv'
  OBVIOUS
<1>1. ASSUME stale' \subseteq stale \cup {"read", "retry"},
             lapses' \subseteq lapses \cup {"nested", "grown", "ended"}
      PROVE  HistoryInv'
  BY <1>1 DEF HistoryInv
<1>2. CASE ispVMRead \/ Retry
  BY <1>1, <1>2 DEF ispVMRead, Retry, Outdated
<1>3. CASE MEM \/ EndCode
  BY <1>1, <1>3 DEF MEM, EndCode
<1>4. CASE HEAP \/ REPEAT \/ LCOUNT
  BY <1>1, <1>4 DEF HEAP, REPEAT, LCOUNT, Nested
<1>5. CASE Open \/ hardware_init \/ CheckVersion \/ ispVMStart \/ main
  BY <1>1, <1>5 DEF Open, hardware_init, CheckVersion, ispVMStart, main, play, history
<1>6. CASE State \/ ispVMShift \/ Send \/ ispVMReadandSave \/ SendBack \/ LeaveShift
  BY <1>1, <1>6 DEF State, ispVMShift, Send, ispVMReadandSave, SendBack, LeaveShift, history
<1>7. CASE TCK \/ ENDDR \/ ENDIR \/ ispVMAmble \/ VENDOR \/ SETFLOW \/ RESETFLOW \/ SHR
  BY <1>1, <1>7 DEF TCK, ENDDR, ENDIR, ispVMAmble, VENDOR, SETFLOW, RESETFLOW, SHR, history
<1>8. CASE VUES \/ Skipped \/ ispVMProcessLVDS \/ Invalid \/ ispVMDataSize
  BY <1>1, <1>8 DEF VUES, Skipped, ispVMProcessLVDS, Invalid, ispVMDataSize, history
<1>9. CASE RepeatAgain \/ RepeatEnds \/ CountAgain \/ CountEnds
  BY <1>1, <1>9 DEF RepeatAgain, RepeatEnds, CountAgain, CountEnds, history
<1>10. CASE ispVMEnd \/ Gone \/ UNCHANGED vars
  BY <1>1, <1>10 DEF ispVMEnd, Gone, vars, history
<1> QED
  BY <1>2, <1>3, <1>4, <1>5, <1>6, <1>7, <1>8, <1>9, <1>10 DEF Next, Play

LEMMA InitTypes ==
    ASSUME \A im \in Images : Complete(im.code) /\ \A t \in ToSet(im.code) : Typed(t)
    PROVE  Init => TypeInvs
<1> SUFFICES ASSUME Init PROVE TypeInvs
  OBVIOUS
<1>1. Complete(image.code) /\ \A t \in ToSet(image.code) : Typed(t)
  BY DEF Init
<1>2. OperandInv
  <2>1. Typed(End) /\ Typed(Unset)
    BY DEF Typed, End, Unset, Scans
  <2> QED
    BY <1>1, <2>1 DEF OperandInv, Ops
<1>3. HistoryInv
  BY DEF Init, HistoryInv
<1>4. ControlInv
  BY TriesAssumption DEF Init, ControlInv, Steps
<1>5. CountsInv
  <2>1. Len(stack) = 0
    BY DEF Init
  <2> QED
    BY <2>1 DEF CountsInv
<1>6. StateInv
  <2>1. NoMemory.cap \in [Rows \cup Others -> Nat \cup {Null}]
    BY DEF NoMemory
  <2>2. Sized(mem)
    BY <2>1 DEF Init, Sized, NoMemory
  <2>3. port.cur = "RESET"
    BY DEF Init
  <2> QED
    BY <2>2, <2>3, MeantTable DEF Init, StateInv, Flags
<1> QED
  BY <1>2, <1>3, <1>4, <1>5, <1>6 DEF TypeInvs

LEMMA TypeStep ==
    PlayerInv /\ DataInv /\ FormInv /\ SettingsInv /\ LoopInv /\ TypeInvs
      /\ [Next]_vars => TypeInvs'
  BY OperandStep, ControlStep, CountsStep, StateStep, HistoryStep DEF TypeInvs

LEMMA Types == PlayerInv /\ DataInv /\ LoopInv /\ MissInv /\ TypeInvs => TypeOK
<1> SUFFICES ASSUME PlayerInv, DataInv, LoopInv, MissInv, TypeInvs PROVE TypeOK
  OBVIOUS
<1>1. /\ {file, heap, intel} \subseteq Seq(Ops)
      /\ {g_iHeapCounter, g_usIntelDataIndex} \subseteq Nat
  BY DEF DataInv, FileInv, LoopData
<1>2. g_usDataType \subseteq {"HEAP_IN", "LHEAP_IN"}
  BY DEF LoopInv
<1>3. g_usFlowControl \subseteq {"CASCADE", "REPEATLOOP", "SHIFTLEFT", "SHIFTRIGHT", "VERIFYUES"}
  BY DEF TypeInvs, StateInv, Flags
<1>4. port.cur \in Names /\ port.tap \subseteq TapStates
  BY DEF TypeInvs, StateInv, PlayerInv, PortInv
<1>5. \A b \in DOMAIN mem.cap : mem.cap[b] \in Int /\ mem.cap[b] >= Null
  BY DEF TypeInvs, StateInv, Sized, Null
<1>6. "nested" \in lapses \/ Len(stack) <= 2
  BY DEF LoopInv, Plain
<1>7. \A i \in 1 .. Len(stack) : stack[i].left \in 1 .. stack[i].total
  BY DEF TypeInvs, CountsInv, Counts
<1>8. /\ taken \subseteq ToSet(JtagPins) /\ reset \in 0 .. 1
      /\ tries \in 0 .. Tries /\ (tries # 0 <=> pc = "retry")
      /\ pc \in {"open", "init", "version", "start", "code", "data", "retry", "back",
                 "leave", "return", "exit", "done", "abort", "spin"}
  BY DEF TypeInvs, ControlInv, Steps
<1>9. /\ miss \subseteq {"read", "VUES"} /\ stale \subseteq {"read", "retry"}
      /\ lapses \subseteq {"nested", "grown", "ended"}
  BY DEF MissInv, TypeInvs, HistoryInv
<1> QED
  BY <1>1, <1>2, <1>3, <1>4, <1>5, <1>6, <1>7, <1>8, <1>9 DEF TypeOK

\* The player takes its opcodes from three sources, keeps what the loops take and counts
\* their rounds down: what it plays is always an opcode of the file or none, a round is
\* left as long as a loop is played, the retries are counted only while a read is
\* repeated, and no more than a loop in a loop is played unless one was begun inside of
\* another of its kind, for files of every length and loops of every count and nesting,
\* if the operands have their types (GetByte, ispVMCode, ispVMLoop, ispVMLCOUNT and the
\* memory manager of ispvm.c, main of load_fpga.c).
THEOREM PlayerTypes ==
    ASSUME \A im \in Images : Sound(im.code) /\ \A t \in ToSet(im.code) : Typed(t)
    PROVE  Spec => []TypeOK
<1> DEFINE Invs == PlayerInv /\ DataInv /\ FormInv /\ SettingsInv /\ LoopInv /\ MissInv
                     /\ TypeInvs
<1>1. Init => Invs
  BY InitScan, InitMiss, InitTypes DEF Sound, ScanInvs
<1>2. Invs /\ [Next]_vars => Invs'
  BY StepInv, DataStep, SettingsStep, LoopStep, MissStep, TypeStep DEF FormInv, Ops
<1>3. Invs => TypeOK
  BY Types
<1> QED
  BY <1>1, <1>2, <1>3, PTL DEF Spec
=============================================================================

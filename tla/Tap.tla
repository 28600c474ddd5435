--------------------------------- MODULE Tap --------------------------------
(***************************************************************************)
(* The JTAG port as src/src/ispvm.c moves it: the table of transitions,    *)
(* ispVMStateMachine, and the bits that header, data and trailer clock     *)
(* through the chain; against the TAP controller of IEEE 1149.1, which is  *)
(* in the devices.                                                         *)
(*                                                                         *)
(* A port is a record: "cur" is g_cCurrentJTAGState, "tap" the set of the  *)
(* states the controllers may be in, "stray" whether nothing is known of   *)
(* them, as before the first reset and after a transition that is not in   *)
(* the table, "due" the bits that should have been shifted less those that *)
(* were, and "fresh" whether a capture came after the last bit read.       *)
(***************************************************************************)
EXTENDS Integers, Sequences

\* Next state of a TAP controller for TMS low and TMS high.
Low ==
    [TestLogicReset |-> "RunTestIdle", RunTestIdle |-> "RunTestIdle",
     SelectDR |-> "CaptureDR", CaptureDR |-> "ShiftDR", ShiftDR |-> "ShiftDR",
     Exit1DR |-> "PauseDR", PauseDR |-> "PauseDR", Exit2DR |-> "ShiftDR",
     UpdateDR |-> "RunTestIdle",
     SelectIR |-> "CaptureIR", CaptureIR |-> "ShiftIR", ShiftIR |-> "ShiftIR",
     Exit1IR |-> "PauseIR", PauseIR |-> "PauseIR", Exit2IR |-> "ShiftIR",
     UpdateIR |-> "RunTestIdle"]
High ==
    [TestLogicReset |-> "TestLogicReset", RunTestIdle |-> "SelectDR",
     SelectDR |-> "SelectIR", CaptureDR |-> "Exit1DR", ShiftDR |-> "Exit1DR",
     Exit1DR |-> "UpdateDR", PauseDR |-> "Exit2DR", Exit2DR |-> "UpdateDR",
     UpdateDR |-> "SelectDR",
     SelectIR |-> "TestLogicReset", CaptureIR |-> "Exit1IR",
     ShiftIR |-> "Exit1IR", Exit1IR |-> "UpdateIR", PauseIR |-> "Exit2IR",
     Exit2IR |-> "UpdateIR", UpdateIR |-> "SelectDR"]
TapStates == DOMAIN Low
ShiftStates == {"ShiftDR", "ShiftIR"}

\* The states by the names of the player, and where the controllers are then:
\* clocks with TMS low take them from reset to idle and from capture to shift.
Meant ==
    [RESET |-> {"TestLogicReset", "RunTestIdle"}, IDLE |-> {"RunTestIdle"},
     IRPAUSE |-> {"PauseIR"}, DRPAUSE |-> {"PauseDR"},
     SHIFTIR |-> {"ShiftIR"}, SHIFTDR |-> {"ShiftDR"},
     DRCAPTURE |-> {"CaptureDR", "ShiftDR"}]
Names == DOMAIN Meant

Row(from, to, tms) == [from |-> from, to |-> to, tms |-> tms]

\* Pattern and Pulses of a row are the levels of TMS in their order.
g_JTAGTransistions ==
    {Row("RESET", "RESET", <<1, 1, 1, 1, 1, 1>>),
     Row("RESET", "IDLE", <<0>>),
     Row("RESET", "DRPAUSE", <<0, 1, 0, 1, 0>>),
     Row("RESET", "IRPAUSE", <<0, 1, 1, 0, 1, 0>>),
     Row("IDLE", "RESET", <<1, 1, 1>>),
     Row("IDLE", "DRPAUSE", <<1, 0, 1, 0>>),
     Row("IDLE", "IRPAUSE", <<1, 1, 0, 1, 0>>),
     Row("DRPAUSE", "RESET", <<1, 1, 1, 1, 1>>),
     Row("DRPAUSE", "IDLE", <<1, 1, 0>>),
     Row("DRPAUSE", "IRPAUSE", <<1, 1, 1, 1, 0, 1, 0>>),
     Row("DRPAUSE", "DRPAUSE", <<1, 1, 1, 0, 1, 0>>),
     Row("IRPAUSE", "RESET", <<1, 1, 1, 1, 1>>),
     Row("IRPAUSE", "IDLE", <<1, 1, 0>>),
     Row("IRPAUSE", "DRPAUSE", <<1, 1, 1, 0, 1, 0>>),
     Row("DRPAUSE", "SHIFTDR", <<1, 0>>),
     Row("IRPAUSE", "SHIFTDR", <<1, 1, 1, 0, 0>>),
     Row("SHIFTDR", "DRPAUSE", <<1, 0>>),
     Row("SHIFTDR", "IDLE", <<1, 1, 0>>),
     Row("IRPAUSE", "SHIFTIR", <<1, 0>>),
     Row("SHIFTIR", "IRPAUSE", <<1, 0>>),
     Row("SHIFTIR", "IDLE", <<1, 1, 0>>),
     Row("DRPAUSE", "DRCAPTURE", <<1, 1, 1, 0>>),
     Row("DRCAPTURE", "DRPAUSE", <<1, 0>>),
     Row("IDLE", "DRCAPTURE", <<1, 0>>),
     Row("IRPAUSE", "DRCAPTURE", <<1, 1, 1, 0>>)}

\* Mutant: the pattern is read from its second bit on.
Bug_Pulse(t, tms, i) ==
    IF i >= Len(tms) THEN t ELSE IF tms[i + 1] = 1 THEN High[t] ELSE Low[t]

\* The states a controller goes through; no row has more than seven pulses.
Pulse(t, tms, i) ==
    IF i > Len(tms) THEN t ELSE IF tms[i] = 1 THEN High[t] ELSE Low[t]
Path(t, tms) ==
    LET s1 == Pulse(t, tms, 1)
        s2 == Pulse(s1, tms, 2)
        s3 == Pulse(s2, tms, 3)
        s4 == Pulse(s3, tms, 4)
        s5 == Pulse(s4, tms, 5)
        s6 == Pulse(s5, tms, 6)
    IN  <<s1, s2, s3, s4, s5, s6, Pulse(s6, tms, 7)>>
Walk(t, tms) == Path(t, tms)[7]
Captures(t, tms) == \E i \in 1 .. 7 : Path(t, tms)[i] = "CaptureDR"

\* Enough pulses with TMS high to reset a controller from every state.
Resets(row) == row.to = "RESET" /\ Len(row.tms) >= 5

\* ispVMStateMachine.  A pair that is not in the table leaves the index at 25:
\* what lies there is clocked out, and the controllers may be anywhere.
Move(p, to) ==
    LET rows == {r \in g_JTAGTransistions : r.from = p.cur /\ r.to = to}
        row == CHOOSE r \in rows : TRUE
    IN  IF p.cur = to /\ to # "RESET" THEN p
        ELSE IF rows = {}
        THEN [p EXCEPT !.cur = to, !.tap = TapStates, !.stray = TRUE]
        ELSE [p EXCEPT
                !.cur = to,
                !.tap = {Walk(t, row.tms) : t \in p.tap},
                !.stray = @ /\ ~Resets(row),
                !.due = IF p.stray /\ Resets(row) THEN 0
                        ELSE IF p.tap \subseteq ShiftStates THEN @ - 1 ELSE @,
                !.fresh = @ \/ \A t \in p.tap : Captures(t, row.tms)]

\* n pulses of TCK with TMS low.  In the states between two moves the second
\* pulse changes nothing that the first one left.
ispVMClocks(p, n) ==
    IF n <= 0 THEN p
    ELSE [p EXCEPT
            !.tap = {Low[t] : t \in @},
            !.due = IF p.tap \subseteq ShiftStates THEN @ - n ELSE @]

\* Of the bits of a bypass, as of the data, the last one is only put on TDI:
\* the pulse that follows, with the state change or before the next bits,
\* clocks it.
ispVMBypass(p, bits) == ispVMClocks(p, bits - 1)
ispVMSend(p, bits, cascade) ==
    ispVMClocks(p, IF cascade THEN bits ELSE bits - 1)

\* A header is clocked whole before the data; before a trailer the last bit of
\* the data is clocked.
Header(p, bits) ==
    IF bits > 0 THEN ispVMClocks(ispVMBypass(p, bits), 1) ELSE p
\* Mutant: the last bit of the data is forgotten before a trailer.
Bug_Trailer(p, bits) == IF bits > 0 THEN ispVMBypass(p, bits) ELSE p
Trailer(p, bits) ==
    IF bits > 0 THEN ispVMBypass(ispVMClocks(p, 1), bits) ELSE p
=============================================================================

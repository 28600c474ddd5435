-------------------------- MODULE VmePlayerProofs ---------------------------
(***************************************************************************)
(* Proofs about the JTAG player, for every file: the TAP controllers are   *)
(* where the player believes them to be, and reset in the end, and the     *)
(* opcodes come from where the loop that is played keeps them.             *)
(***************************************************************************)
EXTENDS VmePlayer, SequenceTheorems, TLAPS

-----------------------------------------------------------------------------
(* The TAP controller of the standard, as equations. *)

LEMMA LowTable ==
    /\ Low["TestLogicReset"] = "RunTestIdle" /\ Low["RunTestIdle"] = "RunTestIdle"
    /\ Low["SelectDR"] = "CaptureDR" /\ Low["CaptureDR"] = "ShiftDR"
    /\ Low["ShiftDR"] = "ShiftDR" /\ Low["Exit1DR"] = "PauseDR"
    /\ Low["PauseDR"] = "PauseDR" /\ Low["Exit2DR"] = "ShiftDR"
    /\ Low["UpdateDR"] = "RunTestIdle"
    /\ Low["SelectIR"] = "CaptureIR" /\ Low["CaptureIR"] = "ShiftIR"
    /\ Low["ShiftIR"] = "ShiftIR" /\ Low["Exit1IR"] = "PauseIR"
    /\ Low["PauseIR"] = "PauseIR" /\ Low["Exit2IR"] = "ShiftIR"
    /\ Low["UpdateIR"] = "RunTestIdle"
  BY DEF Low

LEMMA HighTable ==
    /\ High["TestLogicReset"] = "TestLogicReset" /\ High["RunTestIdle"] = "SelectDR"
    /\ High["SelectDR"] = "SelectIR" /\ High["CaptureDR"] = "Exit1DR"
    /\ High["ShiftDR"] = "Exit1DR" /\ High["Exit1DR"] = "UpdateDR"
    /\ High["PauseDR"] = "Exit2DR" /\ High["Exit2DR"] = "UpdateDR"
    /\ High["UpdateDR"] = "SelectDR"
    /\ High["SelectIR"] = "TestLogicReset" /\ High["CaptureIR"] = "Exit1IR"
    /\ High["ShiftIR"] = "Exit1IR" /\ High["Exit1IR"] = "UpdateIR"
    /\ High["PauseIR"] = "Exit2IR" /\ High["Exit2IR"] = "UpdateIR"
    /\ High["UpdateIR"] = "SelectDR"
  BY DEF High

LEMMA StatesOfTap ==
    TapStates = {"TestLogicReset", "RunTestIdle", "SelectDR", "CaptureDR", "ShiftDR",
                 "Exit1DR", "PauseDR", "Exit2DR", "UpdateDR", "SelectIR", "CaptureIR",
                 "ShiftIR", "Exit1IR", "PauseIR", "Exit2IR", "UpdateIR"}
  BY DEF TapStates, Low

\* No pulse leads out of the states of a controller.
LEMMA TapClosed == \A t \in TapStates : Low[t] \in TapStates /\ High[t] \in TapStates
<1> SUFFICES ASSUME NEW t \in TapStates
             PROVE  Low[t] \in TapStates /\ High[t] \in TapStates
  OBVIOUS
<1> QED
  BY LowTable, HighTable, StatesOfTap

\* Five pulses with TMS high reset a controller from every state.
LEMMA FiveReset ==
    \A t \in TapStates : High[High[High[High[High[t]]]]] = "TestLogicReset"
<1> SUFFICES ASSUME NEW t \in TapStates
             PROVE  High[High[High[High[High[t]]]]] = "TestLogicReset"
  OBVIOUS
<1> QED
  BY HighTable, StatesOfTap

LEMMA MeantTable ==
    /\ Names = {"RESET", "IDLE", "IRPAUSE", "DRPAUSE", "SHIFTIR", "SHIFTDR", "DRCAPTURE"}
    /\ Meant["RESET"] = {"TestLogicReset", "RunTestIdle"}
    /\ Meant["IDLE"] = {"RunTestIdle"}
    /\ Meant["IRPAUSE"] = {"PauseIR"} /\ Meant["DRPAUSE"] = {"PauseDR"}
    /\ Meant["SHIFTIR"] = {"ShiftIR"} /\ Meant["SHIFTDR"] = {"ShiftDR"}
    /\ Meant["DRCAPTURE"] = {"CaptureDR", "ShiftDR"}
  BY DEF Meant, Names

-----------------------------------------------------------------------------
(* What the rows of the table do. *)

\* The pulses of a row, four and three of them.
LEMMA WalkIs ==
    ASSUME NEW t, NEW m, NEW s,
           s = Pulse(Pulse(Pulse(Pulse(t, m, 1), m, 2), m, 3), m, 4)
    PROVE  Walk(t, m) = Pulse(Pulse(Pulse(s, m, 5), m, 6), m, 7)
  BY DEF Walk, Path

\* Each pattern of the table, named by its levels.
LEMMA Walk0 ==
    \A t : Walk(t, <<0>>) = Low[t]
<1> TAKE t
<1> DEFINE m == <<0>>
           s == Low[t]
<1>1. /\ \A u : Pulse(u, m, 1) = Low[u]
      /\ \A u : Pulse(u, m, 2) = u
      /\ \A u : Pulse(u, m, 3) = u
      /\ \A u : Pulse(u, m, 4) = u
      /\ \A u : Pulse(u, m, 5) = u
      /\ \A u : Pulse(u, m, 6) = u
      /\ \A u : Pulse(u, m, 7) = u
  BY DEF Pulse
<1> HIDE DEF m
<1>2. Pulse(Pulse(Pulse(Pulse(t, m, 1), m, 2), m, 3), m, 4) = s
  BY <1>1
<1> HIDE DEF s
<1>3. Walk(t, m) = s
  BY <1>1, <1>2, WalkIs
<1> QED
  BY <1>3 DEF m, s

LEMMA Walk10 ==
    \A t : Walk(t, <<1, 0>>) = Low[High[t]]
<1> TAKE t
<1> DEFINE m == <<1, 0>>
           s == Low[High[t]]
<1>1. /\ \A u : Pulse(u, m, 1) = High[u]
      /\ \A u : Pulse(u, m, 2) = Low[u]
      /\ \A u : Pulse(u, m, 3) = u
      /\ \A u : Pulse(u, m, 4) = u
      /\ \A u : Pulse(u, m, 5) = u
      /\ \A u : Pulse(u, m, 6) = u
      /\ \A u : Pulse(u, m, 7) = u
  BY DEF Pulse
<1> HIDE DEF m
<1>2. Pulse(Pulse(Pulse(Pulse(t, m, 1), m, 2), m, 3), m, 4) = s
  BY <1>1
<1> HIDE DEF s
<1>3. Walk(t, m) = s
  BY <1>1, <1>2, WalkIs
<1> QED
  BY <1>3 DEF m, s

LEMMA Walk110 ==
    \A t : Walk(t, <<1, 1, 0>>) = Low[High[High[t]]]
<1> TAKE t
<1> DEFINE m == <<1, 1, 0>>
           s == Low[High[High[t]]]
<1>1. /\ \A u : Pulse(u, m, 1) = High[u]
      /\ \A u : Pulse(u, m, 2) = High[u]
      /\ \A u : Pulse(u, m, 3) = Low[u]
      /\ \A u : Pulse(u, m, 4) = u
      /\ \A u : Pulse(u, m, 5) = u
      /\ \A u : Pulse(u, m, 6) = u
      /\ \A u : Pulse(u, m, 7) = u
  BY DEF Pulse
<1> HIDE DEF m
<1>2. Pulse(Pulse(Pulse(Pulse(t, m, 1), m, 2), m, 3), m, 4) = s
  BY <1>1
<1> HIDE DEF s
<1>3. Walk(t, m) = s
  BY <1>1, <1>2, WalkIs
<1> QED
  BY <1>3 DEF m, s

LEMMA Walk111 ==
    \A t : Walk(t, <<1, 1, 1>>) = High[High[High[t]]]
<1> TAKE t
<1> DEFINE m == <<1, 1, 1>>
           s == High[High[High[t]]]
<1>1. /\ \A u : Pulse(u, m, 1) = High[u]
      /\ \A u : Pulse(u, m, 2) = High[u]
      /\ \A u : Pulse(u, m, 3) = High[u]
      /\ \A u : Pulse(u, m, 4) = u
      /\ \A u : Pulse(u, m, 5) = u
      /\ \A u : Pulse(u, m, 6) = u
      /\ \A u : Pulse(u, m, 7) = u
  BY DEF Pulse
<1> HIDE DEF m
<1>2. Pulse(Pulse(Pulse(Pulse(t, m, 1), m, 2), m, 3), m, 4) = s
  BY <1>1
<1> HIDE DEF s
<1>3. Walk(t, m) = s
  BY <1>1, <1>2, WalkIs
<1> QED
  BY <1>3 DEF m, s

LEMMA Walk1110 ==
    \A t : Walk(t, <<1, 1, 1, 0>>) = Low[High[High[High[t]]]]
<1> TAKE t
<1> DEFINE m == <<1, 1, 1, 0>>
           s == Low[High[High[High[t]]]]
<1>1. /\ \A u : Pulse(u, m, 1) = High[u]
      /\ \A u : Pulse(u, m, 2) = High[u]
      /\ \A u : Pulse(u, m, 3) = High[u]
      /\ \A u : Pulse(u, m, 4) = Low[u]
      /\ \A u : Pulse(u, m, 5) = u
      /\ \A u : Pulse(u, m, 6) = u
      /\ \A u : Pulse(u, m, 7) = u
  BY DEF Pulse
<1> HIDE DEF m
<1>2. Pulse(Pulse(Pulse(Pulse(t, m, 1), m, 2), m, 3), m, 4) = s
  BY <1>1
<1> HIDE DEF s
<1>3. Walk(t, m) = s
  BY <1>1, <1>2, WalkIs
<1> QED
  BY <1>3 DEF m, s

LEMMA Walk1010 ==
    \A t : Walk(t, <<1, 0, 1, 0>>) = Low[High[Low[High[t]]]]
<1> TAKE t
<1> DEFINE m == <<1, 0, 1, 0>>
           s == Low[High[Low[High[t]]]]
<1>1. /\ \A u : Pulse(u, m, 1) = High[u]
      /\ \A u : Pulse(u, m, 2) = Low[u]
      /\ \A u : Pulse(u, m, 3) = High[u]
      /\ \A u : Pulse(u, m, 4) = Low[u]
      /\ \A u : Pulse(u, m, 5) = u
      /\ \A u : Pulse(u, m, 6) = u
      /\ \A u : Pulse(u, m, 7) = u
  BY DEF Pulse
<1> HIDE DEF m
<1>2. Pulse(Pulse(Pulse(Pulse(t, m, 1), m, 2), m, 3), m, 4) = s
  BY <1>1
<1> HIDE DEF s
<1>3. Walk(t, m) = s
  BY <1>1, <1>2, WalkIs
<1> QED
  BY <1>3 DEF m, s

LEMMA Walk01010 ==
    \A t : Walk(t, <<0, 1, 0, 1, 0>>) = Low[High[Low[High[Low[t]]]]]
<1> TAKE t
<1> DEFINE m == <<0, 1, 0, 1, 0>>
           s == High[Low[High[Low[t]]]]
<1>1. /\ \A u : Pulse(u, m, 1) = Low[u]
      /\ \A u : Pulse(u, m, 2) = High[u]
      /\ \A u : Pulse(u, m, 3) = Low[u]
      /\ \A u : Pulse(u, m, 4) = High[u]
      /\ \A u : Pulse(u, m, 5) = Low[u]
      /\ \A u : Pulse(u, m, 6) = u
      /\ \A u : Pulse(u, m, 7) = u
  BY DEF Pulse
<1> HIDE DEF m
<1>2. Pulse(Pulse(Pulse(Pulse(t, m, 1), m, 2), m, 3), m, 4) = s
  BY <1>1
<1> HIDE DEF s
<1>3. Walk(t, m) = Low[s]
  BY <1>1, <1>2, WalkIs
<1> QED
  BY <1>3 DEF m, s

LEMMA Walk11010 ==
    \A t : Walk(t, <<1, 1, 0, 1, 0>>) = Low[High[Low[High[High[t]]]]]
<1> TAKE t
<1> DEFINE m == <<1, 1, 0, 1, 0>>
           s == High[Low[High[High[t]]]]
<1>1. /\ \A u : Pulse(u, m, 1) = High[u]
      /\ \A u : Pulse(u, m, 2) = High[u]
      /\ \A u : Pulse(u, m, 3) = Low[u]
      /\ \A u : Pulse(u, m, 4) = High[u]
      /\ \A u : Pulse(u, m, 5) = Low[u]
      /\ \A u : Pulse(u, m, 6) = u
      /\ \A u : Pulse(u, m, 7) = u
  BY DEF Pulse
<1> HIDE DEF m
<1>2. Pulse(Pulse(Pulse(Pulse(t, m, 1), m, 2), m, 3), m, 4) = s
  BY <1>1
<1> HIDE DEF s
<1>3. Walk(t, m) = Low[s]
  BY <1>1, <1>2, WalkIs
<1> QED
  BY <1>3 DEF m, s

LEMMA Walk11100 ==
    \A t : Walk(t, <<1, 1, 1, 0, 0>>) = Low[Low[High[High[High[t]]]]]
<1> TAKE t
<1> DEFINE m == <<1, 1, 1, 0, 0>>
           s == Low[High[High[High[t]]]]
<1>1. /\ \A u : Pulse(u, m, 1) = High[u]
      /\ \A u : Pulse(u, m, 2) = High[u]
      /\ \A u : Pulse(u, m, 3) = High[u]
      /\ \A u : Pulse(u, m, 4) = Low[u]
      /\ \A u : Pulse(u, m, 5) = Low[u]
      /\ \A u : Pulse(u, m, 6) = u
      /\ \A u : Pulse(u, m, 7) = u
  BY DEF Pulse
<1> HIDE DEF m
<1>2. Pulse(Pulse(Pulse(Pulse(t, m, 1), m, 2), m, 3), m, 4) = s
  BY <1>1
<1> HIDE DEF s
<1>3. Walk(t, m) = Low[s]
  BY <1>1, <1>2, WalkIs
<1> QED
  BY <1>3 DEF m, s

LEMMA Walk11111 ==
    \A t : Walk(t, <<1, 1, 1, 1, 1>>) = High[High[High[High[High[t]]]]]
<1> TAKE t
<1> DEFINE m == <<1, 1, 1, 1, 1>>
           s == High[High[High[High[t]]]]
<1>1. /\ \A u : Pulse(u, m, 1) = High[u]
      /\ \A u : Pulse(u, m, 2) = High[u]
      /\ \A u : Pulse(u, m, 3) = High[u]
      /\ \A u : Pulse(u, m, 4) = High[u]
      /\ \A u : Pulse(u, m, 5) = High[u]
      /\ \A u : Pulse(u, m, 6) = u
      /\ \A u : Pulse(u, m, 7) = u
  BY DEF Pulse
<1> HIDE DEF m
<1>2. Pulse(Pulse(Pulse(Pulse(t, m, 1), m, 2), m, 3), m, 4) = s
  BY <1>1
<1> HIDE DEF s
<1>3. Walk(t, m) = High[s]
  BY <1>1, <1>2, WalkIs
<1> QED
  BY <1>3 DEF m, s

LEMMA Walk011010 ==
    \A t : Walk(t, <<0, 1, 1, 0, 1, 0>>) = Low[High[Low[High[High[Low[t]]]]]]
<1> TAKE t
<1> DEFINE m == <<0, 1, 1, 0, 1, 0>>
           s == Low[High[High[Low[t]]]]
<1>1. /\ \A u : Pulse(u, m, 1) = Low[u]
      /\ \A u : Pulse(u, m, 2) = High[u]
      /\ \A u : Pulse(u, m, 3) = High[u]
      /\ \A u : Pulse(u, m, 4) = Low[u]
      /\ \A u : Pulse(u, m, 5) = High[u]
      /\ \A u : Pulse(u, m, 6) = Low[u]
      /\ \A u : Pulse(u, m, 7) = u
  BY DEF Pulse
<1> HIDE DEF m
<1>2. Pulse(Pulse(Pulse(Pulse(t, m, 1), m, 2), m, 3), m, 4) = s
  BY <1>1
<1> HIDE DEF s
<1>3. Walk(t, m) = Low[High[s]]
  BY <1>1, <1>2, WalkIs
<1> QED
  BY <1>3 DEF m, s

LEMMA Walk111010 ==
    \A t : Walk(t, <<1, 1, 1, 0, 1, 0>>) = Low[High[Low[High[High[High[t]]]]]]
<1> TAKE t
<1> DEFINE m == <<1, 1, 1, 0, 1, 0>>
           s == Low[High[High[High[t]]]]
<1>1. /\ \A u : Pulse(u, m, 1) = High[u]
      /\ \A u : Pulse(u, m, 2) = High[u]
      /\ \A u : Pulse(u, m, 3) = High[u]
      /\ \A u : Pulse(u, m, 4) = Low[u]
      /\ \A u : Pulse(u, m, 5) = High[u]
      /\ \A u : Pulse(u, m, 6) = Low[u]
      /\ \A u : Pulse(u, m, 7) = u
  BY DEF Pulse
<1> HIDE DEF m
<1>2. Pulse(Pulse(Pulse(Pulse(t, m, 1), m, 2), m, 3), m, 4) = s
  BY <1>1
<1> HIDE DEF s
<1>3. Walk(t, m) = Low[High[s]]
  BY <1>1, <1>2, WalkIs
<1> QED
  BY <1>3 DEF m, s

LEMMA Walk111111 ==
    \A t : Walk(t, <<1, 1, 1, 1, 1, 1>>) = High[High[High[High[High[High[t]]]]]]
<1> TAKE t
<1> DEFINE m == <<1, 1, 1, 1, 1, 1>>
           s == High[High[High[High[t]]]]
<1>1. /\ \A u : Pulse(u, m, 1) = High[u]
      /\ \A u : Pulse(u, m, 2) = High[u]
      /\ \A u : Pulse(u, m, 3) = High[u]
      /\ \A u : Pulse(u, m, 4) = High[u]
      /\ \A u : Pulse(u, m, 5) = High[u]
      /\ \A u : Pulse(u, m, 6) = High[u]
      /\ \A u : Pulse(u, m, 7) = u
  BY DEF Pulse
<1> HIDE DEF m
<1>2. Pulse(Pulse(Pulse(Pulse(t, m, 1), m, 2), m, 3), m, 4) = s
  BY <1>1
<1> HIDE DEF s
<1>3. Walk(t, m) = High[High[s]]
  BY <1>1, <1>2, WalkIs
<1> QED
  BY <1>3 DEF m, s

LEMMA Walk1111010 ==
    \A t : Walk(t, <<1, 1, 1, 1, 0, 1, 0>>) = Low[High[Low[High[High[High[High[t]]]]]]]
<1> TAKE t
<1> DEFINE m == <<1, 1, 1, 1, 0, 1, 0>>
           s == High[High[High[High[t]]]]
<1>1. /\ \A u : Pulse(u, m, 1) = High[u]
      /\ \A u : Pulse(u, m, 2) = High[u]
      /\ \A u : Pulse(u, m, 3) = High[u]
      /\ \A u : Pulse(u, m, 4) = High[u]
      /\ \A u : Pulse(u, m, 5) = Low[u]
      /\ \A u : Pulse(u, m, 6) = High[u]
      /\ \A u : Pulse(u, m, 7) = Low[u]
  BY DEF Pulse
<1> HIDE DEF m
<1>2. Pulse(Pulse(Pulse(Pulse(t, m, 1), m, 2), m, 3), m, 4) = s
  BY <1>1
<1> HIDE DEF s
<1>3. Walk(t, m) = Low[High[Low[s]]]
  BY <1>1, <1>2, WalkIs
<1> QED
  BY <1>3 DEF m, s

\* No row leads a controller out of its states.
LEMMA RowsStay == \A m : \A t \in TapStates : Walk(t, m) \in TapStates
<1> SUFFICES ASSUME NEW m, NEW t \in TapStates
             PROVE  Walk(t, m) \in TapStates
  OBVIOUS
<1>1. \A i : \A u \in TapStates : Pulse(u, m, i) \in TapStates
  BY TapClosed DEF Pulse
<1> DEFINE s == Pulse(Pulse(Pulse(Pulse(t, m, 1), m, 2), m, 3), m, 4)
<1>2. s \in TapStates
  BY <1>1
<1>3. Walk(t, m) = Pulse(Pulse(Pulse(s, m, 5), m, 6), m, 7)
  BY WalkIs
<1> QED
  BY <1>1, <1>2, <1>3

\* Every row of the table takes the controllers from where they are meant to
\* be to where they are meant to be then; those to RESET, to the reset state.
LEMMA RowsKeep ==
    \A row \in g_JTAGTransistions :
        /\ row.from \in Names /\ row.to \in Names
        /\ \A t \in Meant[row.from] :
              /\ Walk(t, row.tms) \in Meant[row.to]
              /\ row.to = "RESET" => Walk(t, row.tms) = "TestLogicReset"
<1> SUFFICES ASSUME NEW row \in g_JTAGTransistions
             PROVE  /\ row.from \in Names /\ row.to \in Names
                    /\ \A t \in Meant[row.from] :
                          /\ Walk(t, row.tms) \in Meant[row.to]
                          /\ row.to = "RESET" => Walk(t, row.tms) = "TestLogicReset"
  OBVIOUS
<1>1. CASE row = Row("RESET", "RESET", <<1, 1, 1, 1, 1, 1>>)
  <2>1. row.from = "RESET" /\ row.to = "RESET" /\ row.tms = <<1, 1, 1, 1, 1, 1>>
    BY <1>1 DEF Row
  <2>2. \A t \in Meant["RESET"] : Walk(t, <<1, 1, 1, 1, 1, 1>>) = "TestLogicReset"
    <3> TAKE t \in Meant["RESET"]
    <3>1. High[High[High[High[High[High[t]]]]]] = "TestLogicReset"
      BY LowTable, HighTable, MeantTable
    <3> QED
      BY <3>1, Walk111111
  <2> QED
    BY <2>1, <2>2, MeantTable
<1>2. CASE row = Row("RESET", "IDLE", <<0>>)
  <2>1. row.from = "RESET" /\ row.to = "IDLE" /\ row.tms = <<0>>
    BY <1>2 DEF Row
  <2>2. \A t \in Meant["RESET"] : Walk(t, <<0>>) = "RunTestIdle"
    BY Walk0, LowTable, HighTable, MeantTable
  <2> QED
    BY <2>1, <2>2, MeantTable
<1>3. CASE row = Row("RESET", "DRPAUSE", <<0, 1, 0, 1, 0>>)
  <2>1. row.from = "RESET" /\ row.to = "DRPAUSE" /\ row.tms = <<0, 1, 0, 1, 0>>
    BY <1>3 DEF Row
  <2>2. \A t \in Meant["RESET"] : Walk(t, <<0, 1, 0, 1, 0>>) = "PauseDR"
    <3> TAKE t \in Meant["RESET"]
    <3>1. Low[High[Low[High[Low[t]]]]] = "PauseDR"
      BY LowTable, HighTable, MeantTable
    <3> QED
      BY <3>1, Walk01010
  <2> QED
    BY <2>1, <2>2, MeantTable
<1>4. CASE row = Row("RESET", "IRPAUSE", <<0, 1, 1, 0, 1, 0>>)
  <2>1. row.from = "RESET" /\ row.to = "IRPAUSE" /\ row.tms = <<0, 1, 1, 0, 1, 0>>
    BY <1>4 DEF Row
  <2>2. \A t \in Meant["RESET"] : Walk(t, <<0, 1, 1, 0, 1, 0>>) = "PauseIR"
    <3> TAKE t \in Meant["RESET"]
    <3>1. Low[High[Low[High[High[Low[t]]]]]] = "PauseIR"
      BY LowTable, HighTable, MeantTable
    <3> QED
      BY <3>1, Walk011010
  <2> QED
    BY <2>1, <2>2, MeantTable
<1>5. CASE row = Row("IDLE", "RESET", <<1, 1, 1>>)
  <2>1. row.from = "IDLE" /\ row.to = "RESET" /\ row.tms = <<1, 1, 1>>
    BY <1>5 DEF Row
  <2>2. \A t \in Meant["IDLE"] : Walk(t, <<1, 1, 1>>) = "TestLogicReset"
    BY Walk111, LowTable, HighTable, MeantTable
  <2> QED
    BY <2>1, <2>2, MeantTable
<1>6. CASE row = Row("IDLE", "DRPAUSE", <<1, 0, 1, 0>>)
  <2>1. row.from = "IDLE" /\ row.to = "DRPAUSE" /\ row.tms = <<1, 0, 1, 0>>
    BY <1>6 DEF Row
  <2>2. \A t \in Meant["IDLE"] : Walk(t, <<1, 0, 1, 0>>) = "PauseDR"
    BY Walk1010, LowTable, HighTable, MeantTable
  <2> QED
    BY <2>1, <2>2, MeantTable
<1>7. CASE row = Row("IDLE", "IRPAUSE", <<1, 1, 0, 1, 0>>)
  <2>1. row.from = "IDLE" /\ row.to = "IRPAUSE" /\ row.tms = <<1, 1, 0, 1, 0>>
    BY <1>7 DEF Row
  <2>2. \A t \in Meant["IDLE"] : Walk(t, <<1, 1, 0, 1, 0>>) = "PauseIR"
    <3> TAKE t \in Meant["IDLE"]
    <3>1. Low[High[Low[High[High[t]]]]] = "PauseIR"
      BY LowTable, HighTable, MeantTable
    <3> QED
      BY <3>1, Walk11010
  <2> QED
    BY <2>1, <2>2, MeantTable
<1>8. CASE row = Row("DRPAUSE", "RESET", <<1, 1, 1, 1, 1>>)
  <2>1. row.from = "DRPAUSE" /\ row.to = "RESET" /\ row.tms = <<1, 1, 1, 1, 1>>
    BY <1>8 DEF Row
  <2>2. \A t \in Meant["DRPAUSE"] : Walk(t, <<1, 1, 1, 1, 1>>) = "TestLogicReset"
    <3> TAKE t \in Meant["DRPAUSE"]
    <3>1. High[High[High[High[High[t]]]]] = "TestLogicReset"
      BY LowTable, HighTable, MeantTable
    <3> QED
      BY <3>1, Walk11111
  <2> QED
    BY <2>1, <2>2, MeantTable
<1>9. CASE row = Row("DRPAUSE", "IDLE", <<1, 1, 0>>)
  <2>1. row.from = "DRPAUSE" /\ row.to = "IDLE" /\ row.tms = <<1, 1, 0>>
    BY <1>9 DEF Row
  <2>2. \A t \in Meant["DRPAUSE"] : Walk(t, <<1, 1, 0>>) = "RunTestIdle"
    BY Walk110, LowTable, HighTable, MeantTable
  <2> QED
    BY <2>1, <2>2, MeantTable
<1>10. CASE row = Row("DRPAUSE", "IRPAUSE", <<1, 1, 1, 1, 0, 1, 0>>)
  <2>1. row.from = "DRPAUSE" /\ row.to = "IRPAUSE" /\ row.tms = <<1, 1, 1, 1, 0, 1, 0>>
    BY <1>10 DEF Row
  <2>2. \A t \in Meant["DRPAUSE"] : Walk(t, <<1, 1, 1, 1, 0, 1, 0>>) = "PauseIR"
    <3> TAKE t \in Meant["DRPAUSE"]
    <3>1. High[High[High[High[t]]]] = "SelectIR"
      BY HighTable, MeantTable
    <3>2. Low[High[Low["SelectIR"]]] = "PauseIR"
      BY LowTable, HighTable
    <3> QED
      BY <3>1, <3>2, Walk1111010
  <2> QED
    BY <2>1, <2>2, MeantTable
<1>11. CASE row = Row("DRPAUSE", "DRPAUSE", <<1, 1, 1, 0, 1, 0>>)
  <2>1. row.from = "DRPAUSE" /\ row.to = "DRPAUSE" /\ row.tms = <<1, 1, 1, 0, 1, 0>>
    BY <1>11 DEF Row
  <2>2. \A t \in Meant["DRPAUSE"] : Walk(t, <<1, 1, 1, 0, 1, 0>>) = "PauseDR"
    <3> TAKE t \in Meant["DRPAUSE"]
    <3>1. Low[High[Low[High[High[High[t]]]]]] = "PauseDR"
      BY LowTable, HighTable, MeantTable
    <3> QED
      BY <3>1, Walk111010
  <2> QED
    BY <2>1, <2>2, MeantTable
<1>12. CASE row = Row("IRPAUSE", "RESET", <<1, 1, 1, 1, 1>>)
  <2>1. row.from = "IRPAUSE" /\ row.to = "RESET" /\ row.tms = <<1, 1, 1, 1, 1>>
    BY <1>12 DEF Row
  <2>2. \A t \in Meant["IRPAUSE"] : Walk(t, <<1, 1, 1, 1, 1>>) = "TestLogicReset"
    <3> TAKE t \in Meant["IRPAUSE"]
    <3>1. High[High[High[High[High[t]]]]] = "TestLogicReset"
      BY LowTable, HighTable, MeantTable
    <3> QED
      BY <3>1, Walk11111
  <2> QED
    BY <2>1, <2>2, MeantTable
<1>13. CASE row = Row("IRPAUSE", "IDLE", <<1, 1, 0>>)
  <2>1. row.from = "IRPAUSE" /\ row.to = "IDLE" /\ row.tms = <<1, 1, 0>>
    BY <1>13 DEF Row
  <2>2. \A t \in Meant["IRPAUSE"] : Walk(t, <<1, 1, 0>>) = "RunTestIdle"
    BY Walk110, LowTable, HighTable, MeantTable
  <2> QED
    BY <2>1, <2>2, MeantTable
<1>14. CASE row = Row("IRPAUSE", "DRPAUSE", <<1, 1, 1, 0, 1, 0>>)
  <2>1. row.from = "IRPAUSE" /\ row.to = "DRPAUSE" /\ row.tms = <<1, 1, 1, 0, 1, 0>>
    BY <1>14 DEF Row
  <2>2. \A t \in Meant["IRPAUSE"] : Walk(t, <<1, 1, 1, 0, 1, 0>>) = "PauseDR"
    <3> TAKE t \in Meant["IRPAUSE"]
    <3>1. Low[High[Low[High[High[High[t]]]]]] = "PauseDR"
      BY LowTable, HighTable, MeantTable
    <3> QED
      BY <3>1, Walk111010
  <2> QED
    BY <2>1, <2>2, MeantTable
<1>15. CASE row = Row("DRPAUSE", "SHIFTDR", <<1, 0>>)
  <2>1. row.from = "DRPAUSE" /\ row.to = "SHIFTDR" /\ row.tms = <<1, 0>>
    BY <1>15 DEF Row
  <2>2. \A t \in Meant["DRPAUSE"] : Walk(t, <<1, 0>>) = "ShiftDR"
    BY Walk10, LowTable, HighTable, MeantTable
  <2> QED
    BY <2>1, <2>2, MeantTable
<1>16. CASE row = Row("IRPAUSE", "SHIFTDR", <<1, 1, 1, 0, 0>>)
  <2>1. row.from = "IRPAUSE" /\ row.to = "SHIFTDR" /\ row.tms = <<1, 1, 1, 0, 0>>
    BY <1>16 DEF Row
  <2>2. \A t \in Meant["IRPAUSE"] : Walk(t, <<1, 1, 1, 0, 0>>) = "ShiftDR"
    <3> TAKE t \in Meant["IRPAUSE"]
    <3>1. Low[Low[High[High[High[t]]]]] = "ShiftDR"
      BY LowTable, HighTable, MeantTable
    <3> QED
      BY <3>1, Walk11100
  <2> QED
    BY <2>1, <2>2, MeantTable
<1>17. CASE row = Row("SHIFTDR", "DRPAUSE", <<1, 0>>)
  <2>1. row.from = "SHIFTDR" /\ row.to = "DRPAUSE" /\ row.tms = <<1, 0>>
    BY <1>17 DEF Row
  <2>2. \A t \in Meant["SHIFTDR"] : Walk(t, <<1, 0>>) = "PauseDR"
    BY Walk10, LowTable, HighTable, MeantTable
  <2> QED
    BY <2>1, <2>2, MeantTable
<1>18. CASE row = Row("SHIFTDR", "IDLE", <<1, 1, 0>>)
  <2>1. row.from = "SHIFTDR" /\ row.to = "IDLE" /\ row.tms = <<1, 1, 0>>
    BY <1>18 DEF Row
  <2>2. \A t \in Meant["SHIFTDR"] : Walk(t, <<1, 1, 0>>) = "RunTestIdle"
    BY Walk110, LowTable, HighTable, MeantTable
  <2> QED
    BY <2>1, <2>2, MeantTable
<1>19. CASE row = Row("IRPAUSE", "SHIFTIR", <<1, 0>>)
  <2>1. row.from = "IRPAUSE" /\ row.to = "SHIFTIR" /\ row.tms = <<1, 0>>
    BY <1>19 DEF Row
  <2>2. \A t \in Meant["IRPAUSE"] : Walk(t, <<1, 0>>) = "ShiftIR"
    BY Walk10, LowTable, HighTable, MeantTable
  <2> QED
    BY <2>1, <2>2, MeantTable
<1>20. CASE row = Row("SHIFTIR", "IRPAUSE", <<1, 0>>)
  <2>1. row.from = "SHIFTIR" /\ row.to = "IRPAUSE" /\ row.tms = <<1, 0>>
    BY <1>20 DEF Row
  <2>2. \A t \in Meant["SHIFTIR"] : Walk(t, <<1, 0>>) = "PauseIR"
    BY Walk10, LowTable, HighTable, MeantTable
  <2> QED
    BY <2>1, <2>2, MeantTable
<1>21. CASE row = Row("SHIFTIR", "IDLE", <<1, 1, 0>>)
  <2>1. row.from = "SHIFTIR" /\ row.to = "IDLE" /\ row.tms = <<1, 1, 0>>
    BY <1>21 DEF Row
  <2>2. \A t \in Meant["SHIFTIR"] : Walk(t, <<1, 1, 0>>) = "RunTestIdle"
    BY Walk110, LowTable, HighTable, MeantTable
  <2> QED
    BY <2>1, <2>2, MeantTable
<1>22. CASE row = Row("DRPAUSE", "DRCAPTURE", <<1, 1, 1, 0>>)
  <2>1. row.from = "DRPAUSE" /\ row.to = "DRCAPTURE" /\ row.tms = <<1, 1, 1, 0>>
    BY <1>22 DEF Row
  <2>2. \A t \in Meant["DRPAUSE"] : Walk(t, <<1, 1, 1, 0>>) = "CaptureDR"
    BY Walk1110, LowTable, HighTable, MeantTable
  <2> QED
    BY <2>1, <2>2, MeantTable
<1>23. CASE row = Row("DRCAPTURE", "DRPAUSE", <<1, 0>>)
  <2>1. row.from = "DRCAPTURE" /\ row.to = "DRPAUSE" /\ row.tms = <<1, 0>>
    BY <1>23 DEF Row
  <2>2. \A t \in Meant["DRCAPTURE"] : Walk(t, <<1, 0>>) = "PauseDR"
    BY Walk10, LowTable, HighTable, MeantTable
  <2> QED
    BY <2>1, <2>2, MeantTable
<1>24. CASE row = Row("IDLE", "DRCAPTURE", <<1, 0>>)
  <2>1. row.from = "IDLE" /\ row.to = "DRCAPTURE" /\ row.tms = <<1, 0>>
    BY <1>24 DEF Row
  <2>2. \A t \in Meant["IDLE"] : Walk(t, <<1, 0>>) = "CaptureDR"
    BY Walk10, LowTable, HighTable, MeantTable
  <2> QED
    BY <2>1, <2>2, MeantTable
<1>25. CASE row = Row("IRPAUSE", "DRCAPTURE", <<1, 1, 1, 0>>)
  <2>1. row.from = "IRPAUSE" /\ row.to = "DRCAPTURE" /\ row.tms = <<1, 1, 1, 0>>
    BY <1>25 DEF Row
  <2>2. \A t \in Meant["IRPAUSE"] : Walk(t, <<1, 1, 1, 0>>) = "CaptureDR"
    BY Walk1110, LowTable, HighTable, MeantTable
  <2> QED
    BY <2>1, <2>2, MeantTable
<1> QED
  BY <1>1, <1>2, <1>3, <1>4, <1>5, <1>6, <1>7, <1>8, <1>9, <1>10, <1>11, <1>12, <1>13,
     <1>14, <1>15, <1>16, <1>17, <1>18, <1>19, <1>20, <1>21, <1>22, <1>23, <1>24, <1>25
     DEF g_JTAGTransistions

\* The rows that reset a controller do so from every state.
LEMMA RowsReset ==
    \A row \in g_JTAGTransistions :
        Resets(row) => \A t \in TapStates : Walk(t, row.tms) = "TestLogicReset"
<1> SUFFICES ASSUME NEW row \in g_JTAGTransistions, Resets(row), NEW t \in TapStates
             PROVE  Walk(t, row.tms) = "TestLogicReset"
  OBVIOUS
<1>1. CASE row.tms = <<1, 1, 1, 1, 1>>
  BY <1>1, Walk11111, FiveReset
<1>2. CASE row.tms = <<1, 1, 1, 1, 1, 1>>
  BY <1>2, Walk111111, FiveReset, HighTable
<1>3. row.to = "RESET" /\ Len(row.tms) >= 5
  BY DEF Resets
<1>4. row \in {Row("RESET", "RESET", <<1, 1, 1, 1, 1, 1>>),
              Row("IDLE", "RESET", <<1, 1, 1>>),
              Row("DRPAUSE", "RESET", <<1, 1, 1, 1, 1>>),
              Row("IRPAUSE", "RESET", <<1, 1, 1, 1, 1>>)}
  BY <1>3 DEF g_JTAGTransistions, Row
<1>5. row.tms # <<1, 1, 1>>
  <2> SUFFICES ASSUME row.tms = <<1, 1, 1>> PROVE FALSE
    OBVIOUS
  <2>1. Len(<<1, 1, 1>>) = 3
    OBVIOUS
  <2>2. Len(row.tms) = 3
    BY <2>1, Zenon
  <2> QED
    BY <1>3, <2>2
<1> QED
  BY <1>1, <1>2, <1>4, <1>5 DEF Row

-----------------------------------------------------------------------------
(* What every change of a port keeps. *)

PortShape(p) ==
    p = [cur |-> p.cur, tap |-> p.tap, stray |-> p.stray, due |-> p.due, fresh |-> p.fresh]
\* The inductive invariant of a port: the controllers are somewhere, and where
\* the player believes them unless nothing is known of them.
PortInv(p) ==
    /\ PortShape(p)
    /\ p.tap \subseteq TapStates /\ p.tap # {}
    /\ p.stray \/ (p.cur \in Names /\ p.tap \subseteq Meant[p.cur])

\* Counting bits moves nothing.
LEMMA PortSame ==
    ASSUME NEW p, PortInv(p), NEW q, PortShape(q),
           q.cur = p.cur, q.tap = p.tap, q.stray = p.stray
    PROVE  PortInv(q)
  BY DEF PortInv

LEMMA MoveInv == ASSUME NEW p, PortInv(p), NEW to PROVE PortInv(Move(p, to))
<1> DEFINE rows == {r \in g_JTAGTransistions : r.from = p.cur /\ r.to = to}
           row == CHOOSE r \in rows : TRUE
           q == Move(p, to)
<1>1. CASE p.cur = to /\ to # "RESET"
  BY <1>1 DEF Move
<1>2. CASE ~(p.cur = to /\ to # "RESET") /\ rows = {}
  <2>1. q = [p EXCEPT !.cur = to, !.tap = TapStates, !.stray = TRUE]
    BY <1>2 DEF Move
  <2>2. PortShape(q) /\ q.tap = TapStates /\ q.stray = TRUE
    BY <2>1 DEF PortInv, PortShape
  <2> QED
    BY <2>2, StatesOfTap DEF PortInv
<1>3. CASE ~(p.cur = to /\ to # "RESET") /\ rows # {}
  <2>1. row \in g_JTAGTransistions /\ row.from = p.cur /\ row.to = to
    BY <1>3
  <2>2. /\ PortShape(q) /\ q.cur = to
        /\ q.tap = {Walk(t, row.tms) : t \in p.tap}
        /\ q.stray = (p.stray /\ ~Resets(row))
    <3> HIDE DEF row
    <3> QED
    BY <1>3 DEF Move, PortInv, PortShape, row
  <2>3. q.tap \subseteq TapStates /\ q.tap # {}
    BY <2>2, RowsStay DEF PortInv
  <2>4. CASE p.stray /\ Resets(row)
    <3>1. q.tap \subseteq {"TestLogicReset"} /\ to = "RESET"
      BY <2>1, <2>2, <2>4, RowsReset DEF PortInv, Resets
    <3> QED
      BY <2>2, <2>3, <3>1, MeantTable DEF PortInv
  <2>5. CASE ~p.stray
    <3>1. q.tap \subseteq Meant[to] /\ to \in Names
      BY <2>1, <2>2, <2>5, RowsKeep DEF PortInv
    <3> QED
      BY <2>2, <2>3, <3>1 DEF PortInv
  <2> QED
    BY <2>2, <2>3, <2>4, <2>5 DEF PortInv
<1> QED
  BY <1>1, <1>2, <1>3

\* A change to the reset state gets the controllers there, wherever they are,
\* or does not tell where they are.
LEMMA MoveResets ==
    ASSUME NEW p, PortInv(p)
    PROVE  Move(p, "RESET").stray \/ Move(p, "RESET").tap = {"TestLogicReset"}
<1> DEFINE rows == {r \in g_JTAGTransistions : r.from = p.cur /\ r.to = "RESET"}
           row == CHOOSE r \in rows : TRUE
           q == Move(p, "RESET")
<1>1. CASE rows = {}
  BY <1>1 DEF Move, PortInv, PortShape
<1>2. CASE rows # {}
  <2>1. row \in g_JTAGTransistions /\ row.from = p.cur /\ row.to = "RESET"
    BY <1>2
  <2>2. /\ q.tap = {Walk(t, row.tms) : t \in p.tap}
        /\ q.stray = (p.stray /\ ~Resets(row))
    BY <1>2 DEF Move, PortInv, PortShape
  <2>3. \A t \in p.tap : ~q.stray => Walk(t, row.tms) = "TestLogicReset"
    BY <2>1, <2>2, RowsKeep, RowsReset DEF PortInv
  <2> QED
    BY <2>2, <2>3 DEF PortInv
<1> QED
  BY <1>1, <1>2

\* Clocks with TMS low leave the controllers where they are meant to be.
LEMMA LowKeeps == \A name \in Names : \A t \in Meant[name] : Low[t] \in Meant[name]
  BY MeantTable, LowTable

LEMMA ClocksInv == ASSUME NEW p, PortInv(p), NEW n PROVE PortInv(ispVMClocks(p, n))
<1> DEFINE q == ispVMClocks(p, n)
<1>1. CASE n <= 0
  BY <1>1 DEF ispVMClocks
<1>2. CASE ~(n <= 0)
  <2>1. /\ PortShape(q) /\ q.cur = p.cur /\ q.stray = p.stray
        /\ q.tap = {Low[t] : t \in p.tap}
    BY <1>2 DEF ispVMClocks, PortInv, PortShape
  <2> QED
    BY <2>1, LowKeeps, TapClosed DEF PortInv
<1> QED
  BY <1>1, <1>2

LEMMA ScanInv ==
    ASSUME NEW p, PortInv(p), NEW n, NEW c
    PROVE  /\ PortInv(ispVMBypass(p, n)) /\ PortInv(ispVMSend(p, n, c))
           /\ PortInv(Header(p, n)) /\ PortInv(Trailer(p, n))
<1>1. \A q, k : PortInv(q) => PortInv(ispVMClocks(q, k)) /\ PortInv(ispVMBypass(q, k))
  BY ClocksInv DEF ispVMBypass
<1> QED
  BY <1>1 DEF ispVMSend, Header, Trailer
-----------------------------------------------------------------------------
(* What the player does. *)

Before == {"open", "init", "version"}
PlayerInv ==
    /\ PortInv(port)
    /\ pc \in Before => port.stray
    /\ ResetAtEnd

LEMMA InitInv == Init => PlayerInv
  BY StatesOfTap DEF Init, PlayerInv, PortInv, PortShape, Before, ResetAtEnd

LEMMA EnterInv == ASSUME PortInv(port), NEW op PROVE PortInv(Enter(op))
<1>1. \A q, to : PortInv(q) => PortInv(Move(q, to))
  BY MoveInv
<1>2. \A q, n : PortInv(q) => PortInv(Header(q, n))
  BY ScanInv
<1> QED
  BY <1>1, <1>2 DEF Enter

LEMMA LeaveInv == ASSUME PortInv(port), NEW op PROVE PortInv(Leave(op))
  BY MoveInv, ScanInv DEF Leave

LEMMA SentInv == ASSUME PortInv(port) PROVE PortInv(Sent)
  BY ScanInv DEF Sent

\* A comparison that uses up what a capture brought moves nothing.
LEMMA UsedUpInv == ASSUME NEW p, PortInv(p) PROVE PortInv(UsedUp(p))
<1> DEFINE q == UsedUp(p)
<1>1. q = [p EXCEPT !.fresh = FALSE] /\ PortShape(p)
  BY DEF UsedUp, PortInv
<1> HIDE DEF q
<1>2. PortShape(q) /\ q.cur = p.cur /\ q.tap = p.tap /\ q.stray = p.stray
  BY <1>1 DEF PortShape
<1>3. PortInv(q)
  BY <1>2, PortSame
<1> QED
  BY <1>3 DEF q

\* What the steps between two that move to another part of ispVM have in common.
LEMMA Within ==
    ASSUME PlayerInv, PortInv(port'), pc' \notin Before, pc' # "exit"
    PROVE  PlayerInv'
  BY DEF PlayerInv, ResetAtEnd

LEMMA StepInv == PlayerInv /\ [Next]_vars => PlayerInv'
<1> SUFFICES ASSUME PlayerInv, [Next]_vars
             PROVE  PlayerInv'
  OBVIOUS
<1> USE DEF Before
<1>0. PortInv(port)
  BY DEF PlayerInv
<1>1. CASE Open
  BY <1>1 DEF Open, play, PlayerInv, ResetAtEnd
<1>2. CASE hardware_init
  BY <1>2 DEF hardware_init, play, PlayerInv, ResetAtEnd
<1>3. CASE CheckVersion
  BY <1>3 DEF CheckVersion, play, PlayerInv, ResetAtEnd
<1>4. CASE ispVMStart
  BY <1>0, <1>4, MoveInv, Within DEF ispVMStart
<1>5. CASE State
  <2>1. PortInv(StateTo(Opcode.to))
    BY <1>0, MoveInv DEF StateTo
  <2> QED
    BY <1>5, <2>1, Within DEF State, Is, control
<1>6. CASE ispVMShift
  <2>1. PortInv(Enter(Opcode.op))
    BY <1>0, EnterInv
  <2>2. port' = [Enter(Opcode.op) EXCEPT !.due = @ + Asked(Opcode)]
    BY <1>6 DEF ispVMShift
  <2>3. PortInv(port')
    BY <2>1, <2>2 DEF PortInv, PortShape
  <2>4. pc' \in {"data", "return"}
    BY <1>6 DEF ispVMShift, Return
  <2> QED
    BY <2>3, <2>4, Within
<1>7. CASE Send
  BY <1>0, <1>7, SentInv, Within DEF Send
<1>8. CASE ispVMRead
  <2>1. port' = UsedUp(Sent) /\ pc' \in {"retry", "leave"}
    BY <1>8 DEF ispVMRead
  <2> QED
    BY <1>0, <2>1, SentInv, UsedUpInv, Within
<1>9. CASE Retry
  <2>1. PortInv(UsedUp(Sent))
    BY <1>0, SentInv, UsedUpInv
  <2>2. PortInv(ispVMBypass(Move(UsedUp(Sent), "DRPAUSE"), g_usTail.DR))
    BY <2>1, MoveInv, ScanInv
  <2>3. PortInv(port')
    BY <1>9, <2>1, <2>2, MoveInv DEF Retry
  <2>4. pc' \in {"leave", "retry"}
    BY <1>9 DEF Retry
  <2> QED
    BY <2>3, <2>4, Within
<1>10. CASE ispVMReadandSave
  <2>1. PortInv(Trailer(ispVMSend(port, scan.size, FALSE), g_usTail.DR))
    BY <1>0, ScanInv
  <2> QED
    BY <1>10, <2>1, MoveInv, Within DEF ispVMReadandSave
<1>11. CASE SendBack
  <2>1. PortInv(Header(Move(port, "SHIFTDR"), g_usHead.DR))
    BY <1>0, MoveInv, ScanInv
  <2> QED
    BY <1>11, <2>1, ScanInv, Within DEF SendBack
<1>12. CASE LeaveShift
  <2>1. PortInv(Leave(scan.op)) /\ port' = UsedUp(Leave(scan.op))
    BY <1>0, <1>12, LeaveInv DEF LeaveShift
  <2>2. PortInv(port')
    BY <2>1, UsedUpInv
  <2>3. pc' \in {"code", "return"}
    BY <1>12 DEF LeaveShift, Result
  <2> QED
    BY <2>2, <2>3, Within
<1>13. CASE TCK
  BY <1>0, <1>13, ClocksInv, Within DEF TCK, Is, control
\* The opcodes that leave the port alone.
<1>14. CASE ENDDR \/ ENDIR \/ MEM \/ VENDOR \/ SETFLOW \/ RESETFLOW
  BY <1>0, <1>14, Within DEF ENDDR, ENDIR, MEM, VENDOR, SETFLOW, RESETFLOW, Is, control
<1>15. CASE SHR \/ VUES \/ Skipped \/ ispVMProcessLVDS
  BY <1>0, <1>15, Within DEF SHR, VUES, Skipped, ispVMProcessLVDS, Is, control
<1>16. CASE ispVMAmble
  BY <1>0, <1>16, Within DEF ispVMAmble, Result
<1>17. CASE Invalid \/ EndCode \/ ispVMDataSize
  BY <1>0, <1>17, Within DEF Invalid, EndCode, ispVMDataSize, Return
<1>18. CASE HEAP
  BY <1>0, <1>18, Within DEF HEAP, Is, Return
<1>19. CASE REPEAT
  <2>1. port' = port /\ pc' \in {pc, "return", "abort"} /\ pc = "code"
    BY <1>19 DEF REPEAT, Is, Return
  <2> QED
    BY <1>0, <2>1, Within
<1>20. CASE LCOUNT
  <2>1. port' = port /\ pc' = pc /\ pc = "code"
    BY <1>20 DEF LCOUNT, Is
  <2> QED
    BY <1>0, <2>1, Within
<1>21. CASE RepeatAgain \/ CountAgain
  BY <1>0, <1>21, Within DEF RepeatAgain, CountAgain
<1>22. CASE RepeatEnds \/ CountEnds
  BY <1>0, <1>22, Within DEF RepeatEnds, CountEnds, GivenUp, Result
<1>23. CASE ispVMEnd
  <2>1. port' = Move(port, "RESET") /\ pc' = "exit"
    BY <1>23 DEF ispVMEnd, EndState
  <2>2. PortInv(port')
    BY <1>0, <2>1, MoveInv
  <2>3. port'.stray \/ port'.tap = {"TestLogicReset"}
    BY <1>0, <2>1, MoveResets
  <2> QED
    BY <2>1, <2>2, <2>3 DEF PlayerInv, ResetAtEnd
<1>24. CASE main
  BY <1>0, <1>24, Within DEF main, play
<1>25. CASE Gone \/ UNCHANGED vars
  BY <1>25 DEF Gone, vars, control, PlayerInv, ResetAtEnd
<1> QED
  BY <1>1, <1>2, <1>3, <1>4, <1>5, <1>6, <1>7, <1>8, <1>9, <1>10, <1>11, <1>12, <1>13,
     <1>14, <1>15, <1>16, <1>17, <1>18, <1>19, <1>20, <1>21, <1>22, <1>23, <1>24, <1>25
     DEF Next, Play

\* In every reachable state, for every file.
THEOREM PlayerInvariant == Spec => []PlayerInv
<1> QED
  BY InitInv, StepInv, PTL DEF Spec

\* The controllers are in the state the player believes them in, whatever the
\* file asks for in whatever order, as long as it asks for no transition that is
\* not in the table, and again from the next reset on.
THEOREM TapStaysInStep == Spec => []TapInStep
<1>1. PlayerInv => TapInStep
  BY DEF PlayerInv, PortInv, TapInStep
<1> QED
  BY PlayerInvariant, <1>1, PTL

\* When ispVM has ended its session the controllers are reset, also after a
\* file that is wrong, ends too early, or fails to verify.
THEOREM SessionEndsReset == Spec => []ResetAtEnd
<1>1. PlayerInv => ResetAtEnd
  BY DEF PlayerInv
<1> QED
  BY PlayerInvariant, <1>1, PTL

-----------------------------------------------------------------------------
(* The loops.                                                              *)

Keys == {"kind", "left", "total", "heap", "miss"}
Frame(f) == DOMAIN f = Keys /\ f = [x \in Keys |-> f[x]] /\ f.kind \in {"REPEAT", "LCOUNT"}
Stacked == \E S : stack \in Seq(S) /\ \A f \in S : Frame(f)

\* As long as no loop takes the buffer of another one, two of them are played at most,
\* and the flags tell which is the innermost: commands that are repeated inside a loop
\* know that they are to go back to it.
Plain ==
    \/ Len(stack) = 0 /\ g_usDataType = {}
    \/ Len(stack) = 1 /\ stack[1].kind = "REPEAT" /\ g_usDataType = {"HEAP_IN"}
    \/ /\ Len(stack) = 1 /\ stack[1].kind = "LCOUNT" /\ stack[1].heap = FALSE
       /\ g_usDataType = {"LHEAP_IN"}
    \/ /\ Len(stack) = 2 /\ stack[1].kind = "LCOUNT" /\ stack[1].heap = FALSE
       /\ stack[2].kind = "REPEAT" /\ g_usDataType = {"HEAP_IN", "LHEAP_IN"}
    \/ /\ Len(stack) = 2 /\ stack[1].kind = "REPEAT"
       /\ stack[2].kind = "LCOUNT" /\ stack[2].heap = TRUE
       /\ g_usDataType = {"LHEAP_IN"}

\* However the loops nest, a flag says that a loop of its kind is played, and commands
\* that are to go back to a loop are played inside of one.
LoopInv ==
    /\ Stacked
    /\ g_usDataType \subseteq {"HEAP_IN", "LHEAP_IN"}
    /\ "HEAP_IN" \in g_usDataType => Playing("REPEAT")
    /\ "LHEAP_IN" \in g_usDataType => Playing("LCOUNT")
    /\ \A i \in 1 .. Len(stack) :
         stack[i].kind = "LCOUNT" /\ stack[i].heap = TRUE
           => \E j \in 1 .. i - 1 : stack[j].kind = "REPEAT"
    /\ "nested" \in lapses \/ Plain

LEMMA StackIs ==
    ASSUME Stacked
    PROVE  Len(stack) \in Nat /\ \A i \in 1 .. Len(stack) : Frame(stack[i])
<1>1. PICK S : stack \in Seq(S) /\ \A f \in S : Frame(f)
  BY DEF Stacked
<1>2. Len(stack) \in Nat /\ \A i \in 1 .. Len(stack) : stack[i] \in S
  BY <1>1, LenProperties, ElementOfSeq
<1> QED
  BY <1>1, <1>2

\* A loop is begun inside of the others.
LEMMA Pushed ==
    ASSUME Stacked, NEW f, Frame(f), stack' = Append(stack, f)
    PROVE  /\ Stacked' /\ Len(stack') = Len(stack) + 1 /\ stack'[Len(stack) + 1] = f
           /\ \A i \in 1 .. Len(stack) : stack'[i] = stack[i]
<1>1. PICK S : stack \in Seq(S) /\ \A g \in S : Frame(g)
  BY DEF Stacked
<1> DEFINE T == S \cup {f}
<1>2. stack \in Seq(T) /\ f \in T /\ \A g \in T : Frame(g)
  BY <1>1, SeqMonotonic
<1> HIDE DEF T
<1>3. /\ stack' \in Seq(T) /\ Len(stack') = Len(stack) + 1
      /\ \A i \in 1 .. Len(stack) : stack'[i] = stack[i]
      /\ stack'[Len(stack) + 1] = f
  BY <1>2, AppendProperties
<1>4. Stacked'
  <2>1. \A g \in T : Frame(g)
    BY <1>2
  <2>2. (\E U : stack \in Seq(U) /\ \A g \in U : Frame(g))'
    BY <1>2, <1>3
  <2> QED
    BY <2>2 DEF Stacked
<1> QED
  BY <1>3, <1>4

\* What is below the innermost loop.
LEMMA OuterIs ==
    ASSUME Stacked, stack # <<>>
    PROVE  /\ Len(stack) \in Nat \ {0} /\ Len(Outer) = Len(stack) - 1
           /\ \A i \in 1 .. Len(stack) - 1 : Outer[i] = stack[i]
           /\ \E S : Outer \in Seq(S) /\ \A f \in S : Frame(f)
<1>1. PICK S : stack \in Seq(S) /\ \A g \in S : Frame(g)
  BY DEF Stacked
<1>2. Len(stack) \in Nat \ {0} /\ \A i \in 1 .. Len(stack) : stack[i] \in S
  BY <1>1, LenProperties, EmptySeq, ElementOfSeq
<1> DEFINE n == Len(stack) - 1
<1>3. n \in Nat /\ \A i \in 1 .. n : stack[i] \in S
  BY <1>2
<1> HIDE DEF n
<1>4. /\ SubSeq(stack, 1, n) \in Seq(S)
      /\ Len(SubSeq(stack, 1, n)) = IF 1 <= n THEN n - 1 + 1 ELSE 0
      /\ \A i \in 1 .. n - 1 + 1 : SubSeq(stack, 1, n)[i] = stack[1 + i - 1]
  BY <1>3, SubSeqProperties
<1>5. Len(SubSeq(stack, 1, n)) = n /\ \A i \in 1 .. n : SubSeq(stack, 1, n)[i] = stack[i]
  BY <1>3, <1>4
<1>6. Outer = SubSeq(stack, 1, n)
  BY DEF Outer, n
<1> QED
  BY <1>1, <1>2, <1>4, <1>5, <1>6 DEF n

LEMMA Popped ==
    ASSUME Stacked, stack # <<>>, stack' = Outer
    PROVE  /\ Stacked' /\ Len(stack') = Len(stack) - 1 /\ Len(stack) \in Nat \ {0}
           /\ \A i \in 1 .. Len(stack) - 1 : stack'[i] = stack[i]
  BY OuterIs DEF Stacked

\* A round less leaves the rest of the frame.
Less(f) == [f EXCEPT !.left = @ - 1]
LEMMA RoundLess ==
    ASSUME NEW f, Frame(f)
    PROVE  /\ Frame(Less(f)) /\ Less(f).kind = f.kind
           /\ Less(f).heap = f.heap /\ Less(f).miss = f.miss
  BY DEF Frame, Less, Keys

LEMMA OneLess ==
    ASSUME Stacked, stack # <<>>, stack' = Round
    PROVE  /\ Stacked' /\ Len(stack') = Len(stack) /\ Len(stack) \in Nat \ {0}
           /\ \A i \in 1 .. Len(stack) - 1 : stack'[i] = stack[i]
           /\ stack'[Len(stack)] = Less(Innermost)
           /\ \A i \in 1 .. Len(stack) :
                /\ stack'[i].kind = stack[i].kind /\ stack'[i].heap = stack[i].heap
                /\ stack'[i].miss = stack[i].miss
<1>1. /\ Len(stack) \in Nat \ {0} /\ Len(Outer) = Len(stack) - 1
      /\ \A i \in 1 .. Len(stack) - 1 : Outer[i] = stack[i]
  BY OuterIs
<1>2. PICK S : Outer \in Seq(S) /\ \A g \in S : Frame(g)
  BY OuterIs
<1>3. Frame(Innermost)
  BY <1>1, StackIs DEF Innermost
<1> DEFINE f == Less(Innermost)
           T == S \cup {f}
<1>4. Frame(f) /\ f.kind = Innermost.kind /\ f.heap = Innermost.heap /\ f.miss = Innermost.miss
  BY <1>3, RoundLess
<1>5. stack' = Append(Outer, f)
  BY DEF Round, Less
<1> HIDE DEF f
<1>6. Outer \in Seq(T) /\ f \in T /\ \A g \in T : Frame(g)
  BY <1>2, <1>4, SeqMonotonic
<1> HIDE DEF T
<1>7. /\ stack' \in Seq(T) /\ Len(stack') = Len(stack)
      /\ \A i \in 1 .. Len(stack) - 1 : stack'[i] = stack[i]
      /\ stack'[Len(stack)] = f
  BY <1>1, <1>5, <1>6, AppendProperties
<1>8. Stacked'
  BY <1>6, <1>7 DEF Stacked
<1>9. ASSUME NEW i \in 1 .. Len(stack)
      PROVE  /\ stack'[i].kind = stack[i].kind /\ stack'[i].heap = stack[i].heap
             /\ stack'[i].miss = stack[i].miss
  <2>1. CASE i = Len(stack)
    BY <1>4, <1>7, <2>1 DEF Innermost
  <2>2. CASE i # Len(stack)
    BY <1>1, <1>7, <2>2
  <2> QED
    BY <2>1, <2>2
<1> QED
  BY <1>1, <1>7, <1>8, <1>9 DEF f

\* Nothing is left when the stack is empty, and the other way round.
LEMMA Emptied == ASSUME Stacked PROVE stack = <<>> <=> Len(stack) = 0
<1>1. PICK S : stack \in Seq(S)
  BY DEF Stacked
<1> QED
  BY <1>1, EmptySeq

\* A loop that is not there has no flag.
LEMMA NoFlag ==
    ASSUME LoopInv
    PROVE  /\ ~Playing("REPEAT") => "HEAP_IN" \notin g_usDataType
           /\ ~Playing("LCOUNT") => "LHEAP_IN" \notin g_usDataType
           /\ stack = <<>> => g_usDataType = {}
<1>1. stack = <<>> => ~Playing("REPEAT") /\ ~Playing("LCOUNT")
  BY Emptied DEF LoopInv, Playing
<1> QED
  BY <1>1 DEF LoopInv

\* Steps that begin or end no loop.
LEMMA LoopSame ==
    ASSUME LoopInv, UNCHANGED <<stack, g_usDataType>>, lapses \subseteq lapses'
    PROVE  LoopInv'
<1>1. Stacked' /\ Plain' = Plain
  BY DEF LoopInv, Stacked, Plain
<1> QED
  BY <1>1 DEF LoopInv, Playing

\* Those that play one round less.
LEMMA LoopRound ==
    ASSUME LoopInv, stack # <<>>, stack' = Round, UNCHANGED <<g_usDataType, lapses>>
    PROVE  LoopInv'
<1>1. /\ Stacked' /\ Len(stack') = Len(stack) /\ Len(stack) \in Nat \ {0}
      /\ \A i \in 1 .. Len(stack) :
           stack'[i].kind = stack[i].kind /\ stack'[i].heap = stack[i].heap
  BY OneLess DEF LoopInv
<1>2. \A kind : Playing(kind) => Playing(kind)'
  BY <1>1 DEF Playing
<1>3. \A i \in 1 .. Len(stack') :
         stack'[i].kind = "LCOUNT" /\ stack'[i].heap = TRUE
           => \E j \in 1 .. i - 1 : stack'[j].kind = "REPEAT"
  <2> TAKE i \in 1 .. Len(stack')
  <2> HAVE stack'[i].kind = "LCOUNT" /\ stack'[i].heap = TRUE
  <2>1. PICK j \in 1 .. i - 1 : stack[j].kind = "REPEAT"
    BY <1>1 DEF LoopInv
  <2> QED
    BY <1>1, <2>1
<1>4. Plain => Plain'
  BY <1>1 DEF Plain
<1> QED
  BY <1>1, <1>2, <1>3, <1>4 DEF LoopInv

\* A loop of a kind that is not played yet: inside of commands, or not.
LEMMA RepeatStep == ASSUME LoopInv, REPEAT PROVE LoopInv'
<1> DEFINE f == [kind |-> "REPEAT", left |-> Opcode.count, total |-> Opcode.count,
                 heap |-> FALSE, miss |-> {}]
<1>1. lapses' = lapses \cup Nested("REPEAT")
  BY DEF REPEAT
<1>2. CASE UNCHANGED <<stack, g_usDataType>>
  BY <1>1, <1>2, LoopSame
<1>3. CASE g_usDataType' = g_usDataType \ {"HEAP_IN"} /\ stack' = stack
  <2>1. CASE Playing("REPEAT")
    <3>1. "nested" \in lapses'
      BY <1>1, <2>1 DEF Nested
    <3> QED
      BY <1>3, <3>1 DEF LoopInv, Playing, Stacked
  <2>2. CASE ~Playing("REPEAT")
    <3>1. g_usDataType' = g_usDataType
      BY <1>3, <2>2, NoFlag
    <3> QED
      BY <1>1, <1>3, <3>1, LoopSame
  <2> QED
    BY <2>1, <2>2
<1>4. CASE g_usDataType' = g_usDataType \cup {"HEAP_IN"} /\ stack' = Append(stack, f)
  <2>1. Frame(f) /\ f.kind = "REPEAT" /\ f.heap = FALSE
    BY DEF Frame, Keys
  <2> HIDE DEF f
  <2>2. /\ Stacked' /\ Len(stack') = Len(stack) + 1 /\ stack'[Len(stack) + 1] = f
        /\ Len(stack) \in Nat
        /\ \A i \in 1 .. Len(stack) : stack'[i] = stack[i]
    BY <1>4, <2>1, Pushed, StackIs DEF LoopInv
  <2>3. Playing("REPEAT")'
    BY <2>1, <2>2 DEF Playing
  <2>4. "LHEAP_IN" \in g_usDataType' => Playing("LCOUNT")'
    BY <1>4, <2>2 DEF LoopInv, Playing
  <2>5. \A i \in 1 .. Len(stack') :
         stack'[i].kind = "LCOUNT" /\ stack'[i].heap = TRUE
           => \E j \in 1 .. i - 1 : stack'[j].kind = "REPEAT"
    <3> TAKE i \in 1 .. Len(stack')
    <3> HAVE stack'[i].kind = "LCOUNT" /\ stack'[i].heap = TRUE
    <3>1. i \in 1 .. Len(stack)
      BY <2>1, <2>2
    <3>2. PICK j \in 1 .. i - 1 : stack[j].kind = "REPEAT"
      BY <2>2, <3>1 DEF LoopInv
    <3> QED
      BY <2>2, <3>1, <3>2
  <2>6. "nested" \in lapses' \/ Plain'
    <3> SUFFICES ASSUME "nested" \notin lapses' PROVE Plain'
      OBVIOUS
    <3>1. ~Playing("REPEAT") /\ Plain
      BY <1>1 DEF Nested, LoopInv
    <3>2. \/ Len(stack) = 0 /\ g_usDataType = {}
          \/ /\ Len(stack) = 1 /\ stack[1].kind = "LCOUNT" /\ stack[1].heap = FALSE
             /\ g_usDataType = {"LHEAP_IN"}
      BY <2>2, <3>1 DEF Plain, Playing
    <3> QED
      BY <1>4, <2>1, <2>2, <3>2 DEF Plain
  <2> QED
    BY <1>4, <2>2, <2>3, <2>4, <2>5, <2>6 DEF LoopInv
<1>5. \/ UNCHANGED <<stack, g_usDataType>>
      \/ g_usDataType' = g_usDataType \ {"HEAP_IN"} /\ stack' = stack
      \/ g_usDataType' = g_usDataType \cup {"HEAP_IN"} /\ stack' = Append(stack, f)
  BY DEF REPEAT, flags
<1> QED
  BY <1>2, <1>3, <1>4, <1>5

LEMMA CountStep == ASSUME LoopInv, LCOUNT PROVE LoopInv'
<1> DEFINE g == [kind |-> "LCOUNT", left |-> Opcode.count, total |-> Opcode.count,
                 heap |-> Has("HEAP_IN"), miss |-> miss]
<1>1. lapses' = lapses \cup Nested("LCOUNT")
  BY DEF LCOUNT
<1>2. CASE g_usDataType' = g_usDataType \ {"LHEAP_IN"} /\ stack' = stack
  <2>1. CASE Playing("LCOUNT")
    <3>1. "nested" \in lapses'
      BY <1>1, <2>1 DEF Nested
    <3> QED
      BY <1>2, <3>1 DEF LoopInv, Playing, Stacked
  <2>2. CASE ~Playing("LCOUNT")
    <3>1. g_usDataType' = g_usDataType
      BY <1>2, <2>2, NoFlag
    <3> QED
      BY <1>1, <1>2, <3>1, LoopSame
  <2> QED
    BY <2>1, <2>2
<1>3. CASE /\ g_usDataType' = (g_usDataType \cup {"LHEAP_IN"}) \ {"HEAP_IN"}
           /\ stack' = Append(stack, g)
  <2>1. Frame(g) /\ g.kind = "LCOUNT" /\ g.heap = ("HEAP_IN" \in g_usDataType)
    BY DEF Frame, Keys, Has
  <2> HIDE DEF g
  <2>2. /\ Stacked' /\ Len(stack') = Len(stack) + 1 /\ stack'[Len(stack) + 1] = g
        /\ Len(stack) \in Nat
        /\ \A i \in 1 .. Len(stack) : stack'[i] = stack[i]
    BY <1>3, <2>1, Pushed, StackIs DEF LoopInv
  <2>3. Playing("LCOUNT")'
    BY <2>1, <2>2 DEF Playing
  <2>4. \A i \in 1 .. Len(stack') :
         stack'[i].kind = "LCOUNT" /\ stack'[i].heap = TRUE
           => \E j \in 1 .. i - 1 : stack'[j].kind = "REPEAT"
    <3> TAKE i \in 1 .. Len(stack')
    <3> HAVE stack'[i].kind = "LCOUNT" /\ stack'[i].heap = TRUE
    <3>1. CASE i \in 1 .. Len(stack)
      <4>1. PICK j \in 1 .. i - 1 : stack[j].kind = "REPEAT"
        BY <2>2, <3>1 DEF LoopInv
      <4> QED
        BY <2>2, <3>1, <4>1
    <3>2. CASE i = Len(stack) + 1
      <4>1. Playing("REPEAT")
        BY <2>1, <2>2, <3>2 DEF LoopInv
      <4>2. PICK j \in 1 .. Len(stack) : stack[j].kind = "REPEAT"
        BY <4>1 DEF Playing
      <4> QED
        BY <2>2, <3>2, <4>2
    <3> QED
      BY <2>2, <3>1, <3>2
  <2>5. "nested" \in lapses' \/ Plain'
    <3> SUFFICES ASSUME "nested" \notin lapses' PROVE Plain'
      OBVIOUS
    <3>1. ~Playing("LCOUNT") /\ Plain
      BY <1>1 DEF Nested, LoopInv
    <3>2. \/ Len(stack) = 0 /\ g_usDataType = {}
          \/ Len(stack) = 1 /\ stack[1].kind = "REPEAT" /\ g_usDataType = {"HEAP_IN"}
      BY <2>2, <3>1 DEF Plain, Playing
    <3>3. CASE Len(stack) = 0 /\ g_usDataType = {}
      <4>1. Len(stack') = 1 /\ stack'[1] = g /\ g_usDataType' = {"LHEAP_IN"}
        BY <1>3, <2>2, <3>3
      <4>2. g.heap = FALSE
        <5>1. ("HEAP_IN" \in g_usDataType) = FALSE
          BY <3>3
        <5> QED
          BY <2>1, <5>1
      <4> QED
        BY <2>1, <4>1, <4>2 DEF Plain
    <3>4. CASE Len(stack) = 1 /\ stack[1].kind = "REPEAT" /\ g_usDataType = {"HEAP_IN"}
      <4>1. /\ Len(stack') = 2 /\ stack'[2] = g /\ stack'[1].kind = "REPEAT"
            /\ g_usDataType' = {"LHEAP_IN"}
        BY <1>3, <2>2, <3>4
      <4>2. g.heap = TRUE
        <5>1. ("HEAP_IN" \in g_usDataType) = TRUE
          BY <3>4
        <5> QED
          BY <2>1, <5>1
      <4> QED
        BY <2>1, <4>1, <4>2 DEF Plain
    <3> QED
      BY <3>2, <3>3, <3>4
  <2> QED
    BY <1>3, <2>2, <2>3, <2>4, <2>5 DEF LoopInv
<1>4. \/ g_usDataType' = g_usDataType \ {"LHEAP_IN"} /\ stack' = stack
      \/ /\ g_usDataType' = (g_usDataType \cup {"LHEAP_IN"}) \ {"HEAP_IN"}
         /\ stack' = Append(stack, g)
  BY DEF LCOUNT
<1> QED
  BY <1>2, <1>3, <1>4

\* The end of a loop gives back the source of the one around it.
LEMMA LoopEnds ==
    ASSUME LoopInv, RepeatEnds \/ CountEnds
    PROVE  LoopInv'
<1> DEFINE n == Len(stack)
<1>1. /\ stack # <<>> /\ stack' = Outer /\ lapses' = lapses
  BY DEF RepeatEnds, CountEnds, InLoop, history
<1>2. /\ Stacked' /\ Len(stack') = n - 1 /\ n \in Nat \ {0}
      /\ \A i \in 1 .. n - 1 : stack'[i] = stack[i]
  BY <1>1, Popped DEF LoopInv
<1>3. \/ Innermost.kind = "REPEAT" /\ g_usDataType' = g_usDataType \ {"HEAP_IN"}
      \/ Innermost.kind = "LCOUNT" /\ g_usDataType' = AfterCount
  BY DEF RepeatEnds, CountEnds, InLoop
<1>4. Innermost = stack[n]
  BY DEF Innermost
<1> HIDE DEF n
<1>5. ASSUME NEW kind, Playing(kind), Innermost.kind # kind PROVE Playing(kind)'
  <2>1. PICK i \in 1 .. n : stack[i].kind = kind
    BY <1>5 DEF Playing, n
  <2>2. i \in 1 .. n - 1
    BY <1>2, <1>4, <1>5, <2>1
  <2> QED
    BY <1>2, <2>1, <2>2 DEF Playing
<1>6. \A i \in 1 .. Len(stack') :
         stack'[i].kind = "LCOUNT" /\ stack'[i].heap = TRUE
           => \E j \in 1 .. i - 1 : stack'[j].kind = "REPEAT"
  <2> TAKE i \in 1 .. Len(stack')
  <2> HAVE stack'[i].kind = "LCOUNT" /\ stack'[i].heap = TRUE
  <2>1. i \in 1 .. n - 1 /\ i \in 1 .. n
    BY <1>2
  <2>2. PICK j \in 1 .. i - 1 : stack[j].kind = "REPEAT"
    BY <1>2, <2>1 DEF LoopInv, n
  <2> QED
    BY <1>2, <2>1, <2>2
<1>7. CASE Innermost.kind = "REPEAT" /\ g_usDataType' = g_usDataType \ {"HEAP_IN"}
  <2>1. /\ g_usDataType' \subseteq {"HEAP_IN", "LHEAP_IN"}
        /\ "HEAP_IN" \notin g_usDataType'
        /\ "LHEAP_IN" \in g_usDataType' => Playing("LCOUNT")'
    BY <1>5, <1>7 DEF LoopInv
  <2>2. Plain => Plain'
    <3> HAVE Plain
    <3>1. \/ n = 1 /\ g_usDataType = {"HEAP_IN"}
          \/ /\ n = 2 /\ stack[1].kind = "LCOUNT" /\ stack[1].heap = FALSE
             /\ g_usDataType = {"HEAP_IN", "LHEAP_IN"}
      BY <1>2, <1>4, <1>7 DEF Plain, n
    <3> QED
      BY <1>2, <1>7, <3>1 DEF Plain
  <2> QED
    BY <1>1, <1>2, <1>6, <2>1, <2>2 DEF LoopInv
<1>8. CASE Innermost.kind = "LCOUNT" /\ g_usDataType' = AfterCount
  <2>1. /\ g_usDataType' \subseteq {"HEAP_IN", "LHEAP_IN"}
        /\ "LHEAP_IN" \notin g_usDataType'
    BY <1>8 DEF LoopInv, AfterCount
  <2>2. ASSUME "HEAP_IN" \in g_usDataType' PROVE Playing("REPEAT")'
    <3>1. CASE "HEAP_IN" \in g_usDataType
      BY <1>5, <1>8, <3>1 DEF LoopInv
    <3>2. CASE Innermost.heap = TRUE
      <4>1. PICK j \in 1 .. n - 1 : stack[j].kind = "REPEAT"
        BY <1>2, <1>4, <1>8, <3>2 DEF LoopInv, n
      <4> QED
        BY <1>2, <4>1 DEF Playing
    <3>3. CASE Innermost.heap # TRUE /\ "HEAP_IN" \notin g_usDataType
      <4>1. Frame(Innermost)
        BY <1>2, <1>4, StackIs DEF LoopInv, n
      <4> QED
        BY <1>8, <2>2, <3>3 DEF AfterCount
    <3> QED
      BY <3>1, <3>2, <3>3
  <2>3. Plain => Plain'
    <3> HAVE Plain
    <3>1. \/ n = 1 /\ Innermost.heap = FALSE /\ g_usDataType = {"LHEAP_IN"}
          \/ /\ n = 2 /\ stack[1].kind = "REPEAT" /\ Innermost.heap = TRUE
             /\ g_usDataType = {"LHEAP_IN"}
      BY <1>2, <1>4, <1>8 DEF Plain, n
    <3>2. CASE n = 1 /\ Innermost.heap = FALSE /\ g_usDataType = {"LHEAP_IN"}
      <4>1. g_usDataType' = {}
        BY <1>8, <3>2 DEF AfterCount
      <4> QED
        BY <1>2, <3>2, <4>1 DEF Plain
    <3>3. CASE /\ n = 2 /\ stack[1].kind = "REPEAT" /\ Innermost.heap = TRUE
               /\ g_usDataType = {"LHEAP_IN"}
      <4>1. g_usDataType' = {"HEAP_IN"}
        BY <1>8, <3>3 DEF AfterCount
      <4> QED
        BY <1>2, <3>3, <4>1 DEF Plain
    <3> QED
      BY <3>1, <3>2, <3>3
  <2> QED
    BY <1>1, <1>2, <1>6, <2>1, <2>2, <2>3 DEF LoopInv
<1> QED
  BY <1>3, <1>7, <1>8

LEMMA LoopStep == LoopInv /\ [Next]_vars => LoopInv'
<1> SUFFICES ASSUME LoopInv, [Next]_vars
             PROVE  LoopInv'
  OBVIOUS
<1>1. CASE REPEAT
  BY <1>1, RepeatStep
<1>2. CASE LCOUNT
  BY <1>2, CountStep
\* Another round changes the count of the innermost.
<1>3. CASE RepeatAgain \/ CountAgain
  BY <1>3, LoopRound DEF RepeatAgain, CountAgain, InLoop, NextPoll, flags, history
<1>4. CASE RepeatEnds \/ CountEnds
  BY <1>4, LoopEnds
\* Nothing else begins or ends a loop.
<1>5. CASE Open \/ hardware_init \/ CheckVersion \/ ispVMStart \/ State \/ ispVMShift
  BY <1>5, LoopSame
     DEF Open, hardware_init, CheckVersion, ispVMStart, State, ispVMShift, play, flags, loop,
         history
<1>6. CASE Send \/ ispVMRead \/ Retry \/ ispVMReadandSave \/ SendBack \/ LeaveShift
  BY <1>6, LoopSame
     DEF Send, ispVMRead, Retry, ispVMReadandSave, SendBack, LeaveShift, flags, loop, history
<1>7. CASE TCK \/ ENDDR \/ ENDIR \/ ispVMAmble \/ VENDOR \/ SETFLOW \/ RESETFLOW
  BY <1>7, LoopSame
     DEF TCK, ENDDR, ENDIR, ispVMAmble, VENDOR, SETFLOW, RESETFLOW, flags, loop, history
<1>8. CASE MEM \/ EndCode \/ HEAP
  <2>1. UNCHANGED <<stack, g_usDataType>> /\ lapses \subseteq lapses'
    BY <1>8 DEF MEM, EndCode, HEAP, flags, loop
  <2> QED
    BY <2>1, LoopSame
<1>9. CASE SHR \/ VUES \/ Skipped \/ ispVMProcessLVDS \/ Invalid \/ ispVMDataSize
  BY <1>9, LoopSame
     DEF SHR, VUES, Skipped, ispVMProcessLVDS, Invalid, ispVMDataSize, flags, loop, history
<1>10. CASE ispVMEnd \/ main \/ Gone \/ UNCHANGED vars
  BY <1>10, LoopSame DEF ispVMEnd, main, Gone, vars, play, flags, loop, history
<1> QED
  BY <1>1, <1>2, <1>3, <1>4, <1>5, <1>6, <1>7, <1>8, <1>9, <1>10 DEF Next, Play

LEMMA InitLoops == Init => LoopInv
<1> SUFFICES ASSUME Init PROVE LoopInv
  OBVIOUS
<1>1. stack = <<>> /\ g_usDataType = {}
  BY DEF Init
<1>2. Stacked
  <2>1. stack \in Seq({}) /\ \A f \in {} : Frame(f)
    BY <1>1, EmptySeq
  <2> QED
    BY <2>1 DEF Stacked
<1>3. Len(stack) = 0
  BY <1>1, EmptySeq
<1> QED
  BY <1>1, <1>2, <1>3 DEF LoopInv, Plain

\* Loops and repeated commands may nest, fail in the middle and be left early: the
\* next opcode comes from where the innermost keeps its own, unless a loop was begun
\* inside of another of its kind, whose buffer and flag it then takes; and from the
\* file when no loop is left, however they nested, for every file (ispVMLoop,
\* ispVMLCOUNT and GetByte of ispvm.c).
THEOREM SourceFollowsLoops == Spec => []SourceMatchesLoop
<1>1. LoopInv => SourceMatchesLoop
  <2> SUFFICES ASSUME LoopInv PROVE SourceMatchesLoop
    OBVIOUS
  <2>1. stack = <<>> => Source = "none"
    BY NoFlag DEF Source, Has
  <2>2. ASSUME "nested" \notin lapses
        PROVE  Source = (IF stack = <<>> THEN "none" ELSE Innermost.kind)
    <3>1. Plain /\ (stack = <<>> <=> Len(stack) = 0)
      BY <2>2, Emptied DEF LoopInv
    <3> QED
      BY <2>1, <3>1 DEF Plain, Innermost, Source, Has
  <2> QED
    BY <2>1, <2>2 DEF SourceMatchesLoop
<1> QED
  BY <1>1, InitLoops, LoopStep, PTL DEF Spec
-----------------------------------------------------------------------------
(* The result.                                                             *)

\* A failed comparison, but for one that VUES asked for, is never kept over a round:
\* the player is on its way out of the loops then, to another round of a poll at most,
\* and its result stays negative up to main.
MissInv ==
    /\ ret \in Int /\ miss \subseteq {"read", "VUES"}
    /\ \A i \in 1 .. Len(stack) : stack[i].miss \subseteq {"VUES"}
    /\ "read" \in miss => ret < 0 /\ pc \in {"return", "exit", "done"}
    /\ reset # 0 => pc = "done" /\ "read" \notin miss

LEMMA MissStep == LoopInv /\ MissInv /\ [Next]_vars => MissInv'
<1> SUFFICES ASSUME LoopInv, MissInv, [Next]_vars
             PROVE  MissInv'
  OBVIOUS
<1> USE DEF MissInv
<1>0. Stacked
  BY DEF LoopInv
\* The end of a scan: what failed is returned.
<1>1. CASE LeaveShift
  <2>1. /\ pc = "leave" /\ pc' = (IF ret = Ok THEN "code" ELSE "return")
        /\ UNCHANGED <<stack, ret, reset>>
        /\ miss' = miss \cup (IF ret < 0 THEN {"read"} ELSE {})
    BY <1>1 DEF LeaveShift, Result, loop, board
  <2>2. "read" \notin miss /\ reset = 0
    BY <2>1
  <2>3. miss' \subseteq {"read", "VUES"} /\ ("read" \in miss' => ret < 0)
    BY <2>1, <2>2
  <2>4. ret < 0 => pc' = "return"
    BY <2>1 DEF Ok
  <2> QED
    BY <2>1, <2>2, <2>3, <2>4
\* The result of the comparison, for the end of the scan to look at.
<1>2. CASE ispVMRead
  <2>1. pc = "data" /\ pc' \in {"retry", "leave"} /\ UNCHANGED <<stack, reset>>
    BY <1>2 DEF ispVMRead, loop, board
  <2>2. ret' \in Int
    BY <1>2 DEF ispVMRead, Verdict, Ok, Stop, VME_VERIFICATION_FAILURE
  <2>3. miss' = miss \/ miss' = miss \cup {"VUES"}
    BY <1>2 DEF ispVMRead
  <2> QED
    BY <2>1, <2>2, <2>3
<1>3. CASE Retry
  BY <1>3 DEF Retry, loop, board, Ok
<1>4. CASE ispVMShift
  BY <1>4 DEF ispVMShift, Is, Return, loop, board, Ok, VME_INVALID_FILE
\* The loops.
<1>5. CASE REPEAT
  <2> DEFINE f == [kind |-> "REPEAT", left |-> Opcode.count, total |-> Opcode.count,
                   heap |-> FALSE, miss |-> {}]
  <2>1. /\ pc = "code" /\ pc' \in {"code", "return", "abort"} /\ ret' \in Int
        /\ UNCHANGED <<miss, reset>>
    BY <1>5 DEF REPEAT, Is, Return, Ok, VME_INVALID_FILE, board
  <2>2. stack' = stack \/ stack' = Append(stack, f)
    BY <1>5 DEF REPEAT
  <2>3. Frame(f) /\ f.miss = {}
    BY DEF Frame, Keys
  <2> HIDE DEF f
  <2>4. \A i \in 1 .. Len(stack') : stack'[i].miss \subseteq {"VUES"}
    BY <1>0, <2>2, <2>3, Pushed, StackIs
  <2> QED
    BY <2>1, <2>4
<1>6. CASE LCOUNT
  <2> DEFINE g == [kind |-> "LCOUNT", left |-> Opcode.count, total |-> Opcode.count,
                   heap |-> Has("HEAP_IN"), miss |-> miss]
  <2>1. /\ pc = "code" /\ pc' = pc /\ ret' \in Int
        /\ UNCHANGED <<miss, reset>>
    BY <1>6 DEF LCOUNT, Is, Ok, board
  <2>2. stack' = stack \/ stack' = Append(stack, g)
    BY <1>6 DEF LCOUNT
  <2>3. Frame(g) /\ g.miss = miss
    BY DEF Frame, Keys
  <2>4. g.miss \subseteq {"VUES"}
    BY <2>1, <2>3
  <2> HIDE DEF g
  <2>5. \A i \in 1 .. Len(stack') : stack'[i].miss \subseteq {"VUES"}
    <3>1. CASE stack' = stack
      BY <3>1
    <3>2. CASE stack' = Append(stack, g)
      <4>1. /\ Len(stack') = Len(stack) + 1 /\ stack'[Len(stack) + 1] = g
            /\ Len(stack) \in Nat
            /\ \A i \in 1 .. Len(stack) : stack'[i] = stack[i]
        BY <1>0, <2>3, <3>2, Pushed, StackIs
      <4> QED
        BY <2>4, <4>1
    <3> QED
      BY <2>2, <3>1, <3>2
  <2> QED
    BY <2>1, <2>5
<1>7. CASE RepeatAgain
  <2>1. stack # <<>> /\ stack' = Round /\ pc = "return" /\ UNCHANGED <<miss, reset>>
    BY <1>7 DEF RepeatAgain, InLoop, history, board
  <2>2. ret >= 0 /\ ret' = 0 /\ pc' = "code"
    BY <1>7 DEF RepeatAgain, MoreRounds, Ok
  <2>3. \A i \in 1 .. Len(stack') : stack'[i].miss \subseteq {"VUES"}
    BY <1>0, <2>1, OneLess
  <2> QED
    BY <2>1, <2>2, <2>3
<1>8. CASE CountAgain
  <2>1. /\ stack # <<>> /\ stack' = Round /\ miss' = Innermost.miss
        /\ pc = "return" /\ reset' = reset /\ ret' = 0 /\ pc' = "code"
    BY <1>8 DEF CountAgain, InLoop, NextPoll, board, Ok
  <2>2. /\ Len(stack) \in Nat \ {0}
        /\ \A i \in 1 .. Len(stack') : stack'[i].miss \subseteq {"VUES"}
    BY <1>0, <2>1, OneLess
  <2>3. miss' \subseteq {"VUES"}
    BY <2>1, <2>2 DEF Innermost
  <2> QED
    BY <2>1, <2>2, <2>3
<1>9. CASE RepeatEnds \/ CountEnds
  <2>1. /\ stack # <<>> /\ stack' = Outer /\ pc = "return"
        /\ ret' = ret /\ pc' = (IF ret = Ok THEN "code" ELSE "return")
        /\ UNCHANGED <<miss, reset>>
    BY <1>9 DEF RepeatEnds, CountEnds, InLoop, GivenUp, Result, history, board
  <2>2. \A i \in 1 .. Len(stack') : stack'[i].miss \subseteq {"VUES"}
    BY <1>0, <2>1, Popped
  <2> QED
    BY <2>1, <2>2 DEF Ok
\* The end.
<1>10. CASE main
  BY <1>10 DEF main, play, loop, history, Ok
<1>11. CASE ispVMEnd
  BY <1>11 DEF ispVMEnd, loop, history
<1>12. CASE Open \/ hardware_init \/ CheckVersion \/ ispVMStart
  BY <1>12 DEF Open, hardware_init, CheckVersion, ispVMStart, play, loop, history, board,
               Ok, VME_FILE_READ_FAILURE, VME_VERSION_FAILURE, VME_INVALID_FILE
\* Opcodes that change neither loop nor result, and those that may fail.
<1>13. CASE State \/ TCK \/ ENDDR \/ ENDIR \/ MEM \/ VENDOR \/ SETFLOW \/ RESETFLOW
            \/ SHR \/ VUES \/ Skipped \/ ispVMProcessLVDS
  BY <1>13 DEF State, TCK, ENDDR, ENDIR, MEM, VENDOR, SETFLOW, RESETFLOW, SHR, VUES,
               Skipped, ispVMProcessLVDS, control, loop, history, board
<1>14. CASE ispVMAmble \/ Invalid \/ HEAP \/ EndCode
  <2>1. /\ pc = "code" /\ pc' \in {"code", "return"} /\ UNCHANGED <<stack, miss, reset>>
    BY <1>14 DEF ispVMAmble, Invalid, HEAP, EndCode, Is, Result, Return, loop, history, board
  <2>2. ret' \in Int
    BY <1>14 DEF ispVMAmble, Invalid, HEAP, EndCode, Result, Return, Ok, VME_INVALID_FILE,
                 SECUREHEAP
  <2> QED
    BY <2>1, <2>2
<1>15. CASE Send \/ ispVMReadandSave \/ SendBack
  <2>1. /\ pc \in {"data", "back"} /\ pc' \in {"leave", "back"}
        /\ UNCHANGED <<stack, ret, miss, reset>>
    BY <1>15 DEF Send, ispVMReadandSave, SendBack, loop, history, board
  <2> QED
    BY <2>1
<1>16. CASE ispVMDataSize
  BY <1>16 DEF ispVMDataSize, Is, loop, history, board
<1>17. CASE Gone \/ UNCHANGED vars
  BY <1>17 DEF Gone, vars, control, loop, history, board
<1> QED
  BY <1>1, <1>2, <1>3, <1>4, <1>5, <1>6, <1>7, <1>8, <1>9, <1>10, <1>11, <1>12, <1>13,
     <1>14, <1>15, <1>16, <1>17 DEF Next, Play

LEMMA InitMiss == Init => MissInv
<1>1. Init => ret \in Int /\ miss = {} /\ reset = 0 /\ Len(stack) = 0
  BY EmptySeq DEF Init, Ok
<1> QED
  BY <1>1 DEF MissInv

\* A comparison may fail inside a poll that is repeated, inside a loop, in a read that
\* is retried: the FPGA is reset into the new image only when every failure was made
\* good by a later round, but for the comparisons that VUES asks for, of which the file
\* says that the session is to go on when they fail; for every file and whatever the
\* devices answer (ispVMShift, ispVMLoop and ispVMLCOUNT of ispvm.c, main of load_fpga.c).
THEOREM ResetOnlyIfVerified == Spec => []NothingMissed
<1>1. MissInv => NothingMissed
  BY DEF MissInv, NothingMissed
<1> QED
  BY <1>1, InitLoops, InitMiss, LoopStep, MissStep, PTL DEF Spec
-----------------------------------------------------------------------------
(* The end of the file.                                                    *)

\* What a file must be for its end to be told: ENDVME is its last opcode, and the
\* numbers of opcodes in it are numbers.
Complete(code) ==
    /\ code \in Seq(ToSet(code))
    /\ \A i \in 1 .. Len(code) :
         code[i].op # "?" /\ (code[i].op = "ENDVME" => i = Len(code))
    /\ \A i \in 1 .. Len(code) : code[i].op \in {"HEAP", "LCOUNT"} => code[i].size \in Nat

\* What is read of a file was stored, ENDVME at its end only.
OnlyLast(s) == \A i \in 1 .. Len(s) : s[i].op # "?" /\ (s[i].op = "ENDVME" => i = Len(s))
OpsInv == \A t \in Ops : t.op \in {"HEAP", "LCOUNT"} => t.size \in Nat
FileInv == file \in Seq(Ops) /\ OnlyLast(file)
LoopData ==
    /\ heap \in Seq(Ops) /\ intel \in Seq(Ops)
    /\ g_iHeapCounter \in Nat /\ g_usIntelDataIndex \in Nat
DataInv == OpsInv /\ FileInv /\ LoopData

\* A file at the start.
LEMMA InitData == ASSUME \A im \in Images : Complete(im.code) PROVE Init => DataInv
<1> SUFFICES ASSUME Init PROVE DataInv
  OBVIOUS
<1>1. Complete(image.code) /\ file = image.code
  BY DEF Init
<1>2. image.code \in Seq(ToSet(image.code))
  BY <1>1 DEF Complete
<1>3. OpsInv
  <2> SUFFICES ASSUME NEW t \in Ops, t.op \in {"HEAP", "LCOUNT"} PROVE t.size \in Nat
    BY DEF OpsInv
  <2>1. t # End /\ t # Unset
    BY DEF End, Unset
  <2>2. PICK i \in DOMAIN image.code : t = image.code[i]
    BY <2>1 DEF Ops, ToSet
  <2>3. i \in 1 .. Len(image.code)
    BY <1>2, <2>2, LenProperties
  <2> QED
    BY <1>1, <2>2, <2>3 DEF Complete
<1>4. ToSet(image.code) \subseteq Ops
  BY DEF Ops
<1>5. FileInv
  <2>1. file \in Seq(Ops)
    BY <1>1, <1>2, <1>4, SeqMonotonic
  <2> QED
    BY <1>1, <2>1 DEF FileInv, OnlyLast, Complete
<1>6. LoopData
  BY EmptySeq DEF LoopData, Init
<1> QED
  BY <1>3, <1>5, <1>6 DEF DataInv

LEMMA AheadIsOp == ASSUME DataInv, NEW n \in Nat \ {0} PROVE Ahead(n) \in Ops
<1>1. End \in Ops /\ Unset \in Ops
  BY DEF Ops
<1>2. \A s \in Seq(Ops), i \in Nat \ {0}, past \in Ops : At(s, i, past) \in Ops
  <2> TAKE s \in Seq(Ops), i \in Nat \ {0}, past \in Ops
  <2>1. Len(s) \in Nat
    BY LenProperties
  <2>2. i <= Len(s) => s[i] \in Ops
    <3>1. i <= Len(s) => i \in 1 .. Len(s)
      BY <2>1
    <3> QED
      BY <3>1, ElementOfSeq
  <2> QED
    BY <2>2 DEF At
<1>3. g_iHeapCounter + n \in Nat \ {0} /\ g_usIntelDataIndex + n \in Nat \ {0}
  BY DEF DataInv, LoopData
<1>4. At(file, n, End) \in Ops /\ At(intel, g_usIntelDataIndex + n, End) \in Ops
  BY <1>1, <1>2, <1>3 DEF DataInv, FileInv, LoopData
<1>5. At(heap, g_iHeapCounter + n,
         IF g_iHeapCounter + n > Len(heap) + 1 THEN End ELSE Unset) \in Ops
  BY <1>1, <1>2, <1>3 DEF DataInv, LoopData
<1> QED
  BY <1>4, <1>5 DEF Ahead

\* What is left of a file.
LEMMA Remains ==
    ASSUME FileInv, NEW m \in Nat \ {0}
    PROVE  LET s == SubSeq(file, m, Len(file)) IN s \in Seq(Ops) /\ OnlyLast(s)
<1>1. Len(file) \in Nat /\ \A i \in 1 .. Len(file) : file[i] \in Ops
  BY LenProperties, ElementOfSeq DEF FileInv
<1>2. \A i \in m .. Len(file) : file[i] \in Ops
  BY <1>1
<1> DEFINE s == SubSeq(file, m, Len(file))
<1>3. /\ s \in Seq(Ops)
      /\ Len(s) = IF m <= Len(file) THEN Len(file) - m + 1 ELSE 0
      /\ \A i \in 1 .. Len(file) - m + 1 : s[i] = file[m + i - 1]
  BY <1>1, <1>2, SubSeqProperties
<1> HIDE DEF s
<1>4. ASSUME NEW i \in 1 .. Len(s)
      PROVE  s[i].op # "?" /\ (s[i].op = "ENDVME" => i = Len(s))
  <2>1. m <= Len(file) /\ Len(s) = Len(file) - m + 1 /\ i \in 1 .. Len(file) - m + 1
    BY <1>1, <1>3, <1>4
  <2>2. s[i] = file[m + i - 1] /\ m + i - 1 \in 1 .. Len(file)
    BY <1>1, <1>3, <2>1
  <2>3. s[i].op # "?" /\ (s[i].op = "ENDVME" => m + i - 1 = Len(file))
    BY <2>2 DEF FileInv, OnlyLast
  <2> QED
    BY <1>1, <2>1, <2>3
<1>5. OnlyLast(s)
  BY <1>4 DEF OnlyLast
<1> QED
  BY <1>3, <1>5 DEF s

\* Where the sources are after an opcode and n more of it.
LEMMA Passed ==
    ASSUME DataInv, NEW n \in Nat
    PROVE  /\ InFile(n) \in Seq(Ops) /\ OnlyLast(InFile(n))
           /\ InHeap(n) \in Nat /\ InIntel(n) \in Nat
<1>1. InFile(n) = file \/ InFile(n) = SubSeq(file, n + 2, Len(file))
  BY DEF InFile
<1>2. SubSeq(file, n + 2, Len(file)) \in Seq(Ops) /\ OnlyLast(SubSeq(file, n + 2, Len(file)))
  <2>1. n + 2 \in Nat \ {0} /\ FileInv
    BY DEF DataInv
  <2> QED
    BY <2>1, Remains
<1>3. InHeap(n) \in Nat /\ InIntel(n) \in Nat
  BY DEF DataInv, LoopData, InHeap, InIntel
<1> QED
  BY <1>1, <1>2, <1>3, Zenon DEF DataInv, FileInv

\* The opcodes that a loop takes.
LEMMA BodyIsOps == ASSUME DataInv, NEW n \in Nat PROVE Body(n) \in Seq(Ops)
<1>1. \A i \in 1 .. n : Ahead(1 + i) \in Ops
  <2> TAKE i \in 1 .. n
  <2>1. 1 + i \in Nat \ {0}
    OBVIOUS
  <2> QED
    BY <2>1, AheadIsOp
<1>2. Body(n) \in [1 .. n -> Ops]
  BY <1>1 DEF Body
<1> QED
  BY <1>2

LEMMA CommandsAreOps == ASSUME DataInv, NEW n \in Nat PROVE Commands(n) \in Seq(Ops)
<1> DEFINE s == [i \in 1 .. n |-> IF g_usIntelDataIndex + 1 + i > n THEN End ELSE Unset]
<1>1. s \in [1 .. n -> Ops]
  BY DEF Ops
<1>2. s \in Seq(Ops)
  BY <1>1
<1> QED
  BY <1>2, BodyIsOps DEF Commands

LEMMA DataRead ==
    ASSUME DataInv, Consumed(0), UNCHANGED <<image, heap, intel>>
    PROVE  DataInv'
<1>1. Ops' = Ops
  BY DEF Ops
<1>2. FileInv'
  BY <1>1, Passed DEF Consumed, FileInv, OnlyLast
<1>3. LoopData'
  BY <1>1, Passed DEF DataInv, LoopData, Consumed
<1> QED
  BY <1>1, <1>2, <1>3 DEF DataInv, OpsInv
LEMMA DataStep == DataInv /\ [Next]_vars => DataInv'
<1> SUFFICES ASSUME DataInv, [Next]_vars
             PROVE  DataInv'
  OBVIOUS
<1>1. ASSUME UNCHANGED <<image, sources>> PROVE DataInv'
  BY <1>1 DEF DataInv, OpsInv, FileInv, LoopData, Ops, sources
<1>2. ASSUME Read, UNCHANGED image PROVE DataInv'
  BY <1>2, DataRead DEF Read
<1>3. ASSUME UNCHANGED image, FileInv', LoopData' PROVE DataInv'
  BY <1>3 DEF DataInv, OpsInv, Ops
<1>4. ASSUME UNCHANGED image PROVE Ops' = Ops
  BY <1>4 DEF Ops
<1>6. Opcode \in Ops
  BY AheadIsOp DEF Opcode
\* A scan may take its data from the file while its opcode is in the loop.
<1>7. CASE ispVMShift
  <2>1. UNCHANGED <<image, heap, intel>> /\ Variable(Opcode)
    BY <1>7 DEF ispVMShift
  <2>2. CASE Consumed(0)
    BY <2>1, <2>2, DataRead
  <2>3. CASE /\ file' = file \/ file' = SubSeq(file, 2, Len(file))
             /\ g_iHeapCounter' = g_iHeapCounter + 1
             /\ g_usIntelDataIndex' \in {g_usIntelDataIndex, g_usIntelDataIndex + 1}
    <3>1. FileInv'
      <4>1. file' \in Seq(Ops) /\ OnlyLast(file')
        <5>1. SubSeq(file, 2, Len(file)) \in Seq(Ops)
              /\ OnlyLast(SubSeq(file, 2, Len(file)))
          <6>1. 2 \in Nat \ {0} /\ FileInv
            BY DEF DataInv
          <6> QED
            BY <6>1, Remains
        <5>2. CASE file' = file
          BY <5>2 DEF DataInv, FileInv, OnlyLast
        <5>3. CASE file' = SubSeq(file, 2, Len(file))
          BY <5>1, <5>3, Zenon
        <5> QED
          BY <2>3, <5>2, <5>3
      <4> QED
        BY <1>4, <2>1, <4>1 DEF FileInv
    <3>2. LoopData'
      BY <1>4, <2>1, <2>3 DEF DataInv, LoopData
    <3> QED
      BY <1>3, <2>1, <3>1, <3>2
  <2> QED
    BY <2>1, <2>2, <2>3 DEF Variable
<1>8. CASE HEAP
  <2>1. UNCHANGED <<image, intel>> /\ Consumed(0) /\ Opcode.op = "HEAP"
    BY <1>8 DEF HEAP, Is
  <2>2. heap' = heap \/ heap' = [i \in 1 .. Opcode.size |-> Unset]
    BY <1>8 DEF HEAP
  <2>3. Opcode.size \in Nat
    BY <1>6, <2>1 DEF DataInv, OpsInv
  <2>4. heap' \in Seq(Ops)
    <3>1. [i \in 1 .. Opcode.size |-> Unset] \in [1 .. Opcode.size -> Ops]
      BY DEF Ops
    <3>2. [i \in 1 .. Opcode.size |-> Unset] \in Seq(Ops)
      BY <2>3, <3>1
    <3> QED
      BY <2>2, <3>2 DEF DataInv, LoopData
  <2>5. FileInv'
    BY <1>4, <2>1, Passed DEF Consumed, FileInv, OnlyLast
  <2>6. LoopData'
    BY <1>4, <2>1, <2>4, Passed DEF DataInv, LoopData, Consumed
  <2> QED
    BY <1>3, <2>1, <2>5, <2>6
<1>9. CASE REPEAT
  <2>1. /\ UNCHANGED <<image, intel>>
        /\ file' = InFile(Len(heap)) /\ heap' = Body(Len(heap))
        /\ g_usIntelDataIndex' = InIntel(Len(heap))
        /\ g_iHeapCounter' = InHeap(Len(heap)) \/ g_iHeapCounter' = 0
    BY <1>9 DEF REPEAT
  <2>2. Len(heap) \in Nat
    BY LenProperties DEF DataInv, LoopData
  <2>3. FileInv'
    BY <1>4, <2>1, <2>2, Passed DEF FileInv, OnlyLast
  <2>4. heap' \in Seq(Ops)
    BY <2>1, <2>2, BodyIsOps
  <2>5. g_iHeapCounter' \in Nat /\ g_usIntelDataIndex' \in Nat
    <3>1. InHeap(Len(heap)) \in Nat /\ InIntel(Len(heap)) \in Nat
      BY <2>2, Passed
    <3> QED
      BY <2>1, <3>1
  <2>6. LoopData'
    BY <1>4, <2>1, <2>4, <2>5 DEF DataInv, LoopData
  <2> QED
    BY <1>3, <2>1, <2>3, <2>6
<1>10. CASE LCOUNT
  <2>1. UNCHANGED <<image, heap>> /\ intel' = Commands(Opcode.size) /\ Opcode.op = "LCOUNT"
    BY <1>10 DEF LCOUNT, Is
  <2>2. /\ file' = InFile(Opcode.size) /\ g_iHeapCounter' = InHeap(Opcode.size)
        /\ g_usIntelDataIndex' = InIntel(Opcode.size) \/ g_usIntelDataIndex' = 0
    BY <1>10 DEF LCOUNT
  <2>3. Opcode.size \in Nat
    BY <1>6, <2>1 DEF DataInv, OpsInv
  <2>4. FileInv'
    BY <1>4, <2>1, <2>2, <2>3, Passed DEF FileInv, OnlyLast
  <2>5. intel' \in Seq(Ops)
    BY <2>1, <2>3, CommandsAreOps
  <2>6. g_iHeapCounter' \in Nat /\ g_usIntelDataIndex' \in Nat
    <3>1. InHeap(Opcode.size) \in Nat /\ InIntel(Opcode.size) \in Nat
      BY <2>3, Passed
    <3> QED
      BY <2>2, <3>1
  <2>7. LoopData'
    BY <1>4, <2>1, <2>5, <2>6 DEF DataInv, LoopData
  <2> QED
    BY <1>3, <2>1, <2>4, <2>7
\* The next round begins with the first opcode.
<1>11. CASE RepeatAgain \/ CountAgain
  <2>1. /\ UNCHANGED <<image, file, heap, intel>>
        /\ g_iHeapCounter' \in {g_iHeapCounter, 0}
        /\ g_usIntelDataIndex' \in {g_usIntelDataIndex, 0}
    BY <1>11 DEF RepeatAgain, CountAgain
  <2>2. FileInv' /\ LoopData'
    BY <1>4, <2>1 DEF DataInv, FileInv, LoopData
  <2> QED
    BY <1>3, <2>1, <2>2
<1>12. CASE ispVMStart \/ State \/ TCK \/ ENDDR \/ ENDIR \/ ispVMAmble
  BY <1>2, <1>12 DEF ispVMStart, State, TCK, ENDDR, ENDIR, ispVMAmble
<1>13. CASE MEM \/ VENDOR \/ SETFLOW \/ RESETFLOW \/ SHR \/ VUES
  BY <1>2, <1>13 DEF MEM, VENDOR, SETFLOW, RESETFLOW, SHR, VUES
<1>14. CASE Skipped \/ ispVMProcessLVDS \/ Invalid \/ EndCode
  BY <1>2, <1>14 DEF Skipped, ispVMProcessLVDS, Invalid, EndCode
<1>15. CASE Open \/ hardware_init \/ CheckVersion \/ main
  BY <1>1, <1>15 DEF Open, hardware_init, CheckVersion, main, play
<1>16. CASE Send \/ ispVMRead \/ Retry \/ ispVMReadandSave \/ SendBack \/ LeaveShift
            \/ ispVMDataSize
  BY <1>1, <1>16 DEF Send, ispVMRead, Retry, ispVMReadandSave, SendBack, LeaveShift,
                     ispVMDataSize
<1>17. CASE RepeatEnds \/ CountEnds \/ ispVMEnd \/ Gone \/ UNCHANGED vars
  BY <1>1, <1>17 DEF RepeatEnds, CountEnds, ispVMEnd, Gone, vars
<1> QED
  BY <1>7, <1>8, <1>9, <1>10, <1>11, <1>12, <1>13, <1>14, <1>15, <1>16, <1>17
     DEF Next, Play

\* A player on its way out with a result of 0 has played the file to its end, unless an
\* ENDLOOP outside of the loops ended it.
EndInv ==
    "ended" \notin lapses =>
       /\ ret = Ok /\ (pc = "exit" \/ (pc = "return" /\ stack = <<>>)) => file = <<>>
       /\ reset # 0 => file = <<>>

LEMMA EndStep ==
    LoopInv /\ MissInv /\ DataInv /\ EndInv /\ [Next]_vars => EndInv'
<1> SUFFICES ASSUME LoopInv, MissInv, DataInv, EndInv, [Next]_vars
             PROVE  EndInv'
  OBVIOUS
<1>1. pc # "done" => reset = 0
  BY DEF MissInv
\* The steps that stay inside, or that leave with a result that is not 0.
<1>2. ASSUME pc # "done", UNCHANGED reset,
             pc' \notin {"return", "exit"} \/ (pc' \in {"return", "exit"} /\ ret' # Ok)
      PROVE  EndInv'
  BY <1>1, <1>2 DEF EndInv
\* The end of a file or of a round.
<1>3. CASE EndCode
  <2>1. /\ pc = "code" /\ Opcode.op \in {"ENDLOOP", "ENDVME", "?"} /\ Consumed(0)
        /\ pc' = "return" /\ UNCHANGED <<stack, reset>>
        /\ Opcode.op = "ENDLOOP" /\ stack = <<>> => "ended" \in lapses'
    BY <1>3 DEF EndCode, Is, Read, Return, loop, board
  <2>2. ASSUME stack = <<>>, "ended" \notin lapses' PROVE file' = <<>>
    <3>1. Opcode = At(file, 1, End) /\ file' = SubSeq(file, 2, Len(file))
      <4>1. g_usDataType = {}
        BY <2>2, NoFlag
      <4>2. ~Has("HEAP_IN") /\ ~Has("LHEAP_IN")
        BY <4>1 DEF Has
      <4>3. Opcode = At(file, 1, End)
        BY <4>2 DEF Opcode, Ahead
      <4>4. file' = SubSeq(file, 0 + 2, Len(file))
        BY <2>1, <4>2 DEF Consumed, InFile
      <4> QED
        BY <4>3, <4>4
    <3>2. Len(file) \in Nat
      BY LenProperties DEF DataInv, FileInv
    <3>3. 1 <= Len(file) => 1 \in 1 .. Len(file) /\ Opcode = file[1]
      BY <3>1, <3>2 DEF At
    <3>4. 1 <= Len(file) /\ file[1].op = "ENDVME"
      <4>1. Len(file) < 1 => Opcode = End
        BY <3>1, <3>2 DEF At
      <4>2. Opcode.op \in {"ENDVME", "?"}
        BY <2>1, <2>2
      <4>3. 1 <= Len(file)
        BY <3>2, <4>1, <4>2 DEF End
      <4>4. file[1].op # "?"
        BY <3>3, <4>3 DEF DataInv, FileInv, OnlyLast
      <4> QED
        BY <3>3, <4>2, <4>3, <4>4
    <3>5. Len(file) = 1
      <4>1. \A i \in 1 .. Len(file) : file[i].op = "ENDVME" => i = Len(file)
        BY DEF DataInv, FileInv, OnlyLast
      <4>2. 1 \in 1 .. Len(file)
        BY <3>2, <3>4
      <4> QED
        BY <3>4, <4>1, <4>2
    <3>6. SubSeq(file, 2, 1) = <<>>
      BY SubSeqEmpty
    <3> QED
      BY <3>1, <3>5, <3>6
  <2>3. reset' = 0
    BY <1>1, <2>1
  <2>4. stack' = <<>> /\ "ended" \notin lapses' => file' = <<>>
    BY <2>1, <2>2
  <2> QED
    BY <2>1, <2>3, <2>4 DEF EndInv
<1>4. CASE ispVMEnd
  BY <1>4 DEF ispVMEnd, EndInv, sources, loop, history
<1>5. CASE main
  BY <1>5 DEF main, EndInv, play, sources, history
\* The loops go on with an opcode unless a result tells them not to.
<1>6. CASE RepeatEnds \/ CountEnds
  <2>1. /\ pc = "return" /\ UNCHANGED <<ret, reset>>
        /\ pc' = IF ret = Ok THEN "code" ELSE "return"
    BY <1>6 DEF RepeatEnds, CountEnds, InLoop, GivenUp, Result, board
  <2> QED
    BY <1>2, <2>1
<1>7. CASE RepeatAgain \/ CountAgain
  <2>1. pc = "return" /\ pc' = "code" /\ UNCHANGED reset
    BY <1>7 DEF RepeatAgain, CountAgain, InLoop, board
  <2> QED
    BY <1>2, <2>1
<1>8. CASE REPEAT \/ LCOUNT
  <2>1. /\ pc = "code" /\ UNCHANGED reset
        /\ pc' \in {"code", "abort"} \/ (pc' = "return" /\ ret' = VME_INVALID_FILE)
    BY <1>8 DEF REPEAT, LCOUNT, Is, Return, board
  <2> QED
    BY <1>2, <2>1 DEF Ok, VME_INVALID_FILE
<1>9. CASE HEAP \/ Invalid \/ ispVMShift
  <2>1. /\ pc = "code" /\ UNCHANGED reset
        /\ pc' \in {"code", "data"} \/ (pc' = "return" /\ ret' = VME_INVALID_FILE)
    BY <1>9 DEF HEAP, Invalid, ispVMShift, Is, Return, board
  <2> QED
    BY <1>2, <2>1 DEF Ok, VME_INVALID_FILE
<1>10. CASE ispVMAmble
  <2>1. /\ pc = "code" /\ UNCHANGED reset
        /\ pc' = (IF ret' = Ok THEN "code" ELSE "return")
    BY <1>10 DEF ispVMAmble, Is, Result, board
  <2> QED
    BY <1>2, <2>1
<1>11. CASE LeaveShift
  <2>1. /\ pc = "leave" /\ UNCHANGED reset
        /\ pc' = (IF ret' = Ok THEN "code" ELSE "return")
    BY <1>11 DEF LeaveShift, Result, board
  <2> QED
    BY <1>2, <2>1
<1>12. CASE Open
  <2>1. /\ pc = "open" /\ UNCHANGED reset
        /\ pc' \in {"abort", "spin", "init"} \/ (pc' = "exit" /\ ret' = VME_FILE_READ_FAILURE)
    BY <1>12 DEF Open, board
  <2> QED
    BY <1>2, <2>1 DEF Ok, VME_FILE_READ_FAILURE
<1>13. CASE hardware_init \/ CheckVersion \/ ispVMStart
  <2>1. /\ pc \in {"init", "version", "start"} /\ UNCHANGED reset
        /\ \/ pc' \in {"abort", "version", "start", "code"}
           \/ pc' \in {"exit", "return"} /\ ret' \in {VME_VERSION_FAILURE, VME_INVALID_FILE}
    BY <1>13 DEF hardware_init, CheckVersion, ispVMStart, board
  <2> QED
    BY <1>2, <2>1 DEF Ok, VME_VERSION_FAILURE, VME_INVALID_FILE
<1>14. CASE Send \/ ispVMRead \/ Retry \/ ispVMReadandSave \/ SendBack \/ ispVMDataSize
  <2>1. /\ pc \in {"code", "data", "retry", "back"} /\ UNCHANGED reset
        /\ pc' \in {"leave", "retry", "back", "spin"}
    BY <1>14 DEF Send, ispVMRead, Retry, ispVMReadandSave, SendBack, ispVMDataSize, Is, board
  <2> QED
    BY <1>2, <2>1
<1>15. CASE State \/ TCK \/ ENDDR \/ ENDIR \/ MEM \/ VENDOR \/ SETFLOW \/ RESETFLOW
            \/ SHR \/ VUES \/ Skipped \/ ispVMProcessLVDS
  <2>1. pc = "code" /\ pc' = pc /\ UNCHANGED reset
    BY <1>15 DEF State, TCK, ENDDR, ENDIR, MEM, VENDOR, SETFLOW, RESETFLOW, SHR, VUES,
                 Skipped, ispVMProcessLVDS, Is, control, board
  <2> QED
    BY <1>2, <2>1
<1>16. CASE Gone \/ UNCHANGED vars
  BY <1>16 DEF Gone, vars, EndInv, sources, control, loop, board, history
<1> QED
  BY <1>3, <1>4, <1>5, <1>6, <1>7, <1>8, <1>9, <1>10, <1>11, <1>12, <1>13, <1>14, <1>15,
     <1>16 DEF Next, Play

\* A file may be cut short by loops that hold fewer opcodes than they tell, by calls
\* that return early and by the ends of rounds: the FPGA is reset only after all of it
\* was played and every comparison held in the end, but for those that VUES asks for;
\* for every file that has its ENDVME at its end only, unless an ENDLOOP outside of its
\* loops ended it, the one way besides to end ispVMCode with a result of 0 (ispVMCode of
\* ispvm.c, main of load_fpga.c).
THEOREM ResetOnlyIfPlayed ==
    ASSUME \A im \in Images : Complete(im.code)
    PROVE  Spec => []Programmed
<1>1. Init => DataInv
  BY InitData
<1>2. Init => EndInv
  BY DEF Init, EndInv
<1>3. MissInv /\ EndInv => Programmed
  <2>1. MissInv => NothingMissed
    BY DEF MissInv, NothingMissed
  <2>2. EndInv => WholeFile
    BY DEF EndInv, WholeFile
  <2> QED
    BY <2>1, <2>2 DEF Programmed
<1> QED
  BY <1>1, <1>2, <1>3, InitLoops, InitMiss, LoopStep, MissStep, DataStep, EndStep, PTL
     DEF Spec
=============================================================================

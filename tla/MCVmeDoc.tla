------------------------------ MODULE MCVmeDoc ------------------------------
(* TLC instance of the JTAG player for what the comment of                 *)
(* ispVMStateMachine says of it, with files that end in every way.         *)
EXTENDS VmePlayer

Op(op) == [op |-> op]
Verify ==
    [op |-> "SDR", rows |-> <<"TDI", "TDO">>, size |-> 16, sound |-> TRUE, var |-> FALSE]
Setup == <<Op("MARK"), [op |-> "MEM", size |-> 16]>>
Cascade == <<[op |-> "STATE", to |-> "DRPAUSE"], [op |-> "SETFLOW", flags |-> {"CASCADE"}]>>

Image(code) == [kind |-> "vme", code |-> Setup \o code, step |-> 8]
Files ==
    {Image(<<Verify, Op("ENDVME")>>),
     Image(<<[Verify EXCEPT !.sound = FALSE], Op("ENDVME")>>),
     Image(Cascade \o <<Verify, Verify, Op("ENDVME")>>)}

\* "If the next state is TLR, the JTAG state machine is brute forced into TLR by
\* driving TMS high and pulse TCK 6 times" (src/src/ispvm.c:2129-2131), which is
\* what ispVMEnd asks for, whatever state the session ended in.
EndResets == [][ispVMEnd => port'.tap = {"TestLogicReset"}]_vars
=============================================================================

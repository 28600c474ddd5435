----------------------------- MODULE MCVmePlayer ----------------------------
(* TLC instance of the JTAG player: the files are put together from the      *)
(* settings of a chain and the pieces a VME file is made of.                 *)
EXTENDS VmePlayer

St(to) == [op |-> "STATE", to |-> to]
Ir == [op |-> "SIR", rows |-> <<"TDI">>, size |-> 8, sound |-> TRUE, var |-> FALSE]
Scan(rows) ==
    [op |-> "SDR", rows |-> rows, size |-> 16, sound |-> TRUE, var |-> FALSE]
Small(s) == [s EXCEPT !.size = 3]
Torn(s) == [s EXCEPT !.sound = FALSE]
Vary(s) == [s EXCEPT !.var = TRUE]
Express == [Scan(<<"TDI", "XTDO">>) EXCEPT !.op = "XSDR"]
Mem(n) == [op |-> "MEM", size |-> n]
Count(n, size) == [op |-> "LCOUNT", count |-> n, size |-> size]
Amble(op, n) == [op |-> op, size |-> n, sound |-> TRUE]
Op(op) == [op |-> op]
Flow(op, flag) == [op |-> op, flags |-> {flag}]
Tck(n) == [op |-> "TCK", n |-> n]
Verify == Scan(<<"TDI", "TDO", "MASK">>)

\* The devices around the one that is programmed, and the states after a scan.
Chains == {<<>>, <<Amble("HIR", 5), Amble("TIR", 8), Amble("HDR", 1), Amble("TDR", 2)>>}
Ends == {<<>>, <<[op |-> "ENDDR", to |-> "IDLE"], [op |-> "ENDIR", to |-> "IDLE"]>>}
Setup(v) ==
    {<<Op("MARK"), Op("HEADER"), [op |-> "VENDOR", vendor |-> v],
       Mem(16)>> \o c \o e : c \in Chains, e \in Ends}

Poll == <<Count(2, 5), St("DRPAUSE"), Op("WAIT"),
          Tck(2), Small(Scan(<<"TDI", "TDO">>)), Op("ENDLOOP")>>
Heap(n) == [op |-> "HEAP", secure |-> TRUE, size |-> n]
Repeat(n) == [op |-> "REPEAT", count |-> n]
Shift(op) == [op |-> op, step |-> 8]
Cascade(s) ==
    <<St("DRPAUSE"), Flow("SETFLOW", "CASCADE"), s, s, Flow("RESETFLOW", "CASCADE"), s>>
Pieces ==
    {<<Ir, St("IDLE"), Tck(3), Verify>>,
     <<Scan(<<"TDI">>), Express, Small(Express)>>,
     Cascade(Verify), Cascade(Scan(<<"TDI">>)),
     <<Scan(<<"TDI">>), Scan(<<"TDI", "DMASK">>), [op |-> "LVDS", size |-> 2]>>,
     <<Op("VUES"), Scan(<<"TDI", "TDO">>), Verify>>,
     <<Ir>> \o Poll \o <<Scan(<<"TDI", "TDO">>)>>,
     <<Count(0, 1), Op("ENDLOOP"), Ir, St("RESET")>>,
     <<Heap(4), Repeat(3), Shift("SHR"), Scan(<<"TDI">>), Ir, Op("ENDLOOP"),
       Repeat(2), Shift("SHL"), Scan(<<"TDI">>), Tck(1), Op("ENDLOOP")>>,
     <<Heap(8), Repeat(2)>> \o Poll \o <<Vary(Verify), Op("ENDLOOP"),
       Op("DATA"), Op("DATA")>>,
     <<Heap(3), Count(2, 9), Repeat(2), Shift("SHR"), Vary(Scan(<<"TDI">>)),
       Op("ENDLOOP"), Op("DATA"), Op("DATA"), St("DRPAUSE"),
       Small(Scan(<<"TDI", "TDO">>)), Op("ENDLOOP")>>,
     <<Heap(1), Repeat(0), Op("ENDLOOP")>>}

\* Files that end before ENDVME, or hold what no VME file does.
Unsound ==
    {<<Heap(2), Repeat(1), Ir, Ir, Op("ENDVME")>>,
     <<[op |-> "HEAP", secure |-> FALSE, size |-> 2], Op("ENDVME")>>,
     <<Repeat(2), Op("ENDVME")>>,
     <<Torn(Verify), Op("ENDVME")>>, <<Torn(Amble("HDR", 4)), Op("ENDVME")>>,
     <<Flow("SETFLOW", "CASCADE"), St("DRPAUSE"), Verify>>,
     <<St("DRPAUSE"), St("IRPAUSE"), St("DRPAUSE")>>,
     <<[op |-> "ENDDR", to |-> "IRPAUSE"], Verify, St("RESET"), Ir, Op("ENDVME")>>}

\* Files that tell several sizes: a smaller one, and a larger one.
Sizes ==
    {<<Verify, Mem(3), Small(Verify), Small(Scan(<<"TDI", "DMASK">>)), Small(Express)>>,
     <<Mem(3), Mem(40), [Verify EXCEPT !.size = 40]>>,
     <<Mem(3), Small(Verify), Mem(40), [Verify EXCEPT !.size = 40]>>}

\* Files whose loops are begun inside others of their kind, or that set up the
\* buffer of the loop they are in.
Nestings ==
    {<<Count(2, 5), Count(1, 4), Ir, Op("ENDLOOP"), Ir, Op("ENDLOOP")>>,
     <<Count(2, 4), Count(0, 1), Op("ENDLOOP"), Ir, Op("ENDLOOP")>>,
     <<Heap(4), Repeat(2), Repeat(1), Ir, Op("ENDLOOP"), Op("ENDLOOP")>>,
     <<Heap(3), Repeat(2), Heap(2), Ir, Op("ENDLOOP")>>,
     <<Heap(6), Repeat(2), Count(1, 4), Heap(1), Repeat(1), Op("ENDLOOP"),
       Op("ENDLOOP"), Op("ENDLOOP")>>,
     <<Heap(3), Count(2, 6), Repeat(1), Count(1, 1), Op("ENDLOOP"), Op("ENDLOOP"),
       Verify, Op("ENDLOOP")>>}

\* Files that end within a number, or the commands of a poll do; one that an
\* ENDLOOP ends early.
Cuts == {<<Op("CUT")>>, <<Verify, Op("CUT")>>, <<Count(2, 1), Op("CUT"), Op("ENDVME")>>}
Early == <<Verify, Op("ENDLOOP"), Ir, Op("ENDVME")>>

Image(kind, code) == [kind |-> kind, code |-> code, step |-> 8]
Files ==
    {Image("vme", s \o p \o q \o <<Op("ENDVME")>>) :
        s \in Setup("LATTICE") \cup Setup("XILINX"), p \in Pieces, q \in Pieces}
      \cup {Image("vme", s \o p) :
              s \in Setup("ALTERA"), p \in Unsound \cup Cuts \cup {Early}}
      \cup {Image("vme", s \o p \o <<Op("ENDVME")>>) :
              s \in Setup("LATTICE"), p \in Sizes \cup Nestings}
      \cup {Image(k, <<>>) : k \in {"missing", "unreadable", "empty", "version", "vme"}}
=============================================================================

------------------------------- MODULE Ts8820 -------------------------------
(***************************************************************************)
(* The functions of src/src/ts8820.c on the TS-8820 board, as main of      *)
(* src/src/ts8820ctl.c calls them.  One program runs at a time; it may be  *)
(* killed at any point, and the registers of the board are then as it left *)
(* them.  Each access of a register is one step, which is what Muxbus      *)
(* shows them to be; the ADC samples between any two.                      *)
(*                                                                         *)
(* A channel is a number from 0 to 15, a mask a set of channels, a sample  *)
(* the number of the scan it is from and the place of its channel in the   *)
(* order of the software.                                                  *)
(***************************************************************************)
EXTENDS Integers, SequencesExt

CONSTANTS
    Commands,       \* the options that are given
    MaxRuns,        \* how many programs run
    Chunk,          \* samples read at once, 64
    Block,          \* samples written at once, 0x800
    Limit,          \* samples kept before no more are read, 0x3800
    Ring,           \* slots for them, 0x8000
    Depth           \* samples that the FPGA keeps

ASSUME SizesAssumption ==
    /\ Chunk \in Nat \ {0} /\ Block \in Nat \ {0} /\ Limit \in Nat /\ Ring \in Nat
    /\ Block <= Limit /\ Limit + Chunk <= Ring + 1 /\ Ring % Block = 0

ASSUME CommandsAssumption ==
    Commands \subseteq
        [DO : BOOLEAN, lval : SUBSET Nat, sample : Nat, acquire : Nat,
         mask : SUBSET (0 .. 15), dac : Nat, mvolts : 0 .. 10000, pwm : Nat,
         duty : -1 .. 1000, hb : 0 .. 2, hbset : {"disable", "brake", "fwd", "rev"},
         hbduty : 0 .. 1000, write : {0, 2, 8}, bits : SUBSET Nat]

VARIABLES
    \* the board
    reg,            \* the bits set in the registers 2 and 8
    pwm,            \* the registers 0x10 ..
    dac,            \* the registers 0xa0 ..
    config, mode,   \* register 0x82: chips and channels; what the ADC does
    fifo, over,     \* the samples that were not read, and whether some are lost
    count,          \* history: samples taken since the reset
    \* the program
    opts, todo,     \* its options, the calls it has still to make
    pc, x, status,
    plan, goal, written, acquired, cyc, p, q, buf,
    out,            \* what adc_acq or adc_sam has put out
    runs,
    before          \* history: reg, pwm and dac when the program started

board == <<reg, pwm, dac>>
adc == <<config, mode, fifo, over, count>>
acq == <<plan, goal, written, acquired, cyc, p, q, buf, out>>
vars == <<board, adc, opts, todo, pc, x, status, acq, runs, before>>

Slots == 0 .. Ring - 1
Call == Head(todo)
Is(fn) == pc = "call" /\ Call.fn = fn

\* From the order of the schematic to that of the software.
hw2sw == <<0, 4, 8, 12, 2, 6, 10, 14, 1, 5, 9, 13, 3, 7, 11, 15>>
Sw(channels) == {hw2sw[c + 1] : c \in channels}
\* Channels in rising order.
Sorted(channels) ==
    LET upTo[c \in 0 .. 16] ==
            IF c = 0 THEN <<>>
            ELSE upTo[c - 1] \o (IF c - 1 \in channels THEN <<c - 1>> ELSE <<>>)
    IN  upTo[16]
InOrder(channels) == Sorted(Sw(channels))

-----------------------------------------------------------------------------
\* What main calls, in its order.

Opt(given, calls) == IF given THEN calls ELSE <<>>
\* Mutant: the direction is set before the motor is stopped.
Bug_Bridge(n, set, duty) ==
    CASE set = "disable" -> <<[fn |-> "hb_disable", n |-> n],
                              [fn |-> "pwm_set", n |-> n + 6, val |-> 0]>>
      [] set = "brake" -> <<[fn |-> "hb_set", n |-> n, dir |-> 0],
                            [fn |-> "pwm_set", n |-> n + 6, val |-> 0]>>
      [] set \in {"fwd", "rev"} ->
            <<[fn |-> "hb_set", n |-> n, dir |-> IF set = "fwd" THEN 0 ELSE 1],
              [fn |-> "pwm_set", n |-> n + 6, val |-> (duty * 4096) \div 1000]>>
Bridge(n, set, duty) ==
    CASE set = "disable" -> <<[fn |-> "hb_disable", n |-> n],
                              [fn |-> "pwm_set", n |-> n + 6, val |-> 0]>>
      [] set = "brake" -> <<[fn |-> "pwm_set", n |-> n + 6, val |-> 0],
                            [fn |-> "hb_set", n |-> n, dir |-> 0]>>
      [] set \in {"fwd", "rev"} ->
            <<[fn |-> "hb_set", n |-> n, dir |-> IF set = "fwd" THEN 0 ELSE 1],
              [fn |-> "pwm_set", n |-> n + 6, val |-> (duty * 4096) \div 1000]>>
Pwm(n, duty) ==
    IF duty < 0 THEN [fn |-> "pwm_disable", n |-> n]
    ELSE [fn |-> "pwm_set", n |-> n, val |-> (duty * 4096) \div 1000]
main(o) ==
    Opt(o.DO, <<[fn |-> "do_set", lval |-> o.lval]>>)
      \o Opt(o.sample > 0, <<[fn |-> "adc_sam", n |-> o.sample, mask |-> 0 .. 15]>>)
      \o Opt(o.acquire > 0, <<[fn |-> "adc_acq", n |-> o.acquire, mask |-> o.mask]>>)
      \o Opt(o.dac \in 1 .. 4, <<[fn |-> "dac_set", n |-> o.dac, val |-> o.mvolts]>>)
      \o Opt(o.pwm \in 1 .. 6, <<Pwm(o.pwm, o.duty)>>)
      \o Opt(o.hb # 0, Bridge(o.hb, o.hbset, o.hbduty))
      \o Opt(o.write # 0, <<[fn |-> "write", adr |-> o.write, val |-> o.bits]>>)

Init ==
    /\ reg = [a \in {2, 8} |-> {}]
    /\ pwm = [n \in 1 .. 8 |-> 0] /\ dac = [n \in 1 .. 4 |-> 0]
    /\ config = {} /\ mode = "stopped" /\ fifo = <<>> /\ over = FALSE /\ count = 0
    /\ opts \in Commands /\ todo = <<>> /\ pc = "idle" /\ x = {} /\ status = 0
    /\ plan = <<>> /\ goal = 0 /\ written = 0 /\ acquired = 0 /\ cyc = 0
    /\ p = 0 /\ q = 0 /\ buf = [s \in Slots |-> <<0, 0>>] /\ out = <<>>
    /\ runs = 0 /\ before = [reg |-> reg, pwm |-> pwm, dac |-> dac]

\* A program starts that finds its board.
Start ==
    /\ pc = "idle" /\ runs < MaxRuns
    /\ opts' \in Commands
    /\ todo' = main(opts') /\ todo' # <<>>
    /\ pc' = "call" /\ runs' = runs + 1
    /\ before' = [reg |-> reg, pwm |-> pwm, dac |-> dac]
    /\ UNCHANGED <<board, adc, x, status, acq>>

\* The program ends, or goes on with its next call.
Finish ==
    /\ todo' = Tail(todo)
    /\ pc' = IF Tail(todo) = <<>> THEN "done" ELSE "call"
Exit ==
    /\ pc = "done" /\ pc' = "idle"
    /\ UNCHANGED <<board, adc, opts, todo, x, status, acq, runs, before>>
Die ==
    /\ pc \notin {"idle", "done"}
    /\ pc' = "idle" /\ todo' = <<>>
    /\ UNCHANGED <<board, adc, opts, x, status, acq, runs, before>>

-----------------------------------------------------------------------------
\* The functions that read a register and write it, and the others.

Adr == IF Call.fn \in {"hb_set", "hb_disable"} THEN 2 ELSE 8
\* Mutant: the mask keeps six bits more than those of the outputs.
Bug_Changed ==
    CASE Call.fn = "do_set" -> Call.lval \cap 0 .. 5
      [] Call.fn = "pwm_set" -> x \cup {Call.n + 5}
      [] Call.fn \in {"pwm_disable", "hb_disable"} -> x \ {Call.n + 5}
      [] Call.fn = "hb_set" /\ Call.dir = 0 -> x \cup {Call.n + 5, Call.n + 3}
      [] Call.fn = "hb_set" /\ Call.dir = 1 -> (x \cup {Call.n + 5}) \ {Call.n + 3}
Changed ==
    CASE Call.fn = "do_set" -> (x \ (0 .. 5)) \cup (Call.lval \cap 0 .. 5)
      [] Call.fn = "pwm_set" -> x \cup {Call.n + 5}
      [] Call.fn \in {"pwm_disable", "hb_disable"} -> x \ {Call.n + 5}
      [] Call.fn = "hb_set" /\ Call.dir = 0 -> x \cup {Call.n + 5, Call.n + 3}
      [] Call.fn = "hb_set" /\ Call.dir = 1 -> (x \cup {Call.n + 5}) \ {Call.n + 3}

Peek ==
    /\ \/ pc = "peek"
       \/ pc = "call" /\ Call.fn \in {"do_set", "pwm_disable", "hb_set", "hb_disable"}
    /\ x' = reg[Adr] /\ pc' = "poke"
    /\ UNCHANGED <<board, adc, opts, todo, status, acq, runs, before>>
Poke ==
    /\ pc = "poke"
    /\ reg' = [reg EXCEPT ![Adr] = Changed]
    /\ Finish
    /\ UNCHANGED <<pwm, dac, adc, opts, x, status, acq, runs, before>>
Write ==
    /\ Is("write")
    /\ reg' = [reg EXCEPT ![Call.adr] = Call.val]
    /\ Finish
    /\ UNCHANGED <<pwm, dac, adc, opts, x, status, acq, runs, before>>

\* The outputs of PWM 7 and 8 are the H bridges, which have no override.
PwmSet ==
    /\ Is("pwm_set")
    /\ pwm' = [pwm EXCEPT ![Call.n] = Call.val % 2^13]
    /\ IF Call.n < 7 THEN pc' = "peek" /\ UNCHANGED todo ELSE Finish
    /\ UNCHANGED <<reg, dac, adc, opts, x, status, acq, runs, before>>

\* The code of a voltage, in a register of 16 bits, less the bit 0x8000 that is set
\* in all of them.
Code(mv) == ((mv * 4095) \div 10375) % 2^16
DacSet ==
    /\ Is("dac_set")
    /\ dac' = [dac EXCEPT ![Call.n] = Code(Call.val)]
    /\ Finish
    /\ UNCHANGED <<reg, pwm, adc, opts, x, status, acq, runs, before>>

-----------------------------------------------------------------------------
\* The ADC of the board: all chips sample the same channels, the second one if
\* it is enabled, and give them in the order of the software.

Channels(mask) ==
    LET eight == {c % 8 : c \in mask}
    IN  eight \cup (IF \E c \in mask : c >= 8 THEN {c + 8 : c \in eight} ELSE {})
SampleAt(channels, i) ==
    LET order == InOrder(channels)
    IN  <<i \div Len(order), order[(i % Len(order)) + 1]>>
Sample ==
    /\ mode = "sampling" /\ ~over /\ config # {}
    /\ IF Len(fifo) < Depth
       THEN /\ fifo' = Append(fifo, SampleAt(config, count))
            /\ count' = count + 1 /\ UNCHANGED over
       ELSE over' = TRUE /\ UNCHANGED <<fifo, count>>
    /\ UNCHANGED <<board, config, mode, opts, todo, pc, x, status, acq, runs, before>>

-----------------------------------------------------------------------------
\* ts8820_adc_acq.  The accesses of register 0x82 that stop the ADC are part of
\* the step that decides on them.

\* Which samples of a scan are wanted, in the order they come: m4.
\* Mutant: the order of the schematic is taken for that of the samples.
Bug_Wanted(mask) ==
    LET sampled == Sorted(Channels(mask))
    IN  [k \in 0 .. Len(sampled) - 1 |-> sampled[k + 1] \in mask]
Wanted(mask) ==
    LET sampled == InOrder(Channels(mask))
    IN  [k \in 0 .. Len(sampled) - 1 |-> sampled[k + 1] \in Sw(mask)]

AdcReset ==
    /\ Is("adc_acq") \/ Is("adc_sam")
    /\ config' = Channels(Call.mask)
    /\ mode' = "stopped" /\ fifo' = <<>> /\ over' = FALSE /\ count' = 0
    /\ pc' = "go" /\ UNCHANGED <<board, opts, todo, x, status, acq, runs, before>>
AdcStart ==
    /\ pc = "go"
    /\ mode' = "sampling"
    /\ plan' = Wanted(Call.mask) /\ goal' = Call.n * Cardinality(Call.mask)
    /\ written' = 0 /\ acquired' = 0 /\ cyc' = 0 /\ p' = 0 /\ q' = 0 /\ out' = <<>>
    /\ pc' = IF Call.fn = "adc_acq" THEN "loop" ELSE "sam"
    /\ UNCHANGED <<board, config, fifo, over, count, opts, todo, x, status, buf, runs,
                   before>>

\* An overflow ends the acquisition with what was acquired.
AcqStatus ==
    /\ pc = "loop" /\ written < goal
    /\ status' = Len(fifo)
    /\ IF over THEN mode' = "stopped" /\ goal' = acquired ELSE UNCHANGED <<mode, goal>>
    /\ pc' = "step"
    /\ UNCHANGED <<board, config, fifo, over, count, opts, todo, x, plan, written,
                   acquired, cyc, p, q, buf, out, runs, before>>

\* Mutant: samples are read until the ring is full, no room is left for a chunk.
Bug_Reads == status > Chunk /\ acquired - written < Ring /\ goal > acquired
Reads == status > Chunk /\ acquired - written < Limit /\ goal > acquired
\* The samples of a chunk that are kept, and the slots they go to.
Kept == {k \in 1 .. Chunk : plan[(cyc + k - 1) % Cardinality(DOMAIN plan)]}
Slot(k) == (q + Cardinality({j \in Kept : j < k})) % Ring
\* Mutant: the ADC is stopped when one more chunk would be enough.
Bug_Enough(n) == n + Chunk > goal
Enough(n) == n > goal
AcqRead ==
    /\ pc = "step" /\ Reads
    /\ acquired' = acquired + Cardinality(Kept)
    /\ q' = (q + Cardinality(Kept)) % Ring
    /\ buf' = [s \in Slots |-> IF \E k \in Kept : Slot(k) = s
                               THEN fifo[CHOOSE k \in Kept : Slot(k) = s] ELSE buf[s]]
    /\ cyc' = (cyc + Chunk) % Cardinality(DOMAIN plan)
    /\ fifo' = SubSeq(fifo, Chunk + 1, Len(fifo))
    /\ mode' = IF Enough(acquired') THEN "stopped" ELSE mode
    /\ pc' = "loop"
    /\ UNCHANGED <<board, config, over, count, opts, todo, x, status, plan, goal,
                   written, p, out, runs, before>>

\* n samples from p on, which do not go round the end of the ring.
Put(n) == out' = out \o [k \in 1 .. n |-> buf[p + k - 1]]
AcqBlock ==
    /\ pc = "step" /\ ~Reads /\ acquired - written >= Block
    /\ Put(Block)
    /\ p' = (p + Block) % Ring /\ written' = written + Block
    /\ pc' = "loop"
    /\ UNCHANGED <<board, adc, opts, todo, x, status, plan, goal, acquired, cyc, q, buf,
                   runs, before>>
AcqRest ==
    /\ pc = "step" /\ ~Reads /\ acquired - written < Block /\ acquired >= goal
    /\ Put(goal - written)
    /\ written' = goal
    /\ pc' = "loop"
    /\ UNCHANGED <<board, adc, opts, todo, x, status, plan, goal, acquired, cyc, p, q, buf,
                   runs, before>>
AcqSpin ==
    /\ pc = "step" /\ ~Reads /\ acquired - written < Block /\ acquired < goal
    /\ pc' = "loop"
    /\ UNCHANGED <<board, adc, opts, todo, x, status, acq, runs, before>>
AcqEnd ==
    /\ pc = "loop" /\ written >= goal
    /\ Finish
    /\ UNCHANGED <<board, adc, opts, x, status, acq, runs, before>>

-----------------------------------------------------------------------------
\* ts8820_adc_sam: n scans of all channels, out holds what was collected.

Ready == Min({Len(fifo), Chunk, Call.n * 16 - Len(out)})
SamRead ==
    /\ pc = "sam" /\ Len(out) < Call.n * 16 /\ ~over /\ Len(fifo) > 0
    /\ out' = out \o SubSeq(fifo, 1, Ready)
    /\ fifo' = SubSeq(fifo, Ready + 1, Len(fifo))
    /\ UNCHANGED <<board, config, mode, over, count, opts, todo, pc, x, status, plan,
                   goal, written, acquired, cyc, p, q, buf, runs, before>>
\* The rows that are printed, in the order of the schematic; what was not
\* collected is zero.
Printed ==
    [k \in 1 .. Call.n * 16 |->
        LET i == 16 * ((k - 1) \div 16) + hw2sw[((k - 1) % 16) + 1] + 1
        IN  IF i <= Len(out) THEN out[i] ELSE <<0, -1>>]
SamEnd ==
    /\ pc = "sam" /\ (Len(out) >= Call.n * 16 \/ over)
    /\ mode' = "stopped" /\ out' = Printed
    /\ Finish
    /\ UNCHANGED <<board, config, fifo, over, count, opts, x, status, plan, goal,
                   written, acquired, cyc, p, q, buf, runs, before>>

Go ==
    \/ Exit \/ Peek \/ Poke \/ Write \/ PwmSet \/ DacSet
    \/ AdcReset \/ AdcStart \/ AcqStatus \/ AcqRead \/ AcqBlock \/ AcqRest \/ AcqSpin \/ AcqEnd \/ SamRead \/ SamEnd
Next == Go \/ Start \/ Die \/ Sample

\* The program runs, the ADC samples at its pace; nobody has to start or to
\* kill a program.
Spec == Init /\ [][Next]_vars /\ WF_vars(Go) /\ WF_vars(Sample)

-----------------------------------------------------------------------------
\* Properties.

Acquiring == pc \in {"loop", "step"}
Asked == Call.n * Cardinality(Call.mask)

\* The ring of ts8820_adc_acq under its three conditions: what is not yet put
\* out fits, so that no sample is overwritten before; the two pointers, each of
\* which wraps on its own, are as far apart as the two counts, up to the last
\* samples, after which p stays; and no write runs past the end of the array.
RingKept ==
    Acquiring =>
        /\ written <= acquired /\ acquired - written <= Ring
        /\ pc = "step" \/ written < goal => q = (p + (acquired - written)) % Ring
        /\ p + Block <= Ring

\* Only channels active in the mask are put out (ts8820.h:31-32): all of them, in
\* the order of the software, from the first scan on, with no sample left out
\* or repeated; as many as were asked for and less than a chunk more, unless
\* samples are lost.  The rows of ts8820_adc_sam are in the order of the
\* schematic, and a zero stands for what was not collected.
OutputAsAsked ==
    /\ Acquiring =>
        /\ Len(out) = written
        /\ \A k \in 1 .. Len(out) : out[k] = SampleAt(Call.mask, k - 1)
        /\ written < Asked + Chunk
        /\ written >= goal => written >= Asked \/ over
    /\ pc = "done" /\ opts.sample > 0 /\ opts.acquire = 0 =>
        \A k \in DOMAIN out :
            \/ out[k] = <<(k - 1) \div 16, hw2sw[((k - 1) % 16) + 1]>>
            \/ over /\ out[k] = <<0, -1>>

\* What the options ask of the board that the program found: the outputs of
\* register 8 when they are set, the PWM overrides there after that, the H
\* bridges, and then a write that is given.
DoAsked ==
    IF opts.DO THEN (before.reg[8] \ (0 .. 5)) \cup (opts.lval \cap 0 .. 5)
    ELSE before.reg[8]
BitAsked(cond, b, given) == IF cond THEN given \cup {b} ELSE given \ {b}
Reg8Asked ==
    IF opts.pwm \in 1 .. 6 THEN BitAsked(opts.duty >= 0, opts.pwm + 5, DoAsked) ELSE DoAsked
Reg2Asked ==
    IF opts.hb = 0 THEN before.reg[2]
    ELSE IF opts.hbset = "disable" THEN before.reg[2] \ {opts.hb + 5}
    ELSE BitAsked(opts.hbset # "rev", opts.hb + 3, before.reg[2] \cup {opts.hb + 5})
DutyAsked(d) == (d * 4096) \div 1000
VoltsAsked(mv) == (mv * 4095) \div 10375
PwmAsked(n) ==
    IF n > 6
    THEN IF opts.hb # n - 6 THEN before.pwm[n]
         ELSE IF opts.hbset \in {"fwd", "rev"} THEN DutyAsked(opts.hbduty) ELSE 0
    ELSE IF n = opts.pwm /\ opts.duty >= 0 THEN DutyAsked(opts.duty) ELSE before.pwm[n]
Wish ==
    [reg |-> [a \in {2, 8} |-> IF opts.write = a THEN opts.bits
                               ELSE IF a = 2 THEN Reg2Asked ELSE Reg8Asked],
     pwm |-> [n \in 1 .. 8 |-> PwmAsked(n)],
     dac |-> [n \in 1 .. 4 |->
        IF n = opts.dac THEN VoltsAsked(opts.mvolts) ELSE before.dac[n]]]

\* Every bit is as it was then or as it is asked.
Between(now, then, asked) == now \subseteq then \cup asked /\ then \cap asked \subseteq now

\* A program leaves the outputs it was asked to set as asked and all others as
\* it found them: PWM overrides "should only be set by PWM functions"
\* (ts8820.c:305).  One that is killed leaves each as it was or as asked; a
\* register that is to be written in the end may have been set before.
CommandEffect ==
    /\ pc = "done" => reg = Wish.reg /\ pwm = Wish.pwm /\ dac = Wish.dac
    /\ \A a \in {2, 8} : opts.write # a => Between(reg[a], before.reg[a], Wish.reg[a])
    /\ \A n \in 1 .. 8 : pwm[n] \in {before.pwm[n], Wish.pwm[n]}
    /\ \A n \in 1 .. 4 : dac[n] \in {before.dac[n], Wish.dac[n]}

\* A brake does not reverse a motor that is driven: "Set direction after setting
\* PWM to prevent reversing direction on accident and straining the system"
\* (ts8820ctl.c:370-371).
BrakeStopsFirst ==
    [][\A n \in {1, 2} :
        opts.hb = n /\ opts.hbset = "brake" /\ pc # "idle"
            /\ (n + 3 \in reg[2]) # (n + 3 \in reg'[2])
        => pwm[n + 6] = 0]_vars

\* A program ends: neither loop waits for samples that the ADC no longer takes.
CallsEnd == pc # "idle" ~> pc = "idle"
=============================================================================

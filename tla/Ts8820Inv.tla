----------------------------- MODULE Ts8820Inv -----------------------------
(***************************************************************************)
(* The inductive invariants of ts8820ctl on its board: where the ring of   *)
(* ts8820_adc_acq is, and what the calls that are still to come leave to   *)
(* do on the board.                                                        *)
(***************************************************************************)
EXTENDS Ts8820

\* A place in the ring where a block starts.
Aligned(v) == \E k \in Nat : v = Block * k

AdcCalls == [fn : {"adc_acq", "adc_sam"}, n : Nat, mask : SUBSET (0 .. 15)]
OutputCalls ==
    [fn : {"do_set"}, lval : SUBSET Nat] \cup [fn : {"dac_set", "pwm_set"}, n : Nat, val : Int]
      \cup [fn : {"pwm_disable", "hb_disable"}, n : Nat]
      \cup [fn : {"hb_set"}, n : Nat, dir : {0, 1}]
      \cup [fn : {"write"}, adr : {2, 8}, val : SUBSET Nat]
Calls == AdcCalls \cup OutputCalls

\* What the counts and the calls are, and where the program may be.
TypeInv ==
    /\ todo \in Seq(Calls)
    /\ pc \in {"idle", "call", "peek", "poke", "go", "loop", "step", "sam", "done"}
    /\ pc \notin {"idle", "done"} => todo # <<>>
    /\ pc = "go" => Call \in AdcCalls
    /\ goal \in Int /\ written \in Int /\ acquired \in Int

\* The ring: p is at the start of a block, q as far from it as the counts say;
\* between the decision to go on and the step, what is written is not past goal,
\* without which the last samples would be put out from nowhere.
RingInv ==
    Acquiring =>
        /\ written <= acquired /\ acquired - written <= Ring
        /\ p \in 0 .. Ring - 1 /\ Aligned(p)
        /\ pc = "step" => written <= goal
        /\ pc = "step" \/ written < goal => q = (p + (acquired - written)) % Ring

IInv == TypeInv /\ RingInv

-----------------------------------------------------------------------------
\* The calls that the options ask for.
Asks(o, c) ==
    \/ o.DO /\ c = [fn |-> "do_set", lval |-> o.lval]
    \/ o.sample > 0 /\ c = [fn |-> "adc_sam", n |-> o.sample, mask |-> 0 .. 15]
    \/ o.acquire > 0 /\ c = [fn |-> "adc_acq", n |-> o.acquire, mask |-> o.mask]
    \/ o.dac \in 1 .. 4 /\ c = [fn |-> "dac_set", n |-> o.dac, val |-> o.mvolts]
    \/ o.pwm \in 1 .. 6 /\ c = Pwm(o.pwm, o.duty)
    \/ o.hb # 0 /\ \E i \in 1 .. 2 : c = Bridge(o.hb, o.hbset, o.hbduty)[i]
    \/ o.write # 0 /\ c = [fn |-> "write", adr |-> o.write, val |-> o.bits]

\* The place of a call in the order of main.  The PWM of a bridge is set before
\* its direction for a brake, and after it otherwise.
Stage(o, c) ==
    CASE c.fn = "do_set" -> 1
      [] c.fn = "adc_sam" -> 2
      [] c.fn = "adc_acq" -> 3
      [] c.fn = "dac_set" -> 4
      [] c.fn = "pwm_disable" \/ (c.fn = "pwm_set" /\ c.n < 7) -> 5
      [] c.fn = "pwm_set" /\ c.n >= 7 -> IF o.hbset = "brake" THEN 6 ELSE 7
      [] c.fn \in {"hb_set", "hb_disable"} -> IF o.hbset = "brake" THEN 7 ELSE 6
      [] c.fn = "write" -> 8

\* Calls that are asked for, in the order of main and none twice.
Orderly(o, s) ==
    /\ \A i \in DOMAIN s : Asks(o, s[i])
    /\ \A i, j \in DOMAIN s : i < j => Stage(o, s[i]) < Stage(o, s[j])
Stages(o, s) == {Stage(o, s[i]) : i \in DOMAIN s}

\* The call of a stage is still to be made, or is being made.
Pending(k) == k \in Stages(opts, todo)
BridgePwm == IF opts.hbset = "brake" THEN 6 ELSE 7
BridgeReg == 13 - BridgePwm

\* ts8820_pwm_set of an output has set the PWM, but not yet the override.
PwmIsSet == pc \in {"peek", "poke"} /\ Call.fn = "pwm_set"

\* Each part of the board is as the program found it until the call that sets it
\* has been made, and then as it is asked.
DacInv == dac = IF Pending(4) THEN before.dac ELSE Wish.dac
PwmInv ==
    \A n \in 1 .. 6 :
        pwm[n] = IF Pending(5) /\ ~PwmIsSet THEN before.pwm[n] ELSE PwmAsked(n)
BridgeInv ==
    \A n \in 7 .. 8 : pwm[n] = IF Pending(BridgePwm) THEN before.pwm[n] ELSE PwmAsked(n)
Reg8Inv ==
    reg[8] = IF opts.write = 8 /\ ~Pending(8) THEN opts.bits
             ELSE IF Pending(1) THEN before.reg[8]
             ELSE IF Pending(5) THEN DoAsked ELSE Reg8Asked
Reg2Inv ==
    reg[2] = IF opts.write = 2 /\ ~Pending(8) THEN opts.bits
             ELSE IF Pending(BridgeReg) THEN before.reg[2] ELSE Reg2Asked
EffectInv == DacInv /\ PwmInv /\ BridgeInv /\ Reg8Inv /\ Reg2Inv

\* The calls that set register 8 last have not been left out: once they are made,
\* all before them are.
RestInv ==
    /\ opts.pwm \in 1 .. 6 /\ ~Pending(5) => \A k \in 1 .. 5 : ~Pending(k)
    /\ opts.write # 0 /\ ~Pending(8) => \A k \in 1 .. 8 : ~Pending(k)

\* Where the program is in a call.
PlaceInv ==
    /\ pc = "peek" => Call.fn = "pwm_set" /\ Call.n < 7
    /\ pc = "poke" =>
           /\ Call.fn \in {"do_set", "pwm_disable", "hb_set", "hb_disable"}
                \/ (Call.fn = "pwm_set" /\ Call.n < 7)
           /\ x = reg[Adr]
    /\ pc \in {"go", "loop", "step", "sam"} => Call.fn \in {"adc_acq", "adc_sam"}
    /\ pc = "done" => todo = <<>>

\* The board is what its registers say.
BoardInv ==
    /\ opts \in Commands
    /\ reg = [a \in {2, 8} |-> reg[a]] /\ before.reg = [a \in {2, 8} |-> before.reg[a]]
    /\ pwm = [n \in 1 .. 8 |-> pwm[n]] /\ dac = [n \in 1 .. 4 |-> dac[n]]
    /\ before.dac = [n \in 1 .. 4 |-> before.dac[n]]

\* What a program that was killed leaves, and any other at any time.
KilledInv ==
    /\ \A a \in {2, 8} : opts.write # a => Between(reg[a], before.reg[a], Wish.reg[a])
    /\ \A n \in 1 .. 8 : pwm[n] \in {before.pwm[n], Wish.pwm[n]}
    /\ \A n \in 1 .. 4 : dac[n] \in {before.dac[n], Wish.dac[n]}

CommandInv ==
    /\ BoardInv /\ PlaceInv /\ KilledInv
    /\ pc # "idle" => Orderly(opts, todo) /\ RestInv /\ EffectInv

-----------------------------------------------------------------------------
\* What the ADC gives and what the software makes of it.

\* The samples read since the reset, and how many of the first n are wanted.
Taken == count - Len(fifo)
WantedOf(mask, n) ==
    Cardinality({i \in 0 .. n - 1 : Wanted(mask)[i % Len(InOrder(Channels(mask)))]})

\* What was not read yet is the end of what was sampled.
FifoInv ==
    /\ config \subseteq 0 .. 15 /\ count \in Nat /\ Len(fifo) \in Nat /\ Taken \in Nat
    /\ config = {} => count = 0
    /\ fifo = [i \in 1 .. Len(fifo) |-> SampleAt(config, Taken + i - 1)]

\* The counts follow from what was read, and the slots of the ring hold what was
\* not yet put out.
KeptInv ==
    /\ plan = Wanted(Call.mask)
    /\ config # {} => cyc = Taken % Len(InOrder(config))
    /\ acquired = WantedOf(Call.mask, Taken) /\ q = acquired % Ring
    /\ pc = "step" \/ written < goal => p = written % Ring
    /\ \A m \in written .. acquired - 1 : buf[m % Ring] = SampleAt(Call.mask, m)
PutInv == written \in Nat /\ out = [k \in 1 .. written |-> SampleAt(Call.mask, k - 1)]
GoalInv ==
    /\ acquired < Asked + Chunk
    /\ goal = Asked \/ (over /\ goal = acquired)
    /\ pc = "step" => status \in Nat /\ status <= Len(fifo)

\* ts8820_adc_sam keeps all that it reads.
SamInv == Taken <= Call.n * 16 /\ out = [k \in 1 .. Taken |-> SampleAt(config, k - 1)]
PrintedInv ==
    \A k \in DOMAIN out :
        \/ out[k] = <<(k - 1) \div 16, hw2sw[((k - 1) % 16) + 1]>>
        \/ over /\ out[k] = <<0, -1>>

OutputInv ==
    /\ FifoInv
    /\ pc \in {"go", "loop", "step", "sam"} => config = Channels(Call.mask)
    /\ pc = "go" => mode = "stopped" /\ fifo = <<>> /\ count = 0
    /\ Acquiring => Call.fn = "adc_acq" /\ KeptInv /\ PutInv /\ GoalInv
    /\ pc = "sam" => Call.fn = "adc_sam" /\ SamInv
    /\ pc # "idle" /\ opts.sample > 0 /\ opts.acquire = 0 /\ ~Pending(2) => PrintedInv
=============================================================================

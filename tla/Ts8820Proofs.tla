---------------------------- MODULE Ts8820Proofs ----------------------------
(***************************************************************************)
(* Proofs of RingKept, CommandEffect, BrakeStopsFirst and OutputAsAsked of *)
(* Ts8820, for every ring, chunk, block and limit that SizesAssumption     *)
(* allows, and every set of commands.                                      *)
(***************************************************************************)
EXTENDS Ts8820Inv, FiniteSetTheorems, SequenceTheorems, WellFoundedInduction, TLAPS

-----------------------------------------------------------------------------
(* Arithmetic of the ring. *)

\* What a pointer is after it moved by no more than the ring.
LEMMA Once ==
    ASSUME NEW v \in 0 .. 2 * Ring - 1
    PROVE  v % Ring = IF v < Ring THEN v ELSE v - Ring
<1>1. Ring \in Nat \ {0}
  BY SizesAssumption
<1>2. CASE v < Ring
  BY <1>1, <1>2
<1>3. CASE v >= Ring
  <2> DEFINE d == v \div Ring
             r == v % Ring
  <2>1. d \in Int /\ r \in 0 .. Ring - 1 /\ v = Ring * d + r
    <3>1. v \in Int
      BY <1>1
    <3>2. \A w \in Int : w \div Ring \in Int
      BY <1>1
    <3>3. \A w \in Int : w % Ring \in 0 .. Ring - 1
      BY <1>1
    <3>4. \A w \in Int : w = Ring * (w \div Ring) + (w % Ring)
      BY <1>1
    <3> QED
      BY <3>1, <3>2, <3>3, <3>4
  <2> HIDE DEF d, r
  <2>2. d >= 1
    <3> SUFFICES ASSUME d <= 0 PROVE FALSE
      BY <2>1
    <3>1. Ring * d <= 0
      BY <1>1, <2>1
    <3> QED
      BY <1>1, <1>3, <2>1, <3>1
  <2>3. d <= 1
    <3> SUFFICES ASSUME d >= 2 PROVE FALSE
      BY <2>1
    <3>1. Ring * d >= Ring * 2
      BY <1>1, <2>1
    <3> QED
      BY <1>1, <2>1, <3>1
  <2>4. d = 1
    BY <2>1, <2>2, <2>3
  <2>5. r = v - Ring
    BY <1>1, <2>1, <2>4
  <2> QED
    BY <1>1, <1>3, <2>5 DEF r
<1> QED
  BY <1>1, <1>2, <1>3

LEMMA RingAligned == Aligned(Ring)
<1>1. Ring = Block * (Ring \div Block) + (Ring % Block)
  BY SizesAssumption
<1>2. Ring \div Block \in Nat
  BY SizesAssumption
<1> QED
  BY SizesAssumption, <1>1, <1>2 DEF Aligned

\* A block that starts within the ring ends within it.
LEMMA BlockFits ==
    ASSUME NEW v \in Nat, Aligned(v), v < Ring
    PROVE  v + Block <= Ring /\ Aligned(v + Block)
<1> USE SizesAssumption
<1>1. PICK i \in Nat : v = Block * i
  BY DEF Aligned
<1>2. PICK j \in Nat : Ring = Block * j
  BY RingAligned DEF Aligned
<1>3. i < j
  <2> SUFFICES ASSUME j <= i PROVE FALSE
    OBVIOUS
  <2>1. Block * j <= Block * i
    OBVIOUS
  <2> QED
    BY <1>1, <1>2, <2>1
<1>4. Block * (i + 1) <= Block * j
  BY <1>3
<1>5. Block * (i + 1) = v + Block
  BY <1>1
<1> QED
  BY <1>2, <1>4, <1>5 DEF Aligned

\* Of a chunk no more is kept than it has.
LEMMA KeptCount == Cardinality(Kept) \in 0 .. Chunk
<1> USE SizesAssumption
<1>1. IsFiniteSet(1 .. Chunk) /\ Cardinality(1 .. Chunk) = Chunk
  BY FS_Interval
<1>2. \A T \in SUBSET (1 .. Chunk) : Cardinality(T) \in 0 .. Chunk
  <2> TAKE T \in SUBSET (1 .. Chunk)
  <2>1. IsFiniteSet(T) /\ Cardinality(T) <= Cardinality(1 .. Chunk)
    BY <1>1, FS_Subset
  <2>2. Cardinality(T) \in Nat
    BY <2>1, FS_CardinalityType
  <2> QED
    BY <1>1, <2>1, <2>2
<1>3. Kept \in SUBSET (1 .. Chunk)
  BY DEF Kept
<1> QED
  BY <1>2, <1>3

-----------------------------------------------------------------------------
(* The calls that main makes. *)

LEMMA OneCall == ASSUME NEW c \in Calls PROVE <<c>> \in Seq(Calls)
  OBVIOUS

\* What the options may be.
LEMMA OptionTypes ==
    ASSUME NEW o \in Commands
    PROVE  /\ o.dac \in Nat /\ o.pwm \in Nat /\ o.hb \in 0 .. 2
           /\ o.mvolts \in Int /\ 0 <= o.mvolts /\ o.mvolts <= 10000
           /\ o.duty \in Int /\ o.duty <= 1000
           /\ o.hbduty \in Int /\ 0 <= o.hbduty /\ o.hbduty <= 1000
           /\ o.hbset \in {"disable", "brake", "fwd", "rev"} /\ o.write \in {0, 2, 8}
           /\ o.lval \in SUBSET Nat /\ o.bits \in SUBSET Nat
           /\ o.sample \in Nat /\ o.acquire \in Nat /\ o.mask \in SUBSET (0 .. 15)
<1>1. o \in [DO : BOOLEAN, lval : SUBSET Nat, sample : Nat, acquire : Nat,
             mask : SUBSET (0 .. 15), dac : Nat, mvolts : 0 .. 10000, pwm : Nat,
             duty : -1 .. 1000, hb : 0 .. 2, hbset : {"disable", "brake", "fwd", "rev"},
             hbduty : 0 .. 1000, write : {0, 2, 8}, bits : SUBSET Nat]
  BY CommandsAssumption
<1>2. o.lval \in SUBSET Nat /\ o.bits \in SUBSET Nat
  BY <1>1
<1>3. o.sample \in Nat /\ o.acquire \in Nat /\ o.dac \in Nat /\ o.pwm \in Nat
  BY <1>1
<1>4. o.mask \in SUBSET (0 .. 15)
  <2>1. \A c \in o.mask : c \in 0 .. 15
    BY <1>1
  <2> QED
    BY <2>1, Zenon
<1>5. o.mvolts \in Int /\ 0 <= o.mvolts /\ o.mvolts <= 10000
  <2> DEFINE v == o.mvolts
  <2>1. v \in 0 .. 10000
    BY <1>1
  <2> HIDE DEF v
  <2>2. v \in Int /\ 0 <= v /\ v <= 10000
    BY <2>1
  <2> QED
    BY <2>2 DEF v
<1>6. /\ o.duty \in Int /\ o.duty <= 1000 /\ o.hb \in 0 .. 2
      /\ o.hbduty \in Int /\ 0 <= o.hbduty /\ o.hbduty <= 1000
  <2> DEFINE v == o.duty
             w == o.hbduty
  <2>1. v \in -1 .. 1000 /\ w \in 0 .. 1000
    BY <1>1
  <2>2. o.hb \in 0 .. 2
    BY <1>1
  <2> HIDE DEF v, w
  <2>3. v \in Int /\ v <= 1000 /\ w \in Int /\ 0 <= w /\ w <= 1000
    BY <2>1
  <2> QED
    BY <2>2, <2>3 DEF v, w
<1>7. o.hbset \in {"disable", "brake", "fwd", "rev"} /\ o.write \in {0, 2, 8}
  BY <1>1
<1> QED
  BY <1>2, <1>3, <1>4, <1>5, <1>6, <1>7

\* What a call that is asked for is, and its place in the order of main.
LEMMA CallAsked ==
    ASSUME NEW o \in Commands, NEW c, Asks(o, c)
    PROVE  /\ c.fn \in {"do_set", "adc_sam", "adc_acq", "dac_set", "pwm_set", "pwm_disable",
                        "hb_set", "hb_disable", "write"}
           /\ c.fn = "do_set" => o.DO /\ c.lval = o.lval /\ Stage(o, c) = 1
           /\ c.fn = "adc_sam" => c.mask = 0 .. 15 /\ Stage(o, c) = 2
           /\ c.fn = "adc_acq" => o.acquire > 0 /\ Stage(o, c) = 3
           /\ c.fn = "dac_set" =>
                  o.dac \in 1 .. 4 /\ c.n = o.dac /\ c.val = o.mvolts /\ Stage(o, c) = 4
           /\ c.fn = "pwm_disable" =>
                  o.pwm \in 1 .. 6 /\ c.n = o.pwm /\ o.duty < 0 /\ Stage(o, c) = 5
           /\ c.fn = "pwm_set" /\ c.n < 7 =>
                  /\ o.pwm \in 1 .. 6 /\ c.n = o.pwm /\ o.duty >= 0
                  /\ c.val = DutyAsked(o.duty) /\ Stage(o, c) = 5
           /\ c.fn = "pwm_set" /\ ~(c.n < 7) =>
                  /\ o.hb \in 1 .. 2 /\ c.n = o.hb + 6
                  /\ c.val = IF o.hbset \in {"fwd", "rev"} THEN DutyAsked(o.hbduty) ELSE 0
                  /\ Stage(o, c) = IF o.hbset = "brake" THEN 6 ELSE 7
           /\ c.fn = "hb_set" =>
                  /\ o.hb \in 1 .. 2 /\ c.n = o.hb /\ o.hbset # "disable"
                  /\ c.dir = IF o.hbset = "rev" THEN 1 ELSE 0
                  /\ Stage(o, c) = IF o.hbset = "brake" THEN 7 ELSE 6
           /\ c.fn = "hb_disable" =>
                  /\ o.hb \in 1 .. 2 /\ c.n = o.hb /\ o.hbset = "disable"
                  /\ Stage(o, c) = 6
           /\ c.fn = "write" =>
                  o.write \in {2, 8} /\ c.adr = o.write /\ c.val = o.bits /\ Stage(o, c) = 8
<1>1. CASE o.DO /\ c = [fn |-> "do_set", lval |-> o.lval]
  BY <1>1 DEF Stage
<1>2. CASE \/ c = [fn |-> "adc_sam", n |-> o.sample, mask |-> 0 .. 15]
           \/ o.acquire > 0 /\ c = [fn |-> "adc_acq", n |-> o.acquire, mask |-> o.mask]
  BY <1>2 DEF Stage
<1>3. CASE o.dac \in 1 .. 4 /\ c = [fn |-> "dac_set", n |-> o.dac, val |-> o.mvolts]
  BY <1>3 DEF Stage
<1>4. CASE o.pwm \in 1 .. 6 /\ c = Pwm(o.pwm, o.duty)
  <2>1. o.duty \in Int /\ o.pwm \in Int /\ o.pwm < 7
    BY <1>4, OptionTypes
  <2>2. CASE o.duty < 0
    <3>1. c = [fn |-> "pwm_disable", n |-> o.pwm]
      BY <1>4, <2>2 DEF Pwm
    <3> QED
      BY <1>4, <2>2, <3>1 DEF Stage
  <2>3. CASE ~(o.duty < 0)
    <3>1. c = [fn |-> "pwm_set", n |-> o.pwm, val |-> DutyAsked(o.duty)]
      BY <1>4, <2>3 DEF Pwm, DutyAsked
    <3>2. c.fn = "pwm_set" /\ c.n = o.pwm
      BY <3>1
    <3>4. c.n < 7 /\ c.n \in Int
      BY <2>1, <3>2
    <3>3. Stage(o, c) = 5
      BY <3>2, <3>4 DEF Stage
    <3> QED
      BY <1>4, <2>1, <2>3, <3>1, <3>3
  <2> QED
    BY <2>2, <2>3
<1>5. CASE o.hb # 0 /\ \E i \in 1 .. 2 : c = Bridge(o.hb, o.hbset, o.hbduty)[i]
  <2>1. /\ o.hb \in 1 .. 2 /\ o.hbset \in {"disable", "brake", "fwd", "rev"}
        /\ ~(o.hb + 6 < 7)
    BY <1>5, OptionTypes
  <2> DEFINE v == IF o.hbset \in {"fwd", "rev"} THEN DutyAsked(o.hbduty) ELSE 0
             d == IF o.hbset = "rev" THEN 1 ELSE 0
  <2>2. \/ c = [fn |-> "pwm_set", n |-> o.hb + 6, val |-> v]
        \/ c = [fn |-> "hb_set", n |-> o.hb, dir |-> d] /\ o.hbset # "disable"
        \/ c = [fn |-> "hb_disable", n |-> o.hb] /\ o.hbset = "disable"
    <3>1. CASE o.hbset = "disable"
      BY <1>5, <3>1 DEF Bridge
    <3>2. CASE o.hbset = "brake"
      BY <1>5, <3>2 DEF Bridge
    <3>3. CASE o.hbset \in {"fwd", "rev"}
      BY <1>5, <3>3 DEF Bridge, DutyAsked
    <3> QED
      BY <2>1, <3>1, <3>2, <3>3
  <2>3. CASE c = [fn |-> "pwm_set", n |-> o.hb + 6, val |-> v]
    <3>1. c.fn = "pwm_set" /\ c.n = o.hb + 6 /\ c.val = v
      BY <2>3
    <3>2. ~(c.n < 7) /\ c.n >= 7 /\ c.n \in Int
      BY <2>1, <3>1
    <3>3. Stage(o, c) = IF o.hbset = "brake" THEN 6 ELSE 7
      BY <3>1, <3>2 DEF Stage
    <3> QED
      BY <2>1, <3>1, <3>2, <3>3
  <2>4. CASE c = [fn |-> "hb_set", n |-> o.hb, dir |-> d] /\ o.hbset # "disable"
    BY <2>1, <2>4 DEF Stage
  <2>5. CASE c = [fn |-> "hb_disable", n |-> o.hb] /\ o.hbset = "disable"
    BY <2>1, <2>5 DEF Stage
  <2> QED
    BY <2>2, <2>3, <2>4, <2>5
<1>6. CASE o.write # 0 /\ c = [fn |-> "write", adr |-> o.write, val |-> o.bits]
  BY <1>6, OptionTypes DEF Stage
<1> QED
  BY <1>1, <1>2, <1>3, <1>4, <1>5, <1>6 DEF Asks

LEMMA StageType ==
    ASSUME NEW o \in Commands, NEW c, Asks(o, c)
    PROVE  Stage(o, c) \in 1 .. 8
<1>1. CASE c.fn \in {"do_set", "adc_sam", "adc_acq", "dac_set", "pwm_disable", "hb_disable", "write"}
  BY <1>1, CallAsked
<1>2. CASE c.fn \in {"pwm_set", "hb_set"}
  BY <1>2, CallAsked
<1> QED
  BY <1>1, <1>2, CallAsked

\* A piece of main: calls that are asked for, of the stages from lo to hi.
Part(o, s, lo, hi) ==
    /\ s \in Seq(Calls) /\ Orderly(o, s)
    /\ \A k \in Stages(o, s) : k \in Int /\ lo <= k /\ k <= hi

LEMMA NoPart == ASSUME NEW o, NEW lo, NEW hi PROVE Part(o, <<>>, lo, hi)
<1>1. DOMAIN <<>> = {} /\ <<>> \in Seq(Calls)
  OBVIOUS
<1> QED
  BY <1>1 DEF Part, Orderly, Stages

LEMMA OnePart ==
    ASSUME NEW o, NEW c \in Calls, NEW k \in Int, Asks(o, c), Stage(o, c) = k
    PROVE  Part(o, <<c>>, k, k) /\ Stages(o, <<c>>) = {k}
<1> DEFINE s == <<c>>
<1>1. s \in Seq(Calls) /\ DOMAIN s = {1} /\ s[1] = c
  BY OneCall
<1> HIDE DEF s
<1>2. Orderly(o, s) /\ Stages(o, s) = {k}
  BY <1>1 DEF Orderly, Stages
<1> QED
  BY <1>1, <1>2 DEF Part, s

LEMMA Bounds ==
    \A lo, m, hi, k \in Int :
        lo <= m /\ m <= hi => (k <= m => k <= hi) /\ (m + 1 <= k => lo <= k)
  OBVIOUS

\* Two pieces, one after the other.
LEMMA Join ==
    ASSUME NEW o, NEW s, NEW t, NEW lo \in Int, NEW m \in Int, NEW n \in Int, NEW hi \in Int,
           lo <= m, n = m + 1, m <= hi, Part(o, s, lo, m), Part(o, t, n, hi)
    PROVE  /\ Part(o, s \o t, lo, hi)
           /\ Stages(o, s \o t) = Stages(o, s) \cup Stages(o, t)
<1>1. s \in Seq(Calls) /\ t \in Seq(Calls)
  BY DEF Part
<1> DEFINE u == s \o t
           a == Len(s)
           b == Len(t)
<1>2. /\ u \in Seq(Calls) /\ Len(u) = a + b
      /\ \A i \in 1 .. a + b : u[i] = IF i <= a THEN s[i] ELSE t[i - a]
  BY <1>1, ConcatProperties
<1>3. a \in Nat /\ b \in Nat /\ DOMAIN s = 1 .. a /\ DOMAIN t = 1 .. b /\ DOMAIN u = 1 .. a + b
  BY <1>1, <1>2, LenProperties
<1> HIDE DEF u, a, b
<1>4. \A i \in 1 .. a : i \in 1 .. a + b /\ u[i] = s[i]
  BY <1>2, <1>3
<1>5. \A i \in 1 .. b : i + a \in 1 .. a + b /\ u[i + a] = t[i]
  BY <1>2, <1>3
<1>6. \A i \in 1 .. a + b : \/ i \in 1 .. a /\ u[i] = s[i]
                            \/ i - a \in 1 .. b /\ u[i] = t[i - a] /\ i > a
  BY <1>2, <1>3
<1>7. Stages(o, u) = Stages(o, s) \cup Stages(o, t)
  <2>1. ASSUME NEW k \in Stages(o, u) PROVE k \in Stages(o, s) \cup Stages(o, t)
    <3>1. PICK i \in 1 .. a + b : k = Stage(o, u[i])
      BY <1>3 DEF Stages
    <3> QED
      BY <1>3, <1>6, <3>1 DEF Stages
  <2>2. ASSUME NEW k \in Stages(o, s) PROVE k \in Stages(o, u)
    BY <1>3, <1>4 DEF Stages
  <2>3. ASSUME NEW k \in Stages(o, t) PROVE k \in Stages(o, u)
    <3>1. PICK i \in 1 .. b : k = Stage(o, t[i])
      BY <1>3 DEF Stages
    <3>2. i + a \in DOMAIN u /\ k = Stage(o, u[i + a])
      BY <1>3, <1>5, <3>1
    <3> QED
      BY <3>2 DEF Stages
  <2> QED
    BY <2>1, <2>2, <2>3
<1>8. \A i \in 1 .. a : Stage(o, s[i]) \in Int /\ lo <= Stage(o, s[i]) /\ Stage(o, s[i]) <= m
  BY <1>3 DEF Part, Stages
<1>9. \A i \in 1 .. b :
        Stage(o, t[i]) \in Int /\ n <= Stage(o, t[i]) /\ Stage(o, t[i]) <= hi
  BY <1>3 DEF Part, Stages
<1>10. \A i \in DOMAIN u : Asks(o, u[i])
  BY <1>3, <1>6 DEF Part, Orderly
<1>11. ASSUME NEW i \in 1 .. a + b, NEW j \in 1 .. a + b, i < j
       PROVE  Stage(o, u[i]) < Stage(o, u[j])
  <2>1. CASE j \in 1 .. a /\ u[j] = s[j]
    <3>1. i \in 1 .. a /\ u[i] = s[i]
      BY <1>3, <1>4, <1>11, <2>1
    <3>2. Stage(o, s[i]) < Stage(o, s[j])
      BY <1>3, <1>11, <2>1, <3>1 DEF Part, Orderly
    <3> QED
      BY <2>1, <3>1, <3>2
  <2>2. CASE j - a \in 1 .. b /\ u[j] = t[j - a]
    <3>1. CASE i \in 1 .. a /\ u[i] = s[i]
      <4> DEFINE x1 == Stage(o, s[i])
                 x2 == Stage(o, t[j - a])
      <4>1. x1 \in Int /\ x1 <= m
        BY <1>8, <3>1
      <4>2. x2 \in Int /\ n <= x2
        BY <1>9, <2>2
      <4> HIDE DEF x1, x2
      <4>3. x1 < x2
        BY <4>1, <4>2
      <4> QED
        BY <2>2, <3>1, <4>3 DEF x1, x2
    <3>2. CASE i - a \in 1 .. b /\ u[i] = t[i - a]
      <4>1. i - a < j - a
        BY <1>3, <1>11
      <4>2. Stage(o, t[i - a]) < Stage(o, t[j - a])
        BY <1>3, <2>2, <3>2, <4>1 DEF Part, Orderly
      <4> QED
        BY <2>2, <3>2, <4>2
    <3> QED
      BY <1>6, <3>1, <3>2
  <2> QED
    BY <1>6, <2>1, <2>2
<1>12. Orderly(o, u)
  BY <1>3, <1>10, <1>11 DEF Orderly
<1>13. \A k \in Stages(o, u) : k \in Int /\ lo <= k /\ k <= hi
  <2>1. \A k \in Stages(o, s) : k \in Int /\ lo <= k /\ k <= m
    BY DEF Part
  <2>2. \A k \in Stages(o, t) : k \in Int /\ n <= k /\ k <= hi
    BY DEF Part
  <2>3. \A k \in Int : (k <= m => k <= hi) /\ (n <= k => lo <= k)
    BY Bounds
  <2> QED
    BY <1>7, <2>1, <2>2, <2>3, Zenon
<1> QED
  BY <1>2, <1>7, <1>12, <1>13 DEF Part, u

LEMMA TwoCalls == ASSUME NEW a, NEW b PROVE <<a>> \o <<b>> = <<a, b>>
<1> DEFINE S == {a, b}
           s == <<a>>
           t == <<b>>
           u == s \o t
           w == <<a, b>>
<1>1. s \in Seq(S) /\ t \in Seq(S) /\ Len(s) = 1 /\ Len(t) = 1 /\ s[1] = a /\ t[1] = b
  OBVIOUS
<1>2. w \in Seq(S) /\ Len(w) = 2 /\ w[1] = a /\ w[2] = b
  OBVIOUS
<1> HIDE DEF S, s, t, w
<1>3. /\ u \in Seq(S) /\ Len(u) = 2
      /\ \A i \in 1 .. 2 : u[i] = IF i <= 1 THEN s[i] ELSE t[i - 1]
  BY <1>1, ConcatProperties
<1> HIDE DEF u
<1>4. u[1] = a /\ u[2] = b
  BY <1>1, <1>3
<1>5. u = w
  BY <1>2, <1>3, <1>4
<1> QED
  BY <1>5 DEF u, s, t, w

\* main makes the calls that are asked for, in the order of their stages.
LEMMA MainOrderly ==
    ASSUME NEW o \in Commands
    PROVE  /\ main(o) \in Seq(Calls) /\ Orderly(o, main(o))
           /\ o.DO => 1 \in Stages(o, main(o))
           /\ o.sample > 0 => 2 \in Stages(o, main(o))
           /\ o.dac \in 1 .. 4 => 4 \in Stages(o, main(o))
           /\ o.pwm \in 1 .. 6 => 5 \in Stages(o, main(o))
           /\ o.hb # 0 => 6 \in Stages(o, main(o)) /\ 7 \in Stages(o, main(o))
           /\ o.write # 0 => 8 \in Stages(o, main(o))
<1>8. /\ 1 \in Int /\ 2 \in Int /\ 3 \in Int /\ 4 \in Int /\ 5 \in Int /\ 6 \in Int
      /\ 7 \in Int /\ 8 \in Int
      /\ 1 <= 1 /\ 1 <= 2 /\ 1 <= 3 /\ 1 <= 4 /\ 1 <= 5 /\ 1 <= 7
      /\ 2 <= 3 /\ 3 <= 4 /\ 4 <= 5 /\ 5 <= 7 /\ 7 <= 8 /\ 6 <= 6 /\ 6 <= 7
      /\ 2 = 1 + 1 /\ 3 = 2 + 1 /\ 4 = 3 + 1 /\ 5 = 4 + 1 /\ 6 = 5 + 1 /\ 7 = 6 + 1
      /\ 8 = 7 + 1
  OBVIOUS
<1> DEFINE c1 == [fn |-> "do_set", lval |-> o.lval]
           c2 == [fn |-> "adc_sam", n |-> o.sample, mask |-> 0 .. 15]
           c3 == [fn |-> "adc_acq", n |-> o.acquire, mask |-> o.mask]
           c4 == [fn |-> "dac_set", n |-> o.dac, val |-> o.mvolts]
           c5 == Pwm(o.pwm, o.duty)
           c6 == Bridge(o.hb, o.hbset, o.hbduty)
           c8 == [fn |-> "write", adr |-> o.write, val |-> o.bits]
           p1 == Opt(o.DO, <<c1>>)
           p2 == Opt(o.sample > 0, <<c2>>)
           p3 == Opt(o.acquire > 0, <<c3>>)
           p4 == Opt(o.dac \in 1 .. 4, <<c4>>)
           p5 == Opt(o.pwm \in 1 .. 6, <<c5>>)
           p6 == Opt(o.hb # 0, c6)
           p8 == Opt(o.write # 0, <<c8>>)
<1>0. main(o) = p1 \o p2 \o p3 \o p4 \o p5 \o p6 \o p8
  BY DEF main
<1>1. Part(o, p1, 1, 1) /\ (o.DO => 1 \in Stages(o, p1))
  <2>1. CASE o.DO
    <3>1. c1 \in Calls
      BY OptionTypes DEF Calls, OutputCalls
    <3>2. Asks(o, c1) /\ Stage(o, c1) = 1
      BY <2>1 DEF Asks, Stage
    <3> HIDE DEF c1
    <3> QED
      BY <2>1, <3>1, <3>2, OnePart DEF Opt
  <2>2. CASE ~o.DO
    BY <2>2, NoPart DEF Opt
  <2> QED
    BY <2>1, <2>2
<1>2. Part(o, p2, 2, 2) /\ (o.sample > 0 => 2 \in Stages(o, p2))
  <2>1. CASE o.sample > 0
    <3>1. c2 \in Calls
      BY OptionTypes DEF Calls, AdcCalls
    <3>2. Asks(o, c2) /\ Stage(o, c2) = 2
      BY <2>1 DEF Asks, Stage
    <3>3. p2 = <<c2>>
      BY <2>1 DEF Opt
    <3> HIDE DEF c2, p2
    <3> QED
      BY <2>1, <3>1, <3>2, <3>3, OnePart
  <2>2. CASE ~(o.sample > 0)
    BY <2>2, NoPart DEF Opt
  <2> QED
    BY <2>1, <2>2
<1>3. Part(o, p3, 3, 3)
  <2>1. CASE o.acquire > 0
    <3>1. c3 \in Calls
      BY OptionTypes DEF Calls, AdcCalls
    <3>2. Asks(o, c3) /\ Stage(o, c3) = 3
      BY <2>1 DEF Asks, Stage
    <3>3. p3 = <<c3>>
      BY <2>1 DEF Opt
    <3> HIDE DEF c3, p3
    <3>4. 3 \in Int
      OBVIOUS
    <3> QED
      BY <3>1, <3>2, <3>3, <3>4, OnePart, Zenon
  <2>2. CASE ~(o.acquire > 0)
    BY <2>2, NoPart DEF Opt
  <2> QED
    BY <2>1, <2>2
<1>4. Part(o, p4, 4, 4) /\ (o.dac \in 1 .. 4 => 4 \in Stages(o, p4))
  <2>1. CASE o.dac \in 1 .. 4
    <3>1. c4 \in Calls
      BY OptionTypes DEF Calls, OutputCalls
    <3>2. Asks(o, c4) /\ Stage(o, c4) = 4
      BY <2>1 DEF Asks, Stage
    <3> HIDE DEF c4
    <3> QED
      BY <2>1, <3>1, <3>2, OnePart DEF Opt
  <2>2. CASE ~(o.dac \in 1 .. 4)
    BY <2>2, NoPart DEF Opt
  <2> QED
    BY <2>1, <2>2
<1>5. Part(o, p5, 5, 5) /\ (o.pwm \in 1 .. 6 => 5 \in Stages(o, p5))
  <2>1. CASE o.pwm \in 1 .. 6
    <3>1. o.duty \in Int /\ o.pwm \in Nat /\ DutyAsked(o.duty) \in Int
      BY OptionTypes DEF DutyAsked
    <3>2. c5 \in OutputCalls
      BY <3>1 DEF Pwm, OutputCalls, DutyAsked
    <3>3. Asks(o, c5)
      BY <2>1 DEF Asks
    <3>4. c5.fn \in {"pwm_set", "pwm_disable"} /\ c5.n = o.pwm /\ o.pwm < 7
      BY <2>1 DEF Pwm
    <3> HIDE DEF c5
    <3>5. Stage(o, c5) = 5
      BY <3>3, <3>4, CallAsked
    <3> QED
      BY <2>1, <3>2, <3>3, <3>5, OnePart DEF Opt, Calls
  <2>2. CASE ~(o.pwm \in 1 .. 6)
    BY <2>2, NoPart DEF Opt
  <2> QED
    BY <2>1, <2>2
<1>6. Part(o, p6, 6, 7) /\ (o.hb # 0 => 6 \in Stages(o, p6) /\ 7 \in Stages(o, p6))
  <2>1. CASE o.hb # 0
    <3>1. /\ o.hb \in 1 .. 2 /\ o.hbset \in {"disable", "brake", "fwd", "rev"}
          /\ o.hb + 6 \in Nat /\ ~(o.hb + 6 < 7) /\ o.hb \in Nat
      BY <2>1, OptionTypes
    <3>2. DutyAsked(o.hbduty) \in Int
      BY OptionTypes DEF DutyAsked
    <3>3. PICK a, b : c6 = <<a, b>> /\ a \in OutputCalls /\ b \in OutputCalls
                      /\ \/ /\ o.hbset = "brake" /\ b.fn = "hb_set"
                            /\ a.fn = "pwm_set" /\ ~(a.n < 7)
                         \/ /\ o.hbset # "brake" /\ a.fn \in {"hb_set", "hb_disable"}
                            /\ b.fn = "pwm_set" /\ ~(b.n < 7)
      <4>1. \A v \in Int : [fn |-> "pwm_set", n |-> o.hb + 6, val |-> v] \in OutputCalls
        BY <3>1 DEF OutputCalls
      <4>2. \A d \in {0, 1} : [fn |-> "hb_set", n |-> o.hb, dir |-> d] \in OutputCalls
        BY <3>1 DEF OutputCalls
      <4>3. [fn |-> "hb_disable", n |-> o.hb] \in OutputCalls
        BY <3>1 DEF OutputCalls
      <4>4. CASE o.hbset = "disable"
        BY <3>1, <4>1, <4>3, <4>4 DEF Bridge
      <4>5. CASE o.hbset = "brake"
        BY <3>1, <4>1, <4>2, <4>5 DEF Bridge
      <4>6. CASE o.hbset \in {"fwd", "rev"}
        BY <3>1, <3>2, <4>1, <4>2, <4>6 DEF Bridge, DutyAsked
      <4> QED
        BY <3>1, <4>4, <4>5, <4>6
    <3>4. c6[1] = a /\ c6[2] = b
      BY <3>3
    <3>5. Asks(o, a) /\ Asks(o, b)
      BY <2>1, <3>4 DEF Asks
    <3>6. Stage(o, a) = 6 /\ Stage(o, b) = 7
      BY <3>3, <3>5, CallAsked
    <3> HIDE DEF c6, p6
    <3>7. /\ Part(o, <<a>>, 6, 6) /\ Stages(o, <<a>>) = {6}
          /\ Part(o, <<b>>, 7, 7) /\ Stages(o, <<b>>) = {7}
      <4>1. a \in Calls /\ b \in Calls
        BY <3>3 DEF Calls
      <4> QED
        BY <1>8, <3>5, <3>6, <4>1, OnePart, Zenon
    <3>8. Part(o, <<a>> \o <<b>>, 6, 7) /\ Stages(o, <<a>> \o <<b>>) = {6} \cup {7}
      <4>1. /\ Part(o, <<a>> \o <<b>>, 6, 7)
            /\ Stages(o, <<a>> \o <<b>>) = Stages(o, <<a>>) \cup Stages(o, <<b>>)
        BY <1>8, <3>7, Join, Zenon
      <4> QED
        BY <3>7, <4>1, Zenon
    <3>9. p6 = <<a, b>>
      BY <2>1, <3>3 DEF Opt, p6
    <3>10. <<a>> \o <<b>> = <<a, b>>
      BY TwoCalls
    <3> QED
      BY <3>8, <3>9, <3>10
  <2>2. CASE o.hb = 0
    BY <2>2, NoPart DEF Opt
  <2> QED
    BY <2>1, <2>2
<1>7. Part(o, p8, 8, 8) /\ (o.write # 0 => 8 \in Stages(o, p8))
  <2>1. CASE o.write # 0
    <3>1. c8 \in Calls
      BY <2>1, OptionTypes DEF Calls, OutputCalls
    <3>2. Asks(o, c8) /\ Stage(o, c8) = 8
      BY <2>1 DEF Asks, Stage
    <3> HIDE DEF c8
    <3> QED
      BY <2>1, <3>1, <3>2, OnePart DEF Opt
  <2>2. CASE o.write = 0
    BY <2>2, NoPart DEF Opt
  <2> QED
    BY <2>1, <2>2
<1> HIDE DEF p1, p2, p3, p4, p5, p6, p8
<1> DEFINE q2 == p1 \o p2
           q3 == q2 \o p3
           q4 == q3 \o p4
           q5 == q4 \o p5
           q6 == q5 \o p6
           q8 == q6 \o p8
<1>9. Part(o, q2, 1, 2) /\ Stages(o, q2) = Stages(o, p1) \cup Stages(o, p2)
  BY <1>1, <1>2, <1>8, Join, Zenon
<1> HIDE DEF q2
<1>10. Part(o, q3, 1, 3) /\ Stages(o, q3) = Stages(o, q2) \cup Stages(o, p3)
  BY <1>9, <1>3, <1>8, Join, Zenon
<1> HIDE DEF q3
<1>11. Part(o, q4, 1, 4) /\ Stages(o, q4) = Stages(o, q3) \cup Stages(o, p4)
  BY <1>10, <1>4, <1>8, Join, Zenon
<1> HIDE DEF q4
<1>12. Part(o, q5, 1, 5) /\ Stages(o, q5) = Stages(o, q4) \cup Stages(o, p5)
  BY <1>11, <1>5, <1>8, Join, Zenon
<1> HIDE DEF q5
<1>13. Part(o, q6, 1, 7) /\ Stages(o, q6) = Stages(o, q5) \cup Stages(o, p6)
  BY <1>12, <1>6, <1>8, Join, Zenon
<1> HIDE DEF q6
<1>14. Part(o, q8, 1, 8) /\ Stages(o, q8) = Stages(o, q6) \cup Stages(o, p8)
  BY <1>13, <1>7, <1>8, Join, Zenon
<1>15. main(o) = q8
  BY <1>0 DEF q2, q3, q4, q5, q6
<1> QED
  BY <1>1, <1>2, <1>4, <1>5, <1>6, <1>7, <1>9, <1>10, <1>11, <1>12, <1>13, <1>14, <1>15
     DEF Part

-----------------------------------------------------------------------------
(* The inductive invariant of the ring. *)

LEMMA InitIInv == Init => IInv
<1> SUFFICES ASSUME Init PROVE IInv
  OBVIOUS
<1>1. <<>> \in Seq(Calls)
  OBVIOUS
<1>2. TypeInv
  BY <1>1 DEF Init, TypeInv
<1>3. RingInv
  BY DEF Init, RingInv, Acquiring
<1> QED
  BY <1>2, <1>3 DEF IInv

\* The invariant gives the property.
LEMMA IInvRingKept == IInv => RingKept
<1> SUFFICES ASSUME IInv, Acquiring PROVE RingKept
  BY DEF RingKept
<1>1. p \in Nat /\ Aligned(p) /\ p < Ring
  BY SizesAssumption DEF IInv, RingInv
<1>2. p + Block <= Ring
  BY <1>1, BlockFits
<1> QED
  BY <1>2 DEF IInv, RingInv, RingKept

\* The counts are left alone: outside of an acquisition that is all there is.
Frame == UNCHANGED <<goal, written, acquired, p, q>>

LEMMA FinishKeeps ==
    ASSUME IInv, pc \notin {"idle", "done"}, Finish, Frame PROVE IInv'
<1>1. todo \in Seq(Calls) /\ todo # <<>>
  BY DEF IInv, TypeInv
<1>2. Tail(todo) \in Seq(Calls)
  BY <1>1, HeadTailProperties
<1>3. todo' \in Seq(Calls) /\ pc' \in {"done", "call"} /\ (pc' = "call" => todo' # <<>>)
  BY <1>2 DEF Finish
<1>4. goal' \in Int /\ written' \in Int /\ acquired' \in Int
  BY DEF IInv, TypeInv, Frame
<1>5. TypeInv'
  BY <1>3, <1>4 DEF TypeInv
<1>6. RingInv'
  BY <1>3 DEF RingInv, Acquiring
<1> QED
  BY <1>5, <1>6 DEF IInv

\* A step of a call that has nothing to do with the ring.
LEMMA CallKeeps ==
    ASSUME IInv, pc \notin {"idle", "done"}, UNCHANGED todo, Frame,
           pc' \in {"peek", "poke", "go"}, pc' = "go" => Call \in AdcCalls
    PROVE  IInv'
<1>1. TypeInv'
  BY DEF IInv, TypeInv, Frame, Call
<1>2. RingInv'
  BY DEF RingInv, Acquiring
<1> QED
  BY <1>1, <1>2 DEF IInv

\* The steps of ts8820_adc_acq: todo stays, the ring moves.
LEMMA TypeKept ==
    ASSUME TypeInv, pc \in {"go", "loop", "step"}, UNCHANGED todo,
           pc' \in {"loop", "step", "sam"},
           goal' \in Int, written' \in Int, acquired' \in Int
    PROVE  TypeInv'
  BY DEF TypeInv

LEMMA AdcStartKeeps == ASSUME IInv, AdcStart PROVE IInv'
<1>1. Call \in AdcCalls
  BY DEF IInv, TypeInv, AdcStart
<1>2. Call.n \in Nat /\ Cardinality(Call.mask) \in Nat
  <2>1. Call.n \in Nat /\ Call.mask \in SUBSET (0 .. 15)
    BY <1>1 DEF AdcCalls
  <2>2. IsFiniteSet(0 .. 15)
    <3>1. 0 \in Int /\ 15 \in Int
      OBVIOUS
    <3> QED
      BY <3>1, FS_Interval, Zenon
  <2>3. \A T \in SUBSET (0 .. 15) : Cardinality(T) \in Nat
    BY <2>2, FS_Subset, FS_CardinalityType
  <2> QED
    BY <2>1, <2>3
<1>3. goal' \in Int
  <2>1. \A a, b \in Nat : a * b \in Int
    OBVIOUS
  <2>2. goal' = Call.n * Cardinality(Call.mask)
    BY DEF AdcStart
  <2> QED
    BY <1>2, <2>1, <2>2
<1>4. pc = "go" /\ pc' \in {"loop", "sam"} /\ UNCHANGED todo /\ written' = 0
      /\ acquired' = 0 /\ p' = 0 /\ q' = 0
  BY DEF AdcStart
<1>5. TypeInv'
  BY <1>3, <1>4, TypeKept DEF IInv
<1>6. Ring \in Nat \ {0} /\ 0 % Ring = 0
  BY SizesAssumption, Once
<1>7. Aligned(0)
  <2>1. 0 = Block * 0
    BY SizesAssumption
  <2> QED
    BY <2>1 DEF Aligned
<1>8. RingInv'
  BY <1>4, <1>6, <1>7 DEF RingInv, Acquiring
<1> QED
  BY <1>5, <1>8 DEF IInv

LEMMA AcqStatusKeeps == ASSUME IInv, AcqStatus PROVE IInv'
<1>1. /\ pc = "loop" /\ written < goal /\ pc' = "step" /\ UNCHANGED <<todo, written>>
      /\ UNCHANGED <<acquired, p, q>> /\ goal' \in {goal, acquired}
  BY DEF AcqStatus
<1>2. TypeInv'
  BY <1>1, TypeKept DEF IInv, TypeInv
<1>3. RingInv'
  BY <1>1 DEF IInv, TypeInv, RingInv, Acquiring
<1> QED
  BY <1>2, <1>3 DEF IInv

\* Two steps of a pointer are one.
LEMMA Further ==
    ASSUME NEW m \in Nat, NEW k \in Nat, m + k < 2 * Ring, k <= Ring
    PROVE  ((m % Ring) + k) % Ring = (m + k) % Ring
<1>1. Ring \in Nat \ {0}
  BY SizesAssumption
<1>2. m % Ring = IF m < Ring THEN m ELSE m - Ring
  BY <1>1, Once
<1>3. CASE m < Ring
  BY <1>2, <1>3
<1>4. CASE m >= Ring
  <2>1. m - Ring + k \in 0 .. Ring - 1 /\ m + k >= Ring
    BY <1>1, <1>4
  <2>2. (m - Ring + k) % Ring = m - Ring + k
    BY <1>1, <2>1, Once
  <2>3. (m + k) % Ring = m + k - Ring
    BY <1>1, <2>1, Once
  <2>4. m % Ring = m - Ring
    BY <1>1, <1>2, <1>4
  <2> QED
    BY <1>1, <2>2, <2>3, <2>4
<1> QED
  BY <1>1, <1>3, <1>4

\* A chunk is read: Limit leaves room for all of it.
LEMMA AcqReadKeeps == ASSUME IInv, AcqRead PROVE IInv'
<1> DEFINE k == Cardinality(Kept)
           d == acquired - written
<1>1. /\ pc = "step" /\ pc' = "loop" /\ UNCHANGED <<todo, goal, written, p>>
      /\ acquired' = acquired + k /\ q' = (q + k) % Ring /\ d < Limit
  BY DEF AcqRead, Reads
<1>2. k \in Nat /\ k <= Chunk
  BY SizesAssumption, KeptCount
<1> HIDE DEF k
<1>3. written \in Int /\ acquired \in Int /\ goal \in Int
  BY DEF IInv, TypeInv
<1>4. /\ written <= acquired /\ p \in 0 .. Ring - 1 /\ Aligned(p)
      /\ q = (p + d) % Ring
  BY <1>1 DEF IInv, RingInv, Acquiring
<1>5. acquired' \in Int /\ acquired' - written = d + k /\ d \in Nat
  BY <1>1, <1>2, <1>3, <1>4
<1>6. d + k <= Ring
  BY <1>1, <1>2, <1>5, SizesAssumption
<1>7. q' = (p + (d + k)) % Ring
  <2>1. p + d \in Nat /\ (p + d) + k < 2 * Ring /\ k <= Ring /\ p + (d + k) = (p + d) + k
    BY <1>2, <1>4, <1>5, <1>6, SizesAssumption
  <2> QED
    BY <1>1, <1>2, <1>4, <2>1, Further
<1>8. TypeInv'
  BY <1>1, <1>3, <1>5, TypeKept DEF IInv
<1>9. RingInv'
  BY <1>1, <1>2, <1>3, <1>4, <1>5, <1>6, <1>7 DEF RingInv
<1> QED
  BY <1>8, <1>9 DEF IInv

\* A block is written: p comes to the end of the ring exactly, and starts again.
LEMMA AcqBlockKeeps == ASSUME IInv, AcqBlock PROVE IInv'
<1> DEFINE d == acquired - written
<1>1. /\ pc = "step" /\ pc' = "loop" /\ UNCHANGED <<todo, goal, acquired, q>>
      /\ p' = (p + Block) % Ring /\ written' = written + Block /\ d >= Block
  BY DEF AcqBlock
<1>2. written \in Int /\ acquired \in Int /\ goal \in Int
  BY DEF IInv, TypeInv
<1>3. /\ d <= Ring /\ p \in 0 .. Ring - 1 /\ Aligned(p) /\ q = (p + d) % Ring
  BY <1>1 DEF IInv, RingInv, Acquiring
<1>4. Ring \in Nat \ {0} /\ Block \in Nat \ {0} /\ d \in Nat
  BY <1>1, <1>2, SizesAssumption
<1>5. written' \in Int /\ written' <= acquired /\ acquired - written' = d - Block
  BY <1>1, <1>2, <1>4
<1> HIDE DEF d
<1>6. p + Block <= Ring /\ Aligned(p + Block)
  BY <1>3, <1>4, BlockFits
<1>7. p' \in 0 .. Ring - 1 /\ Aligned(p') /\ q = (p' + (d - Block)) % Ring
  <2>1. CASE p + Block < Ring
    <3>1. p' = p + Block
      BY <1>1, <1>3, <1>4, <2>1, Once
    <3> QED
      BY <1>3, <1>4, <1>6, <2>1, <3>1
  <2>2. CASE p + Block = Ring
    <3>1. p' = 0
      BY <1>1, <1>4, <2>2, Once
    <3>2. Aligned(0)
      <4>1. 0 = Block * 0
        BY <1>4
      <4> QED
        BY <4>1 DEF Aligned
    <3>3. p + d \in Ring .. 2 * Ring - 1 /\ d - Block \in 0 .. Ring - 1
      BY <1>1, <1>3, <1>4, <2>2
    <3>4. (p + d) % Ring = p + d - Ring
      <4> DEFINE e == p + d
      <4>1. e \in 0 .. 2 * Ring - 1 /\ ~(e < Ring)
        BY <1>4, <3>3
      <4> HIDE DEF e
      <4>2. e % Ring = e - Ring
        BY <4>1, Once
      <4> QED
        BY <1>3, <1>4, <4>2 DEF e
    <3>5. (d - Block) % Ring = d - Block
      <4>1. d - Block \in 0 .. 2 * Ring - 1 /\ d - Block < Ring
        BY <1>4, <3>3
      <4> DEFINE e == d - Block
      <4>2. e \in 0 .. 2 * Ring - 1 /\ e < Ring
        BY <4>1
      <4> HIDE DEF e
      <4>3. e % Ring = e
        BY <4>2, Once
      <4> QED
        BY <4>3 DEF e
    <3>6. p + d - Ring = d - Block /\ 0 + (d - Block) = d - Block
      BY <1>3, <1>4, <2>2
    <3> QED
      BY <1>3, <1>4, <3>1, <3>2, <3>4, <3>5, <3>6
  <2> QED
    BY <1>3, <1>4, <1>6, <2>1, <2>2
<1>8. TypeInv'
  BY <1>1, <1>2, <1>5, TypeKept DEF IInv
<1>9. RingInv'
  BY <1>1, <1>2, <1>3, <1>4, <1>5, <1>7 DEF RingInv
<1> QED
  BY <1>8, <1>9 DEF IInv

\* The last samples are written: nothing more is, and p may stay.
LEMMA AcqRestKeeps == ASSUME IInv, AcqRest PROVE IInv'
<1>1. /\ pc = "step" /\ pc' = "loop" /\ UNCHANGED <<todo, goal, acquired, p, q>>
      /\ written' = goal /\ acquired >= goal
  BY DEF AcqRest
<1>2. written \in Int /\ acquired \in Int /\ goal \in Int /\ Ring \in Nat
  BY SizesAssumption DEF IInv, TypeInv
<1>3. TypeInv'
  BY <1>1, <1>2, TypeKept DEF IInv
<1>4. RingInv'
  BY <1>1, <1>2 DEF IInv, RingInv, Acquiring
<1> QED
  BY <1>3, <1>4 DEF IInv

LEMMA AcqSpinKeeps == ASSUME IInv, AcqSpin PROVE IInv'
<1>1. pc = "step" /\ pc' = "loop" /\ UNCHANGED <<todo, goal, written, acquired, p, q>>
  BY DEF AcqSpin, acq
<1>2. TypeInv'
  BY <1>1, TypeKept DEF IInv, TypeInv
<1>3. RingInv'
  BY <1>1 DEF IInv, RingInv, Acquiring
<1> QED
  BY <1>2, <1>3 DEF IInv

\* A program starts.
LEMMA StartKeeps == ASSUME IInv, Start PROVE IInv'
<1>1. opts' \in Commands /\ todo' = main(opts') /\ todo' # <<>> /\ pc' = "call" /\ Frame
  BY DEF Start, Frame, acq
<1>2. todo' \in Seq(Calls)
  <2>1. \A o \in Commands : main(o) \in Seq(Calls)
    BY MainOrderly
  <2> QED
    BY <1>1, <2>1
<1>3. TypeInv'
  BY <1>1, <1>2 DEF IInv, TypeInv, Frame
<1>4. RingInv'
  BY <1>1 DEF RingInv, Acquiring
<1> QED
  BY <1>3, <1>4 DEF IInv

\* It ends or is killed.
LEMMA EndKeeps == ASSUME IInv, Exit \/ Die PROVE IInv'
<1>1. pc' = "idle" /\ todo' \in {todo, <<>>} /\ Frame
  BY DEF Exit, Die, Frame, acq
<1>2. <<>> \in Seq(Calls)
  OBVIOUS
<1>3. TypeInv'
  BY <1>1, <1>2 DEF IInv, TypeInv, Frame
<1>4. RingInv'
  BY <1>1 DEF RingInv, Acquiring
<1> QED
  BY <1>3, <1>4 DEF IInv

\* The ADC samples, or nothing happens.
LEMMA SameKeeps == ASSUME IInv, UNCHANGED <<todo, pc>>, Frame PROVE IInv'
<1>1. TypeInv'
  BY DEF IInv, TypeInv, Frame, Call
<1>2. RingInv'
  BY DEF IInv, RingInv, Frame, Acquiring
<1> QED
  BY <1>1, <1>2 DEF IInv

LEMMA NextIInv == IInv /\ [Next]_vars => IInv'
<1> SUFFICES ASSUME IInv, [Next]_vars PROVE IInv'
  OBVIOUS
<1>1. CASE Exit \/ Die
  BY <1>1, EndKeeps
<1>2. CASE Start
  BY <1>2, StartKeeps
<1>3. CASE Peek
  <2>1. pc \notin {"idle", "done"} /\ pc' = "poke" /\ UNCHANGED todo /\ Frame
    BY <1>3 DEF Peek, Frame, acq
  <2> QED
    BY <2>1, CallKeeps
<1>4. CASE Poke \/ Write \/ DacSet
  <2>1. pc \notin {"idle", "done"} /\ Finish /\ Frame
    BY <1>4 DEF Poke, Write, DacSet, Is, Frame, acq
  <2> QED
    BY <2>1, FinishKeeps
<1>5. CASE PwmSet
  <2>1. pc = "call" /\ Frame
    BY <1>5 DEF PwmSet, Is, Frame, acq
  <2>2. CASE Call.n < 7
    <3>1. pc' = "peek" /\ UNCHANGED todo
      BY <1>5, <2>1, <2>2 DEF PwmSet
    <3> QED
      BY <2>1, <3>1, CallKeeps
  <2>3. CASE ~(Call.n < 7)
    <3>1. Finish
      BY <1>5, <2>3 DEF PwmSet
    <3> QED
      BY <2>1, <3>1, FinishKeeps
  <2> QED
    BY <2>2, <2>3
<1>6. CASE AdcReset
  <2>1. pc = "call" /\ pc' = "go" /\ UNCHANGED todo /\ Frame
    BY <1>6 DEF AdcReset, Is, Frame, acq
  <2>2. Call.fn \in {"adc_acq", "adc_sam"}
    BY <1>6 DEF AdcReset, Is
  <2>3. Call \in Calls
    BY <2>1, HeadTailProperties DEF IInv, TypeInv, Call
  <2>4. Call \in AdcCalls
    BY <2>2, <2>3 DEF Calls, OutputCalls
  <2> QED
    BY <2>1, <2>4, CallKeeps
<1>7. CASE AdcStart
  BY <1>7, AdcStartKeeps
<1>8. CASE AcqStatus
  BY <1>8, AcqStatusKeeps
<1>9. CASE AcqRead
  BY <1>9, AcqReadKeeps
<1>10. CASE AcqBlock
  BY <1>10, AcqBlockKeeps
<1>11. CASE AcqRest
  BY <1>11, AcqRestKeeps
<1>12. CASE AcqSpin
  BY <1>12, AcqSpinKeeps
<1>13. CASE AcqEnd \/ SamEnd
  <2>1. pc \notin {"idle", "done"} /\ Finish /\ Frame
    BY <1>13 DEF AcqEnd, SamEnd, Frame, acq
  <2> QED
    BY <2>1, FinishKeeps
<1>14. CASE SamRead
  <2>1. UNCHANGED <<todo, pc>> /\ Frame
    BY <1>14 DEF SamRead, Frame
  <2> QED
    BY <2>1, SameKeeps
<1>15. CASE Sample \/ UNCHANGED vars
  <2>1. UNCHANGED <<todo, pc>> /\ Frame
    BY <1>15 DEF Sample, vars, Frame, acq
  <2> QED
    BY <2>1, SameKeeps
<1> QED
  BY <1>1, <1>2, <1>3, <1>4, <1>5, <1>6, <1>7, <1>8, <1>9, <1>10, <1>11, <1>12, <1>13,
     <1>14, <1>15 DEF Next, Go

-----------------------------------------------------------------------------
(* The call that is being made, and those after it. *)

LEMMA FirstCall ==
    ASSUME IInv, CommandInv, pc \notin {"idle", "done"}
    PROVE  /\ opts \in Commands /\ Asks(opts, Call)
           /\ Stage(opts, Call) \in 1 .. 8 /\ Pending(Stage(opts, Call))
           /\ \A k : Pending(k) => k \in Int /\ Stage(opts, Call) <= k
<1>1. /\ todo \in Seq(Calls) /\ todo # <<>> /\ opts \in Commands /\ Orderly(opts, todo)
  BY DEF IInv, TypeInv, CommandInv, BoardInv
<1>2. Len(todo) \in Nat /\ DOMAIN todo = 1 .. Len(todo) /\ 1 \in DOMAIN todo /\ Call = todo[1]
  BY <1>1, LenProperties, EmptySeq DEF Call
<1>3. Asks(opts, Call) /\ Stage(opts, Call) \in 1 .. 8
  BY <1>1, <1>2, StageType DEF Orderly
<1>4. Pending(Stage(opts, Call))
  BY <1>2 DEF Pending, Stages
<1>5. ASSUME NEW k, Pending(k) PROVE k \in Int /\ Stage(opts, Call) <= k
  <2>1. PICK i \in DOMAIN todo : k = Stage(opts, todo[i])
    BY <1>5 DEF Pending, Stages
  <2>2. k \in 1 .. 8
    BY <1>1, <2>1, StageType DEF Orderly
  <2>3. CASE i = 1
    BY <1>2, <1>3, <2>1, <2>2, <2>3
  <2>4. CASE i # 1
    <3>1. 1 < i
      BY <1>2, <2>4
    <3>2. Stage(opts, todo[1]) < Stage(opts, todo[i])
      BY <1>1, <1>2, <3>1 DEF Orderly
    <3> DEFINE j == Stage(opts, todo[1])
    <3>3. j \in 1 .. 8 /\ j < k
      BY <1>2, <1>3, <2>1, <3>2
    <3> HIDE DEF j
    <3>4. j <= k /\ k \in Int
      BY <2>2, <3>3
    <3> QED
      BY <1>2, <3>4 DEF j
  <2> QED
    BY <2>3, <2>4
<1> QED
  BY <1>1, <1>3, <1>4, <1>5

\* The call is over: its stage is no longer pending, all others are as they were.
LEMMA AfterCall ==
    ASSUME IInv, CommandInv, pc \notin {"idle", "done"}, Finish, UNCHANGED opts
    PROVE  /\ Orderly(opts, todo)' /\ ~PwmIsSet'
           /\ pc' \in {"call", "done"} /\ (pc' = "done" => todo' = <<>>)
           /\ \A k : Pending(k)' <=> Pending(k) /\ k # Stage(opts, Call)
<1>1. /\ todo \in Seq(Calls) /\ todo # <<>> /\ opts \in Commands /\ Orderly(opts, todo)
  BY DEF IInv, TypeInv, CommandInv, BoardInv
<1> DEFINE n == Len(todo)
<1>2. n \in Nat \ {0} /\ DOMAIN todo = 1 .. n /\ Call = todo[1]
  BY <1>1, LenProperties, EmptySeq DEF Call
<1>3. /\ todo' = Tail(todo) /\ opts' = opts
      /\ pc' \in {"call", "done"} /\ (pc' = "done" => todo' = <<>>)
  BY DEF Finish
<1>4. /\ todo' \in Seq(Calls) /\ Len(todo') = n - 1
      /\ \A i \in 1 .. Len(todo') : todo'[i] = todo[i + 1]
  BY <1>1, <1>3, HeadTailProperties
<1>5. DOMAIN todo' = 1 .. n - 1
  BY <1>4, LenProperties
<1> HIDE DEF n
<1>6. \A i \in 1 .. n - 1 : i + 1 \in 1 .. n /\ todo'[i] = todo[i + 1]
  BY <1>2, <1>4, <1>5
<1>7. Orderly(opts, todo)'
  <2>1. \A i \in DOMAIN todo' : Asks(opts', todo'[i])
    BY <1>1, <1>2, <1>3, <1>5, <1>6 DEF Orderly
  <2>2. ASSUME NEW i \in 1 .. n - 1, NEW j \in 1 .. n - 1, i < j
        PROVE  Stage(opts', todo'[i]) < Stage(opts', todo'[j])
    <3>1. i + 1 < j + 1
      BY <1>2, <2>2
    <3>2. Stage(opts, todo[i + 1]) < Stage(opts, todo[j + 1])
      BY <1>1, <1>2, <1>6, <3>1 DEF Orderly
    <3> QED
      BY <1>3, <1>6, <3>2
  <2> QED
    BY <1>5, <2>1, <2>2 DEF Orderly
<1>8. ASSUME NEW k, Pending(k)' PROVE Pending(k) /\ k # Stage(opts, Call)
  <2>1. PICK i \in 1 .. n - 1 : k = Stage(opts', todo'[i])
    BY <1>5, <1>8 DEF Pending, Stages
  <2>2. k = Stage(opts, todo[i + 1]) /\ i + 1 \in 1 .. n /\ 1 < i + 1 /\ 1 \in 1 .. n
    BY <1>2, <1>3, <1>6, <2>1
  <2>3. Pending(k)
    BY <1>2, <2>2 DEF Pending, Stages
  <2>4. Stage(opts, todo[1]) < k
    BY <1>1, <1>2, <2>2 DEF Orderly
  <2>5. k \in Int
    BY <2>3, FirstCall
  <2> QED
    BY <1>2, <2>3, <2>4, <2>5
<1>9. ASSUME NEW k, Pending(k), k # Stage(opts, Call) PROVE Pending(k)'
  <2>1. PICK i \in 1 .. n : k = Stage(opts, todo[i])
    BY <1>2, <1>9 DEF Pending, Stages
  <2>2. i # 1
    BY <1>2, <1>9, <2>1
  <2>3. i - 1 \in 1 .. n - 1 /\ (i - 1) + 1 = i
    BY <1>2, <2>2
  <2>4. todo'[i - 1] = todo[i]
    BY <1>6, <2>3
  <2> QED
    BY <1>3, <1>5, <2>1, <2>3, <2>4 DEF Pending, Stages
<1>10. ~PwmIsSet'
  BY <1>3 DEF PwmIsSet
<1> QED
  BY <1>3, <1>7, <1>8, <1>9, <1>10

-----------------------------------------------------------------------------
(* The values that are set fit in their registers. *)

LEMMA DutyFits ==
    \A d \in Int : 0 <= d /\ d <= 1000 =>
        DutyAsked(d) \in 0 .. 4096 /\ DutyAsked(d) % 2^13 = DutyAsked(d)
<1>1. \A d \in Int : 0 <= d /\ d <= 1000 => (d * 4096) \div 1000 \in 0 .. 4096
  OBVIOUS
<1>2. \A v \in 0 .. 4096 : v % 2^13 = v
  OBVIOUS
<1> QED
  BY <1>1, <1>2 DEF DutyAsked

LEMMA VoltsFit == \A v \in Int : 0 <= v /\ v <= 10000 => Code(v) = VoltsAsked(v)
<1>1. \A v \in Int : 0 <= v /\ v <= 10000 => (v * 4095) \div 10375 \in 0 .. 4095
  OBVIOUS
<1>2. \A w \in 0 .. 4095 : w % 2^16 = w
  OBVIOUS
<1> QED
  BY <1>1, <1>2 DEF Code, VoltsAsked

\* The bits of the PWM overrides are not those of the outputs: of register 8
\* each bit is as it was or as it is asked while it is set in two steps.
LEMMA SetInTwo ==
    ASSUME opts \in Commands
    PROVE  Between(DoAsked, before.reg[8], Reg8Asked)
<1>1. CASE opts.pwm \in 1 .. 6
  <2> DEFINE b == opts.pwm + 5
  <2>1. b \notin 0 .. 5
    BY <1>1
  <2>2. Reg8Asked \in {DoAsked \cup {b}, DoAsked \ {b}}
    BY <1>1 DEF Reg8Asked, BitAsked
  <2> HIDE DEF b
  <2> QED
    BY <2>1, <2>2 DEF Between, DoAsked
<1>2. CASE opts.pwm \notin 1 .. 6
  BY <1>2 DEF Between, Reg8Asked, DoAsked
<1> QED
  BY <1>1, <1>2

LEMMA SetAtOnce ==
    \A s, t : Between(s, s, t) /\ Between(t, s, t)
  BY DEF Between

\* While a program runs, what KilledInv says follows from where it is.
LEMMA EffectKilled == BoardInv /\ EffectInv => KilledInv
<1> SUFFICES ASSUME BoardInv, EffectInv PROVE KilledInv
  OBVIOUS
<1>1. \A n \in 1 .. 4 : dac[n] \in {before.dac[n], Wish.dac[n]}
  BY DEF EffectInv, DacInv
<1>2. \A n \in 1 .. 8 : Wish.pwm[n] = PwmAsked(n)
  BY DEF Wish
<1>3. ASSUME NEW n \in 1 .. 8 PROVE pwm[n] \in {before.pwm[n], Wish.pwm[n]}
  <2>1. CASE n \in 1 .. 6
    BY <1>2, <2>1 DEF EffectInv, PwmInv
  <2>2. CASE n \in 7 .. 8
    BY <1>2, <2>2 DEF EffectInv, BridgeInv
  <2> QED
    BY <2>1, <2>2
<1>4. opts.write # 8 => Between(reg[8], before.reg[8], Wish.reg[8])
  <2>1. ASSUME opts.write # 8
        PROVE Wish.reg[8] = Reg8Asked /\ reg[8] \in {before.reg[8], DoAsked, Reg8Asked}
    BY <2>1 DEF EffectInv, Reg8Inv, Wish
  <2> QED
    BY <2>1, SetInTwo, SetAtOnce DEF BoardInv
<1>5. opts.write # 2 => Between(reg[2], before.reg[2], Wish.reg[2])
  <2>1. ASSUME opts.write # 2
        PROVE Wish.reg[2] = Reg2Asked /\ reg[2] \in {before.reg[2], Reg2Asked}
    BY <2>1 DEF EffectInv, Reg2Inv, Wish
  <2> QED
    BY <2>1, SetAtOnce
<1> QED
  BY <1>1, <1>3, <1>4, <1>5 DEF KilledInv

-----------------------------------------------------------------------------
(* The steps keep the invariant of the board. *)

\* What is asked stays the same while the program runs.
LEMMA AskedSame ==
    ASSUME UNCHANGED <<opts, before>>
    PROVE  /\ UNCHANGED <<Wish, DoAsked, Reg8Asked, Reg2Asked, BridgePwm, BridgeReg>>
           /\ \A n : PwmAsked(n)' = PwmAsked(n)
<1>1. /\ UNCHANGED <<DoAsked, BridgePwm>>
      /\ \A n : PwmAsked(n)' = PwmAsked(n)
  BY DEF DoAsked, BridgePwm, PwmAsked
<1>2. UNCHANGED <<Reg8Asked, Reg2Asked, BridgeReg>>
  BY <1>1 DEF Reg8Asked, Reg2Asked, BridgeReg
<1>3. UNCHANGED Wish
  BY <1>1, <1>2 DEF Wish
<1> QED
  BY <1>1, <1>2, <1>3

\* A step in a call that leaves the board alone.
LEMMA StayKeeps ==
    ASSUME CommandInv, UNCHANGED <<board, opts, todo, before>>, PlaceInv',
           pc = "idle" <=> pc' = "idle", PwmIsSet' <=> PwmIsSet
    PROVE  CommandInv'
<1>1. UNCHANGED <<reg, pwm, dac, opts, todo, before>>
  BY DEF board
<1>2. BoardInv'
  BY <1>1 DEF CommandInv, BoardInv
<1>3. KilledInv'
  BY <1>1, AskedSame DEF CommandInv, KilledInv
<1>4. ASSUME pc # "idle" PROVE (Orderly(opts, todo) /\ RestInv /\ EffectInv)'
  <2>1. Orderly(opts, todo) /\ RestInv /\ EffectInv
    BY <1>4 DEF CommandInv
  <2>2. \A k : Pending(k)' <=> Pending(k)
    BY <1>1 DEF Pending
  <2>3. Orderly(opts, todo)'
    BY <1>1, <2>1
  <2>4. RestInv'
    BY <1>1, <2>1, <2>2 DEF RestInv
  <2>5. DacInv' /\ Reg8Inv' /\ Reg2Inv' /\ BridgeInv'
    BY <1>1, <2>1, <2>2, AskedSame DEF EffectInv, DacInv, Reg8Inv, Reg2Inv, BridgeInv
  <2>6. PwmInv'
    BY <1>1, <2>1, <2>2, AskedSame DEF EffectInv, PwmInv
  <2> QED
    BY <2>3, <2>4, <2>5, <2>6 DEF EffectInv
<1> QED
  BY <1>2, <1>3, <1>4 DEF CommandInv

\* A call is over: what it does not set is as it was.
LEMMA Untouched ==
    ASSUME IInv, CommandInv, pc \notin {"idle", "done"}, Finish, UNCHANGED <<opts, before>>,
           NEW k, k = Stage(opts, Call)
    PROVE  /\ RestInv'
           /\ k # 4 /\ dac' = dac => DacInv'
           /\ k # 5 /\ (\A n \in 1 .. 6 : pwm'[n] = pwm[n]) => PwmInv'
           /\ k # BridgePwm /\ (\A n \in 7 .. 8 : pwm'[n] = pwm[n]) => BridgeInv'
           /\ k \notin {1, 5} /\ (k = 8 => opts.write # 8) /\ reg'[8] = reg[8] => Reg8Inv'
           /\ k # BridgeReg /\ (k = 8 => opts.write # 2) /\ reg'[2] = reg[2] => Reg2Inv'
<1>1. /\ k \in 1 .. 8 /\ Pending(k) /\ opts' = opts /\ before' = before /\ ~PwmIsSet'
      /\ \A j : Pending(j)' <=> Pending(j) /\ j # k
      /\ \A j : Pending(j) => j \in Int /\ k <= j
  BY FirstCall, AfterCall
<1>2. RestInv /\ EffectInv
  BY DEF CommandInv
<1>3. RestInv'
  <2>1. ASSUME opts.pwm \in 1 .. 6, ~Pending(5)' PROVE \A j \in 1 .. 5 : ~Pending(j)'
    <3>1. CASE k = 5
      BY <1>1, <3>1
    <3>2. CASE k # 5
      BY <1>1, <1>2, <2>1, <3>2 DEF RestInv
    <3> QED
      BY <3>1, <3>2
  <2>2. ASSUME opts.write # 0, ~Pending(8)' PROVE \A j \in 1 .. 8 : ~Pending(j)'
    <3>1. CASE k = 8
      BY <1>1, <3>1
    <3>2. CASE k # 8
      BY <1>1, <1>2, <2>2, <3>2 DEF RestInv
    <3> QED
      BY <3>1, <3>2
  <2> QED
    BY <1>1, <2>1, <2>2 DEF RestInv
<1>4. ASSUME k # 4, dac' = dac PROVE DacInv'
  BY <1>1, <1>2, <1>4, AskedSame DEF EffectInv, DacInv
<1>5. ASSUME k # 5, \A n \in 1 .. 6 : pwm'[n] = pwm[n] PROVE PwmInv'
  <2>1. ~PwmIsSet
    <3> SUFFICES ASSUME PwmIsSet PROVE FALSE
      OBVIOUS
    <3>1. Call.fn = "pwm_set" /\ Call.n < 7
      BY DEF CommandInv, PlaceInv, PwmIsSet
    <3>2. k = 5
      BY <3>1, FirstCall, CallAsked
    <3> QED
      BY <1>5, <3>2
  <2> QED
    BY <1>1, <1>2, <1>5, <2>1, AskedSame DEF EffectInv, PwmInv
<1>6. ASSUME k # BridgePwm, \A n \in 7 .. 8 : pwm'[n] = pwm[n] PROVE BridgeInv'
  BY <1>1, <1>2, <1>6, AskedSame DEF EffectInv, BridgeInv
<1>7. ASSUME k \notin {1, 5}, k = 8 => opts.write # 8, reg'[8] = reg[8] PROVE Reg8Inv'
  BY <1>1, <1>2, <1>7, AskedSame DEF EffectInv, Reg8Inv
<1>8. ASSUME k # BridgeReg, k = 8 => opts.write # 2, reg'[2] = reg[2] PROVE Reg2Inv'
  BY <1>1, <1>2, <1>8, AskedSame DEF EffectInv, Reg2Inv
<1> QED
  BY <1>3, <1>4, <1>5, <1>6, <1>7, <1>8

\* A call is over: the invariant holds again if it does for the board.
LEMMA OverKeeps ==
    ASSUME IInv, CommandInv, pc \notin {"idle", "done"}, Finish, UNCHANGED <<opts, before>>,
           BoardInv', EffectInv'
    PROVE  CommandInv'
<1>1. Orderly(opts, todo)' /\ pc' \in {"call", "done"} /\ (pc' = "done" => todo' = <<>>)
  BY AfterCall
<1>2. RestInv'
  BY Untouched
<1>3. PlaceInv'
  BY <1>1 DEF PlaceInv
<1>4. (BoardInv /\ EffectInv => KilledInv)'
  BY EffectKilled, PTL
<1>5. KilledInv'
  BY <1>4
<1> QED
  BY <1>1, <1>2, <1>3, <1>5 DEF CommandInv

\* A register is poked: what was read of it is still in it.
LEMMA PokeEffect == ASSUME IInv, CommandInv, Poke PROVE CommandInv'
<1> DEFINE k == Stage(opts, Call)
<1>1. /\ pc = "poke" /\ Finish /\ UNCHANGED <<opts, before, pwm, dac>>
      /\ reg' = [reg EXCEPT ![Adr] = Changed] /\ x = reg[Adr]
      /\ Call.fn \in {"do_set", "pwm_disable", "hb_set", "hb_disable"}
           \/ (Call.fn = "pwm_set" /\ Call.n < 7)
  BY DEF Poke, CommandInv, PlaceInv
<1>2. /\ opts \in Commands /\ Asks(opts, Call) /\ k \in 1 .. 8 /\ Pending(k)
      /\ \A j : Pending(j) => j \in Int /\ k <= j
  BY <1>1, FirstCall
<1>3. /\ \A j : Pending(j)' <=> Pending(j) /\ j # k
      /\ ~PwmIsSet'
  BY <1>1, AfterCall
<1>4. RestInv /\ EffectInv /\ BoardInv
  BY <1>1 DEF CommandInv
<1>5. BoardInv'
  BY <1>1, <1>4 DEF BoardInv, Adr
<1>6. BridgePwm \in {6, 7} /\ BridgeReg \in {6, 7} /\ BridgePwm # BridgeReg
  BY DEF BridgePwm, BridgeReg
<1>7. CASE Call.fn = "do_set"
  <2>1. k = 1 /\ opts.DO /\ Call.lval = opts.lval /\ Adr = 8
    BY <1>2, <1>7, CallAsked DEF Adr
  <2>2. reg[8] = before.reg[8]
    BY <1>2, <1>4, <2>1 DEF RestInv, EffectInv, Reg8Inv
  <2>3. reg'[8] = DoAsked /\ reg'[2] = reg[2]
    BY <1>1, <1>4, <1>7, <2>1, <2>2 DEF Changed, DoAsked, BoardInv
  <2>4. Reg8Inv'
    <3>1. (opts.write = 8 => Pending(8)') /\ ~Pending(1)'
      BY <1>2, <1>3, <1>4, <2>1 DEF RestInv
    <3>2. ~Pending(5)' => Reg8Asked = DoAsked
      BY <1>2, <1>3, <1>4, <2>1 DEF RestInv, Reg8Asked
    <3> QED
      BY <1>1, <2>3, <3>1, <3>2, AskedSame DEF Reg8Inv
  <2>5. DacInv' /\ PwmInv' /\ BridgeInv' /\ Reg2Inv'
    BY <1>1, <1>6, <2>1, <2>3, Untouched
  <2> QED
    BY <1>1, <1>5, <2>4, <2>5, OverKeeps DEF EffectInv
<1>8. CASE Call.fn = "pwm_disable" \/ (Call.fn = "pwm_set" /\ Call.n < 7)
  <2>1. /\ k = 5 /\ opts.pwm \in 1 .. 6 /\ Call.n = opts.pwm /\ Adr = 8
        /\ opts.duty >= 0 <=> Call.fn = "pwm_set"
    <3>1. opts.duty \in Int
      BY <1>2, OptionTypes
    <3> QED
      BY <1>2, <1>8, <3>1, CallAsked DEF Adr
  <2>2. reg[8] = DoAsked
    BY <1>2, <1>4, <2>1 DEF RestInv, EffectInv, Reg8Inv
  <2>3. reg'[8] = Reg8Asked /\ reg'[2] = reg[2]
    <3>1. Changed = BitAsked(opts.duty >= 0, opts.pwm + 5, DoAsked)
      BY <1>1, <1>8, <2>1, <2>2 DEF Changed, BitAsked
    <3> QED
      BY <1>1, <1>4, <2>1, <3>1 DEF Reg8Asked, BoardInv
  <2>4. Reg8Inv'
    <3>1. (opts.write = 8 => Pending(8)') /\ ~Pending(1)' /\ ~Pending(5)'
      BY <1>2, <1>3, <1>4, <2>1 DEF RestInv
    <3> QED
      BY <1>1, <2>3, <3>1, AskedSame DEF Reg8Inv
  <2>5. PwmInv'
    <3>1. ~Pending(5)'
      BY <1>3, <2>1
    <3>2. \A n \in 1 .. 6 : pwm[n] = PwmAsked(n)
      <4>1. CASE Call.fn = "pwm_set"
        <5>1. PwmIsSet
          BY <1>1, <4>1 DEF PwmIsSet
        <5> QED
          BY <1>4, <5>1 DEF EffectInv, PwmInv
      <4>2. CASE Call.fn = "pwm_disable"
        <5>1. ~PwmIsSet
          BY <4>2 DEF PwmIsSet
        <5>2. \A n \in 1 .. 6 : PwmAsked(n) = before.pwm[n]
          BY <2>1, <4>2 DEF PwmAsked
        <5> QED
          BY <1>2, <1>4, <2>1, <5>1, <5>2 DEF EffectInv, PwmInv
      <4> QED
        BY <1>8, <4>1, <4>2
    <3> QED
      BY <1>1, <3>1, <3>2, AskedSame DEF PwmInv
  <2>6. DacInv' /\ BridgeInv' /\ Reg2Inv'
    BY <1>1, <1>6, <2>1, <2>3, Untouched
  <2> QED
    BY <1>1, <1>5, <2>4, <2>5, <2>6, OverKeeps DEF EffectInv
<1>9. CASE Call.fn \in {"hb_set", "hb_disable"}
  <2>1. /\ k = BridgeReg /\ opts.hb \in 1 .. 2 /\ Call.n = opts.hb /\ Adr = 2
        /\ Call.fn = "hb_disable" <=> opts.hbset = "disable"
        /\ Call.fn = "hb_set" => Call.dir = IF opts.hbset = "rev" THEN 1 ELSE 0
    BY <1>2, <1>9, CallAsked DEF Adr, BridgeReg, BridgePwm
  <2>2. reg[2] = before.reg[2]
    BY <1>2, <1>4, <1>6, <2>1 DEF RestInv, EffectInv, Reg2Inv
  <2>3. reg'[2] = Reg2Asked /\ reg'[8] = reg[8]
    <3>1. Changed = Reg2Asked
      BY <1>1, <1>9, <2>1, <2>2 DEF Changed, Reg2Asked, BitAsked
    <3> QED
      BY <1>1, <1>4, <2>1, <3>1 DEF BoardInv
  <2>4. Reg2Inv'
    <3>1. (opts.write = 2 => Pending(8)') /\ ~Pending(BridgeReg)'
      BY <1>1, <1>2, <1>3, <1>4, <1>6, <2>1, AskedSame DEF RestInv
    <3> QED
      BY <1>1, <2>3, <3>1, AskedSame DEF Reg2Inv
  <2>5. DacInv' /\ PwmInv' /\ BridgeInv' /\ Reg8Inv'
    BY <1>1, <1>6, <2>1, <2>3, Untouched
  <2> QED
    BY <1>1, <1>5, <2>4, <2>5, OverKeeps DEF EffectInv
<1> QED
  BY <1>1, <1>7, <1>8, <1>9

LEMMA WriteEffect == ASSUME IInv, CommandInv, Write PROVE CommandInv'
<1> DEFINE k == Stage(opts, Call)
<1>1. /\ pc = "call" /\ Finish /\ UNCHANGED <<opts, before, pwm, dac>>
      /\ reg' = [reg EXCEPT ![Call.adr] = Call.val] /\ Call.fn = "write"
  BY DEF Write, Is
<1>2. /\ k = 8 /\ opts.write \in {2, 8} /\ Call.adr = opts.write /\ Call.val = opts.bits
  BY <1>1, FirstCall, CallAsked
<1>3. /\ ~Pending(8)' /\ ~Pending(1)' /\ ~Pending(5)'
  <2>1. \A j : Pending(j) => j \in Int /\ 8 <= j
    BY <1>1, <1>2, FirstCall
  <2> QED
    BY <1>1, <1>2, <2>1, AfterCall
<1>4. BoardInv /\ BoardInv'
  BY <1>1, <1>2 DEF BoardInv, CommandInv
<1>5. BridgePwm \in {6, 7} /\ BridgeReg \in {6, 7}
  BY DEF BridgePwm, BridgeReg
<1>6. DacInv' /\ PwmInv' /\ BridgeInv'
  BY <1>1, <1>2, <1>5, Untouched
<1>7. Reg8Inv'
  <2>1. CASE opts.write = 8
    <3>1. reg'[8] = opts.bits
      BY <1>1, <1>2, <1>4, <2>1 DEF BoardInv
    <3> QED
      BY <1>1, <1>3, <2>1, <3>1 DEF Reg8Inv
  <2>2. CASE opts.write = 2
    <3>1. reg'[8] = reg[8]
      BY <1>1, <1>2, <1>4, <2>2 DEF BoardInv
    <3> QED
      BY <1>1, <1>2, <2>2, <3>1, Untouched
  <2> QED
    BY <1>2, <2>1, <2>2
<1>8. Reg2Inv'
  <2>1. CASE opts.write = 2
    <3>1. reg'[2] = opts.bits
      BY <1>1, <1>2, <1>4, <2>1 DEF BoardInv
    <3> QED
      BY <1>1, <1>3, <2>1, <3>1 DEF Reg2Inv
  <2>2. CASE opts.write = 8
    <3>1. reg'[2] = reg[2]
      BY <1>1, <1>2, <1>4, <2>2 DEF BoardInv
    <3> QED
      BY <1>1, <1>2, <1>5, <2>2, <3>1, Untouched
  <2> QED
    BY <1>2, <2>1, <2>2
<1> QED
  BY <1>1, <1>4, <1>6, <1>7, <1>8, OverKeeps DEF EffectInv

LEMMA DacSetEffect == ASSUME IInv, CommandInv, DacSet PROVE CommandInv'
<1> DEFINE k == Stage(opts, Call)
<1>1. /\ pc = "call" /\ Finish /\ UNCHANGED <<opts, before, reg, pwm>> /\ Call.fn = "dac_set"
      /\ dac' = [dac EXCEPT ![Call.n] = Code(Call.val)]
  BY DEF DacSet, Is
<1>2. /\ k = 4 /\ opts.dac \in 1 .. 4 /\ Call.n = opts.dac /\ Call.val = opts.mvolts
      /\ Pending(4) /\ opts \in Commands
  BY <1>1, FirstCall, CallAsked
<1>3. dac' = [dac EXCEPT ![opts.dac] = VoltsAsked(opts.mvolts)]
  <2>1. Code(opts.mvolts) = VoltsAsked(opts.mvolts)
    BY <1>2, OptionTypes, VoltsFit
  <2> QED
    BY <1>1, <1>2, <2>1
<1>4. ~Pending(4)'
  BY <1>1, <1>2, AfterCall
<1>5. BoardInv /\ BoardInv'
  BY <1>1 DEF BoardInv, CommandInv
<1>6. BridgePwm \in {6, 7} /\ BridgeReg \in {6, 7}
  BY DEF BridgePwm, BridgeReg
<1>7. PwmInv' /\ BridgeInv' /\ Reg8Inv' /\ Reg2Inv'
  BY <1>1, <1>2, <1>6, Untouched
<1>8. DacInv'
  <2>1. dac = before.dac
    BY <1>1, <1>2 DEF CommandInv, EffectInv, DacInv
  <2>2. dac' = Wish.dac
    BY <1>3, <1>5, <2>1 DEF BoardInv, Wish
  <2> QED
    BY <1>1, <1>4, <2>2, AskedSame DEF DacInv
<1> QED
  BY <1>1, <1>5, <1>7, <1>8, OverKeeps DEF EffectInv

\* The PWM of an H bridge is set at once, that of an output before its override.
LEMMA PwmSetEffect == ASSUME IInv, CommandInv, PwmSet PROVE CommandInv'
<1> DEFINE k == Stage(opts, Call)
<1>1. /\ pc = "call" /\ UNCHANGED <<opts, before, reg, dac>> /\ Call.fn = "pwm_set"
      /\ pwm' = [pwm EXCEPT ![Call.n] = Call.val % 2^13]
  BY DEF PwmSet, Is
<1>2. opts \in Commands /\ Asks(opts, Call) /\ Pending(k)
  BY <1>1, FirstCall
<1>3. BoardInv /\ BoardInv' /\ EffectInv /\ RestInv /\ Orderly(opts, todo)
  BY <1>1 DEF BoardInv, CommandInv
<1>4. ~PwmIsSet
  BY <1>1 DEF PwmIsSet
<1>5. CASE Call.n < 7
  <2>1. pc' = "peek" /\ UNCHANGED todo
    BY <1>5 DEF PwmSet
  <2>2. /\ k = 5 /\ opts.pwm \in 1 .. 6 /\ opts.duty >= 0 /\ Call.n = opts.pwm
        /\ Call.val = DutyAsked(opts.duty)
    BY <1>1, <1>2, <1>5, CallAsked
  <2>3. Call.val % 2^13 = DutyAsked(opts.duty)
    BY <1>2, <2>2, OptionTypes, DutyFits
  <2>4. PwmIsSet' /\ Call' = Call /\ \A j : Pending(j)' <=> Pending(j)
    BY <1>1, <2>1 DEF PwmIsSet, Call, Pending
  <2>5. \A n \in 1 .. 8 : pwm'[n] = IF n = opts.pwm THEN DutyAsked(opts.duty) ELSE pwm[n]
    BY <1>1, <1>3, <2>2, <2>3 DEF BoardInv
  <2>6. PwmInv'
    <3>1. \A n \in 1 .. 6 : pwm[n] = before.pwm[n]
      BY <1>2, <1>3, <1>4, <2>2 DEF EffectInv, PwmInv
    <3>2. \A n \in 1 .. 6 : pwm'[n] = PwmAsked(n)
      BY <2>2, <2>5, <3>1 DEF PwmAsked
    <3> QED
      BY <1>1, <2>4, <3>2, AskedSame DEF PwmInv
  <2>7. BridgeInv'
    <3>1. \A n \in 7 .. 8 : pwm'[n] = pwm[n]
      BY <2>2, <2>5
    <3> QED
      BY <1>1, <1>3, <2>4, <3>1, AskedSame DEF EffectInv, BridgeInv
  <2>8. DacInv' /\ Reg8Inv' /\ Reg2Inv'
    BY <1>1, <1>3, <2>4, AskedSame DEF EffectInv, DacInv, Reg8Inv, Reg2Inv
  <2>9. PlaceInv'
    BY <1>1, <1>5, <2>1, <2>4 DEF PlaceInv
  <2>10. RestInv' /\ Orderly(opts, todo)'
    BY <1>1, <1>3, <2>1, <2>4 DEF RestInv
  <2>11. (BoardInv /\ EffectInv => KilledInv)'
    BY EffectKilled, PTL
  <2> QED
    BY <1>3, <2>6, <2>7, <2>8, <2>9, <2>10, <2>11 DEF CommandInv, EffectInv
<1>6. CASE ~(Call.n < 7)
  <2>1. Finish
    BY <1>6 DEF PwmSet
  <2> DEFINE v == IF opts.hbset \in {"fwd", "rev"} THEN DutyAsked(opts.hbduty) ELSE 0
  <2>2. /\ k = BridgePwm /\ opts.hb \in 1 .. 2 /\ Call.n = opts.hb + 6 /\ Call.val = v
    BY <1>1, <1>2, <1>6, CallAsked DEF BridgePwm
  <2>3. Call.val % 2^13 = v
    <3>1. DutyAsked(opts.hbduty) % 2^13 = DutyAsked(opts.hbduty)
      BY <1>2, OptionTypes, DutyFits
    <3>2. 0 % 2^13 = 0
      OBVIOUS
    <3> QED
      BY <2>2, <3>1, <3>2
  <2>4. \A n \in 1 .. 8 : pwm'[n] = IF n = opts.hb + 6 THEN v ELSE pwm[n]
    BY <1>1, <1>3, <2>2, <2>3 DEF BoardInv
  <2> HIDE DEF v
  <2>5. BridgeInv'
    <3>1. \A n \in 7 .. 8 : pwm[n] = before.pwm[n]
      BY <1>2, <1>3, <2>2 DEF EffectInv, BridgeInv
    <3>2. ASSUME NEW n \in 7 .. 8 PROVE pwm'[n] = PwmAsked(n)
      <4>1. n = opts.hb + 6 <=> opts.hb = n - 6
        BY <2>2
      <4>2. n > 6
        OBVIOUS
      <4> QED
        BY <2>4, <3>1, <4>1, <4>2 DEF PwmAsked, v
    <3>3. ~Pending(BridgePwm)'
      BY <1>1, <2>1, <2>2, AfterCall, AskedSame
    <3> QED
      BY <1>1, <3>2, <3>3, AskedSame DEF BridgeInv
  <2>6. \A n \in 1 .. 6 : pwm'[n] = pwm[n]
    BY <2>2, <2>4
  <2>7. BridgePwm \in {6, 7} /\ BridgeReg \in {6, 7} /\ BridgePwm # BridgeReg
    BY DEF BridgePwm, BridgeReg
  <2>8. DacInv' /\ PwmInv' /\ Reg8Inv' /\ Reg2Inv'
    BY <1>1, <2>1, <2>2, <2>6, <2>7, Untouched
  <2> QED
    BY <1>1, <1>3, <2>1, <2>5, <2>8, OverKeeps DEF EffectInv
<1> QED
  BY <1>5, <1>6

\* A program starts on the board as it is.
LEMMA StartEffect == ASSUME CommandInv, Start PROVE CommandInv'
<1>1. /\ opts' \in Commands /\ todo' = main(opts') /\ pc' = "call"
      /\ before' = [reg |-> reg, pwm |-> pwm, dac |-> dac] /\ UNCHANGED <<reg, pwm, dac>>
  BY DEF Start, board
<1>2. \A o \in Commands :
        /\ Orderly(o, main(o))
        /\ o.DO => 1 \in Stages(o, main(o))
        /\ o.dac \in 1 .. 4 => 4 \in Stages(o, main(o))
        /\ o.pwm \in 1 .. 6 => 5 \in Stages(o, main(o))
        /\ o.hb # 0 => 6 \in Stages(o, main(o)) /\ 7 \in Stages(o, main(o))
        /\ o.write # 0 => 8 \in Stages(o, main(o))
  BY MainOrderly
<1>3. /\ Orderly(opts, todo)'
      /\ (opts.DO => Pending(1))' /\ (opts.dac \in 1 .. 4 => Pending(4))'
      /\ (opts.pwm \in 1 .. 6 => Pending(5))' /\ (opts.write # 0 => Pending(8))'
      /\ (opts.hb # 0 => Pending(6) /\ Pending(7))'
  BY <1>1, <1>2 DEF Pending
<1>4. BoardInv'
  BY <1>1 DEF BoardInv, CommandInv
<1>5. PlaceInv' /\ ~PwmIsSet'
  BY <1>1 DEF PlaceInv, PwmIsSet
<1>6. RestInv'
  BY <1>3 DEF RestInv
<1>7. opts'.hb \in 0 .. 2
  BY <1>1, OptionTypes
<1>8. DacInv'
  <2>1. CASE opts'.dac \in 1 .. 4
    BY <1>1, <1>3, <2>1 DEF DacInv
  <2>2. CASE opts'.dac \notin 1 .. 4
    <3>1. Wish'.dac = [n \in 1 .. 4 |-> before'.dac[n]]
      BY <2>2 DEF Wish
    <3> QED
      BY <1>1, <1>4, <3>1 DEF DacInv, BoardInv
  <2> QED
    BY <2>1, <2>2
<1>9. PwmInv'
  <2>1. CASE opts'.pwm \in 1 .. 6
    BY <1>1, <1>3, <1>5, <2>1 DEF PwmInv
  <2>2. CASE opts'.pwm \notin 1 .. 6
    <3>1. \A n \in 1 .. 6 : PwmAsked(n)' = before'.pwm[n]
      BY <2>2 DEF PwmAsked
    <3> QED
      BY <1>1, <3>1 DEF PwmInv
  <2> QED
    BY <2>1, <2>2
<1>10. BridgeInv'
  <2>1. CASE opts'.hb # 0
    BY <1>1, <1>3, <2>1 DEF BridgeInv, BridgePwm
  <2>2. CASE opts'.hb = 0
    <3>1. \A n \in 7 .. 8 : PwmAsked(n)' = before'.pwm[n]
      BY <2>2 DEF PwmAsked
    <3> QED
      BY <1>1, <3>1 DEF BridgeInv
  <2> QED
    BY <2>1, <2>2
<1>11. Reg8Inv'
  <2>1. ~opts'.DO => DoAsked' = before'.reg[8]
    BY DEF DoAsked
  <2>2. opts'.pwm \notin 1 .. 6 => Reg8Asked' = DoAsked'
    BY DEF Reg8Asked
  <2>3. opts'.write = 8 => Pending(8)'
    BY <1>3
  <2> QED
    BY <1>1, <1>3, <2>1, <2>2, <2>3 DEF Reg8Inv
<1>12. Reg2Inv'
  <2>1. opts'.hb = 0 => Reg2Asked' = before'.reg[2]
    BY DEF Reg2Asked
  <2>2. opts'.hb # 0 => Pending(BridgeReg)'
    BY <1>3 DEF BridgeReg, BridgePwm
  <2>3. opts'.write = 2 => Pending(8)'
    BY <1>3
  <2> QED
    BY <1>1, <2>1, <2>2, <2>3 DEF Reg2Inv
<1>13. (BoardInv /\ EffectInv => KilledInv)'
  BY EffectKilled, PTL
<1> QED
  BY <1>3, <1>4, <1>5, <1>6, <1>8, <1>9, <1>10, <1>11, <1>12, <1>13 DEF CommandInv, EffectInv

\* It ends or is killed, and leaves the board as it is.
LEMMA EndEffect == ASSUME CommandInv, Exit \/ Die PROVE CommandInv'
<1>1. pc' = "idle" /\ UNCHANGED <<reg, pwm, dac, opts, before>>
  BY DEF Exit, Die, board
<1>2. BoardInv' /\ PlaceInv'
  BY <1>1 DEF CommandInv, BoardInv, PlaceInv
<1>3. KilledInv'
  BY <1>1, AskedSame DEF CommandInv, KilledInv
<1> QED
  BY <1>1, <1>2, <1>3 DEF CommandInv

LEMMA InitCommandInv == Init => CommandInv
<1> SUFFICES ASSUME Init PROVE CommandInv
  OBVIOUS
<1>1. BoardInv
  BY DEF Init, BoardInv
<1>2. PlaceInv
  BY DEF Init, PlaceInv
<1>3. KilledInv
  BY SetAtOnce DEF Init, KilledInv
<1> QED
  BY <1>1, <1>2, <1>3 DEF CommandInv, Init

LEMMA NextCommandInv == IInv /\ CommandInv /\ [Next]_vars => CommandInv'
<1> SUFFICES ASSUME IInv, CommandInv, [Next]_vars PROVE CommandInv'
  OBVIOUS
<1>1. CASE Exit \/ Die
  BY <1>1, EndEffect
<1>2. CASE Start
  BY <1>2, StartEffect
<1>3. CASE Peek
  <2>1. /\ pc' = "poke" /\ x' = reg[Adr] /\ UNCHANGED <<board, opts, todo, before>>
        /\ \/ pc = "peek"
           \/ pc = "call" /\ Call.fn \in {"do_set", "pwm_disable", "hb_set", "hb_disable"}
    BY <1>3 DEF Peek
  <2>2. Call' = Call /\ Adr' = Adr /\ reg' = reg
    BY <2>1 DEF Call, Adr, board
  <2>3. PlaceInv'
    BY <2>1, <2>2 DEF CommandInv, PlaceInv
  <2>4. PwmIsSet' <=> PwmIsSet
    BY <2>1, <2>2 DEF CommandInv, PlaceInv, PwmIsSet
  <2> QED
    BY <2>1, <2>3, <2>4, StayKeeps
<1>4. CASE Poke
  BY <1>4, PokeEffect
<1>5. CASE Write
  BY <1>5, WriteEffect
<1>6. CASE PwmSet
  BY <1>6, PwmSetEffect
<1>7. CASE DacSet
  BY <1>7, DacSetEffect
<1>8. CASE AdcReset \/ AdcStart \/ AcqStatus \/ AcqRead \/ AcqBlock \/ AcqRest \/ AcqSpin
             \/ SamRead
  <2>1. /\ UNCHANGED <<board, opts, todo, before>> /\ pc' \in {"go", "loop", "step", "sam"}
        /\ \/ pc \in {"go", "loop", "step", "sam"}
           \/ pc = "call" /\ Call.fn \in {"adc_acq", "adc_sam"}
    BY <1>8 DEF AdcReset, AdcStart, AcqStatus, AcqRead, AcqBlock, AcqRest, AcqSpin, SamRead, Is,
        adc
  <2>2. Call' = Call
    BY <2>1 DEF Call
  <2>3. PlaceInv'
    BY <2>1, <2>2 DEF CommandInv, PlaceInv
  <2>4. PwmIsSet' <=> PwmIsSet
    BY <2>1 DEF PwmIsSet
  <2> QED
    BY <2>1, <2>3, <2>4, StayKeeps
<1>9. CASE AcqEnd \/ SamEnd
  <2>1. pc \in {"loop", "sam"} /\ Finish /\ UNCHANGED <<reg, pwm, dac, opts, before>>
    BY <1>9 DEF AcqEnd, SamEnd, board
  <2>2. Stage(opts, Call) \in {2, 3}
    BY <2>1, FirstCall, CallAsked DEF CommandInv, PlaceInv
  <2>3. BridgePwm \in {6, 7} /\ BridgeReg \in {6, 7}
    BY DEF BridgePwm, BridgeReg
  <2>4. EffectInv'
    BY <2>1, <2>2, <2>3, Untouched DEF EffectInv
  <2>5. BoardInv'
    BY <2>1 DEF CommandInv, BoardInv
  <2> QED
    BY <2>1, <2>4, <2>5, OverKeeps
<1>10. CASE Sample \/ UNCHANGED vars
  <2>1. UNCHANGED <<board, opts, todo, before, pc, x>>
    BY <1>10 DEF Sample, vars
  <2>2. Call' = Call /\ Adr' = Adr /\ reg' = reg /\ pc' = pc /\ x' = x /\ todo' = todo
    BY <2>1 DEF Call, Adr, board
  <2>3. PlaceInv' /\ (PwmIsSet' <=> PwmIsSet)
    BY <2>2 DEF CommandInv, PlaceInv, PwmIsSet
  <2> QED
    BY <2>1, <2>3, StayKeeps
<1> QED
  BY <1>1, <1>2, <1>3, <1>4, <1>5, <1>6, <1>7, <1>8, <1>9, <1>10 DEF Next, Go

\* When all calls are made the board is as it is asked.
LEMMA CommandInvEffect == CommandInv => CommandEffect
<1> SUFFICES ASSUME CommandInv PROVE CommandEffect
  OBVIOUS
<1>1. ASSUME pc = "done" PROVE reg = Wish.reg /\ pwm = Wish.pwm /\ dac = Wish.dac
  <2>1. \A k : ~Pending(k)
    <3>1. DOMAIN <<>> = {}
      OBVIOUS
    <3> QED
      BY <1>1, <3>1 DEF CommandInv, PlaceInv, Pending, Stages
  <2>2. BoardInv /\ EffectInv
    BY <1>1 DEF CommandInv
  <2>3. dac = Wish.dac
    BY <2>1, <2>2 DEF EffectInv, DacInv
  <2>4. pwm = Wish.pwm
    <3>1. \A n \in 1 .. 6 : pwm[n] = PwmAsked(n)
      BY <2>1, <2>2 DEF EffectInv, PwmInv
    <3>2. \A n \in 7 .. 8 : pwm[n] = PwmAsked(n)
      BY <2>1, <2>2 DEF EffectInv, BridgeInv
    <3>3. \A n \in 1 .. 8 : pwm[n] = PwmAsked(n)
      <4>1. \A n \in 1 .. 8 : n \in 1 .. 6 \/ n \in 7 .. 8
        OBVIOUS
      <4> QED
        BY <3>1, <3>2, <4>1
    <3> QED
      BY <2>2, <3>3 DEF BoardInv, Wish
  <2>5. reg = Wish.reg
    <3>1. /\ reg[8] = IF opts.write = 8 THEN opts.bits ELSE Reg8Asked
          /\ reg[2] = IF opts.write = 2 THEN opts.bits ELSE Reg2Asked
      BY <2>1, <2>2 DEF EffectInv, Reg8Inv, Reg2Inv
    <3> QED
      BY <2>2, <3>1 DEF BoardInv, Wish
  <2> QED
    BY <2>3, <2>4, <2>5
<1> QED
  BY <1>1 DEF CommandInv, KilledInv, CommandEffect

\* Register 2 is set for a bridge, or written, after the PWM of a bridge that brakes.
LEMMA BrakeStep ==
    ASSUME IInv, CommandInv, [Next]_vars, NEW n \in {1, 2},
           opts.hb = n, opts.hbset = "brake", pc # "idle",
           (n + 3 \in reg[2]) # (n + 3 \in reg'[2])
    PROVE  pwm[n + 6] = 0
<1>1. reg'[2] # reg[2]
  OBVIOUS
<1>2. Poke \/ Write
  BY <1>1 DEF Next, Go, Exit, Die, Start, Peek, PwmSet, DacSet, AdcReset, AdcStart, AcqStatus,
     AcqRead, AcqBlock, AcqRest, AcqSpin, AcqEnd, SamRead, SamEnd, Sample, board, vars
<1>3. pc \in {"call", "poke"} /\ EffectInv /\ BoardInv
  BY <1>2 DEF Poke, Write, Is, CommandInv
<1>4. Stage(opts, Call) > 6
  <2>1. CASE Poke
    <3>1. Adr = 2
      BY <1>1, <1>3, <2>1 DEF Poke, BoardInv, Adr
    <3>2. Call.fn \in {"hb_set", "hb_disable"}
      BY <3>1 DEF Adr
    <3> QED
      BY <1>3, <3>2, FirstCall, CallAsked
  <2>2. CASE Write
    <3>1. Call.fn = "write"
      BY <2>2 DEF Write, Is
    <3> QED
      BY <1>3, <3>1, FirstCall, CallAsked
  <2> QED
    BY <1>2, <2>1, <2>2
<1>5. ~Pending(6) /\ BridgePwm = 6
  BY <1>3, <1>4, FirstCall DEF BridgePwm
<1>6. n + 6 \in 7 .. 8 /\ n + 6 > 6 /\ opts.hb = (n + 6) - 6
  OBVIOUS
<1>7. pwm[n + 6] = PwmAsked(n + 6)
  BY <1>3, <1>5, <1>6 DEF EffectInv, BridgeInv
<1> QED
  BY <1>6, <1>7 DEF PwmAsked

-----------------------------------------------------------------------------
(* Theorems. *)

\* The counts, the pointers and the calls of ts8820ctl are as the invariant says in
\* every reachable state.
THEOREM AcquisitionInvariant == Spec => []IInv
  BY InitIInv, NextIInv, PTL DEF Spec

\* ts8820_adc_acq never writes over a sample that was not put out, its two pointers
\* stay as far apart as its two counts, and no write runs past the end of the ring:
\* for all sizes such that a chunk fits beside Limit and blocks divide the ring.
THEOREM RingIsKept == Spec => []RingKept
  BY AcquisitionInvariant, IInvRingKept, PTL

\* What the calls that are still to come leave to do is as the invariant says in every
\* reachable state.
THEOREM CommandInvariant == Spec => [](IInv /\ CommandInv)
<1>1. Init => IInv /\ CommandInv
  BY InitIInv, InitCommandInv
<1>2. (IInv /\ CommandInv) /\ [Next]_vars => (IInv /\ CommandInv)'
  BY NextIInv, NextCommandInv
<1> QED
  BY <1>1, <1>2, PTL DEF Spec

\* ts8820ctl leaves the registers of its board as the options ask and all others as it
\* found them, for any options together; and one that is killed in between leaves every
\* bit, PWM and DAC as it was or as it is asked.
THEOREM CommandsTakeEffect == Spec => []CommandEffect
  BY CommandInvariant, CommandInvEffect, PTL

\* The brake of an H bridge never changes its direction while its PWM drives it.
THEOREM BrakesStopFirst == Spec => BrakeStopsFirst
<1> DEFINE Stops == \A n \in {1, 2} :
        opts.hb = n /\ opts.hbset = "brake" /\ pc # "idle"
            /\ (n + 3 \in reg[2]) # (n + 3 \in reg'[2])
        => pwm[n + 6] = 0
<1>1. IInv /\ CommandInv /\ [Next]_vars => [Stops]_vars
  BY BrakeStep
<1> HIDE DEF Stops
<1>2. Spec => [][Stops]_vars
  BY <1>1, CommandInvariant, PTL DEF Spec
<1> QED
  BY <1>2 DEF Stops, BrakeStopsFirst

-----------------------------------------------------------------------------
(* Numbers. *)

\* Induction on the natural numbers, for a set of them.
Precedes == {pair \in Nat \X Nat : pair[1] < pair[2]}
LEMMA Induction ==
    ASSUME NEW S, 0 \in S, \A n \in Nat : n \in S => n + 1 \in S
    PROVE  \A n \in Nat : n \in S
<1> DEFINE T == {n \in Nat : n \notin S}
<1> SUFFICES ASSUME T # {} PROVE FALSE
  OBVIOUS
<1>1. IsWellFoundedOn(Precedes, Nat)
  <2>1. OpToRel(<, Nat) = Precedes
    BY DEF OpToRel, Precedes
  <2> QED
    BY <2>1, NatLessThanWellFounded, Zenon
<1>2. PICK n \in T : \A m \in T : <<m, n>> \notin Precedes
  <2>1. T \subseteq Nat
    OBVIOUS
  <2> HIDE DEF T
  <2> QED
    BY <1>1, <2>1, WFMin
<1>3. n \in Nat \ {0} /\ n \notin S
  OBVIOUS
<1>4. n - 1 \in Nat /\ n - 1 \notin T
  <2>1. n - 1 \in Nat /\ n - 1 < n
    BY <1>3
  <2>2. <<n - 1, n>> \in Precedes
    BY <1>3, <2>1 DEF Precedes
  <2> HIDE DEF T
  <2> QED
    BY <1>2, <2>1, <2>2
<1>5. n - 1 \in S /\ n - 1 + 1 = n
  BY <1>3, <1>4
<1> QED
  BY <1>3, <1>4, <1>5

\* A number is so many times another and a rest, and in one way only.
LEMMA DivMod ==
    ASSUME NEW n \in Nat \ {0}, NEW v \in Nat
    PROVE  /\ v \div n \in Nat /\ v % n \in 0 .. n - 1
           /\ v = n * (v \div n) + (v % n)
<1>1. \A w \in Int : w \div n \in Int /\ w % n \in 0 .. n - 1 /\ w = n * (w \div n) + (w % n)
  OBVIOUS
<1> DEFINE d == v \div n
           r == v % n
<1>2. d \in Int /\ r \in 0 .. n - 1 /\ v = n * d + r
  BY <1>1
<1> HIDE DEF d, r
<1>3. d >= 0
  <2> SUFFICES ASSUME d <= -1 PROVE FALSE
    BY <1>2
  <2>1. n * d <= n * (-1)
    BY <1>2
  <2>2. n * (-1) = -n
    OBVIOUS
  <2> QED
    BY <1>2, <2>1, <2>2
<1> QED
  BY <1>2, <1>3 DEF d, r

LEMMA OneWay ==
    ASSUME NEW n \in Nat \ {0}, NEW d \in Nat, NEW r \in 0 .. n - 1
    PROVE  (n * d + r) \div n = d /\ (n * d + r) % n = r
<1> DEFINE v == n * d + r
           e == v \div n
           s == v % n
<1>1. v \in Nat
  OBVIOUS
<1>2. e \in Nat /\ s \in 0 .. n - 1 /\ n * d + r = n * e + s
  BY <1>1, DivMod
<1> HIDE DEF v, e, s
<1>3. ~(d < e)
  <2> SUFFICES ASSUME d + 1 <= e PROVE FALSE
    BY <1>2
  <2>1. n * (d + 1) <= n * e
    BY <1>2
  <2>2. n * (d + 1) = n * d + n
    OBVIOUS
  <2> QED
    BY <1>2, <2>1, <2>2
<1>4. ~(e < d)
  <2> SUFFICES ASSUME e + 1 <= d PROVE FALSE
    BY <1>2
  <2>1. n * (e + 1) <= n * d
    BY <1>2
  <2>2. n * (e + 1) = n * e + n
    BY <1>2
  <2> QED
    BY <1>2, <2>1, <2>2
<1>5. d = e
  BY <1>2, <1>3, <1>4
<1>6. r = s
  BY <1>2, <1>5
<1> QED
  BY <1>5, <1>6 DEF e, s, v

\* A rest may be taken at once or in two steps.
LEMMA ModAdd ==
    ASSUME NEW n \in Nat \ {0}, NEW u \in Nat, NEW v \in Nat
    PROVE  ((u % n) + v) % n = (u + v) % n
<1> DEFINE d == u \div n
           r == u % n
           e == (r + v) \div n
           s == (r + v) % n
<1>1. d \in Nat /\ r \in 0 .. n - 1 /\ u = n * d + r
  BY DivMod
<1>2. r + v \in Nat
  BY <1>1
<1>3. e \in Nat /\ s \in 0 .. n - 1 /\ r + v = n * e + s
  BY <1>2, DivMod
<1> HIDE DEF d, r, e, s
<1>4. u + v = n * (d + e) + s /\ d + e \in Nat
  BY <1>1, <1>3
<1>5. (n * (d + e) + s) % n = s
  <2> DEFINE f == d + e
  <2>1. f \in Nat
    BY <1>4
  <2> HIDE DEF f
  <2>2. (n * f + s) % n = s
    BY <1>3, <2>1, OneWay
  <2> QED
    BY <2>2 DEF f
<1>6. (u + v) % n = s
  BY <1>4, <1>5
<1> QED
  BY <1>6 DEF s, r

\* Numbers that are less than n apart have different rests.
LEMMA ModApart ==
    ASSUME NEW n \in Nat \ {0}, NEW u \in Nat, NEW v \in Nat, u < v, v - u < n
    PROVE  u % n # v % n
<1> DEFINE d == u \div n
           r == u % n
           e == v \div n
           s == v % n
<1>1. d \in Nat /\ r \in 0 .. n - 1 /\ u = n * d + r
  BY DivMod
<1>2. e \in Nat /\ s \in 0 .. n - 1 /\ v = n * e + s
  BY DivMod
<1> HIDE DEF d, r, e, s
<1> SUFFICES ASSUME r = s PROVE FALSE
  BY DEF r, s
<1>3. n * e - n * d \in 1 .. n - 1
  BY <1>1, <1>2
<1>4. CASE e <= d
  <2>1. n * e <= n * d
    BY <1>1, <1>2, <1>4
  <2> QED
    BY <1>1, <1>2, <1>3, <2>1
<1>5. CASE e >= d + 1
  <2>1. n * e >= n * (d + 1)
    BY <1>1, <1>2, <1>5
  <2>2. n * (d + 1) = n * d + n
    BY <1>1
  <2> QED
    BY <1>1, <1>2, <1>3, <2>1, <2>2
<1> QED
  BY <1>1, <1>2, <1>4, <1>5

-----------------------------------------------------------------------------
(* Channels in rising order. *)

\* How many of a set of channels come before one, and before the next one.
Before(S, c) == Cardinality({d \in S : d < c})

LEMMA BeforeStep ==
    ASSUME NEW S, S \subseteq Nat, NEW c \in Nat
    PROVE  /\ Before(S, c) \in Nat /\ Before(S, 0) = 0
           /\ Before(S, c + 1) = Before(S, c) + (IF c \in S THEN 1 ELSE 0)
<1> DEFINE T == {d \in S : d < c}
<1>0. \A d \in S : /\ d \in Nat /\ ~(d < 0) /\ (d < c => d \in 0 .. c)
                   /\ d < c + 1 <=> d < c \/ d = c
  <2> TAKE d \in S
  <2>1. d \in Nat
    OBVIOUS
  <2> QED
    BY <2>1
<1>1. IsFiniteSet(T)
  <2>1. T \subseteq 0 .. c
    BY <1>0, Zenon
  <2>2. IsFiniteSet(0 .. c)
    BY FS_Interval
  <2> QED
    BY <2>1, <2>2, FS_Subset
<1>2. c \notin T
  OBVIOUS
<1>3. c \in S => {d \in S : d < c + 1} = T \cup {c}
  BY <1>0, Zenon
<1>4. c \notin S => {d \in S : d < c + 1} = T
  BY <1>0, Zenon
<1>5. {d \in S : d < 0} = {}
  BY <1>0, Zenon
<1> HIDE DEF T
<1>6. Cardinality(T) \in Nat /\ Cardinality(T \cup {c}) = Cardinality(T) + 1
  BY <1>1, <1>2, FS_CardinalityType, FS_AddElement
<1>7. Before(S, c) = Cardinality(T) /\ Before(S, 0) = 0
  <2>1. Before(S, c) = Cardinality(T)
    BY DEF Before, T
  <2>2. Before(S, 0) = 0
    BY <1>5, FS_EmptySet DEF Before
  <2> QED
    BY <2>1, <2>2
<1>8. CASE c \in S
  <2>1. Before(S, c + 1) = Cardinality(T \cup {c})
    BY <1>3, <1>8 DEF Before
  <2> QED
    BY <1>6, <1>7, <1>8, <2>1
<1>9. CASE c \notin S
  <2>1. Before(S, c + 1) = Cardinality(T)
    BY <1>4, <1>9 DEF Before
  <2> QED
    BY <1>6, <1>7, <1>9, <2>1
<1> QED
  BY <1>8, <1>9

\* The turns of Sorted, one after the other.
LEMMA SortedTurns ==
    ASSUME NEW S
    PROVE  \E f : /\ Sorted(S) = f[16] /\ f[0] = <<>>
                  /\ \A c \in 1 .. 16 :
                        f[c] = f[c - 1] \o (IF c - 1 \in S THEN <<c - 1>> ELSE <<>>)
<1> DEFINE add(s, c) == s \o (IF c - 1 \in S THEN <<c - 1>> ELSE <<>>)
           Turns(f, n) == f = [c \in 0 .. n |-> IF c = 0 THEN <<>> ELSE add(f[c - 1], c)]
           T == {n \in Nat : \E f : Turns(f, n)}
<1> HIDE DEF add
<1>1. 0 \in T
  <2> DEFINE f == [c \in 0 .. 0 |-> <<>>]
  <2>1. Turns(f, 0)
    OBVIOUS
  <2> QED
    BY <2>1
<1>2. ASSUME NEW n \in Nat, n \in T PROVE n + 1 \in T
  <2>1. PICK f : Turns(f, n)
    BY <1>2
  <2> DEFINE g == [c \in 0 .. n + 1 |-> IF c = n + 1 THEN add(f[n], n + 1) ELSE f[c]]
             e(c) == IF c = 0 THEN <<>> ELSE add(g[c - 1], c)
  <2>2. \A c \in 0 .. n : g[c] = f[c]
    OBVIOUS
  <2>3. \A c \in 0 .. n : f[c] = IF c = 0 THEN <<>> ELSE add(f[c - 1], c)
    BY <2>1
  <2>4. \A c \in 0 .. n + 1 : g[c] = e(c)
    <3> TAKE c \in 0 .. n + 1
    <3>1. CASE c = n + 1
      <4>1. g[c] = add(f[n], n + 1) /\ c # 0 /\ c - 1 = n /\ n \in 0 .. n
        BY <3>1
      <4>2. g[c - 1] = f[n]
        BY <2>2, <4>1
      <4> QED
        BY <3>1, <4>1, <4>2
    <3>2. CASE c \in 0 .. n
      <4>1. c # 0 => c - 1 \in 0 .. n
        BY <3>2
      <4>2. c # 0 => g[c - 1] = f[c - 1]
        BY <2>2, <4>1
      <4> QED
        BY <2>2, <2>3, <3>2, <4>2
    <3> QED
      BY <3>1, <3>2
  <2>5. g = [c \in 0 .. n + 1 |-> e(c)]
    <3>1. g = [c \in 0 .. n + 1 |-> g[c]]
      OBVIOUS
    <3> HIDE DEF g, e
    <3> QED
      BY <2>4, <3>1
  <2>6. Turns(g, n + 1)
    BY <2>5
  <2> HIDE DEF g, e, Turns
  <2>7. \E h : Turns(h, n + 1)
    BY <2>6
  <2> QED
    BY <2>7
<1>3. 16 \in T
  <2> HIDE DEF T
  <2> QED
    BY <1>1, <1>2, Induction
<1> DEFINE upTo == CHOOSE f : Turns(f, 16)
<1>4. Turns(upTo, 16)
  BY <1>3
<1>5. Sorted(S) = upTo[16]
  BY DEF Sorted, add
<1> HIDE DEF upTo
<1>6. upTo[0] = <<>>
  BY <1>4
<1>7. \A c \in 1 .. 16 : upTo[c] = add(upTo[c - 1], c)
  BY <1>4
<1> QED
  BY <1>5, <1>6, <1>7 DEF add

\* A sequence with one more element.
LEMMA OneMore ==
    ASSUME NEW X, NEW s \in Seq(X), NEW e \in X
    PROVE  LET t == s \o <<e>>
           IN  /\ t \in Seq(X) /\ Len(t) = Len(s) + 1 /\ t[Len(s) + 1] = e
               /\ \A i \in 1 .. Len(s) : t[i] = s[i]
<1>1. s \o <<e>> = Append(s, e)
  OBVIOUS
<1> QED
  BY <1>1, AppendProperties

\* The k-th of the channels in order is that which k - 1 of them come before.
LEMMA SortedIs ==
    ASSUME NEW S \in SUBSET (0 .. 15)
    PROVE  LET s == Sorted(S)
           IN  /\ s \in Seq(S) /\ Len(s) = Cardinality(S)
               /\ \A i \in 1 .. Len(s) : s[i] \in S /\ Before(S, s[i]) = i - 1
               /\ \A c \in S : Before(S, c) + 1 \in 1 .. Len(s) /\ s[Before(S, c) + 1] = c
<1>1. PICK f : /\ Sorted(S) = f[16] /\ f[0] = <<>>
               /\ \A c \in 1 .. 16 :
                     f[c] = f[c - 1] \o (IF c - 1 \in S THEN <<c - 1>> ELSE <<>>)
  BY SortedTurns
<1> DEFINE Good(n) ==
              /\ f[n] \in Seq(S) /\ Len(f[n]) = Before(S, n)
              /\ \A i \in 1 .. Len(f[n]) : f[n][i] \in S /\ Before(S, f[n][i]) = i - 1
              /\ \A c \in S : c < n => Before(S, c) + 1 \in 1 .. Len(f[n])
                                       /\ f[n][Before(S, c) + 1] = c
           T == {n \in Nat : n <= 16 => Good(n)}
<1>2. S \subseteq Nat /\ \A c \in S : c \in Nat /\ c < 16
  OBVIOUS
<1>3. 0 \in T
  <2>1. f[0] \in Seq(S) /\ Len(f[0]) = 0
    BY <1>1, EmptySeq
  <2>2. Before(S, 0) = 0
    BY <1>2, BeforeStep
  <2>3. \A c \in S : ~(c < 0)
    BY <1>2
  <2>4. 1 .. 0 = {}
    OBVIOUS
  <2> QED
    BY <2>1, <2>2, <2>3, <2>4
<1>4. ASSUME NEW n \in Nat, n \in T PROVE n + 1 \in T
  <2> SUFFICES ASSUME n + 1 <= 16 PROVE Good(n + 1)
    <3> HIDE DEF Good
    <3> QED
      OBVIOUS
  <2>1. Good(n)
    <3> HIDE DEF Good
    <3> QED
      BY <1>4
  <2>2. f[n + 1] = f[n] \o (IF n \in S THEN <<n>> ELSE <<>>)
    <3>1. n + 1 \in 1 .. 16 /\ (n + 1) - 1 = n
      OBVIOUS
    <3> QED
      BY <1>1, <3>1
  <2>3. /\ Before(S, n) \in Nat
        /\ Before(S, n + 1) = Before(S, n) + (IF n \in S THEN 1 ELSE 0)
    BY <1>2, BeforeStep
  <2> DEFINE s == f[n]
             t == f[n + 1]
  <2>4. CASE n \in S
    <3>1. t = s \o <<n>>
      BY <2>2, <2>4
    <3>2. s \in Seq(S) /\ Len(s) = Before(S, n)
      BY <2>1
    <3>3. \A i \in 1 .. Len(s) : s[i] \in S /\ Before(S, s[i]) = i - 1
      BY <2>1
    <3>4. \A c \in S : c < n => Before(S, c) + 1 \in 1 .. Len(s) /\ s[Before(S, c) + 1] = c
      BY <2>1
    <3> HIDE DEF s, t
    <3>5. /\ t \in Seq(S) /\ Len(t) = Len(s) + 1 /\ t[Len(s) + 1] = n
          /\ \A i \in 1 .. Len(s) : t[i] = s[i]
      BY <2>4, <3>1, <3>2, OneMore
    <3>6. Len(t) = Before(S, n + 1)
      BY <2>3, <2>4, <3>2, <3>5
    <3>7. ASSUME NEW i \in 1 .. Len(t) PROVE t[i] \in S /\ Before(S, t[i]) = i - 1
      <4>1. CASE i \in 1 .. Len(s)
        BY <3>3, <3>5, <4>1
      <4>2. CASE i = Len(s) + 1
        BY <2>3, <2>4, <3>2, <3>5, <4>2
      <4> QED
        BY <2>3, <3>2, <3>5, <4>1, <4>2
    <3>8. ASSUME NEW c \in S, c < n + 1
          PROVE  Before(S, c) + 1 \in 1 .. Len(t) /\ t[Before(S, c) + 1] = c
      <4>1. CASE c < n
        <5>1. Before(S, c) + 1 \in 1 .. Len(s) /\ s[Before(S, c) + 1] = c
          BY <3>4, <4>1
        <5> QED
          BY <2>3, <3>2, <3>5, <5>1
      <4>2. CASE c = n
        BY <2>3, <3>2, <3>5, <4>2
      <4> QED
        BY <1>2, <3>8, <4>1, <4>2
    <3> QED
      BY <3>5, <3>6, <3>7, <3>8 DEF t
  <2>5. CASE n \notin S
    <3>1. f[n + 1] = f[n]
      <4>1. f[n] \in Seq(S)
        BY <2>1
      <4>2. f[n] \o <<>> = f[n]
        BY <4>1, ConcatEmptySeq
      <4> QED
        BY <2>2, <2>5, <4>2
    <3>2. Before(S, n + 1) = Before(S, n)
      BY <2>3, <2>5
    <3>3. \A c \in S : c < n + 1 => c < n
      BY <1>2, <2>5
    <3> QED
      BY <2>1, <3>1, <3>2, <3>3
  <2> QED
    BY <2>4, <2>5
<1>5. Good(16)
  <2>1. 16 \in T
    <3> HIDE DEF T
    <3> QED
      BY <1>3, <1>4, Induction
  <2> QED
    BY <2>1
<1>6. {d \in S : d < 16} = S /\ \A c \in S : c < 16
  BY <1>2
<1>7. Before(S, 16) = Cardinality(S)
  BY <1>6 DEF Before
<1> QED
  BY <1>1, <1>5, <1>6, <1>7

\* More come before a later channel.
LEMMA BeforeLess ==
    ASSUME NEW S, S \subseteq Nat, NEW c \in Nat, NEW d \in Nat, c <= d
    PROVE  /\ Before(S, c) <= Before(S, d)
           /\ c \in S /\ c < d => Before(S, c) < Before(S, d)
<1> DEFINE T == {n \in Nat : Before(S, c) <= Before(S, c + n)
                             /\ (c \in S /\ 0 < n => Before(S, c) < Before(S, c + n))}
<1>1. \A n \in Nat : /\ Before(S, n) \in Nat
                     /\ Before(S, n + 1) = Before(S, n) + (IF n \in S THEN 1 ELSE 0)
  BY BeforeStep
<1>2. 0 \in T
  BY <1>1
<1>3. ASSUME NEW n \in Nat, n \in T PROVE n + 1 \in T
  <2>1. c + n \in Nat /\ (c + n) + 1 = c + (n + 1) /\ (n = 0 => c + n = c)
    OBVIOUS
  <2>2. /\ Before(S, c) \in Nat /\ Before(S, c + n) \in Nat
        /\ Before(S, c + (n + 1)) = Before(S, c + n) + (IF c + n \in S THEN 1 ELSE 0)
    BY <1>1, <2>1
  <2>3. Before(S, c) <= Before(S, c + n)
    BY <1>3
  <2>4. Before(S, c) <= Before(S, c + (n + 1))
    BY <2>2, <2>3
  <2>5. ASSUME c \in S PROVE Before(S, c) < Before(S, c + (n + 1))
    <3>1. CASE n = 0
      BY <2>1, <2>2, <2>5, <3>1
    <3>2. CASE n # 0
      <4>1. Before(S, c) < Before(S, c + n)
        BY <1>3, <2>5, <3>2
      <4> QED
        BY <2>2, <4>1
    <3> QED
      BY <3>1, <3>2
  <2> QED
    BY <2>4, <2>5
<1>4. d - c \in T /\ c + (d - c) = d
  <2>1. d - c \in Nat /\ c + (d - c) = d
    OBVIOUS
  <2> HIDE DEF T
  <2> QED
    BY <1>2, <1>3, <2>1, Induction
<1> QED
  BY <1>4

-----------------------------------------------------------------------------
(* The channels that are sampled, and those that are wanted. *)

LEMMA Table ==
    /\ hw2sw[1] = 0 /\ hw2sw[2] = 4 /\ hw2sw[3] = 8 /\ hw2sw[4] = 12
    /\ hw2sw[5] = 2 /\ hw2sw[6] = 6 /\ hw2sw[7] = 10 /\ hw2sw[8] = 14
    /\ hw2sw[9] = 1 /\ hw2sw[10] = 5 /\ hw2sw[11] = 9 /\ hw2sw[12] = 13
    /\ hw2sw[13] = 3 /\ hw2sw[14] = 7 /\ hw2sw[15] = 11 /\ hw2sw[16] = 15
  BY DEF hw2sw

LEMMA SwIn ==
    ASSUME NEW B \in SUBSET (0 .. 15), NEW A, A \subseteq B
    PROVE  Sw(A) \subseteq Sw(B) /\ Sw(B) \in SUBSET (0 .. 15)
<1>1. \A c \in 0 .. 15 : hw2sw[c + 1] \in 0 .. 15
  <2> TAKE c \in 0 .. 15
  <2>1. c + 1 \in 1 .. 16
    OBVIOUS
  <2>2. \A k \in 1 .. 16 : hw2sw[k] \in 0 .. 15
    BY Table
  <2> QED
    BY <2>1, <2>2
<1>2. \A c \in B : c \in 0 .. 15
  OBVIOUS
<1> QED
  BY <1>1, <1>2, Zenon DEF Sw

\* The board samples what is wanted, and maybe more.
LEMMA Sampled ==
    ASSUME NEW mask \in SUBSET (0 .. 15)
    PROVE  mask \subseteq Channels(mask) /\ Channels(mask) \in SUBSET (0 .. 15)
<1> DEFINE eight == {c % 8 : c \in mask}
           more == IF \E c \in mask : c >= 8 THEN {c + 8 : c \in eight} ELSE {}
<1>1. Channels(mask) = eight \cup more
  BY DEF Channels
<1>2. \A c \in mask : c \in 0 .. 15
  OBVIOUS
<1>3. \A c \in 0 .. 15 : c % 8 = (IF c < 8 THEN c ELSE c - 8) /\ c % 8 \in 0 .. 7
  OBVIOUS
<1>4. \A e \in eight : e \in 0 .. 7
  BY <1>2, <1>3
<1>5. \A e \in more : e \in 8 .. 15
  <2> SUFFICES ASSUME NEW e \in more PROVE e \in 8 .. 15
    OBVIOUS
  <2>1. PICK c \in eight : e = c + 8
    OBVIOUS
  <2> HIDE DEF eight
  <2>2. c \in 0 .. 7
    BY <1>4
  <2> QED
    BY <2>1, <2>2
<1>6. \A c \in mask : c \in eight \cup more
  <2> SUFFICES ASSUME NEW c \in mask PROVE c \in eight \cup more
    OBVIOUS
  <2>1. c % 8 \in eight /\ c \in 0 .. 15
    BY <1>2
  <2>2. CASE c < 8
    <3>1. c % 8 = c
      BY <1>3, <2>1, <2>2
    <3> QED
      BY <2>1, <3>1
  <2>3. CASE ~(c < 8)
    <3>1. c >= 8 /\ (c % 8) + 8 = c
      BY <1>3, <2>1, <2>3
    <3>2. (c % 8) + 8 \in more
      BY <2>1, <3>1, Zenon
    <3> QED
      BY <3>1, <3>2
  <2> QED
    BY <2>2, <2>3
<1> HIDE DEF eight, more
<1>7. \A e \in eight \cup more : e \in 0 .. 15
  BY <1>4, <1>5
<1> QED
  BY <1>1, <1>6, <1>7

\* What is known of the two orders.  L channels are sampled and M are wanted.
Order(mask) == InOrder(Channels(mask))
LEMMA Orders ==
    ASSUME NEW mask \in SUBSET (0 .. 15)
    PROVE  LET s == Order(mask)
               S == Sw(Channels(mask))
           IN  /\ S \in SUBSET (0 .. 15) /\ Sw(mask) \subseteq S
               /\ Len(s) \in Nat
               /\ \A i \in 1 .. Len(s) : s[i] \in S /\ Before(S, s[i]) = i - 1
               /\ \A c \in S : Before(S, c) + 1 \in 1 .. Len(s) /\ s[Before(S, c) + 1] = c
               /\ \A b \in 0 .. Len(s) - 1 : Wanted(mask)[b] = (s[b + 1] \in Sw(mask))
<1> DEFINE s == Order(mask)
           S == Sw(Channels(mask))
<1>1. S \in SUBSET (0 .. 15) /\ Sw(mask) \subseteq S
  BY Sampled, SwIn
<1>2. s = Sorted(S)
  BY DEF Order, InOrder
<1>3. Wanted(mask) = [k \in 0 .. Len(s) - 1 |-> s[k + 1] \in Sw(mask)]
  BY DEF Wanted, Order
<1> HIDE DEF S, s
<1>4. /\ s \in Seq(S)
      /\ \A i \in 1 .. Len(s) : s[i] \in S /\ Before(S, s[i]) = i - 1
      /\ \A c \in S : Before(S, c) + 1 \in 1 .. Len(s) /\ s[Before(S, c) + 1] = c
  BY <1>1, <1>2, SortedIs
<1>5. Len(s) \in Nat
  BY <1>4, LenProperties
<1>6. \A b \in 0 .. Len(s) - 1 : Wanted(mask)[b] = (s[b + 1] \in Sw(mask))
  BY <1>3
<1> QED
  BY <1>1, <1>4, <1>5, <1>6 DEF s, S

\* The samples that are wanted, and how many of them come before one.
Picks(mask) == {i \in Nat : Wanted(mask)[i % Len(Order(mask))]}
LEMMA WantedCount ==
    ASSUME NEW mask, NEW n \in Nat
    PROVE  /\ WantedOf(mask, n) = Before(Picks(mask), n) /\ WantedOf(mask, n) \in Nat
           /\ WantedOf(mask, 0) = 0
           /\ WantedOf(mask, n + 1) =
                  WantedOf(mask, n) + (IF n \in Picks(mask) THEN 1 ELSE 0)
<1>1. \A m \in Nat : WantedOf(mask, m) = Before(Picks(mask), m)
  <2> TAKE m \in Nat
  <2> DEFINE W(i) == Wanted(mask)[i % Len(Order(mask))]
  <2>1. \A i : i \in 0 .. m - 1 <=> i \in Nat /\ i < m
    OBVIOUS
  <2> HIDE DEF W
  <2>2. {i \in 0 .. m - 1 : W(i)} = {d \in {i \in Nat : W(i)} : d < m}
    BY <2>1, Zenon
  <2> QED
    BY <2>2 DEF W, WantedOf, Before, Picks, Order
<1>2. Picks(mask) \subseteq Nat
  BY DEF Picks
<1>3. /\ Before(Picks(mask), n) \in Nat /\ Before(Picks(mask), 0) = 0
      /\ Before(Picks(mask), n + 1) =
             Before(Picks(mask), n) + (IF n \in Picks(mask) THEN 1 ELSE 0)
  BY <1>2, BeforeStep
<1>4. n + 1 \in Nat /\ 0 \in Nat
  OBVIOUS
<1> QED
  BY <1>1, <1>3, <1>4

\* Of the first b samples of a scan, where the channels before c are sampled, so many
\* are wanted as channels before c are.
LEMMA ScanCount ==
    ASSUME NEW mask \in SUBSET (0 .. 15), NEW b \in 0 .. Len(Order(mask)), NEW c \in Nat,
           \A i \in 0 .. Len(Order(mask)) - 1 : i < b <=> Order(mask)[i + 1] < c
    PROVE  WantedOf(mask, b) = Before(Sw(mask), c)
<1> DEFINE s == Order(mask)
           S == Sw(Channels(mask))
           L == Len(s)
           V == Sw(mask)
           T == {i \in 0 .. b - 1 : Wanted(mask)[i % L]}
           U == {d \in V : d < c}
           f == [i \in T |-> s[i + 1]]
<1>1. /\ S \in SUBSET (0 .. 15) /\ V \subseteq S /\ L \in Nat
      /\ \A i \in 1 .. L : s[i] \in S /\ Before(S, s[i]) = i - 1
      /\ \A d \in S : Before(S, d) + 1 \in 1 .. L /\ s[Before(S, d) + 1] = d
      /\ \A i \in 0 .. L - 1 : Wanted(mask)[i] = (s[i + 1] \in V)
  BY Orders
<1>2. \A i \in 0 .. L - 1 : i < b <=> s[i + 1] < c
  OBVIOUS
<1>3. b \in 0 .. L
  OBVIOUS
<1>4. WantedOf(mask, b) = Cardinality(T) /\ Before(V, c) = Cardinality(U)
  BY DEF WantedOf, Before, Order
<1> HIDE DEF s, S, L, V
<1>5. ASSUME NEW i \in 0 .. b - 1
      PROVE  /\ i \in 0 .. L - 1 /\ i + 1 \in 1 .. L /\ i % L = i /\ (i + 1) - 1 = i
             /\ i < b
  <2>1. L \in Nat \ {0} /\ i \in 0 .. L - 1 /\ L * 0 + i = i
    BY <1>1, <1>3
  <2>2. (L * 0 + i) % L = i
    BY <2>1, OneWay
  <2> QED
    BY <2>1, <2>2
<1>6. \A i \in T : i \in 0 .. b - 1 /\ s[i + 1] \in V /\ s[i + 1] < c
  <2> SUFFICES ASSUME NEW i \in T PROVE i \in 0 .. b - 1 /\ s[i + 1] \in V /\ s[i + 1] < c
    OBVIOUS
  <2>1. i \in 0 .. b - 1 /\ Wanted(mask)[i % L]
    OBVIOUS
  <2>2. i \in 0 .. L - 1 /\ i % L = i /\ i < b
    BY <1>5, <2>1
  <2>3. s[i + 1] \in V
    BY <1>1, <2>1, <2>2
  <2> QED
    BY <1>2, <2>1, <2>2, <2>3
<1>7. f \in [T -> U]
  BY <1>6
<1>8. ASSUME NEW i \in T, NEW j \in T, f[i] = f[j] PROVE i = j
  <2>1. s[i + 1] = s[j + 1]
    BY <1>8
  <2>2. /\ i + 1 \in 1 .. L /\ j + 1 \in 1 .. L /\ (i + 1) - 1 = i /\ (j + 1) - 1 = j
    BY <1>5, <1>6
  <2>3. Before(S, s[i + 1]) = i /\ Before(S, s[j + 1]) = j
    BY <1>1, <2>2
  <2> QED
    BY <2>1, <2>3
<1>9. ASSUME NEW d \in U PROVE \E i \in T : f[i] = d
  <2>1. d \in V /\ d \in S /\ d < c
    BY <1>1
  <2> DEFINE i == Before(S, d)
  <2>2. i + 1 \in 1 .. L /\ s[i + 1] = d
    BY <1>1, <2>1
  <2>3. i \in Nat
    <3>1. S \subseteq Nat /\ d \in Nat
      BY <1>1, <2>1
    <3> QED
      BY <3>1, BeforeStep
  <2> HIDE DEF i
  <2>4. i \in 0 .. L - 1
    BY <1>1, <2>2, <2>3
  <2>5. i < b
    BY <1>2, <2>1, <2>2, <2>4
  <2>6. i \in 0 .. b - 1
    BY <1>3, <2>4, <2>5
  <2>7. Wanted(mask)[i % L]
    BY <1>1, <1>5, <2>1, <2>2, <2>4, <2>6
  <2>8. i \in T
    BY <2>6, <2>7
  <2> QED
    BY <2>2, <2>8
<1>10. ExistsBijection(T, U)
  <2> HIDE DEF f, T, U
  <2>1. f \in Bijection(T, U)
    BY <1>7, <1>8, <1>9 DEF Bijection, Injection, Surjection, IsInjective
  <2> QED
    BY <2>1 DEF ExistsBijection
<1>11. IsFiniteSet(T)
  <2>1. T \in SUBSET (0 .. b - 1)
    OBVIOUS
  <2>2. IsFiniteSet(0 .. b - 1)
    <3>1. 0 \in Int /\ b - 1 \in Int
      OBVIOUS
    <3> QED
      BY <3>1, FS_Interval, Zenon
  <2> HIDE DEF T
  <2> QED
    BY <2>1, <2>2, FS_Subset
<1> HIDE DEF T, U
<1>12. Cardinality(T) = Cardinality(U)
  BY <1>10, <1>11, FS_Bijection
<1> QED
  BY <1>4, <1>12 DEF V

\* The orders of what is wanted.
LEMMA WantedOrder ==
    ASSUME NEW mask \in SUBSET (0 .. 15)
    PROVE  LET V == Sw(mask)
           IN  /\ V \in SUBSET (0 .. 15)
               /\ Len(InOrder(mask)) \in Nat /\ Before(V, 16) = Len(InOrder(mask))
               /\ \A c \in V : /\ Before(V, c) \in 0 .. Len(InOrder(mask)) - 1
                               /\ InOrder(mask)[Before(V, c) + 1] = c
<1> DEFINE V == Sw(mask)
           s == InOrder(mask)
<1>1. V \in SUBSET (0 .. 15) /\ s = Sorted(V)
  BY SwIn DEF InOrder
<1> HIDE DEF V, s
<1>2. /\ s \in Seq(V) /\ Len(s) = Cardinality(V)
      /\ \A c \in V : Before(V, c) + 1 \in 1 .. Len(s) /\ s[Before(V, c) + 1] = c
  BY <1>1, SortedIs
<1>3. Len(s) \in Nat
  BY <1>2, LenProperties
<1>4. Before(V, 16) = Len(s)
  <2>1. \A c \in V : c < 16
    BY <1>1
  <2>2. {d \in V : d < 16} = V
    BY <2>1, Zenon
  <2> QED
    BY <1>2, <2>2 DEF Before
<1>5. \A c \in V : Before(V, c) \in 0 .. Len(s) - 1
  <2> SUFFICES ASSUME NEW c \in V PROVE Before(V, c) \in 0 .. Len(s) - 1
    OBVIOUS
  <2>1. V \subseteq Nat /\ c \in Nat
    BY <1>1
  <2>2. Before(V, c) \in Nat
    BY <2>1, BeforeStep
  <2> QED
    BY <1>2, <1>3, <2>2
<1> QED
  BY <1>1, <1>2, <1>3, <1>4, <1>5 DEF V, s

\* Within the first scan, and at its end.
LEMMA FirstScan ==
    ASSUME NEW mask \in SUBSET (0 .. 15)
    PROVE  /\ \A b \in 0 .. Len(Order(mask)) - 1 :
                  WantedOf(mask, b) = Before(Sw(mask), Order(mask)[b + 1])
           /\ WantedOf(mask, Len(Order(mask))) = Len(InOrder(mask))
<1> DEFINE s == Order(mask)
           S == Sw(Channels(mask))
           L == Len(s)
<1>1. /\ S \in SUBSET (0 .. 15) /\ L \in Nat
      /\ \A i \in 1 .. L : s[i] \in S /\ Before(S, s[i]) = i - 1
  BY Orders
<1>2. S \subseteq Nat /\ \A c \in S : c \in Nat /\ c < 16
  BY <1>1
<1> HIDE DEF S, s, L
<1>3. ASSUME NEW i \in 0 .. L - 1
      PROVE  /\ s[i + 1] \in S /\ Before(S, s[i + 1]) = i
             /\ s[i + 1] \in Nat /\ s[i + 1] < 16
  <2>1. i + 1 \in 1 .. L /\ (i + 1) - 1 = i
    BY <1>1
  <2>2. s[i + 1] \in S /\ Before(S, s[i + 1]) = i
    BY <1>1, <2>1
  <2> QED
    BY <1>2, <2>2, Zenon
<1>4. ASSUME NEW b \in 0 .. L - 1 PROVE WantedOf(mask, b) = Before(Sw(mask), s[b + 1])
  <2>1. s[b + 1] \in Nat /\ Before(S, s[b + 1]) = b /\ s[b + 1] \in S
    BY <1>3
  <2>2. ASSUME NEW i \in 0 .. L - 1 PROVE i < b <=> s[i + 1] < s[b + 1]
    <3> DEFINE c == s[i + 1]
               d == s[b + 1]
    <3>1. c \in Nat /\ Before(S, c) = i /\ c \in S
      BY <1>3
    <3>2. d \in Nat /\ Before(S, d) = b /\ d \in S
      BY <2>1
    <3> HIDE DEF c, d
    <3>3. ASSUME d <= c PROVE b <= i
      <4>1. Before(S, d) <= Before(S, c)
        BY <1>2, <3>1, <3>2, <3>3, BeforeLess
      <4> QED
        BY <3>1, <3>2, <4>1
    <3>4. ASSUME c < d PROVE i < b
      <4>1. c <= d
        BY <3>1, <3>2, <3>4
      <4>2. Before(S, c) < Before(S, d)
        BY <1>2, <3>1, <3>2, <3>4, <4>1, BeforeLess
      <4> QED
        BY <3>1, <3>2, <4>2
    <3>5. i < b <=> c < d
      BY <1>1, <3>1, <3>2, <3>3, <3>4
    <3> QED
      BY <3>5 DEF c, d
  <2>3. b \in 0 .. L
    BY <1>1
  <2> QED
    BY <2>1, <2>2, <2>3, ScanCount DEF L, s
<1>5. WantedOf(mask, L) = Len(InOrder(mask))
  <2>1. L \in 0 .. L
    BY <1>1
  <2>2. ASSUME NEW i \in 0 .. L - 1 PROVE i < L <=> s[i + 1] < 16
    BY <1>1, <1>3
  <2>3. WantedOf(mask, L) = Before(Sw(mask), 16)
    BY <2>1, <2>2, ScanCount DEF L, s
  <2> QED
    BY <2>3, WantedOrder
<1> QED
  BY <1>4, <1>5 DEF L, s

\* A scan later, and so many scans later.
LEMMA ScanLater ==
    ASSUME NEW mask \in SUBSET (0 .. 15), Len(Order(mask)) # 0, NEW n \in Nat
    PROVE  WantedOf(mask, Len(Order(mask)) + n) = Len(InOrder(mask)) + WantedOf(mask, n)
<1> DEFINE L == Len(Order(mask))
           M == Len(InOrder(mask))
           T == {m \in Nat : WantedOf(mask, L + m) = M + WantedOf(mask, m)}
<1>1. L \in Nat \ {0} /\ M \in Nat
  BY Orders, WantedOrder
<1>2. WantedOf(mask, L) = M
  BY FirstScan
<1> HIDE DEF L, M
<1>3. 0 \in T
  <2>1. WantedOf(mask, 0) = 0 /\ L + 0 = L
    BY <1>1, WantedCount
  <2> QED
    BY <1>1, <1>2, <2>1
<1>4. ASSUME NEW m \in Nat, m \in T PROVE m + 1 \in T
  <2>1. (L + m) % L = m % L
    <3>1. L % L = 0
      <4>1. (L * 1 + 0) % L = 0
        BY <1>1, OneWay
      <4> QED
        BY <1>1, <4>1
    <3>2. ((L % L) + m) % L = (L + m) % L
      BY <1>1, ModAdd
    <3> QED
      BY <3>1, <3>2
  <2>2. L + m \in Nat /\ L + (m + 1) = (L + m) + 1
    BY <1>1
  <2>3. L + m \in Picks(mask) <=> m \in Picks(mask)
    BY <2>1, <2>2 DEF Picks, L
  <2>4. WantedOf(mask, L + (m + 1)) =
            WantedOf(mask, L + m) + (IF L + m \in Picks(mask) THEN 1 ELSE 0)
    BY <2>2, WantedCount
  <2>5. /\ WantedOf(mask, m) \in Nat
        /\ WantedOf(mask, m + 1) =
               WantedOf(mask, m) + (IF m \in Picks(mask) THEN 1 ELSE 0)
    BY WantedCount
  <2>6. WantedOf(mask, L + m) = M + WantedOf(mask, m)
    BY <1>4
  <2>7. WantedOf(mask, L + (m + 1)) = M + WantedOf(mask, m + 1)
    BY <1>1, <2>3, <2>4, <2>5, <2>6
  <2> QED
    BY <2>7
<1>5. n \in T
  <2> HIDE DEF T
  <2> QED
    BY <1>3, <1>4, Induction
<1> QED
  BY <1>5 DEF L, M

LEMMA ScansLater ==
    ASSUME NEW mask \in SUBSET (0 .. 15), Len(Order(mask)) # 0, NEW a \in Nat, NEW b \in Nat
    PROVE  WantedOf(mask, Len(Order(mask)) * a + b) =
               Len(InOrder(mask)) * a + WantedOf(mask, b)
<1> DEFINE L == Len(Order(mask))
           M == Len(InOrder(mask))
           T == {n \in Nat : WantedOf(mask, L * n + b) = M * n + WantedOf(mask, b)}
<1>1. L \in Nat \ {0} /\ M \in Nat
  BY Orders, WantedOrder
<1>2. \A n \in Nat : WantedOf(mask, L + n) = M + WantedOf(mask, n) /\ WantedOf(mask, n) \in Nat
  BY ScanLater, WantedCount
<1> HIDE DEF L, M
<1>3. 0 \in T
  <2>1. L * 0 + b = b /\ M * 0 = 0 /\ WantedOf(mask, b) \in Nat
    BY <1>1, <1>2
  <2> QED
    BY <2>1
<1>4. ASSUME NEW n \in Nat, n \in T PROVE n + 1 \in T
  <2> DEFINE v == L * n + b
             w == M * n
  <2>1. v \in Nat /\ L * (n + 1) + b = L + v /\ w \in Nat /\ M * (n + 1) = w + M
    BY <1>1
  <2>2. WantedOf(mask, v) = w + WantedOf(mask, b)
    BY <1>4
  <2> HIDE DEF v, w
  <2>3. WantedOf(mask, L + v) = (w + M) + WantedOf(mask, b)
    BY <1>1, <1>2, <2>1, <2>2
  <2> QED
    BY <2>1, <2>3
<1>5. a \in T
  <2> HIDE DEF T
  <2> QED
    BY <1>3, <1>4, Induction
<1> QED
  BY <1>5 DEF L, M

\* A sample that is wanted is that of the mask which as many wanted ones come before.
LEMMA SampleKept ==
    ASSUME NEW mask \in SUBSET (0 .. 15), Len(Order(mask)) # 0, NEW n \in Picks(mask)
    PROVE  SampleAt(Channels(mask), n) = SampleAt(mask, WantedOf(mask, n))
<1> DEFINE s == Order(mask)
           t == InOrder(mask)
           L == Len(s)
           M == Len(t)
           V == Sw(mask)
           a == n \div L
           b == n % L
           r == Before(V, s[b + 1])
<1>1. L \in Nat \ {0} /\ \A i \in 0 .. L - 1 : Wanted(mask)[i] = (s[i + 1] \in V)
  BY Orders
<1>2. n \in Nat /\ Wanted(mask)[b]
  BY DEF Picks
<1>3. a \in Nat /\ b \in 0 .. L - 1 /\ n = L * a + b
  <2> HIDE DEF L
  <2> QED
    BY <1>1, <1>2, DivMod
<1>4. SampleAt(Channels(mask), n) = <<a, s[b + 1]>>
  BY DEF SampleAt, Order
<1>5. s[b + 1] \in V
  <2> HIDE DEF b, s, V
  <2> QED
    BY <1>1, <1>2, <1>3
<1>6. M \in Nat /\ r \in 0 .. M - 1 /\ t[r + 1] = s[b + 1]
  <2> DEFINE c == s[b + 1]
  <2>1. c \in V
    BY <1>5
  <2> HIDE DEF c
  <2>2. M \in Nat /\ Before(V, c) \in 0 .. M - 1 /\ t[Before(V, c) + 1] = c
    BY <2>1, WantedOrder
  <2> QED
    BY <2>2 DEF c
<1>7. WantedOf(mask, b) = r
  <2> HIDE DEF b
  <2> QED
    BY <1>3, FirstScan
<1>8. WantedOf(mask, L * a + b) = M * a + WantedOf(mask, b)
  <2>1. b \in Nat
    <3> HIDE DEF b, L
    <3> QED
      BY <1>1, <1>3
  <2> HIDE DEF a, b
  <2> QED
    BY <1>3, <2>1, ScansLater
<1> HIDE DEF a, b, r, s, t, L, V
<1>9. WantedOf(mask, n) = M * a + r
  BY <1>3, <1>7, <1>8
<1> HIDE DEF M
<1>10. (M * a + r) \div M = a /\ (M * a + r) % M = r
  <2>1. M \in Nat \ {0}
    BY <1>6
  <2> QED
    BY <1>3, <1>6, <2>1, OneWay
<1>11. SampleAt(mask, M * a + r) = <<a, t[r + 1]>>
  BY <1>10 DEF SampleAt, M, t
<1> QED
  BY <1>4, <1>6, <1>9, <1>11

-----------------------------------------------------------------------------
(* Sequences that are given by their elements. *)

LEMMA AsSeq ==
    ASSUME NEW n \in Nat, NEW s, s = [k \in 1 .. n |-> s[k]], NEW X, \A k \in 1 .. n : s[k] \in X
    PROVE  s \in Seq(X) /\ Len(s) = n /\ DOMAIN s = 1 .. n
<1>1. s \in [1 .. n -> X]
  BY Zenon
<1>2. s \in Seq(X)
  BY <1>1
<1> QED
  BY <1>1, <1>2, LenProperties

LEMMA Joined ==
    ASSUME NEW m \in Nat, NEW n \in Nat, NEW s, NEW t,
           s = [k \in 1 .. m |-> s[k]], t = [k \in 1 .. n |-> t[k]]
    PROVE  s \o t = [k \in 1 .. m + n |-> IF k <= m THEN s[k] ELSE t[k - m]]
<1> DEFINE X == {s[k] : k \in 1 .. m} \cup {t[k] : k \in 1 .. n}
           u == s \o t
<1>1. \A k \in 1 .. m : s[k] \in X
  OBVIOUS
<1>2. \A k \in 1 .. n : t[k] \in X
  OBVIOUS
<1> HIDE DEF X
<1>3. s \in Seq(X) /\ Len(s) = m /\ t \in Seq(X) /\ Len(t) = n
  BY <1>1, <1>2, AsSeq
<1>4. /\ u \in Seq(X) /\ Len(u) = m + n
      /\ \A k \in 1 .. m + n : u[k] = IF k <= m THEN s[k] ELSE t[k - m]
  BY <1>3, ConcatProperties
<1> HIDE DEF u
<1>5. u = [k \in 1 .. m + n |-> u[k]]
  BY <1>4, LenProperties
<1>6. u = [k \in 1 .. m + n |-> IF k <= m THEN s[k] ELSE t[k - m]]
  BY <1>4, <1>5
<1> QED
  BY <1>6 DEF u

\* A part of a sequence.
LEMMA Parted ==
    ASSUME NEW s, NEW i \in Nat, NEW j \in Nat
    PROVE  SubSeq(s, i + 1, i + j) = [k \in 1 .. j |-> s[i + k]]
<1> DEFINE a == i + 1
           b == i + j
           X == {s[k] : k \in a .. b}
           u == SubSeq(s, a, b)
<1>1. \A k \in a .. b : s[k] \in X
  OBVIOUS
<1>2. /\ a \in Int /\ b \in Int /\ b - a + 1 = j /\ (~(a <= b) => j = 0)
      /\ \A k \in 1 .. j : a + k - 1 = i + k
  OBVIOUS
<1> HIDE DEF X, a, b
<1>3. /\ u \in Seq(X) /\ Len(u) = IF a <= b THEN b - a + 1 ELSE 0
      /\ \A k \in 1 .. b - a + 1 : u[k] = s[a + k - 1]
  BY <1>1, <1>2, SubSeqProperties
<1> HIDE DEF u
<1>4. Len(u) = j
  BY <1>2, <1>3
<1>5. u = [k \in 1 .. j |-> u[k]]
  BY <1>3, <1>4, LenProperties
<1>6. \A k \in 1 .. j : u[k] = s[i + k]
  BY <1>2, <1>3
<1>7. u = [k \in 1 .. j |-> s[i + k]]
  BY <1>5, <1>6
<1> QED
  BY <1>7 DEF u, a, b

-----------------------------------------------------------------------------
(* The samples of a chunk that are kept. *)

\* Of the samples after the first u, the first k hold so many that are wanted.
LEMMA KeptRank ==
    ASSUME NEW mask, NEW u \in Nat, NEW K,
           K = {k \in 1 .. Chunk : u + k - 1 \in Picks(mask)}, NEW k \in 0 .. Chunk
    PROVE  Before(K, k + 1) \in Nat /\ WantedOf(mask, u + k) = WantedOf(mask, u) + Before(K, k + 1)
<1> USE SizesAssumption
<1> DEFINE T == {n \in Nat : n <= Chunk =>
                     WantedOf(mask, u + n) = WantedOf(mask, u) + Before(K, n + 1)}
<1>1. K \subseteq Nat /\ 0 \notin K
  OBVIOUS
<1>2. \A n \in Nat : n + 1 \in K <=> n + 1 <= Chunk /\ u + n \in Picks(mask)
  <2> TAKE n \in Nat
  <2>1. u + (n + 1) - 1 = u + n /\ (n + 1 \in 1 .. Chunk <=> n + 1 <= Chunk)
    OBVIOUS
  <2> QED
    BY <2>1
<1>3. \A n \in Nat : /\ Before(K, n) \in Nat /\ Before(K, 0) = 0
                     /\ Before(K, n + 1) = Before(K, n) + (IF n \in K THEN 1 ELSE 0)
  BY <1>1, BeforeStep
<1>4. \A n \in Nat : /\ WantedOf(mask, n) \in Nat
                     /\ WantedOf(mask, n + 1) =
                            WantedOf(mask, n) + (IF n \in Picks(mask) THEN 1 ELSE 0)
  BY WantedCount
<1> HIDE DEF T
<1>5. 0 \in T
  <2>1. Before(K, 0 + 1) = 0
    BY <1>1, <1>3
  <2>2. u + 0 = u /\ WantedOf(mask, u) \in Nat
    BY <1>4
  <2> QED
    BY <2>1, <2>2 DEF T
<1>6. ASSUME NEW n \in Nat, n \in T PROVE n + 1 \in T
  <2> SUFFICES ASSUME n + 1 <= Chunk
               PROVE  WantedOf(mask, u + (n + 1)) = WantedOf(mask, u) + Before(K, (n + 1) + 1)
    BY DEF T
  <2>1. WantedOf(mask, u + n) = WantedOf(mask, u) + Before(K, n + 1)
    BY <1>6 DEF T
  <2>2. /\ u + n \in Nat /\ u + (n + 1) = (u + n) + 1 /\ n + 1 \in Nat
        /\ n + 1 \in K <=> u + n \in Picks(mask)
    BY <1>2
  <2>3. WantedOf(mask, u + (n + 1)) =
            WantedOf(mask, u + n) + (IF u + n \in Picks(mask) THEN 1 ELSE 0)
    BY <1>4, <2>2
  <2>4. /\ Before(K, (n + 1) + 1) = Before(K, n + 1) + (IF n + 1 \in K THEN 1 ELSE 0)
        /\ Before(K, n + 1) \in Nat
    BY <1>3, <2>2
  <2>5. WantedOf(mask, u) \in Nat
    BY <1>4
  <2> QED
    BY <2>1, <2>2, <2>3, <2>4, <2>5
<1>7. k \in T
  <2>1. \A n \in Nat : n \in T
    BY <1>5, <1>6, Induction
  <2> QED
    BY <2>1
<1> QED
  BY <1>3, <1>7 DEF T

\* Each of them is some sample of the chunk.
LEMMA KeptFound ==
    ASSUME NEW mask, NEW u \in Nat, NEW K,
           K = {k \in 1 .. Chunk : u + k - 1 \in Picks(mask)},
           NEW m \in Nat, WantedOf(mask, u) <= m, m < WantedOf(mask, u + Chunk)
    PROVE  \E k \in K : WantedOf(mask, u + k - 1) = m
<1> USE SizesAssumption
<1> DEFINE Found == \E k \in K : WantedOf(mask, u + k - 1) = m
           T == {n \in Nat : n <= Chunk /\ m < WantedOf(mask, u + n) => Found}
<1>1. \A n \in Nat : /\ WantedOf(mask, n) \in Nat
                     /\ WantedOf(mask, n + 1) =
                            WantedOf(mask, n) + (IF n \in Picks(mask) THEN 1 ELSE 0)
  BY WantedCount
<1> HIDE DEF T
<1>2. 0 \in T
  <2>1. u + 0 = u /\ WantedOf(mask, u) \in Nat
    BY <1>1
  <2> QED
    BY <2>1 DEF T
<1>3. ASSUME NEW n \in Nat, n \in T PROVE n + 1 \in T
  <2> SUFFICES ASSUME n + 1 <= Chunk, m < WantedOf(mask, u + (n + 1)) PROVE Found
    <3> HIDE DEF Found
    <3> QED
      BY DEF T
  <2>1. u + n \in Nat /\ u + (n + 1) = (u + n) + 1 /\ u + (n + 1) - 1 = u + n
    OBVIOUS
  <2>2. /\ WantedOf(mask, u + n) \in Nat
        /\ WantedOf(mask, u + (n + 1)) =
               WantedOf(mask, u + n) + (IF u + n \in Picks(mask) THEN 1 ELSE 0)
    BY <1>1, <2>1
  <2>3. CASE m < WantedOf(mask, u + n)
    <3>1. n <= Chunk
      OBVIOUS
    <3> QED
      BY <1>3, <2>3, <3>1 DEF T
  <2>4. CASE ~(m < WantedOf(mask, u + n))
    <3>1. WantedOf(mask, u + n) = m /\ u + n \in Picks(mask)
      BY <2>2, <2>4
    <3>2. n + 1 \in K
      BY <2>1, <3>1
    <3> QED
      BY <2>1, <3>1, <3>2
  <2> QED
    BY <2>3, <2>4
<1>4. Chunk \in T
  <2>1. \A n \in Nat : n \in T
    BY <1>2, <1>3, Induction
  <2> QED
    BY <2>1
<1> QED
  BY <1>4 DEF T

-----------------------------------------------------------------------------
(* The calls of the ADC. *)

\* A scan has a sample of each channel that is sampled.
LEMMA ScanLength ==
    ASSUME NEW mask \in SUBSET (0 .. 15)
    PROVE  /\ Cardinality(DOMAIN Wanted(mask)) = Len(Order(mask))
           /\ Channels(mask) # {} => Len(Order(mask)) \in Nat \ {0}
<1> DEFINE L == Len(Order(mask))
<1>1. /\ L \in Nat
      /\ \A c \in Sw(Channels(mask)) :
            Before(Sw(Channels(mask)), c) + 1 \in 1 .. L
  BY Orders
<1>2. DOMAIN Wanted(mask) = 0 .. L - 1
  BY DEF Wanted, Order
<1> HIDE DEF L
<1>3. Cardinality(0 .. L - 1) = L
  <2>1. 0 \in Int /\ L - 1 \in Int
    BY <1>1
  <2>2. Cardinality(0 .. L - 1) = IF 0 > L - 1 THEN 0 ELSE (L - 1) - 0 + 1
    BY <2>1, FS_Interval, Zenon
  <2> QED
    BY <1>1, <2>2
<1>4. ASSUME Channels(mask) # {} PROVE L # 0
  <2>1. PICK c : c \in Channels(mask)
    BY <1>4
  <2>2. hw2sw[c + 1] \in Sw(Channels(mask))
    BY <2>1 DEF Sw
  <2>3. 1 .. L # {}
    BY <1>1, <2>2
  <2> QED
    BY <2>3
<1> QED
  BY <1>1, <1>2, <1>3, <1>4 DEF L

\* What a call of the ADC is.
LEMMA CallTypes ==
    ASSUME IInv, CommandInv, pc \in {"call", "go", "loop", "step", "sam"},
           pc = "call" => Call.fn \in {"adc_acq", "adc_sam"}
    PROVE  /\ Call.fn \in {"adc_acq", "adc_sam"} /\ Call.n \in Nat
           /\ Call.mask \in SUBSET (0 .. 15) /\ Asked \in Nat
           /\ Call.fn = "adc_sam" => Call.mask = 0 .. 15
           /\ ~(opts.sample > 0 /\ opts.acquire = 0 /\ ~Pending(2))
<1>1. Call.fn \in {"adc_acq", "adc_sam"}
  BY DEF CommandInv, PlaceInv
<1>2. Call \in Calls
  BY HeadTailProperties DEF IInv, TypeInv, Call
<1>3. Call \in AdcCalls
  BY <1>1, <1>2 DEF Calls, OutputCalls
<1>4. Call.n \in Nat /\ \A c \in Call.mask : c \in 0 .. 15
  BY <1>3 DEF AdcCalls
<1>5. Call.mask \in SUBSET (0 .. 15)
  BY <1>4, Zenon
<1>6. Asked \in Nat
  <2>1. Cardinality(Call.mask) \in Nat
    <3>1. 0 \in Int /\ 15 \in Int
      OBVIOUS
    <3>2. IsFiniteSet(0 .. 15)
      BY <3>1, FS_Interval, Zenon
    <3>3. \A T \in SUBSET (0 .. 15) : Cardinality(T) \in Nat
      BY <3>2, FS_Subset, FS_CardinalityType
    <3> QED
      BY <1>5, <3>3
  <2>2. \A a, b \in Nat : a * b \in Nat
    OBVIOUS
  <2> QED
    BY <1>4, <2>1, <2>2 DEF Asked
<1>7. /\ opts \in Commands /\ Asks(opts, Call) /\ Pending(Stage(opts, Call))
  BY FirstCall
<1>8. /\ Call.fn = "adc_sam" => Call.mask = 0 .. 15 /\ Stage(opts, Call) = 2
      /\ Call.fn = "adc_acq" => opts.acquire > 0
  BY <1>7, CallAsked
<1>9. ~(opts.acquire > 0 /\ opts.acquire = 0)
  OBVIOUS
<1> QED
  BY <1>1, <1>4, <1>5, <1>6, <1>7, <1>8, <1>9

\* What changes the FIFO.
LEMMA FifoDrop ==
    ASSUME FifoInv, NEW n \in Nat, n <= Len(fifo), fifo' = SubSeq(fifo, n + 1, Len(fifo)),
           UNCHANGED <<config, count>>
    PROVE  FifoInv' /\ Taken' = Taken + n
<1> DEFINE m == Len(fifo)
           j == m - n
           t == Taken
<1>1. /\ config \subseteq 0 .. 15 /\ count \in Nat /\ m \in Nat /\ t \in Nat /\ t = count - m
      /\ config = {} => count = 0
      /\ fifo = [i \in 1 .. m |-> SampleAt(config, t + i - 1)]
  BY DEF FifoInv, Taken
<1>2. j \in Nat /\ n + j = m
  BY <1>1
<1>3. fifo' = SubSeq(fifo, n + 1, n + j)
  BY <1>2
<1> HIDE DEF m, j, t
<1>4. fifo' = [i \in 1 .. j |-> fifo[n + i]]
  BY <1>2, <1>3, Parted
<1>5. Len(fifo') = j
  BY <1>2, <1>4
<1>6. Taken' = t + n
  BY <1>1, <1>2, <1>5 DEF Taken
<1>7. \A i \in 1 .. j : fifo[n + i] = SampleAt(config, (t + n) + i - 1)
  <2> TAKE i \in 1 .. j
  <2>1. n + i \in 1 .. m /\ t + (n + i) - 1 = (t + n) + i - 1
    BY <1>1, <1>2
  <2> QED
    BY <1>1, <2>1
<1>8. fifo' = [i \in 1 .. Len(fifo') |-> SampleAt(config', Taken' + i - 1)]
  BY <1>4, <1>5, <1>6, <1>7
<1>9. FifoInv'
  BY <1>1, <1>2, <1>5, <1>6, <1>8 DEF FifoInv
<1> QED
  BY <1>6, <1>9 DEF t

LEMMA FifoGrows ==
    ASSUME FifoInv, Sample
    PROVE  FifoInv' /\ Taken' = Taken /\ Len(fifo) <= Len(fifo')
<1> DEFINE m == Len(fifo)
           t == Taken
           e == SampleAt(config, count)
<1>1. /\ config \subseteq 0 .. 15 /\ count \in Nat /\ m \in Nat /\ t \in Nat /\ t = count - m
      /\ config = {} => count = 0
      /\ fifo = [i \in 1 .. m |-> SampleAt(config, t + i - 1)]
  BY DEF FifoInv, Taken
<1>2. config' = config /\ config # {}
  BY DEF Sample
<1>3. CASE fifo' = Append(fifo, e) /\ count' = count + 1
  <2> DEFINE f == [i \in 1 .. 1 |-> e]
             g == fifo \o f
  <2> HIDE DEF e, m, t
  <2>1. fifo = [i \in 1 .. m |-> fifo[i]] /\ f = [i \in 1 .. 1 |-> f[i]]
    BY <1>1
  <2>2. fifo' = g
    <3>1. f = <<e>>
      OBVIOUS
    <3>2. fifo \in Seq({fifo[i] : i \in 1 .. m} \cup {e})
      BY <1>1, <2>1, AsSeq
    <3> HIDE DEF f
    <3> QED
      BY <1>3, <3>1, <3>2, AppendIsConcat
  <2> HIDE DEF f
  <2>3. g = [i \in 1 .. m + 1 |-> IF i <= m THEN fifo[i] ELSE f[i - m]]
    BY <1>1, <2>1, Joined
  <2> HIDE DEF g
  <2>4. Len(fifo') = m + 1
    BY <1>1, <2>2, <2>3
  <2>5. Taken' = t
    BY <1>1, <1>3, <2>4 DEF Taken
  <2>6. ASSUME NEW i \in 1 .. m + 1
        PROVE  (IF i <= m THEN fifo[i] ELSE f[i - m]) = SampleAt(config, t + i - 1)
    <3>1. CASE i <= m
      <4>1. i \in 1 .. m
        BY <1>1, <3>1
      <4> QED
        BY <1>1, <3>1, <4>1
    <3>2. CASE ~(i <= m)
      <4>1. i - m \in 1 .. 1 /\ t + i - 1 = count
        BY <1>1, <3>2
      <4> QED
        BY <3>2, <4>1 DEF f, e
    <3> QED
      BY <3>1, <3>2
  <2>7. fifo' = [i \in 1 .. Len(fifo') |-> SampleAt(config', Taken' + i - 1)]
    BY <1>2, <2>2, <2>3, <2>4, <2>5, <2>6
  <2>8. count' \in Nat /\ Len(fifo') \in Nat
    BY <1>1, <1>3, <2>4
  <2>9. FifoInv'
    BY <1>1, <1>2, <2>5, <2>7, <2>8 DEF FifoInv
  <2> QED
    BY <1>1, <2>4, <2>5, <2>9 DEF m, t
<1>4. CASE UNCHANGED <<fifo, count>>
  <2>1. Taken' = Taken
    BY <1>4 DEF Taken
  <2>2. FifoInv'
    BY <1>2, <1>4, <2>1 DEF FifoInv
  <2> QED
    BY <1>1, <1>4, <2>1, <2>2
<1> QED
  BY <1>3, <1>4 DEF Sample

-----------------------------------------------------------------------------
(* The steps of ts8820_adc_acq. *)

\* A step within a call of the ADC: nothing is printed yet.
LEMMA NothingPrinted ==
    ASSUME IInv, CommandInv, pc \in {"call", "go", "loop", "step", "sam"},
           pc = "call" => Call.fn \in {"adc_acq", "adc_sam"}, UNCHANGED <<opts, todo>>
    PROVE  ~(opts'.sample > 0 /\ opts'.acquire = 0 /\ ~Pending(2)')
<1>1. ~(opts.sample > 0 /\ opts.acquire = 0 /\ ~Pending(2))
  BY CallTypes
<1>2. Pending(2)' = Pending(2) /\ opts' = opts
  BY DEF Pending
<1> QED
  BY <1>1, <1>2

\* A step of an acquisition.
LEMMA AcqKeeps ==
    ASSUME IInv, CommandInv, OutputInv, Acquiring, UNCHANGED <<opts, todo, config>>,
           pc' \in {"loop", "step"}, FifoInv', KeptInv', PutInv', GoalInv'
    PROVE  OutputInv'
<1>1. pc \in {"loop", "step"} /\ config = Channels(Call.mask) /\ Call.fn = "adc_acq"
  BY DEF OutputInv, Acquiring
<1>2. Call' = Call
  BY DEF Call
<1>3. ~(opts'.sample > 0 /\ opts'.acquire = 0 /\ ~Pending(2)')
  BY <1>1, NothingPrinted
<1> QED
  BY <1>1, <1>2, <1>3 DEF OutputInv

\* Samples that were put in the ring are put out.
LEMMA PutRight ==
    ASSUME KeptInv, PutInv, NEW n \in Nat, acquired \in Int, n <= acquired - written,
           p = written % Ring, p \in Nat, p + n <= Ring, Put(n)
    PROVE  out' = [k \in 1 .. written + n |-> SampleAt(Call.mask, k - 1)]
<1> DEFINE w == written
           mask == Call.mask
           f == [k \in 1 .. n |-> buf[p + k - 1]]
<1>1. /\ w \in Nat /\ out = [k \in 1 .. w |-> SampleAt(mask, k - 1)]
      /\ \A m \in w .. acquired - 1 : buf[m % Ring] = SampleAt(mask, m)
  BY DEF KeptInv, PutInv
<1>2. out' = out \o f
  BY DEF Put
<1>3. f = [k \in 1 .. n |-> f[k]] /\ \A k \in 1 .. n : f[k] = buf[p + k - 1]
  OBVIOUS
<1>4. p = w % Ring /\ Ring \in Nat
  BY SizesAssumption
<1> HIDE DEF f, w, mask
<1>5. ASSUME NEW k \in 1 .. n PROVE f[k] = SampleAt(mask, w + k - 1)
  <2>1. k - 1 \in Nat /\ Ring \in Nat \ {0} /\ p + (k - 1) \in 0 .. Ring - 1
    BY <1>4
  <2>2. (p + (k - 1)) % Ring = (w + (k - 1)) % Ring
    BY <1>1, <1>4, <2>1, ModAdd
  <2>3. (p + (k - 1)) % Ring = p + (k - 1)
    <3> DEFINE r == p + (k - 1)
    <3> HIDE DEF r
    <3>1. (Ring * 0 + r) % Ring = r
      BY <2>1, OneWay DEF r
    <3>2. Ring * 0 + r = r
      BY <2>1 DEF r
    <3> QED
      BY <3>1, <3>2 DEF r
  <2>4. w + (k - 1) \in w .. acquired - 1
    BY <1>1 DEF w
  <2>5. buf[p + (k - 1)] = SampleAt(mask, w + (k - 1))
    BY <1>1, <2>2, <2>3, <2>4
  <2>6. p + (k - 1) = p + k - 1 /\ w + (k - 1) = w + k - 1
    BY <1>1
  <2> QED
    BY <1>3, <2>5, <2>6
<1>6. out = [k \in 1 .. w |-> out[k]] /\ \A k \in 1 .. w : out[k] = SampleAt(mask, k - 1)
  BY <1>1
<1>7. out' = [k \in 1 .. w + n |-> IF k <= w THEN out[k] ELSE f[k - w]]
  BY <1>1, <1>2, <1>3, <1>6, Joined
<1>8. ASSUME NEW k \in 1 .. w + n
      PROVE  (IF k <= w THEN out[k] ELSE f[k - w]) = SampleAt(mask, k - 1)
  <2>1. CASE k <= w
    <3>1. k \in 1 .. w
      BY <1>1, <2>1
    <3> QED
      BY <1>6, <2>1, <3>1
  <2>2. CASE ~(k <= w)
    <3>1. k - w \in 1 .. n /\ w + (k - w) - 1 = k - 1
      BY <1>1, <2>2
    <3> QED
      BY <1>5, <2>2, <3>1
  <2> QED
    BY <2>1, <2>2
<1>9. out' = [k \in 1 .. w + n |-> SampleAt(mask, k - 1)]
  BY <1>7, <1>8
<1> QED
  BY <1>9 DEF w, mask

\* What is so while samples are acquired.
LEMMA AcqTypes ==
    ASSUME IInv, CommandInv, OutputInv, Acquiring
    PROVE  /\ FifoInv /\ KeptInv /\ PutInv /\ GoalInv /\ config = Channels(Call.mask)
           /\ Call.mask \in SUBSET (0 .. 15) /\ Asked \in Nat
           /\ goal \in Int /\ written \in Nat /\ acquired \in Nat
           /\ written <= acquired /\ acquired - written <= Ring
           /\ p \in Nat /\ p + Block <= Ring
           /\ pc = "step" => written <= goal
<1>1. pc \in {"loop", "step"}
  BY DEF Acquiring
<1>2. FifoInv /\ KeptInv /\ PutInv /\ GoalInv /\ config = Channels(Call.mask)
  BY <1>1 DEF OutputInv
<1>3. Call.mask \in SUBSET (0 .. 15) /\ Asked \in Nat
  BY <1>1, CallTypes
<1>4. goal \in Int /\ written \in Nat /\ acquired \in Int
  BY <1>2 DEF IInv, TypeInv, PutInv
<1>5. /\ written <= acquired /\ acquired - written <= Ring /\ p \in 0 .. Ring - 1
      /\ pc = "step" => written <= goal
  BY DEF IInv, RingInv
<1>6. p + Block <= Ring
  BY IInvRingKept DEF RingKept
<1> QED
  BY <1>2, <1>3, <1>4, <1>5, <1>6

LEMMA AcqStatusPuts ==
    ASSUME IInv, CommandInv, OutputInv, AcqStatus PROVE OutputInv'
<1>1. /\ pc = "loop" /\ pc' = "step" /\ written < goal /\ status' = Len(fifo)
      /\ UNCHANGED <<opts, todo, config, fifo, over, count, plan, written, acquired, cyc, p,
                     q, buf, out>>
      /\ goal' = goal \/ (over /\ goal' = acquired)
  BY DEF AcqStatus
<1>2. Acquiring
  BY <1>1 DEF Acquiring
<1>3. FifoInv /\ KeptInv /\ PutInv /\ GoalInv
  BY <1>2, AcqTypes
<1>4. Call' = Call /\ Taken' = Taken /\ Asked' = Asked
  BY <1>1 DEF Call, Taken, Asked
<1>5. FifoInv'
  BY <1>1, <1>3, <1>4 DEF FifoInv
<1>6. KeptInv'
  BY <1>1, <1>3, <1>4 DEF KeptInv
<1>7. PutInv'
  BY <1>1, <1>3, <1>4 DEF PutInv
<1>8. GoalInv'
  <2>1. status' \in Nat /\ status' <= Len(fifo')
    BY <1>1, <1>3 DEF FifoInv
  <2>2. goal' = Asked' \/ (over' /\ goal' = acquired')
    BY <1>1, <1>3, <1>4 DEF GoalInv
  <2>3. acquired' < Asked' + Chunk
    BY <1>1, <1>3, <1>4 DEF GoalInv
  <2> QED
    BY <2>1, <2>2, <2>3 DEF GoalInv
<1> QED
  BY <1>1, <1>2, <1>5, <1>6, <1>7, <1>8, AcqKeeps

\* Some of what is in the ring is put out.
LEMMA AcqPuts ==
    ASSUME IInv, CommandInv, OutputInv, AcqBlock \/ AcqRest \/ AcqSpin PROVE OutputInv'
<1>1. /\ pc = "step" /\ pc' = "loop"
      /\ UNCHANGED <<opts, todo, config, fifo, over, count, plan, goal, acquired, cyc, q, buf>>
  BY DEF AcqBlock, AcqRest, AcqSpin, acq, adc
<1>2. Acquiring
  BY <1>1 DEF Acquiring
<1>3. /\ FifoInv /\ KeptInv /\ PutInv /\ GoalInv
      /\ goal \in Int /\ written \in Nat /\ acquired \in Nat /\ p \in Nat
      /\ written <= acquired /\ p + Block <= Ring /\ written <= goal /\ p = written % Ring
      /\ Ring \in Nat \ {0} /\ Block \in Nat
  BY <1>1, <1>2, AcqTypes, SizesAssumption DEF KeptInv
<1>4. Call' = Call /\ Taken' = Taken /\ Asked' = Asked
  BY <1>1 DEF Call, Taken, Asked
<1>5. FifoInv'
  BY <1>1, <1>3, <1>4 DEF FifoInv
<1>6. GoalInv'
  BY <1>1, <1>3, <1>4 DEF GoalInv
<1>7. ASSUME PutInv', written' \in Nat, written <= written',
             written' < goal' => p' = written' % Ring
      PROVE  OutputInv'
  <2>1. \A m \in written' .. acquired' - 1 : buf'[m % Ring] = SampleAt(Call'.mask, m)
    <3>1. \A m \in written' .. acquired - 1 : m \in written .. acquired - 1
      BY <1>3, <1>7
    <3> QED
      BY <1>1, <1>3, <1>4, <3>1 DEF KeptInv
  <2>2. /\ plan' = Wanted(Call'.mask)
        /\ config' # {} => cyc' = Taken' % Len(InOrder(config'))
        /\ acquired' = WantedOf(Call'.mask, Taken') /\ q' = acquired' % Ring
    BY <1>1, <1>3, <1>4 DEF KeptInv
  <2>3. KeptInv'
    BY <1>1, <1>7, <2>1, <2>2 DEF KeptInv
  <2> QED
    BY <1>1, <1>2, <1>5, <1>6, <1>7, <2>3, AcqKeeps
<1>8. CASE AcqBlock
  <2>1. /\ acquired - written >= Block /\ Put(Block)
        /\ p' = (p + Block) % Ring /\ written' = written + Block
    BY <1>8 DEF AcqBlock
  <2>2. out' = [k \in 1 .. written + Block |-> SampleAt(Call.mask, k - 1)]
    BY <1>3, <2>1, PutRight
  <2>3. written' \in Nat /\ written <= written'
    BY <1>3, <2>1
  <2>4. PutInv'
    BY <1>4, <2>1, <2>2, <2>3 DEF PutInv
  <2>5. p' = written' % Ring
    BY <1>3, <2>1, ModAdd
  <2> QED
    BY <1>7, <2>3, <2>4, <2>5
<1>9. CASE AcqRest
  <2>1. /\ acquired - written < Block /\ acquired >= goal /\ Put(goal - written)
        /\ written' = goal
    BY <1>9 DEF AcqRest
  <2> DEFINE n == goal - written
  <2>2. n \in Nat /\ n <= acquired - written /\ p + n <= Ring /\ written + n = goal
    BY <1>3, <2>1
  <2> HIDE DEF n
  <2>3. out' = [k \in 1 .. written + n |-> SampleAt(Call.mask, k - 1)]
    BY <1>3, <2>1, <2>2, PutRight DEF n
  <2>4. written' \in Nat /\ written <= written' /\ ~(written' < goal')
    BY <1>1, <1>3, <2>1
  <2>5. PutInv'
    BY <1>4, <2>1, <2>2, <2>3, <2>4 DEF PutInv
  <2> QED
    BY <1>7, <2>4, <2>5
<1>10. CASE AcqSpin
  <2>1. UNCHANGED <<p, written, out>>
    BY <1>10 DEF AcqSpin, acq
  <2>2. PutInv'
    BY <1>3, <1>4, <2>1 DEF PutInv
  <2> QED
    BY <1>3, <1>7, <2>1, <2>2
<1> QED
  BY <1>8, <1>9, <1>10

\* A chunk is read: the samples that are kept are those of the mask, each goes to the
\* slot of its number, and none to that of a sample that is not yet put out.
LEMMA KeptIs ==
    ASSUME FifoInv, KeptInv, config = Channels(Call.mask), Call.mask \in SUBSET (0 .. 15),
           config # {}
    PROVE  /\ Kept = {k \in 1 .. Chunk : Taken + k - 1 \in Picks(Call.mask)}
           /\ Cardinality(DOMAIN plan) = Len(Order(Call.mask))
           /\ Len(Order(Call.mask)) \in Nat \ {0}
<1> DEFINE mask == Call.mask
           L == Len(Order(mask))
           t == Taken
<1>1. /\ Cardinality(DOMAIN plan) = L /\ L \in Nat \ {0}
      /\ plan = Wanted(mask) /\ cyc = t % L /\ t \in Nat
  BY ScanLength DEF KeptInv, FifoInv, Order
<1>2. ASSUME NEW k \in 1 .. Chunk
      PROVE  plan[(cyc + k - 1) % Cardinality(DOMAIN plan)] <=> t + k - 1 \in Picks(mask)
  <2> HIDE DEF mask, L, t
  <2>1. k - 1 \in Nat
    BY SizesAssumption
  <2>2. (cyc + (k - 1)) % L = (t + (k - 1)) % L
    BY <1>1, <2>1, ModAdd
  <2>3. cyc \in Int
    BY <1>1
  <2>4. cyc + (k - 1) = cyc + k - 1 /\ t + (k - 1) = t + k - 1 /\ t + k - 1 \in Nat
    BY <1>1, <2>1, <2>3, SizesAssumption
  <2>5. (cyc + k - 1) % L = (t + k - 1) % L
    BY <2>2, <2>4
  <2> QED
    BY <1>1, <2>4, <2>5 DEF Picks, L
<1> HIDE DEF mask, L, t
<1>3. Kept = {k \in 1 .. Chunk : t + k - 1 \in Picks(mask)}
  BY <1>2, Zenon DEF Kept
<1> QED
  BY <1>1, <1>3 DEF mask, L, t

LEMMA AcqReadPuts ==
    ASSUME IInv, CommandInv, OutputInv, AcqRead PROVE OutputInv'
<1> DEFINE mask == Call.mask
           L == Len(Order(mask))
           t == Taken
           new == WantedOf(mask, t + Chunk)
           At(k) == WantedOf(mask, t + k - 1)
<1>1. /\ pc = "step" /\ pc' = "loop" /\ Reads
      /\ UNCHANGED <<opts, todo, config, over, count, plan, goal, written, p, out>>
      /\ acquired' = acquired + Cardinality(Kept) /\ q' = (q + Cardinality(Kept)) % Ring
      /\ buf' = [s \in Slots |-> IF \E k \in Kept : Slot(k) = s
                                 THEN fifo[CHOOSE k \in Kept : Slot(k) = s] ELSE buf[s]]
      /\ cyc' = (cyc + Chunk) % Cardinality(DOMAIN plan)
      /\ fifo' = SubSeq(fifo, Chunk + 1, Len(fifo))
  BY DEF AcqRead
<1>2. Acquiring
  BY <1>1 DEF Acquiring
<1>3. /\ FifoInv /\ KeptInv /\ PutInv /\ GoalInv /\ config = Channels(mask)
      /\ mask \in SUBSET (0 .. 15) /\ Asked \in Nat
      /\ goal \in Int /\ written \in Nat /\ acquired \in Nat /\ written <= acquired
  BY <1>2, AcqTypes
<1>4. /\ t \in Nat /\ count \in Nat /\ Len(fifo) \in Nat /\ Len(fifo) <= count
      /\ Chunk < Len(fifo) /\ Chunk \in Nat \ {0} /\ Ring \in Nat \ {0}
  BY <1>1, <1>3, SizesAssumption DEF FifoInv, GoalInv, Reads, Taken
<1>5. config # {}
  BY <1>3, <1>4 DEF FifoInv
<1>6. /\ Kept = {k \in 1 .. Chunk : t + k - 1 \in Picks(mask)}
      /\ Cardinality(DOMAIN plan) = L /\ L \in Nat \ {0}
  BY <1>3, <1>5, KeptIs
<1>7. FifoInv' /\ Taken' = t + Chunk
  BY <1>1, <1>3, <1>4, FifoDrop
<1>8. Call' = Call /\ Asked' = Asked
  BY <1>1 DEF Call, Asked
<1>9. acquired = WantedOf(mask, t) /\ q = acquired % Ring /\ p = written % Ring
  BY <1>1, <1>3 DEF KeptInv
<1>10. \A k \in 0 .. Chunk : Before(Kept, k + 1) \in Nat
                             /\ WantedOf(mask, t + k) = acquired + Before(Kept, k + 1)
  <2> HIDE DEF mask, t
  <2> QED
    BY <1>4, <1>6, <1>9, KeptRank
<1>11. Before(Kept, Chunk + 1) = Cardinality(Kept)
  <2>1. \A k \in Kept : k < Chunk + 1
    BY <1>4, <1>6
  <2>2. {k \in Kept : k < Chunk + 1} = Kept
    BY <2>1, Zenon
  <2> QED
    BY <2>2 DEF Before
<1>12. Cardinality(Kept) \in Nat /\ Cardinality(Kept) <= Chunk /\ acquired' = new
  <2>1. Cardinality(Kept) \in Nat /\ Cardinality(Kept) <= Chunk
    BY <1>4, KeptCount
  <2> QED
    BY <1>1, <1>4, <1>10, <1>11, <2>1
<1>13. q' = acquired' % Ring
  <2> DEFINE c == Cardinality(Kept)
  <2>1. c \in Nat /\ q' = ((acquired % Ring) + c) % Ring /\ acquired' = acquired + c
    BY <1>1, <1>9, <1>12
  <2> HIDE DEF c
  <2>2. ((acquired % Ring) + c) % Ring = (acquired + c) % Ring
    BY <1>3, <1>4, <2>1, ModAdd
  <2> QED
    BY <2>1, <2>2
<1>14. cyc' = Taken' % Len(InOrder(config'))
  <2>1. cyc = t % L
    BY <1>3, <1>5 DEF KeptInv, Order
  <2> HIDE DEF L, t
  <2>2. cyc' = (t + Chunk) % L
    BY <1>1, <1>4, <1>6, <2>1, ModAdd
  <2> QED
    BY <1>1, <1>3, <1>7, <2>2 DEF L, Order
<1>15. acquired' - written <= Ring
  <2>1. IInv' /\ Acquiring'
    BY <1>1, AcqReadKeeps DEF Acquiring
  <2> QED
    BY <1>1, <2>1 DEF IInv, RingInv
<1>16. ASSUME NEW k \in Kept
       PROVE  /\ At(k) \in acquired .. acquired' - 1 /\ Slot(k) = At(k) % Ring
              /\ k \in 1 .. Chunk /\ fifo[k] = SampleAt(mask, At(k))
  <2>1. k \in 1 .. Chunk /\ t + k - 1 \in Picks(mask)
    BY <1>6
  <2>2. k - 1 \in 0 .. Chunk /\ (k - 1) + 1 = k /\ t + (k - 1) = t + k - 1 /\ k \in 0 .. Chunk
    BY <1>4, <2>1
  <2>3. Before(Kept, k) \in Nat /\ At(k) = acquired + Before(Kept, k)
    BY <1>10, <2>2
  <2>4. Slot(k) = At(k) % Ring
    <3> DEFINE b == Before(Kept, k)
    <3>1. Slot(k) = (q + b) % Ring
      BY DEF Slot, Before
    <3>2. b \in Nat /\ At(k) = acquired + b
      BY <2>3
    <3> HIDE DEF At, b
    <3>3. ((acquired % Ring) + b) % Ring = (acquired + b) % Ring
      BY <1>3, <1>4, <3>2, ModAdd
    <3> QED
      BY <1>9, <3>1, <3>2, <3>3
  <2>5. At(k) < acquired'
    <3>1. Kept \subseteq Nat
      BY <1>4, <1>6
    <3>2. /\ Before(Kept, k) < Before(Kept, Chunk + 1)
      <4>1. k \in Nat /\ Chunk + 1 \in Nat /\ k <= Chunk + 1 /\ k < Chunk + 1
        BY <1>4, <2>1
      <4> QED
        BY <3>1, <4>1, BeforeLess
    <3> HIDE DEF At
    <3> QED
      BY <1>1, <1>3, <1>11, <1>12, <2>3, <3>2
  <2>6. fifo[k] = SampleAt(mask, At(k))
    <3> DEFINE i == t + k - 1
    <3>1. fifo[k] = SampleAt(config, i)
      <4>1. k \in 1 .. Len(fifo)
        BY <1>4, <2>1
      <4> QED
        BY <1>3, <4>1 DEF FifoInv
    <3>2. i \in Picks(mask)
      BY <2>1
    <3> HIDE DEF i
    <3>3. SampleAt(Channels(mask), i) = SampleAt(mask, WantedOf(mask, i))
      BY <1>3, <1>6, <3>2, SampleKept
    <3> QED
      BY <1>3, <3>1, <3>3 DEF i
  <2>7. At(k) \in acquired .. acquired' - 1
    <3> HIDE DEF At
    <3> QED
      BY <1>1, <1>3, <1>12, <2>3, <2>5
  <2> QED
    BY <2>1, <2>4, <2>6, <2>7
<1>17. ASSUME NEW m \in Nat, written <= m, m < acquired'
       PROVE  buf'[m % Ring] = SampleAt(mask, m)
  <2> DEFINE s == m % Ring
  <2>1. s \in Slots /\ acquired' \in Int
    BY <1>1, <1>3, <1>4, <1>12 DEF Slots
  <2>2. ASSUME NEW k \in Kept, Slot(k) = s PROVE At(k) = m
    <3> DEFINE n == At(k)
    <3>1. n \in acquired .. acquired' - 1 /\ n % Ring = m % Ring
      BY <1>16, <2>2
    <3> HIDE DEF n
    <3>2. n \in Nat /\ acquired' \in Int /\ n - m < Ring /\ m - n < Ring
      <4> DEFINE b == acquired'
      <4>1. b \in Int /\ b - written <= Ring /\ m < b
        BY <1>15, <1>17, <2>1
      <4>2. n \in acquired .. b - 1
        BY <3>1
      <4> HIDE DEF b
      <4>3. n \in Int /\ acquired <= n /\ n < b
        BY <1>3, <4>1, <4>2
      <4>4. n \in Nat /\ b \in Int /\ n - m < Ring /\ m - n < Ring
        BY <1>3, <1>4, <1>17, <4>1, <4>3
      <4> QED
        BY <4>4 DEF b
    <3>3. ~(n < m)
      BY <1>4, <2>1, <3>1, <3>2, ModApart
    <3>4. ~(m < n)
      BY <1>4, <2>1, <3>1, <3>2, ModApart
    <3>5. n = m
      BY <2>1, <3>2, <3>3, <3>4
    <3> QED
      BY <3>5 DEF n
  <2>3. CASE \E k \in Kept : Slot(k) = s
    <3> DEFINE k == CHOOSE j \in Kept : Slot(j) = s
    <3>1. k \in Kept /\ Slot(k) = s
      BY <2>3
    <3>2. buf'[s] = fifo[k]
      BY <1>1, <2>1, <2>3
    <3> HIDE DEF k
    <3>3. At(k) = m /\ fifo[k] = SampleAt(mask, At(k))
      BY <1>16, <2>2, <3>1
    <3> QED
      BY <3>2, <3>3
  <2>4. CASE ~(\E k \in Kept : Slot(k) = s)
    <3>1. buf'[s] = buf[s]
      BY <1>1, <2>1, <2>4
    <3>2. m < acquired
      <4> SUFFICES ASSUME ~(m < acquired) PROVE FALSE
        OBVIOUS
      <4>1. WantedOf(mask, t) <= m /\ m < WantedOf(mask, t + Chunk)
        <5>1. acquired <= m
          BY <1>3
        <5> QED
          BY <1>9, <1>12, <1>17, <5>1
      <4>2. PICK k \in Kept : At(k) = m
        <5> HIDE DEF mask, t
        <5>1. t \in Nat /\ m \in Nat /\ Kept = {k \in 1 .. Chunk : t + k - 1 \in Picks(mask)}
          BY <1>4, <1>6, <2>1
        <5>2. \E k \in Kept : WantedOf(mask, t + k - 1) = m
          BY <4>1, <5>1, KeptFound
        <5> QED
          BY <5>2
      <4>3. Slot(k) = s
        BY <1>16, <4>2
      <4> QED
        BY <2>4, <4>3
    <3>3. m \in written .. acquired - 1
      BY <1>3, <1>17, <3>2
    <3> QED
      BY <1>3, <3>1, <3>3 DEF KeptInv
  <2> QED
    BY <2>3, <2>4
<1>18. KeptInv'
  <2>1. plan' = Wanted(Call'.mask) /\ acquired' = WantedOf(Call'.mask, Taken')
    BY <1>1, <1>3, <1>7, <1>8, <1>12 DEF KeptInv
  <2>2. ASSUME NEW m \in written' .. acquired' - 1
        PROVE  buf'[m % Ring] = SampleAt(Call'.mask, m)
    <3>1. acquired' \in Int /\ written \in Nat /\ written' = written
      BY <1>1, <1>3, <1>12
    <3> DEFINE b == acquired'
    <3>2. b \in Int /\ m \in written .. b - 1
      BY <3>1
    <3> HIDE DEF b
    <3>3. m \in Nat /\ written <= m /\ m < b
      BY <3>1, <3>2
    <3> QED
      BY <1>8, <1>17, <3>3 DEF b
  <2> QED
    BY <1>1, <1>9, <1>13, <1>14, <2>1, <2>2 DEF KeptInv
<1>19. PutInv'
  BY <1>1, <1>3, <1>8 DEF PutInv
<1>20. GoalInv'
  <2>1. goal = Asked
    BY <1>1, <1>3 DEF GoalInv, Reads
  <2>2. acquired' < Asked + Chunk
    BY <1>1, <1>3, <1>4, <1>12, <2>1 DEF Reads
  <2> QED
    BY <1>1, <1>8, <2>1, <2>2 DEF GoalInv
<1> QED
  BY <1>1, <1>2, <1>7, <1>18, <1>19, <1>20, AcqKeeps

-----------------------------------------------------------------------------
(* The other steps. *)

LEMMA AdcResetPuts ==
    ASSUME IInv, CommandInv, OutputInv, AdcReset PROVE OutputInv'
<1>1. /\ pc = "call" /\ Call.fn \in {"adc_acq", "adc_sam"} /\ pc' = "go"
      /\ UNCHANGED <<opts, todo>> /\ config' = Channels(Call.mask)
      /\ mode' = "stopped" /\ fifo' = <<>> /\ count' = 0
  BY DEF AdcReset, Is
<1>2. Call' = Call /\ config' \subseteq 0 .. 15
  BY <1>1, CallTypes, Sampled DEF Call
<1>3. Len(fifo') = 0 /\ Taken' = 0
  <2>1. Len(fifo') = 0
    BY <1>1, EmptySeq
  <2>2. Taken' = count' - Len(fifo')
    BY DEF Taken
  <2>3. Taken' = 0 - 0
    BY <1>1, <2>1, <2>2
  <2> QED
    BY <2>1, <2>3
<1>4. fifo' = [i \in 1 .. Len(fifo') |-> SampleAt(config', Taken' + i - 1)]
  <2>1. 1 .. Len(fifo') = {}
    BY <1>3
  <2> QED
    BY <1>1, <2>1
<1>5. FifoInv'
  BY <1>1, <1>2, <1>3, <1>4 DEF FifoInv
<1>6. ~(opts'.sample > 0 /\ opts'.acquire = 0 /\ ~Pending(2)')
  BY <1>1, NothingPrinted
<1>7. ~Acquiring' /\ pc' # "sam"
  BY <1>1 DEF Acquiring
<1> QED
  BY <1>1, <1>2, <1>5, <1>6, <1>7 DEF OutputInv

LEMMA AdcStartPuts ==
    ASSUME IInv, CommandInv, OutputInv, AdcStart PROVE OutputInv'
<1> USE SizesAssumption
<1> DEFINE mask == Call.mask
           L == Len(Order(mask))
<1>1. /\ pc = "go" /\ UNCHANGED <<opts, todo, config, fifo, over, count>>
      /\ plan' = Wanted(mask) /\ goal' = Asked
      /\ written' = 0 /\ acquired' = 0 /\ cyc' = 0 /\ p' = 0 /\ q' = 0 /\ out' = <<>>
      /\ pc' = IF Call.fn = "adc_acq" THEN "loop" ELSE "sam"
  BY DEF AdcStart, Asked
<1>2. /\ Call.fn \in {"adc_acq", "adc_sam"} /\ Call.n \in Nat
      /\ mask \in SUBSET (0 .. 15) /\ Asked \in Nat
  BY <1>1, CallTypes
<1>3. FifoInv /\ config = Channels(mask) /\ fifo = <<>> /\ count = 0
  BY <1>1 DEF OutputInv
<1>4. Call' = Call /\ Taken' = Taken /\ Asked' = Asked
  BY <1>1 DEF Call, Taken, Asked
<1>5. Taken = 0
  <2>1. Taken = count - Len(fifo)
    BY DEF Taken
  <2>2. Len(fifo) = 0
    BY <1>3, EmptySeq
  <2>3. Taken = 0 - 0
    BY <1>3, <2>1, <2>2
  <2> QED
    BY <2>3
<1>6. FifoInv'
  BY <1>1, <1>3, <1>4 DEF FifoInv
<1>7. ~(opts'.sample > 0 /\ opts'.acquire = 0 /\ ~Pending(2)')
  BY <1>1, NothingPrinted
<1>8. \A n \in Nat \ {0} : 0 % n = 0
  <2> TAKE n \in Nat \ {0}
  <2>1. (n * 0 + 0) % n = 0
    BY OneWay
  <2> QED
    BY <2>1
<1>9. WantedOf(mask, 0) = 0
  BY WantedCount
<1>10. <<>> = [k \in 1 .. 0 |-> SampleAt(mask, k - 1)]
       /\ <<>> = [k \in 1 .. 0 |-> SampleAt(config, k - 1)]
  OBVIOUS
<1>11. CASE Call.fn = "adc_acq"
  <2>1. config # {} => cyc' = Taken' % Len(InOrder(config'))
    <3> SUFFICES ASSUME config # {} PROVE 0 % L = 0
      BY <1>1, <1>3, <1>4, <1>5 DEF Order
    <3>1. L \in Nat \ {0}
      BY <1>2, <1>3, ScanLength
    <3> QED
      BY <1>8, <3>1
  <2>2. 0 % Ring = 0
    BY <1>8
  <2>3. \A m \in written' .. acquired' - 1 : buf'[m % Ring] = SampleAt(Call'.mask, m)
    BY <1>1
  <2>4. KeptInv'
    BY <1>1, <1>4, <1>5, <1>9, <2>1, <2>2, <2>3 DEF KeptInv
  <2>5. PutInv'
    BY <1>1, <1>4, <1>10 DEF PutInv
  <2>6. GoalInv'
    BY <1>1, <1>2, <1>4, <1>11 DEF GoalInv
  <2> QED
    BY <1>1, <1>3, <1>4, <1>6, <1>7, <1>11, <2>4, <2>5, <2>6 DEF OutputInv
<1>12. CASE Call.fn = "adc_sam"
  <2>1. Taken' <= Call'.n * 16
    BY <1>2, <1>4, <1>5
  <2>2. SamInv'
    BY <1>1, <1>4, <1>5, <1>10, <2>1 DEF SamInv
  <2>3. ~Acquiring'
    BY <1>1, <1>12 DEF Acquiring
  <2> QED
    BY <1>1, <1>3, <1>4, <1>6, <1>7, <1>12, <2>2, <2>3 DEF OutputInv
<1> QED
  BY <1>2, <1>11, <1>12

\* The ADC samples.
LEMMA SamplePuts ==
    ASSUME IInv, CommandInv, OutputInv, Sample PROVE OutputInv'
<1>1. /\ UNCHANGED <<opts, todo, pc, config, mode, status, plan, goal, written, acquired, cyc,
                     p, q, buf, out>>
      /\ mode = "sampling" /\ (over => over')
  BY DEF Sample, acq
<1>2. FifoInv' /\ Taken' = Taken /\ Len(fifo) <= Len(fifo')
  BY FifoGrows DEF OutputInv
<1>3. Call' = Call /\ Asked' = Asked /\ Pending(2)' = Pending(2) /\ Acquiring' = Acquiring
  BY <1>1 DEF Call, Asked, Pending, Acquiring
<1>4. pc' # "go"
  BY <1>1 DEF OutputInv
<1>5. ASSUME Acquiring PROVE KeptInv' /\ PutInv' /\ GoalInv'
  <2>1. FifoInv /\ KeptInv /\ PutInv /\ GoalInv
    BY <1>5 DEF OutputInv
  <2>2. KeptInv' /\ PutInv'
    BY <1>1, <1>2, <1>3, <2>1 DEF KeptInv, PutInv
  <2>3. Len(fifo) \in Nat /\ Len(fifo') \in Nat
    BY <1>2, <2>1 DEF FifoInv
  <2>4. pc = "step" => status \in Nat /\ status <= Len(fifo')
    BY <1>2, <2>1, <2>3 DEF GoalInv
  <2>5. GoalInv'
    BY <1>1, <1>3, <2>1, <2>4 DEF GoalInv
  <2> QED
    BY <2>2, <2>5
<1>6. pc = "sam" => SamInv'
  BY <1>1, <1>2, <1>3 DEF OutputInv, SamInv
<1>7. PrintedInv => PrintedInv'
  BY <1>1 DEF PrintedInv
<1> QED
  BY <1>1, <1>2, <1>3, <1>4, <1>5, <1>6, <1>7 DEF OutputInv

\* ts8820_adc_sam collects what is ready.
LEMMA ReadyIs ==
    ASSUME NEW a \in Int, NEW b \in Int, NEW c \in Int
    PROVE  Min({a, b, c}) \in {a, b, c}
           /\ Min({a, b, c}) <= a /\ Min({a, b, c}) <= b /\ Min({a, b, c}) <= c
<1>1. \E m \in {a, b, c} : \A n \in {a, b, c} : m <= n
  <2>1. CASE a <= b /\ a <= c
    BY <2>1
  <2>2. CASE b <= a /\ b <= c
    BY <2>2
  <2>3. CASE c <= a /\ c <= b
    BY <2>3
  <2> QED
    BY <2>1, <2>2, <2>3
<1> QED
  BY <1>1 DEF Min

LEMMA SamReadPuts ==
    ASSUME IInv, CommandInv, OutputInv, SamRead PROVE OutputInv'
<1> USE SizesAssumption
<1> DEFINE t == Taken
           m == Len(fifo)
           all == Call.n * 16
           r == Ready
<1>1. /\ pc = "sam" /\ UNCHANGED <<opts, todo, pc, config, count>>
      /\ Len(out) < all /\ m > 0
      /\ out' = out \o SubSeq(fifo, 1, r) /\ fifo' = SubSeq(fifo, r + 1, m)
  BY DEF SamRead
<1>2. /\ FifoInv /\ SamInv /\ config = Channels(Call.mask) /\ Call.fn = "adc_sam"
  BY <1>1 DEF OutputInv
<1>3. Call.n \in Nat /\ m \in Nat /\ t \in Nat
  BY <1>1, <1>2, CallTypes DEF FifoInv
<1>4. all \in Nat
  BY <1>3
<1>5. t <= all /\ out = [k \in 1 .. t |-> SampleAt(config, k - 1)]
  BY <1>2 DEF SamInv
<1>6. Len(out) = t
  <2> HIDE DEF t
  <2> QED
    BY <1>3, <1>5
<1>7. r \in Nat /\ r <= m /\ t + r <= all
  <2> DEFINE c == all - Len(out)
  <2>1. c \in Int /\ c > 0 /\ c = all - t
    BY <1>1, <1>3, <1>4, <1>6
  <2>2. r = Min({m, Chunk, c})
    BY DEF Ready
  <2> HIDE DEF c, r, m, t, all
  <2>3. m \in Int /\ Chunk \in Int /\ c \in Int
    BY <1>3, <2>1
  <2>4. r \in {m, Chunk, c} /\ r <= m /\ r <= c
    BY <2>2, <2>3, ReadyIs, Zenon
  <2> QED
    BY <1>1, <1>3, <1>4, <2>1, <2>4
<1>8. FifoInv' /\ Taken' = t + r
  <2> HIDE DEF r
  <2> QED
    BY <1>1, <1>2, <1>7, FifoDrop
<1>9. Call' = Call
  BY <1>1 DEF Call
<1> DEFINE f == [k \in 1 .. r |-> fifo[k]]
<1>10. SubSeq(fifo, 1, r) = f
  <2> HIDE DEF r
  <2>1. SubSeq(fifo, 0 + 1, 0 + r) = [k \in 1 .. r |-> fifo[0 + k]]
    BY <1>7, Parted
  <2>2. 0 + 1 = 1 /\ 0 + r = r /\ \A k \in 1 .. r : 0 + k = k
    BY <1>7
  <2> QED
    BY <2>1, <2>2
<1>11. \A k \in 1 .. r : f[k] = SampleAt(config, t + k - 1)
  <2> TAKE k \in 1 .. r
  <2>1. k \in 1 .. m
    BY <1>3, <1>7
  <2> QED
    BY <1>2, <2>1 DEF FifoInv
<1>12. f = [k \in 1 .. r |-> f[k]] /\ out = [k \in 1 .. t |-> out[k]]
       /\ \A k \in 1 .. t : out[k] = SampleAt(config, k - 1)
  BY <1>5
<1> HIDE DEF f, r, t, m, all
<1>13. out' = [k \in 1 .. t + r |-> IF k <= t THEN out[k] ELSE f[k - t]]
  <2>1. out' = out \o f
    BY <1>1, <1>10
  <2>2. t \in Nat /\ r \in Nat
    BY <1>3, <1>7
  <2>3. out \o f = [k \in 1 .. t + r |-> IF k <= t THEN out[k] ELSE f[k - t]]
    BY <1>12, <2>2, Joined
  <2> QED
    BY <2>1, <2>3
<1>14. ASSUME NEW k \in 1 .. t + r
       PROVE  (IF k <= t THEN out[k] ELSE f[k - t]) = SampleAt(config, k - 1)
  <2>1. CASE k <= t
    <3>1. k \in 1 .. t
      BY <1>3, <2>1
    <3> QED
      BY <1>12, <2>1, <3>1
  <2>2. CASE ~(k <= t)
    <3>1. k - t \in 1 .. r /\ t + (k - t) - 1 = k - 1
      BY <1>3, <1>7, <2>2
    <3> QED
      BY <1>11, <2>2, <3>1
  <2> QED
    BY <2>1, <2>2
<1>15. out' = [k \in 1 .. t + r |-> SampleAt(config, k - 1)]
  BY <1>13, <1>14
<1>16. SamInv'
  BY <1>1, <1>7, <1>8, <1>9, <1>15 DEF SamInv, all
<1>17. ~(opts'.sample > 0 /\ opts'.acquire = 0 /\ ~Pending(2)')
  BY <1>1, NothingPrinted
<1>18. ~Acquiring'
  BY <1>1 DEF Acquiring
<1> QED
  BY <1>1, <1>2, <1>8, <1>9, <1>16, <1>17, <1>18 DEF OutputInv

-----------------------------------------------------------------------------
(* What ts8820_adc_sam prints. *)

\* With all channels sampled the order of the software is that of the numbers.
LEMMA AllSampled ==
    /\ Channels(0 .. 15) = 0 .. 15
    /\ \A i \in Nat : SampleAt(0 .. 15, i) = <<i \div 16, i % 16>>
<1> DEFINE N == 0 .. 15
           s == Sorted(N)
<1>1. Channels(N) = N
  <2>1. N \in SUBSET (0 .. 15)
    OBVIOUS
  <2>2. N \subseteq Channels(N) /\ Channels(N) \subseteq N
    BY <2>1, Sampled
  <2> QED
    BY <2>2
<1>2. Sw(N) = N
  <2>1. \A c \in N : hw2sw[c + 1] \in N
    <3> TAKE c \in N
    <3>1. c + 1 \in 1 .. 16
      OBVIOUS
    <3>2. \A k \in 1 .. 16 : hw2sw[k] \in 0 .. 15
      BY Table
    <3> QED
      BY <3>1, <3>2
  <2>2. \A d \in N : \E c \in N : hw2sw[c + 1] = d
    <3>1. /\ hw2sw[0 + 1] = 0 /\ hw2sw[8 + 1] = 1 /\ hw2sw[4 + 1] = 2 /\ hw2sw[12 + 1] = 3
          /\ hw2sw[1 + 1] = 4 /\ hw2sw[9 + 1] = 5 /\ hw2sw[5 + 1] = 6 /\ hw2sw[13 + 1] = 7
          /\ hw2sw[2 + 1] = 8 /\ hw2sw[10 + 1] = 9 /\ hw2sw[6 + 1] = 10
          /\ hw2sw[14 + 1] = 11 /\ hw2sw[3 + 1] = 12 /\ hw2sw[11 + 1] = 13
          /\ hw2sw[7 + 1] = 14 /\ hw2sw[15 + 1] = 15
      BY Table
    <3> TAKE d \in N
    <3>2. \/ d = 0 \/ d = 1 \/ d = 2 \/ d = 3 \/ d = 4 \/ d = 5 \/ d = 6 \/ d = 7
          \/ d = 8 \/ d = 9 \/ d = 10 \/ d = 11 \/ d = 12 \/ d = 13 \/ d = 14 \/ d = 15
      OBVIOUS
    <3>3. /\ 0 \in N /\ 1 \in N /\ 2 \in N /\ 3 \in N /\ 4 \in N /\ 5 \in N /\ 6 \in N
          /\ 7 \in N /\ 8 \in N /\ 9 \in N /\ 10 \in N /\ 11 \in N /\ 12 \in N
          /\ 13 \in N /\ 14 \in N /\ 15 \in N
      OBVIOUS
    <3> HIDE DEF N
    <3> QED
      BY <3>1, <3>2, <3>3, Zenon
  <2> HIDE DEF N
  <2> QED
    BY <2>1, <2>2, Zenon DEF Sw
<1>3. /\ Len(s) = Cardinality(N)
      /\ \A c \in N : s[Before(N, c) + 1] = c
  <2>1. N \in SUBSET (0 .. 15)
    OBVIOUS
  <2> HIDE DEF N, s
  <2> QED
    BY <2>1, SortedIs DEF s
<1>4. Cardinality(N) = 16
  <2>1. 0 \in Int /\ 15 \in Int /\ ~(0 > 15) /\ 15 - 0 + 1 = 16
    OBVIOUS
  <2>2. Cardinality(0 .. 15) = 15 - 0 + 1
    BY <2>1, FS_Interval
  <2> QED
    BY <2>1, <2>2
<1>5. \A c \in N : Before(N, c) = c
  <2> DEFINE T == {n \in Nat : n <= 15 => Before(N, n) = n}
  <2>1. N \subseteq Nat
    OBVIOUS
  <2>2. \A n \in Nat : /\ Before(N, n) \in Nat /\ Before(N, 0) = 0
                       /\ Before(N, n + 1) = Before(N, n) + (IF n \in N THEN 1 ELSE 0)
    <3> HIDE DEF N
    <3> QED
      BY <2>1, BeforeStep
  <2>3. 0 \in T
    BY <2>2
  <2>4. ASSUME NEW n \in Nat, n \in T PROVE n + 1 \in T
    <3> SUFFICES ASSUME n + 1 <= 15 PROVE Before(N, n + 1) = n + 1
      OBVIOUS
    <3>1. Before(N, n) = n /\ n \in N
      BY <2>4
    <3> QED
      BY <2>2, <3>1
  <2>5. \A n \in Nat : n \in T
    <3> HIDE DEF T
    <3> QED
      BY <2>3, <2>4, Induction
  <2> QED
    BY <2>5
<1>6. ASSUME NEW i \in Nat PROVE SampleAt(N, i) = <<i \div 16, i % 16>>
  <2>1. InOrder(N) = s
    BY <1>2 DEF InOrder
  <2>2. SampleAt(N, i) = <<i \div 16, s[(i % 16) + 1]>>
    <3> HIDE DEF N, s
    <3> QED
      BY <1>3, <1>4, <2>1 DEF SampleAt
  <2>3. i % 16 \in N
    OBVIOUS
  <2>4. s[(i % 16) + 1] = i % 16
    <3> DEFINE c == i % 16
    <3>1. c \in N
      BY <2>3
    <3> HIDE DEF c, N, s
    <3>2. s[c + 1] = c
      BY <1>3, <1>5, <3>1
    <3> QED
      BY <3>2 DEF c
  <2> QED
    BY <2>2, <2>4
<1> QED
  BY <1>1, <1>6

\* A row has the samples of its scan in the order of the schematic.
LEMMA SamEndPuts ==
    ASSUME IInv, CommandInv, OutputInv, SamEnd PROVE OutputInv'
<1> DEFINE n == Call.n
           l == Len(out)
           At(k) == 16 * ((k - 1) \div 16) + hw2sw[((k - 1) % 16) + 1] + 1
<1>1. /\ pc = "sam" /\ (l >= n * 16 \/ over) /\ Finish
      /\ UNCHANGED <<opts, config, fifo, over, count>> /\ out' = Printed
  BY DEF SamEnd
<1>2. FifoInv /\ SamInv /\ config = Channels(Call.mask) /\ Call.fn = "adc_sam"
  BY <1>1 DEF OutputInv
<1>3. n \in Nat /\ Call.mask = 0 .. 15
  BY <1>1, <1>2, CallTypes
<1>4. Taken \in Nat /\ out = [k \in 1 .. Taken |-> SampleAt(0 .. 15, k - 1)] /\ l = Taken
  <2>1. Taken \in Nat
    BY <1>2 DEF FifoInv
  <2>2. out = [k \in 1 .. Taken |-> SampleAt(0 .. 15, k - 1)]
    BY <1>2, <1>3, AllSampled DEF SamInv
  <2> QED
    BY <2>1, <2>2
<1>5. out' = [k \in 1 .. n * 16 |-> IF At(k) <= l THEN out[At(k)] ELSE <<0, -1>>]
  BY <1>1 DEF Printed
<1> HIDE DEF n, l
<1>6. ASSUME NEW k \in 1 .. n * 16
      PROVE  \/ out'[k] = <<(k - 1) \div 16, hw2sw[((k - 1) % 16) + 1]>>
             \/ over' /\ out'[k] = <<0, -1>>
  <2> DEFINE d == (k - 1) \div 16
             r == hw2sw[((k - 1) % 16) + 1]
             i == 16 * d + r + 1
  <2>1. k - 1 \in Nat /\ n * 16 \in Nat /\ k - 1 < n * 16
    BY <1>3
  <2>2. r \in 0 .. 15
    <3> DEFINE c == (k - 1) % 16
    <3>1. c \in 0 .. 15
      BY <2>1
    <3> HIDE DEF c
    <3>2. c + 1 \in 1 .. 16
      BY <3>1
    <3>3. \A j \in 1 .. 16 : hw2sw[j] \in 0 .. 15
      BY Table
    <3>4. hw2sw[c + 1] \in 0 .. 15
      BY <3>2, <3>3
    <3> QED
      BY <3>4 DEF c
  <2>3. d \in Nat /\ 16 * d <= k - 1
    BY <2>1
  <2>4. out'[k] = IF i <= l THEN out[i] ELSE <<0, -1>>
    BY <1>5
  <2> HIDE DEF d, r
  <2>5. i \in Nat /\ i - 1 = 16 * d + r /\ 1 <= i
    BY <2>2, <2>3
  <2>6. CASE i <= l
    <3>1. i \in 1 .. Taken
      BY <1>4, <2>5, <2>6
    <3>2. out[i] = SampleAt(0 .. 15, i - 1)
      BY <1>4, <3>1
    <3>3. (16 * d + r) \div 16 = d /\ (16 * d + r) % 16 = r
      BY <2>2, <2>3, OneWay
    <3>4. SampleAt(0 .. 15, 16 * d + r) = <<d, r>>
      <4>1. 16 * d + r \in Nat
        BY <2>2, <2>3
      <4> QED
        BY <3>3, <4>1, AllSampled
    <3>5. out[i] = <<d, r>>
      BY <2>5, <3>2, <3>4
    <3> QED
      BY <2>4, <2>6, <3>5 DEF d, r
  <2>7. CASE ~(i <= l)
    <3>1. out'[k] = <<0, -1>>
      BY <2>4, <2>7
    <3>2. d + 1 <= n
      BY <1>3, <2>1, <2>3
    <3>3. i <= n * 16
      BY <1>3, <2>2, <2>3, <3>2
    <3>4. over'
      BY <1>1, <1>3, <1>4, <2>5, <2>7, <3>3 DEF n, l
    <3> QED
      BY <3>1, <3>4
  <2> QED
    BY <2>6, <2>7
<1>7. PrintedInv'
  <2>1. DOMAIN out' = 1 .. n * 16
    BY <1>5
  <2> QED
    BY <1>6, <2>1 DEF PrintedInv
<1>8. Taken' = Taken
  BY <1>1 DEF Taken
<1>9. FifoInv'
  BY <1>1, <1>2, <1>8 DEF FifoInv
<1>10. pc' \in {"call", "done"}
  BY <1>1 DEF Finish
<1> QED
  BY <1>7, <1>9, <1>10 DEF OutputInv, Acquiring

-----------------------------------------------------------------------------
(* The invariant. *)

\* A call that does not sample leaves what was printed.
LEMMA CallPuts ==
    ASSUME IInv, CommandInv, OutputInv, pc \notin {"idle", "done"}, Call.fn # "adc_sam",
           UNCHANGED <<adc, opts, out>>,
           Finish \/ (UNCHANGED todo /\ pc' \in {"peek", "poke"})
    PROVE  OutputInv'
<1>1. UNCHANGED <<config, fifo, over, count, opts, out>>
  BY DEF adc
<1>2. Taken' = Taken
  BY <1>1 DEF Taken
<1>3. FifoInv'
  BY <1>1, <1>2 DEF OutputInv, FifoInv
<1>4. pc' \in {"call", "done", "peek", "poke"}
  BY DEF Finish
<1>5. Pending(2)' => Pending(2)
  <2>1. CASE Finish
    <3>1. \A k : Pending(k)' <=> Pending(k) /\ k # Stage(opts, Call)
      BY <1>1, <2>1, AfterCall
    <3> QED
      BY <3>1
  <2>2. CASE UNCHANGED todo
    BY <1>1, <2>2 DEF Pending
  <2> QED
    BY <2>1, <2>2
<1>6. Pending(2) => Pending(2)'
  <2>1. CASE Finish
    <3>1. \A k : Pending(k)' <=> Pending(k) /\ k # Stage(opts, Call)
      BY <1>1, <2>1, AfterCall
    <3>2. opts \in Commands /\ Asks(opts, Call)
      BY FirstCall
    <3>3. Stage(opts, Call) # 2
      BY <3>2, CallAsked
    <3> QED
      BY <3>1, <3>3
  <2>2. CASE UNCHANGED todo
    BY <1>1, <2>2 DEF Pending
  <2> QED
    BY <2>1, <2>2
<1>7. PrintedInv => PrintedInv'
  BY <1>1 DEF PrintedInv
<1> QED
  BY <1>1, <1>3, <1>4, <1>5, <1>6, <1>7 DEF OutputInv, Acquiring

LEMMA InitOutput == Init => OutputInv
<1> SUFFICES ASSUME Init PROVE OutputInv
  OBVIOUS
<1>1. config = {} /\ count = 0 /\ fifo = <<>> /\ pc = "idle"
  BY DEF Init
<1>2. Len(fifo) = 0
  BY <1>1, EmptySeq
<1>3. Taken = 0
  <2>1. Taken = count - Len(fifo)
    BY DEF Taken
  <2>2. Taken = 0 - 0
    BY <1>1, <1>2, <2>1
  <2> QED
    BY <2>2
<1>4. fifo = [i \in 1 .. Len(fifo) |-> SampleAt(config, Taken + i - 1)]
  <2>1. 1 .. Len(fifo) = {}
    BY <1>2
  <2> QED
    BY <1>1, <2>1
<1>5. FifoInv
  BY <1>1, <1>2, <1>3, <1>4 DEF FifoInv
<1> QED
  BY <1>1, <1>5 DEF OutputInv, Acquiring

LEMMA NextOutput == IInv /\ CommandInv /\ OutputInv /\ [Next]_vars => OutputInv'
<1> SUFFICES ASSUME IInv, CommandInv, OutputInv, [Next]_vars PROVE OutputInv'
  OBVIOUS
<1>1. CASE Exit \/ Die
  <2>1. pc' = "idle" /\ UNCHANGED <<config, fifo, count>>
    BY <1>1 DEF Exit, Die, adc
  <2>2. Taken' = Taken
    BY <2>1 DEF Taken
  <2>3. FifoInv'
    BY <2>1, <2>2 DEF OutputInv, FifoInv
  <2> QED
    BY <2>1, <2>3 DEF OutputInv, Acquiring
<1>2. CASE Start
  <2>1. /\ pc' = "call" /\ UNCHANGED <<config, fifo, count>>
        /\ opts' \in Commands /\ todo' = main(opts')
    BY <1>2 DEF Start, adc
  <2>2. Taken' = Taken
    BY <2>1 DEF Taken
  <2>3. FifoInv'
    BY <2>1, <2>2 DEF OutputInv, FifoInv
  <2>4. \A o \in Commands : o.sample > 0 => 2 \in Stages(o, main(o))
    BY MainOrderly
  <2>5. opts'.sample > 0 => Pending(2)'
    BY <2>1, <2>4 DEF Pending
  <2> QED
    BY <2>1, <2>3, <2>5 DEF OutputInv, Acquiring
<1>3. CASE Peek \/ Poke \/ Write \/ PwmSet \/ DacSet
  <2>1. /\ pc \in {"call", "peek", "poke"} /\ UNCHANGED <<adc, opts, out>>
        /\ Finish \/ (UNCHANGED todo /\ pc' \in {"peek", "poke"})
    BY <1>3 DEF Peek, Poke, Write, PwmSet, DacSet, Is, acq
  <2>2. Call.fn # "adc_sam"
    BY <1>3 DEF Peek, Poke, Write, PwmSet, DacSet, Is, CommandInv, PlaceInv
  <2> QED
    BY <2>1, <2>2, CallPuts
<1>4. CASE AcqEnd
  <2>1. pc = "loop" /\ UNCHANGED <<adc, opts, out>> /\ Finish
    BY <1>4 DEF AcqEnd, acq
  <2>2. Call.fn = "adc_acq"
    BY <2>1 DEF OutputInv, Acquiring
  <2> QED
    BY <2>1, <2>2, CallPuts
<1>5. CASE AdcReset
  BY <1>5, AdcResetPuts
<1>6. CASE AdcStart
  BY <1>6, AdcStartPuts
<1>7. CASE AcqStatus
  BY <1>7, AcqStatusPuts
<1>8. CASE AcqRead
  BY <1>8, AcqReadPuts
<1>9. CASE AcqBlock \/ AcqRest \/ AcqSpin
  BY <1>9, AcqPuts
<1>10. CASE SamRead
  BY <1>10, SamReadPuts
<1>11. CASE SamEnd
  BY <1>11, SamEndPuts
<1>12. CASE Sample
  BY <1>12, SamplePuts
<1>13. CASE UNCHANGED vars
  <2>1. /\ UNCHANGED <<config, mode, fifo, over, count, opts, todo, pc, status, plan, goal,
                       written, acquired, cyc, p, q, buf, out>>
    BY <1>13 DEF vars, adc, acq
  <2>2. /\ Call' = Call /\ Asked' = Asked /\ Pending(2)' = Pending(2)
        /\ Acquiring' = Acquiring /\ Taken' = Taken
    BY <2>1 DEF Call, Asked, Pending, Acquiring, Taken
  <2>3. FifoInv' /\ (SamInv => SamInv') /\ (PrintedInv => PrintedInv')
    BY <2>1, <2>2 DEF OutputInv, FifoInv, SamInv, PrintedInv
  <2>4. (KeptInv => KeptInv') /\ (PutInv => PutInv') /\ (GoalInv => GoalInv')
    BY <2>1, <2>2 DEF KeptInv, PutInv, GoalInv
  <2> QED
    BY <2>1, <2>2, <2>3, <2>4 DEF OutputInv
<1> QED
  BY <1>1, <1>2, <1>3, <1>4, <1>5, <1>6, <1>7, <1>8, <1>9, <1>10, <1>11, <1>12, <1>13
     DEF Next, Go

\* The invariant gives the property.
LEMMA OutputInvAsAsked == IInv /\ CommandInv /\ OutputInv => OutputAsAsked
<1> SUFFICES ASSUME IInv, CommandInv, OutputInv PROVE OutputAsAsked
  OBVIOUS
<1>1. ASSUME Acquiring
      PROVE  /\ Len(out) = written
             /\ \A k \in 1 .. Len(out) : out[k] = SampleAt(Call.mask, k - 1)
             /\ written < Asked + Chunk
             /\ written >= goal => written >= Asked \/ over
  <2>1. /\ PutInv /\ GoalInv /\ written \in Nat /\ acquired \in Nat /\ written <= acquired
        /\ Asked \in Nat /\ Chunk \in Nat
    BY <1>1, AcqTypes, SizesAssumption
  <2>2. out = [k \in 1 .. written |-> SampleAt(Call.mask, k - 1)]
    BY <2>1 DEF PutInv
  <2>3. Len(out) = written
    BY <2>1, <2>2
  <2>4. \A k \in 1 .. Len(out) : out[k] = SampleAt(Call.mask, k - 1)
    BY <2>2, <2>3
  <2> QED
    BY <2>1, <2>3, <2>4 DEF GoalInv
<1>2. ASSUME pc = "done", opts.sample > 0, opts.acquire = 0 PROVE PrintedInv
  <2>1. todo = <<>>
    BY <1>2 DEF CommandInv, PlaceInv
  <2>2. ~Pending(2)
    <3>1. DOMAIN <<>> = {}
      OBVIOUS
    <3> QED
      BY <2>1, <3>1 DEF Pending, Stages
  <2> QED
    BY <1>2, <2>2 DEF OutputInv
<1> QED
  BY <1>1, <1>2 DEF OutputAsAsked, PrintedInv

-----------------------------------------------------------------------------
(* Theorems. *)

\* What was read, what is kept of it and what was put out follow from the samples the
\* board took, in every reachable state.
THEOREM OutputInvariant == Spec => [](IInv /\ CommandInv /\ OutputInv)
<1>1. Init => OutputInv
  BY InitOutput
<1>2. (IInv /\ CommandInv) /\ OutputInv /\ [Next]_vars => OutputInv'
  BY NextOutput
<1> QED
  BY <1>1, <1>2, CommandInvariant, PTL DEF Spec

\* ts8820_adc_acq puts out the samples of the channels of its mask and no others, from
\* the first scan on, in the order of the software, none twice and none left out, for
\* every mask, every chunk, block and ring; and the rows of ts8820_adc_sam have each
\* channel in the place of the schematic.
THEOREM OutputIsAsAsked == Spec => []OutputAsAsked
  BY OutputInvariant, OutputInvAsAsked, PTL
=============================================================================

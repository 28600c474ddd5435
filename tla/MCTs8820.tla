------------------------------ MODULE MCTs8820 ------------------------------
(***************************************************************************)
(* Ts8820 for TLC: a chunk of 3 samples, blocks of 4, a ring of 12.        *)
(***************************************************************************)
EXTENDS Ts8820

None == [DO |-> FALSE, lval |-> {}, sample |-> 0, acquire |-> 0, mask |-> {}, dac |-> 0,
         mvolts |-> 0, pwm |-> 0, duty |-> -1, hb |-> 0, hbset |-> "brake", hbduty |-> 0,
         write |-> 0, bits |-> {}]
\* Bits of the two registers that are not the command's may be set by others.
Outputs ==
    {[None EXCEPT !.DO = TRUE, !.lval = l] : l \in {{}, {0, 5, 6}}}
      \cup {[None EXCEPT !.dac = 4, !.mvolts = 10000]}
      \cup {[None EXCEPT !.pwm = n, !.duty = d] : n \in {1, 6}, d \in {-1, 1000}}
      \cup {[None EXCEPT !.hb = n, !.hbset = s, !.hbduty = 500] :
                n \in {1, 2}, s \in {"disable", "brake", "fwd", "rev"}}
      \cup {[None EXCEPT !.DO = TRUE, !.lval = {1}, !.dac = 1, !.mvolts = 20, !.pwm = 2,
                         !.duty = 1, !.hb = 1, !.hbset = "rev", !.hbduty = 1000]}
      \cup {[None EXCEPT !.write = 8, !.bits = {0, 11}],
            [None EXCEPT !.hb = 2, !.hbset = "fwd", !.hbduty = 250, !.write = 2,
                         !.bits = {6}]}
\* One chip or both, channels that mirror each other and that do not; the ring
\* is gone round, and the last samples are less than a block or none.
Acquisitions ==
    {[None EXCEPT !.acquire = a[1], !.mask = a[2]] :
        a \in {<<2, {}>>, <<3, {0}>>, <<7, {0, 1, 2}>>, <<6, {0, 9, 10}>>, <<8, {8, 11}>>,
               <<1, {0, 1, 8, 9}>>}}
      \cup {[None EXCEPT !.sample = 1],
            [None EXCEPT !.sample = 1, !.acquire = 1, !.mask = {7, 12}, !.dac = 2]}

MCCommands == Outputs \cup Acquisitions
=============================================================================

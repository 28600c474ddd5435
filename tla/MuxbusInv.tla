----------------------------- MODULE MuxbusInv ------------------------------
(***************************************************************************)
(* The inductive invariants of Muxbus.  StepInv: which requests are in the *)
(* RX FIFO, and how many calls may be made before theirs is answered.      *)
(* AccessInv: how far the call in progress has come, as long as no process *)
(* has died in one.                                                        *)
(***************************************************************************)
EXTENDS Muxbus

\* Where a call is in progress, and where it waits for its interrupt.
InCall == {"recalc", "select", "get_head", "get_tail", "return"}
Waiting == cpc \in {"recalc", "select"}

\* The ZPU is in the middle of a request, and has all of it.
Inside == state \in Gets \ {"GET_CMD"}
Busy == state \notin Gets

CountsInv ==
    /\ calls \in Nat /\ served \in Nat /\ kills \in Nat /\ stalls \in Nat
    /\ state \in States
    /\ cpc \in {"down", "init_head", "init_tail", "init_space", "init_drain", "idle"}
                 \cup InCall
    /\ latched \in BOOLEAN /\ irq \in BOOLEAN
-----------------------------------------------------------------------------
(* The requests, after any number of deaths.                               *)

RequestBytes == [req : Ops, part : 1 .. 5, nr : Nat]

\* The byte c comes after b in a sequence of whole requests.
Follows(b, c) ==
    \/ c.req = b.req /\ c.part = b.part + 1 /\ c.nr = b.nr
    \/ b.part = Size(b.req) /\ c.part = 1 /\ c.nr = b.nr + 1

\* The bytes of q are those of the requests up to the n-th, all of them but for
\* the beginning of the first.  A request has five bytes at most, which bounds
\* what comes behind each byte.
Requests(q, n) ==
    /\ q \in Seq(RequestBytes)
    /\ \A i \in 1 .. Len(q) :
        /\ q[i].part <= Size(q[i].req)
        /\ 5 * (q[i].nr - 1) + q[i].part + (Len(q) - i) <= 5 * n
    /\ \A i \in 1 .. Len(q) - 1 : Follows(q[i], q[i + 1])
    /\ q # <<>> => q[Len(q)].nr = n /\ q[Len(q)].part = Size(q[Len(q)].req)

\* The part that the state expects.
Expected ==
    CASE state = "GET_CMD"  -> 1
      [] state = "GET_ADRH" -> 2
      [] state = "GET_ADRL" -> 3
      [] state = "GET_DATH" -> 4
      [] state = "GET_DATL" -> 5
      [] OTHER -> 1

\* The request whose bytes come next.
NextNr == served + (IF Busy THEN 2 ELSE 1)

\* The RX FIFO holds whole requests, but for the beginning of the one that the
\* ZPU is inside of.
Aligned ==
    /\ Requests(rxq, calls)
    /\ rxq # <<>> =>
        /\ rxq[1].nr = NextNr /\ rxq[1].part = Expected
        /\ Inside => rxq[1].req = req
    /\ rxq = <<>> => NextNr = calls + 1 /\ ~Inside

\* The request the ZPU is at: no state is reached by one that has no such part.
Taken ==
    state # "GET_CMD" =>
        /\ req \in Ops
        /\ state \in {"GET_DATH", "GET_DATL", "RET_WRITE"} => req.rwn = "WRITE"
        /\ state \in Puts \cup {"RET_READ"} => req.rwn = "READ"
        /\ state = "RET_WRITE" => dat = req.dat

\* The call in progress is the last request.
Current ==
    /\ cpc \in InCall <=> op # NoOp
    /\ op # NoOp =>
        /\ op \in Ops
        /\ \A i \in 1 .. Len(rxq) : rxq[i].nr = calls => rxq[i].req = op
        /\ state # "GET_CMD" /\ served + 1 = calls => req = op

\* Every request but one for each death and each stall is waited for.
Wakeups ==
    (calls - served) + (IF latched THEN 1 ELSE 0)
        <= kills + stalls + (IF Waiting THEN 1 ELSE 0)

\* The space a put goes by is no more than there is, and at least what the
\* requests leave that were there when it was measured.
SpaceInv ==
    /\ spc \in Nat
    /\ IF cpc \in {"down", "init_head", "init_tail"} THEN spc = 0 ELSE spc <= RxCap - Len(rxq)
    /\ cpc \in {"init_drain", "idle", "select", "get_head", "get_tail", "return"} =>
        spc >= RxCap - 5 * (kills + stalls + 1)

\* There was room for every request so far.
Roomy == RxCap >= 5 * (kills + stalls + 2)

StepInv ==
    CountsInv /\ (Roomy => Aligned /\ Taken /\ Current /\ Wakeups /\ SpaceInv)
-----------------------------------------------------------------------------
(* The call in progress, without deaths.                                   *)

AnswerBytes == [word : Nat, half : {"high", "low"}]
High(w) == [word |-> w, half |-> "high"]
Low(w) == [word |-> w, half |-> "low"]

\* The bytes of q are the first bytes of the words of a.
Answered(q, a) ==
    /\ q \in Seq(AnswerBytes)
    /\ \A k \in 1 .. Len(a) :
        /\ 2 * k - 1 <= Len(q) => q[2 * k - 1] = High(a[k])
        /\ 2 * k <= Len(q) => q[2 * k] = Low(a[k])

\* Bytes of the answer that were put.
Filled ==
    IF op.rwn = "WRITE" THEN 0
    ELSE CASE state = "putc_high" -> 2 * Len(ans) - 2
           [] state = "putc_low"  -> 2 * Len(ans) - 1
           [] OTHER -> 2 * Len(ans)

ValuesInv ==
    /\ regs \in [Registers -> Values]
    /\ samples \in Nat
    /\ noflow \in BOOLEAN
    /\ req \in Ops \cup {NoOp}
    /\ readcnt \in 0 .. MaxCount
    /\ dat \in Nat
    /\ stalled \in BOOLEAN
    /\ ans \in Seq(Nat)

\* The request in the ZPU: the words it has yet to read, and the last it has read.
Reading ==
    served < calls =>
        /\ state \in Gets \cup {"RET_WRITE"} => ans = <<>>
        /\ Inside => readcnt = req.cnt
        /\ state \in Puts \cup {"RET_READ"} => readcnt = op.cnt - Len(ans)
        /\ state = "RET_READ" => Len(ans) < op.cnt
        /\ state \in Puts => ans # <<>> /\ dat = ans[Len(ans)]
        /\ state = "raise" => Len(ans) = op.cnt

\* The answer is in the TX FIFO until zpu_fifo_get has taken it, whole.
Answering ==
    /\ cpc \in InCall /\ served = calls => Len(ans) = op.cnt
    /\ cpc \in InCall \ {"return"} => Answered(txq, ans) /\ Len(txq) = Filled
    /\ cpc \notin InCall \ {"return"} => txq = <<>>
    /\ cpc = "return" => Answered(got, ans) /\ Len(got) = Filled
    /\ cpc # "return" => got = <<>>
    /\ snap = IF cpc = "get_tail" THEN Len(txq) ELSE 0

AccessInv ==
    kills = 0 => stalls = 0 /\ ValuesInv /\ Reading /\ Answering
=============================================================================

----------------------------- MODULE MuxbusProofs ---------------------------
(***************************************************************************)
(* The link of zpu_muxbus, for every size of the FIFOs and any number of   *)
(* calls.  It stays in step with the requests and its answers are whole,   *)
(* at whatever step a process may die or the ZPU may find the TX FIFO      *)
(* full.  The calls of tszpufifo.c are atomic accesses as long as no       *)
(* process has died in one: types, and the refinement of RegisterAccess,   *)
(* for every set of registers and values that Muxbus assumes.              *)
(***************************************************************************)
EXTENDS MuxbusInv, SequenceTheorems, TLAPS

-----------------------------------------------------------------------------
(* Operations and their requests.                                          *)

LEMMA OpFacts ==
    ASSUME NEW o \in Ops
    PROVE  /\ o.rwn \in {"READ", "WRITE"} /\ o # NoOp
           /\ Size(o) \in {3, 5} /\ (o.rwn = "READ" <=> Size(o) = 3)
           /\ o.cnt \in 1 .. MaxCount /\ o.cnt \in Nat
<1>1. o.rwn \in {"READ", "WRITE"} /\ o.cnt \in 1 .. MaxCount
  BY AnswersFit DEF Ops, Atomic!Ops, Atomic!Pokes, Atomic!Peeks, Atomic!Streams
<1>2. NoOp.rwn = "none"
  BY DEF NoOp, Atomic!NoOp
<1> QED
  BY <1>1, <1>2 DEF Size

LEMMA RequestFacts ==
    ASSUME NEW o \in Ops, calls \in Nat
    PROVE  /\ Request(o) \in Seq(RequestBytes) /\ Len(Request(o)) = Size(o)
           /\ \A i \in 1 .. Size(o) :
                  Request(o)[i] = [req |-> o, part |-> i, nr |-> calls + 1]
<1>1. Size(o) \in Nat /\ Size(o) <= 5
  BY OpFacts
<1>2. \A i \in 1 .. Size(o) : [req |-> o, part |-> i, nr |-> calls + 1] \in RequestBytes
  BY <1>1 DEF RequestBytes
<1>3. Request(o) \in [1 .. Size(o) -> RequestBytes]
  BY <1>2 DEF Request
<1> QED
  BY <1>1, <1>3 DEF Request

-----------------------------------------------------------------------------
(* Sequences of whole requests.                                            *)

\* The length is bounded by the requests from the first byte on.
LEMMA LenOfRequests ==
    ASSUME NEW q, NEW n \in Nat, Requests(q, n)
    PROVE  /\ Len(q) \in Nat
           /\ q # <<>> => /\ Len(q) >= 1 /\ q[1] \in RequestBytes
                          /\ Len(q) <= 5 * (n - q[1].nr) + 5
<1>1. q \in Seq(RequestBytes)
  BY DEF Requests
<1>2. Len(q) \in Nat /\ (q # <<>> => Len(q) >= 1)
  BY <1>1, EmptySeq
<1>3. ASSUME q # <<>> PROVE q[1] \in RequestBytes /\ Len(q) <= 5 * (n - q[1].nr) + 5
  <2>1. q[1] \in RequestBytes
    BY <1>1, <1>2, <1>3, ElementOfSeq
  <2>2. q[1].nr \in Nat /\ q[1].part \in 1 .. 5
    BY <2>1 DEF RequestBytes
  <2> DEFINE nr == q[1].nr
             part == q[1].part
             len == Len(q)
  <2>3. 5 * (nr - 1) + part + (len - 1) <= 5 * n
    BY <1>2, <1>3 DEF Requests
  <2>4. nr \in Nat /\ part \in 1 .. 5 /\ len \in Nat
    BY <1>2, <2>2
  <2> HIDE DEF nr, part, len
  <2>5. len <= 5 * (n - nr) + 5
    BY <2>3, <2>4
  <2> QED
    BY <2>1, <2>5 DEF nr, len
<1> QED
  BY <1>2, <1>3

\* The first byte is taken.
LEMMA TailOfRequests ==
    ASSUME NEW q, NEW n \in Nat, Requests(q, n), q # <<>>
    PROVE  /\ Requests(Tail(q), n)
           /\ Head(q) = q[1]
           /\ Tail(q) # <<>> => Follows(q[1], Tail(q)[1])
           /\ Tail(q) = <<>> => q[1].nr = n /\ q[1].part = Size(q[1].req)
           /\ \A i \in 1 .. Len(Tail(q)) : i + 1 \in 1 .. Len(q) /\ Tail(q)[i] = q[i + 1]
<1> DEFINE t == Tail(q)
<1>1. q \in Seq(RequestBytes)
  BY DEF Requests
<1>2. /\ t \in Seq(RequestBytes) /\ Len(t) = Len(q) - 1
      /\ \A i \in 1 .. Len(t) : t[i] = q[i + 1]
      /\ Len(q) \in Nat \ {0} /\ Len(t) \in Nat
  BY <1>1, HeadTailProperties, EmptySeq, LenProperties
<1>3. Head(q) = q[1]
  BY <1>1
<1> HIDE DEF t
<1>4. (t # <<>> => Len(t) >= 1) /\ (t = <<>> => Len(t) = 0)
  BY <1>2, EmptySeq
<1>5. ASSUME NEW i \in 1 .. Len(t)
      PROVE  /\ t[i].part <= Size(t[i].req)
             /\ 5 * (t[i].nr - 1) + t[i].part + (Len(t) - i) <= 5 * n
  <2>1. i + 1 \in 1 .. Len(q) /\ t[i] = q[i + 1]
    BY <1>2
  <2>2. 5 * (q[i + 1].nr - 1) + q[i + 1].part + (Len(q) - (i + 1)) <= 5 * n
        /\ q[i + 1].part <= Size(q[i + 1].req)
    BY <2>1 DEF Requests
  <2>3. Len(q) - (i + 1) = Len(t) - i
    BY <1>2
  <2> QED
    BY <2>1, <2>2, <2>3
<1>6. ASSUME NEW i \in 1 .. Len(t) - 1 PROVE Follows(t[i], t[i + 1])
  <2>1. i + 1 \in 1 .. Len(q) - 1 /\ t[i] = q[i + 1] /\ t[i + 1] = q[(i + 1) + 1]
    BY <1>2
  <2> QED
    BY <2>1 DEF Requests
<1>7. t # <<>> => t[Len(t)] = q[Len(q)]
  BY <1>2, <1>4
<1>8. t # <<>> => Follows(q[1], t[1])
  <2> SUFFICES ASSUME t # <<>> PROVE Follows(q[1], t[1])
    OBVIOUS
  <2>1. 1 \in 1 .. Len(q) - 1 /\ t[1] = q[1 + 1]
    BY <1>2, <1>4
  <2> QED
    BY <2>1 DEF Requests
<1>9. t = <<>> => q[1].nr = n /\ q[1].part = Size(q[1].req)
  <2>1. t = <<>> => Len(q) = 1
    BY <1>2, <1>4
  <2>2. q[Len(q)].nr = n /\ q[Len(q)].part = Size(q[Len(q)].req)
    BY DEF Requests
  <2> QED
    BY <2>1, <2>2
<1>10. Requests(t, n)
  BY <1>2, <1>5, <1>6, <1>7 DEF Requests
<1>11. \A i \in 1 .. Len(t) : i + 1 \in 1 .. Len(q) /\ t[i] = q[i + 1]
  BY <1>2
<1> QED
  BY <1>3, <1>8, <1>9, <1>10, <1>11 DEF t

\* A whole request is put behind them.
LEMMA MoreRequests ==
    ASSUME NEW q, NEW n \in Nat, n = calls, Requests(q, n), NEW o \in Ops
    PROVE  LET s == q \o Request(o)
           IN  /\ Requests(s, n + 1)
               /\ s # <<>> /\ Len(s) = Len(q) + Size(o)
               /\ \A i \in 1 .. Len(s) :
                      IF i <= Len(q) THEN s[i] = q[i] ELSE s[i] = Request(o)[i - Len(q)]
<1> DEFINE r == Request(o)
           s == q \o r
           z == Size(o)
<1>1. q \in Seq(RequestBytes) /\ Len(q) \in Nat /\ n \in Nat
  BY LenProperties DEF Requests
<1>2. /\ r \in Seq(RequestBytes) /\ Len(r) = z /\ z \in {3, 5}
      /\ \A i \in 1 .. z : r[i] = [req |-> o, part |-> i, nr |-> n + 1]
  BY RequestFacts, OpFacts
<1>3. /\ s \in Seq(RequestBytes) /\ Len(s) = Len(q) + z
      /\ \A i \in 1 .. Len(q) + z : s[i] = IF i <= Len(q) THEN q[i] ELSE r[i - Len(q)]
  BY <1>1, <1>2, ConcatProperties
<1> HIDE DEF r, s
<1>4. s # <<>> /\ Len(s) >= 1
  BY <1>1, <1>2, <1>3, EmptySeq
<1>5. ASSUME NEW i \in 1 .. Len(s), i > Len(q)
      PROVE  s[i] = [req |-> o, part |-> i - Len(q), nr |-> n + 1] /\ i - Len(q) \in 1 .. z
  BY <1>1, <1>2, <1>3, <1>5
<1>6. ASSUME NEW i \in 1 .. Len(s)
      PROVE  /\ s[i].part <= Size(s[i].req)
             /\ 5 * (s[i].nr - 1) + s[i].part + (Len(s) - i) <= 5 * (n + 1)
  <2>1. CASE i <= Len(q)
    <3>1. i \in 1 .. Len(q) /\ s[i] = q[i]
      BY <1>1, <1>3, <2>1
    <3>2. q[i] \in RequestBytes
      BY <1>1, <3>1, ElementOfSeq
    <3> DEFINE nr == q[i].nr
               part == q[i].part
               len == Len(q)
    <3>3. nr \in Nat /\ part \in Nat /\ len \in Nat /\ i \in Nat /\ Len(s) = len + z
      BY <1>1, <1>3, <3>1, <3>2 DEF RequestBytes
    <3>4. part <= Size(q[i].req) /\ 5 * (nr - 1) + part + (len - i) <= 5 * n
      BY <3>1 DEF Requests
    <3> HIDE DEF nr, part, len, z
    <3>5. 5 * (nr - 1) + part + ((len + z) - i) <= 5 * (n + 1)
      BY <1>2, <3>3, <3>4
    <3> QED
      BY <3>1, <3>3, <3>4, <3>5 DEF nr, part
  <2>2. CASE i > Len(q)
    <3> DEFINE j == i - Len(q)
    <3>1. s[i] = [req |-> o, part |-> j, nr |-> n + 1] /\ j \in 1 .. z
      BY <1>5, <2>2
    <3>2. j \in Nat /\ j <= Size(o) /\ z \in Nat /\ Len(s) - i = z - j
      BY <1>1, <1>2, <1>3, <3>1
    <3> HIDE DEF j, z
    <3>3. s[i].part = j /\ s[i].nr = n + 1 /\ s[i].req = o
      BY <3>1
    <3>4. 5 * ((n + 1) - 1) + j + (z - j) <= 5 * (n + 1)
      BY <1>2, <3>2
    <3> QED
      BY <3>2, <3>3, <3>4
  <2> QED
    BY <1>1, <2>1, <2>2
<1>7. ASSUME NEW i \in 1 .. Len(s) - 1 PROVE Follows(s[i], s[i + 1])
  <2>1. CASE i < Len(q)
    <3>1. i \in 1 .. Len(q) - 1 /\ s[i] = q[i] /\ s[i + 1] = q[i + 1]
      BY <1>1, <1>2, <1>3, <2>1
    <3> QED
      BY <3>1 DEF Requests
  <2>2. CASE i = Len(q)
    <3>1. q # <<>> /\ s[i] = q[Len(q)] /\ i + 1 \in 1 .. Len(s) /\ i + 1 > Len(q)
      BY <1>1, <1>2, <1>3, <2>2
    <3>2. s[i + 1] = [req |-> o, part |-> (i + 1) - Len(q), nr |-> n + 1]
      BY <1>5, <3>1
    <3>3. q[Len(q)].nr = n /\ q[Len(q)].part = Size(q[Len(q)].req)
      BY <3>1 DEF Requests
    <3>4. (i + 1) - Len(q) = 1
      BY <1>1, <2>2
    <3> QED
      BY <3>1, <3>2, <3>3, <3>4 DEF Follows
  <2>3. CASE i > Len(q)
    <3>1. i \in 1 .. Len(s) /\ i + 1 \in 1 .. Len(s) /\ i + 1 > Len(q)
      BY <1>1, <1>2, <1>3, <2>3
    <3>2. /\ s[i] = [req |-> o, part |-> i - Len(q), nr |-> n + 1]
          /\ s[i + 1] = [req |-> o, part |-> (i + 1) - Len(q), nr |-> n + 1]
      BY <1>5, <2>3, <3>1
    <3>3. (i + 1) - Len(q) = (i - Len(q)) + 1
      BY <1>1
    <3> QED
      BY <3>2, <3>3 DEF Follows
  <2> QED
    BY <1>1, <2>1, <2>2, <2>3
<1>8. s[Len(s)].nr = n + 1 /\ s[Len(s)].part = Size(s[Len(s)].req)
  <2>1. Len(s) \in 1 .. Len(s) /\ Len(s) > Len(q) /\ Len(s) - Len(q) = z
    BY <1>1, <1>2, <1>3
  <2>2. s[Len(s)] = [req |-> o, part |-> Len(s) - Len(q), nr |-> n + 1]
    BY <1>5, <2>1
  <2> QED
    BY <2>1, <2>2
<1>9. Requests(s, n + 1)
  BY <1>3, <1>6, <1>7, <1>8 DEF Requests
<1>10. \A i \in 1 .. Len(s) : IF i <= Len(q) THEN s[i] = q[i] ELSE s[i] = r[i - Len(q)]
  BY <1>3
<1> QED
  BY <1>3, <1>4, <1>9, <1>10 DEF s, r

-----------------------------------------------------------------------------
(* The invariant.                                                          *)

Take == GetCmd \/ GetAdr \/ GetDat

\* What is in the RX FIFO, as it is used below.
LEMMA Served ==
    ASSUME CountsInv, Aligned
    PROVE  /\ Len(rxq) \in Nat
           /\ served + (IF state = "GET_CMD" THEN 0 ELSE 1) <= calls
           /\ Len(rxq) <= 5 * (calls - served)
           /\ \A i \in 1 .. Len(rxq) : rxq[i] \in RequestBytes /\ rxq[i].nr <= calls
<1>1. Requests(rxq, calls) /\ calls \in Nat /\ served \in Nat
  BY DEF CountsInv, Aligned
<1>2. Len(rxq) \in Nat /\ rxq \in Seq(RequestBytes)
  BY <1>1, LenOfRequests DEF Requests
<1>3. ASSUME NEW i \in 1 .. Len(rxq)
      PROVE  rxq[i] \in RequestBytes /\ rxq[i].nr <= calls
  <2>1. rxq[i] \in RequestBytes
    BY <1>2, ElementOfSeq
  <2> DEFINE nr == rxq[i].nr
             part == rxq[i].part
             len == Len(rxq)
  <2>2. nr \in Nat /\ part \in 1 .. 5 /\ len \in Nat /\ i \in 1 .. len
    BY <1>2, <2>1 DEF RequestBytes
  <2>3. 5 * (nr - 1) + part + (len - i) <= 5 * calls
    BY <1>1 DEF Requests
  <2> HIDE DEF nr, part, len
  <2>4. nr <= calls
    BY <1>1, <2>2, <2>3
  <2> QED
    BY <2>1, <2>4 DEF nr
<1>4. CASE rxq = <<>>
  <2>1. Len(rxq) = 0
    BY <1>4, EmptySeq
  <2>2. NextNr = calls + 1 /\ ~Inside
    BY <1>4 DEF Aligned
  <2>3. served + (IF state = "GET_CMD" THEN 0 ELSE 1) <= calls
    BY <1>1, <2>2 DEF NextNr, Busy, Inside
  <2> QED
    BY <1>1, <1>2, <1>3, <2>1, <2>3
<1>5. CASE rxq # <<>>
  <2> DEFINE nr == rxq[1].nr
             len == Len(rxq)
  <2>1. len >= 1 /\ len <= 5 * (calls - nr) + 5 /\ len \in Nat
    BY <1>1, <1>5, LenOfRequests
  <2>2. nr <= calls /\ nr = NextNr /\ nr \in Nat
    BY <1>2, <1>3, <1>5, <2>1 DEF Aligned, RequestBytes
  <2> HIDE DEF nr, len
  <2>3. nr = served + (IF Busy THEN 2 ELSE 1)
    BY <2>2 DEF NextNr
  <2>4. served + (IF state = "GET_CMD" THEN 0 ELSE 1) <= calls
    BY <1>1, <2>2, <2>3 DEF Busy, Gets
  <2>5. len <= 5 * (calls - served)
    BY <1>1, <2>1, <2>2, <2>3
  <2> QED
    BY <1>2, <1>3, <2>4, <2>5 DEF len
<1> QED
  BY <1>4, <1>5

LEMMA InitStepInv == Init => StepInv
<1> SUFFICES ASSUME Init PROVE StepInv
  OBVIOUS
<1>1. /\ calls = 0 /\ served = 0 /\ kills = 0 /\ stalls = 0 /\ state = "GET_CMD"
      /\ cpc = "down" /\ op = NoOp /\ rxq = <<>> /\ latched = FALSE /\ irq = FALSE /\ spc = 0
  BY DEF Init, IrqInit
<1>2. CountsInv
  BY <1>1 DEF CountsInv, States, Gets
<1>3. Requests(<<>>, 0)
  BY DEF Requests
<1>4. Aligned
  BY <1>1, <1>3 DEF Aligned, NextNr, Inside, Busy, Gets
<1>5. Taken /\ Current /\ Wakeups /\ SpaceInv
  BY <1>1 DEF Taken, Current, InCall, Wakeups, Waiting, SpaceInv
<1> QED
  BY <1>2, <1>4, <1>5 DEF StepInv

LEMMA CountsStep == CountsInv /\ [Next]_vars => CountsInv' /\ (Roomy' => Roomy)
<1> SUFFICES ASSUME CountsInv, [Next]_vars
             PROVE  CountsInv' /\ (Roomy' => Roomy)
  OBVIOUS
<1> USE DEF line, board, ram, zpu, cpu, counts, history
<1>1. /\ calls' \in {calls, calls + 1} /\ served' \in {served, served + 1}
      /\ kills' \in {kills, kills + 1} /\ stalls' \in {stalls, stalls + 1}
  BY DEF Next, ZpuNext, CpuStep, GetCmd, GetAdr, GetDat, RetWrite, RetRead, Putc, Stall, Raise,
         InitFlow, InitHead, InitTail, InitDrain, Recalc, Select, GetHead, GetTail, Return,
         Call, Leave, Kill, vars
<1>2. state' \in States
  <2>1. state \in States
    BY DEF CountsInv
  <2> QED
    BY <2>1
       DEF Next, ZpuNext, CpuStep, GetCmd, GetAdr, GetDat, RetWrite, RetRead, Putc, Stall,
           Raise, InitFlow, InitHead, InitTail, InitDrain, Recalc, Select, GetHead, GetTail,
           Return, Call, Leave, Kill, vars, States, Gets, Puts
<1>3. cpc' \in {"down", "init_head", "init_tail", "init_space", "init_drain", "idle"}
                 \cup InCall
  BY DEF CountsInv, Next, ZpuNext, CpuStep, GetCmd, GetAdr, GetDat, RetWrite, RetRead, Putc,
         Stall, Raise, InitFlow, InitHead, InitTail, InitDrain, Recalc, Select, GetHead,
         GetTail, Return, Call, Leave, Kill, Gone, vars, InCall
<1>4. latched' \in BOOLEAN /\ irq' \in BOOLEAN
  BY DEF CountsInv, Next, ZpuNext, CpuStep, GetCmd, GetAdr, GetDat, RetWrite, RetRead, Putc,
         Stall, Raise, RaiseLine, InitFlow, InitHead, ClearLine, InitTail, InitDrain,
         ReadValueFile, Recalc, Select, GetHead, GetTail, Return, Call, Leave, Kill, vars
<1>5. calls' \in Nat /\ served' \in Nat /\ kills' \in Nat /\ stalls' \in Nat
  BY <1>1 DEF CountsInv
<1>6. Roomy' => Roomy
  <2>1. kills \in Nat /\ stalls \in Nat /\ RxCap \in Nat
    BY RequestsFit DEF CountsInv
  <2>2. kills' \in Nat /\ stalls' \in Nat /\ kills <= kills' /\ stalls <= stalls'
    BY <1>1, <2>1
  <2>3. \A a, b, c, d, r \in Nat :
            a <= c /\ b <= d /\ r >= 5 * (c + d + 2) => r >= 5 * (a + b + 2)
    OBVIOUS
  <2>4. RxCap >= 5 * (kills' + stalls' + 2) => RxCap >= 5 * (kills + stalls + 2)
    BY <2>1, <2>2, <2>3
  <2> QED
    BY <2>4 DEF Roomy
<1> QED
  BY <1>2, <1>3, <1>4, <1>5, <1>6 DEF CountsInv

Parts == Aligned /\ Taken /\ Current /\ Wakeups /\ SpaceInv

\* A byte is taken: the state goes on to the part that follows, and after the last
\* part of a request it does what the request asks for.
LEMMA TakeStep ==
    ASSUME CountsInv, Aligned, Taken, Take
    PROVE  Aligned' /\ Taken'
<1> DEFINE h == rxq[1]
           t == Tail(rxq)
<1>1. /\ rxq # <<>> /\ rxq' = t /\ UNCHANGED <<calls, served>>
      /\ state \in Gets
      /\ state' = CASE state = "GET_CMD"  -> "GET_ADRH"
                    [] state = "GET_ADRH" -> "GET_ADRL"
                    [] state = "GET_ADRL" -> (IF req.rwn = "READ" THEN "RET_READ" ELSE "GET_DATH")
                    [] state = "GET_DATH" -> "GET_DATL"
                    [] state = "GET_DATL" -> "RET_WRITE"
      /\ req' = (IF state = "GET_CMD" THEN Head(rxq).req ELSE req)
      /\ dat' = (IF state = "GET_DATL" THEN Head(rxq).req.dat ELSE dat)
  BY DEF Take, GetCmd, GetAdr, GetDat, Gets, counts, history
<1>2. calls \in Nat /\ served \in Nat /\ Requests(rxq, calls)
  BY DEF CountsInv, Aligned
<1>3. /\ Requests(t, calls) /\ Head(rxq) = h
      /\ t # <<>> => Follows(h, t[1])
      /\ t = <<>> => h.nr = calls /\ h.part = Size(h.req)
  BY <1>1, <1>2, TailOfRequests
<1>4. h \in RequestBytes /\ h.req \in Ops
  BY <1>1, <1>2, LenOfRequests DEF RequestBytes
<1>5. h.nr = served + 1 /\ h.part = Expected /\ (state # "GET_CMD" => h.req = req)
  BY <1>1 DEF Aligned, NextNr, Busy, Inside
<1>6. req' = h.req /\ req' \in Ops
  BY <1>1, <1>3, <1>4, <1>5
<1>7. /\ h.req.rwn \in {"READ", "WRITE"} /\ Size(h.req) \in {3, 5}
      /\ (h.req.rwn = "READ" <=> Size(h.req) = 3)
  BY <1>4, OpFacts
<1>8. Taken'
  <2>1. state \in {"GET_DATH", "GET_DATL"} => req.rwn = "WRITE"
    BY DEF Taken
  <2>2. state' \in {"GET_DATH", "GET_DATL", "RET_WRITE"} => req'.rwn = "WRITE"
    BY <1>1, <1>5, <1>6, <1>7, <2>1 DEF Gets
  <2>3. state' \in Puts \cup {"RET_READ"} => req'.rwn = "READ"
    BY <1>1, <1>5, <1>6 DEF Puts, Gets
  <2>4. state' = "RET_WRITE" => dat' = req'.dat
    BY <1>1, <1>3, <1>6 DEF Gets
  <2> QED
    BY <1>6, <2>2, <2>3, <2>4 DEF Taken
\* After the last part nothing more is taken.
<1>9. CASE h.part = Size(h.req)
  <2>1. state \in {"GET_ADRL", "GET_DATL"} /\ state' \in {"RET_READ", "RET_WRITE"}
    BY <1>1, <1>5, <1>6, <1>7, <1>9 DEF Expected, Gets
  <2>2. NextNr' = served + 2 /\ Expected' = 1 /\ ~Inside'
    BY <1>1, <2>1 DEF NextNr, Expected, Inside, Busy, Gets
  <2>3. t # <<>> => t[1].part = 1 /\ t[1].nr = served + 2
    <3> SUFFICES ASSUME t # <<>> PROVE t[1].part = 1 /\ t[1].nr = served + 2
      OBVIOUS
    <3>1. t[1].part <= Size(t[1].req)
      BY <1>2, <1>3, LenOfRequests DEF Requests
    <3>2. Follows(h, t[1])
      BY <1>3
    <3>3. ~(t[1].req = h.req /\ t[1].part = h.part + 1)
      BY <1>7, <1>9, <3>1
    <3> QED
      BY <1>2, <1>5, <3>2, <3>3 DEF Follows
  <2>4. t = <<>> => NextNr' = calls + 1
    BY <1>2, <1>3, <1>5, <2>2
  <2> HIDE DEF t, h
  <2>5. Aligned'
    BY <1>1, <1>3, <2>2, <2>3, <2>4 DEF Aligned
  <2> QED
    BY <1>8, <2>5
\* Before it, there is a next one.
<1>10. CASE h.part # Size(h.req)
  <2>1. /\ t # <<>> /\ t[1].req = h.req /\ t[1].part = h.part + 1 /\ t[1].nr = h.nr
    BY <1>3, <1>10 DEF Follows
  <2>2. state' \in Gets \ {"GET_CMD"}
    <3>1. h.part <= Size(h.req)
      BY <1>1, <1>2, LenOfRequests DEF Requests
    <3>2. h.part # 5
      BY <1>7, <1>10, <3>1
    <3>3. state = "GET_ADRL" => req.rwn # "READ"
      BY <1>5, <1>7, <1>10 DEF Expected
    <3> QED
      BY <1>1, <1>5, <3>2, <3>3 DEF Expected, Gets
  <2>3. Expected' = Expected + 1
    BY <1>1, <2>2 DEF Expected, Gets
  <2>4. NextNr' = served + 1 /\ Inside'
    BY <1>1, <2>2 DEF NextNr, Inside, Busy
  <2> HIDE DEF t, h
  <2>5. Aligned'
    BY <1>1, <1>3, <1>5, <1>6, <2>1, <2>3, <2>4 DEF Aligned
  <2> QED
    BY <1>8, <2>5
<1> QED
  BY <1>9, <1>10

\* A call finds room for all of its request.
LEMMA CallPuts ==
    ASSUME CountsInv, Roomy, Parts, NEW o \in Ops, Call(o)
    PROVE  rxq' = rxq \o Request(o) /\ spc' = spc - Size(o) /\ spc' \in Nat
<1>1. spc >= RxCap - 5 * (kills + stalls + 1) /\ spc \in Nat
  BY DEF Call, Parts, SpaceInv
<1>2. kills \in Nat /\ stalls \in Nat /\ RxCap \in Nat /\ calls \in Nat
  BY RequestsFit DEF CountsInv
<1>3. spc >= 5
  BY <1>1, <1>2 DEF Roomy
<1>4. Request(o) \in Seq(RequestBytes) /\ Len(Request(o)) = Size(o) /\ Size(o) \in {3, 5}
  BY <1>2, RequestFacts, OpFacts
<1>5. Lesser(Len(Request(o)), spc) = Size(o)
  BY <1>1, <1>3, <1>4 DEF Lesser
<1>6. SubSeq(Request(o), 1, Size(o)) = Request(o)
  BY <1>4, SubSeqFull
<1>7. spc - Size(o) \in Nat
  BY <1>1, <1>3, <1>4
<1> QED
  BY <1>5, <1>6, <1>7 DEF Call

LEMMA CallAligned ==
    ASSUME CountsInv, Roomy, Parts, NEW o \in Ops, Call(o)
    PROVE  /\ Aligned' /\ Taken'
           /\ \A i \in 1 .. Len(rxq') : rxq'[i].nr = calls' => rxq'[i].req = o
<1> DEFINE s == rxq \o Request(o)
<1>1. /\ rxq' = s /\ calls' = calls + 1
      /\ UNCHANGED <<state, req, dat, served>>
  BY CallPuts DEF Call, zpu
<1>2. calls \in Nat /\ served \in Nat /\ Requests(rxq, calls)
  BY DEF CountsInv, Parts, Aligned
<1>3. /\ Requests(s, calls + 1) /\ s # <<>> /\ Len(s) = Len(rxq) + Size(o)
      /\ \A i \in 1 .. Len(s) :
             IF i <= Len(rxq) THEN s[i] = rxq[i] ELSE s[i] = Request(o)[i - Len(rxq)]
  BY <1>2, MoreRequests
<1>4. /\ \A i \in 1 .. Size(o) :
             Request(o)[i] = [req |-> o, part |-> i, nr |-> calls + 1]
      /\ Size(o) \in {3, 5}
  BY <1>2, RequestFacts, OpFacts
<1>5. Len(rxq) \in Nat /\ \A i \in 1 .. Len(rxq) : rxq[i] \in RequestBytes /\ rxq[i].nr <= calls
  BY Served DEF Parts
<1> HIDE DEF s
<1>6. NextNr' = NextNr /\ Expected' = Expected /\ Inside' = Inside
  BY <1>1 DEF NextNr, Expected, Inside, Busy
<1>7. /\ s[1].nr = NextNr /\ s[1].part = Expected
      /\ Inside => s[1].req = req
  <2>1. CASE rxq = <<>>
    <3>1. Len(rxq) = 0
      BY <2>1, EmptySeq
    <3>2. s[1] = [req |-> o, part |-> 1, nr |-> calls + 1]
      BY <1>3, <1>4, <3>1
    <3>3. NextNr = calls + 1 /\ ~Inside
      BY <2>1 DEF Parts, Aligned
    <3>4. Expected = 1
      BY <3>3 DEF Inside, Expected, Gets
    <3> QED
      BY <3>2, <3>3, <3>4
  <2>2. CASE rxq # <<>>
    <3>1. Len(rxq) >= 1
      BY <1>2, <2>2, LenOfRequests
    <3>2. s[1] = rxq[1]
      BY <1>3, <1>4, <1>5, <3>1
    <3> QED
      BY <2>2, <3>2 DEF Parts, Aligned
  <2> QED
    BY <2>1, <2>2
<1>8. Aligned'
  BY <1>1, <1>3, <1>6, <1>7 DEF Aligned
<1>9. Taken'
  BY <1>1 DEF Parts, Taken
<1>10. ASSUME NEW i \in 1 .. Len(s), s[i].nr = calls + 1
       PROVE  s[i].req = o
  <2>1. i > Len(rxq)
    <3> SUFFICES ASSUME i <= Len(rxq) PROVE FALSE
      BY <1>5
    <3>1. i \in 1 .. Len(rxq) /\ s[i] = rxq[i]
      BY <1>3, <1>5
    <3>2. rxq[i].nr <= calls /\ rxq[i].nr \in Nat
      BY <1>5, <3>1 DEF RequestBytes
    <3> QED
      BY <1>2, <1>10, <3>1, <3>2
  <2> DEFINE j == i - Len(rxq)
  <2>2. j \in 1 .. Size(o) /\ s[i] = Request(o)[j]
    BY <1>3, <1>4, <1>5, <2>1
  <2> HIDE DEF j
  <2>3. s[i] = [req |-> o, part |-> j, nr |-> calls + 1]
    BY <1>4, <2>2
  <2> QED
    BY <2>3
<1> QED
  BY <1>1, <1>8, <1>9, <1>10

LEMMA AlignedStep ==
    ASSUME CountsInv, Roomy, Parts, [Next]_vars
    PROVE  Aligned' /\ Taken'
<1> USE DEF Parts, line, board, ram, zpu, cpu, counts, history
<1>1. CASE Take
  BY <1>1, TakeStep
<1>2. CASE Raise
  <2>1. /\ state = "raise" /\ state' = "GET_CMD" /\ served' = served + 1 /\ served \in Nat
        /\ UNCHANGED <<rxq, calls, req, dat>>
    BY <1>2 DEF Raise, CountsInv
  <2>2. NextNr' = NextNr /\ Expected' = Expected /\ ~Inside' /\ ~Inside
    BY <2>1 DEF NextNr, Busy, Expected, Inside, Gets
  <2> QED
    BY <2>1, <2>2 DEF Aligned, Taken
<1>3. CASE RetWrite \/ RetRead \/ Putc
  <2>1. /\ UNCHANGED <<rxq, calls, served, req>>
        /\ state \notin Gets /\ state' \notin Gets
        /\ state' # "RET_WRITE"
        /\ state' \in Puts \cup {"RET_READ"} => state \in Puts \cup {"RET_READ"}
    BY <1>3 DEF RetWrite, RetRead, Putc, Gets, Puts
  <2>2. NextNr' = NextNr /\ Expected' = Expected /\ ~Inside' /\ ~Inside
    BY <2>1 DEF NextNr, Busy, Expected, Inside, Gets
  <2>3. Aligned'
    BY <2>1, <2>2 DEF Aligned
  <2>4. Taken'
    BY <2>1 DEF Taken, Gets
  <2> QED
    BY <2>3, <2>4
<1>4. CASE \E o \in Ops : Call(o)
  BY <1>4, CallAligned
<1>5. CASE \/ Stall \/ InitFlow \/ InitHead \/ InitTail \/ InitDrain \/ Recalc \/ Select
           \/ GetHead \/ GetTail \/ Return \/ Leave \/ Kill \/ UNCHANGED vars
  <2>1. UNCHANGED <<rxq, calls, served, state, req, dat>>
    BY <1>5 DEF Stall, InitFlow, InitHead, InitTail, InitDrain, Recalc, Select, GetHead,
                GetTail, Return, Leave, Kill, vars
  <2>2. NextNr' = NextNr /\ Expected' = Expected /\ Inside' = Inside
    BY <2>1 DEF NextNr, Busy, Expected, Inside
  <2> QED
    BY <2>1, <2>2 DEF Aligned, Taken
<1> QED
  BY <1>1, <1>2, <1>3, <1>4, <1>5 DEF Next, ZpuNext, CpuStep, Take

LEMMA CurrentStep ==
    ASSUME CountsInv, Roomy, Parts, [Next]_vars
    PROVE  Current'
<1> USE DEF Parts, line, board, ram, zpu, cpu, counts, history
<1>1. /\ calls \in Nat /\ served \in Nat
      /\ Len(rxq) \in Nat
      /\ served + (IF state = "GET_CMD" THEN 0 ELSE 1) <= calls
  BY Served DEF CountsInv
<1>2. CASE Take
  <2>1. /\ rxq # <<>> /\ rxq' = Tail(rxq) /\ UNCHANGED <<calls, served, cpc, op>>
        /\ state \in Gets /\ (state # "GET_CMD" => Inside)
        /\ req' = (IF state = "GET_CMD" THEN Head(rxq).req ELSE req)
    BY <1>2 DEF Take, GetCmd, GetAdr, GetDat, Gets, Inside
  <2>2. /\ Head(rxq) = rxq[1]
        /\ \A i \in 1 .. Len(Tail(rxq)) : i + 1 \in 1 .. Len(rxq) /\ Tail(rxq)[i] = rxq[i + 1]
    BY <1>1, <2>1, TailOfRequests DEF Aligned
  <2>3. 1 \in 1 .. Len(rxq)
    BY <1>1, <2>1, LenOfRequests DEF Aligned
  <2>4. rxq[1].nr = served + 1 /\ req' = rxq[1].req
    BY <2>1, <2>2 DEF Aligned, NextNr, Busy
  <2>5. op # NoOp /\ served + 1 = calls => req' = op
    BY <2>3, <2>4 DEF Current
  <2>6. op # NoOp => \A i \in 1 .. Len(rxq') : rxq'[i].nr = calls => rxq'[i].req = op
    BY <2>1, <2>2 DEF Current
  <2> QED
    BY <2>1, <2>5, <2>6 DEF Current
<1>3. CASE Raise
  BY <1>3 DEF Raise, Current
<1>4. CASE RetWrite \/ RetRead \/ Putc
  <2>1. UNCHANGED <<rxq, calls, served, cpc, op, req>> /\ state # "GET_CMD"
    BY <1>4 DEF RetWrite, RetRead, Putc, Puts
  <2> QED
    BY <2>1 DEF Current
<1>5. ASSUME NEW o \in Ops, Call(o) PROVE Current'
  <2>1. \A i \in 1 .. Len(rxq') : rxq'[i].nr = calls' => rxq'[i].req = o
    BY <1>5, CallAligned
  <2>2. cpc' \in InCall /\ op' = o /\ op' # NoOp
    BY <1>5, OpFacts DEF Call, InCall
  <2>3. ~(state' # "GET_CMD" /\ served' + 1 = calls')
    <3>1. calls' = calls + 1 /\ UNCHANGED <<served, state>>
      BY <1>5 DEF Call
    <3> QED
      BY <1>1, <3>1
  <2> QED
    BY <2>1, <2>2, <2>3 DEF Current
<1>6. CASE Stall \/ UNCHANGED vars
  <2>1. UNCHANGED <<rxq, calls, served, cpc, op, req, state>>
    BY <1>6 DEF Stall, vars
  <2> QED
    BY <2>1 DEF Current
<1>7. CASE InitFlow \/ InitHead \/ InitTail \/ InitDrain \/ (Recalc /\ cpc = "init_space")
  <2>1. UNCHANGED op /\ cpc \notin InCall /\ cpc' \notin InCall
    BY <1>7 DEF InitFlow, InitHead, InitTail, InitDrain, Recalc, InCall
  <2> QED
    BY <2>1 DEF Current
<1>8. CASE (Recalc /\ cpc = "recalc") \/ Select \/ GetHead \/ GetTail
  <2>1. /\ UNCHANGED <<rxq, calls, served, op, req, state>>
        /\ cpc \in InCall /\ cpc' \in InCall
    BY <1>8 DEF Recalc, Select, GetHead, GetTail, InCall
  <2> QED
    BY <2>1 DEF Current
<1>9. CASE Return \/ Leave \/ Kill
  <2>1. op' = NoOp /\ cpc' \notin InCall
    BY <1>9 DEF Return, Leave, Kill, Gone, InCall
  <2> QED
    BY <2>1 DEF Current
<1>10. Recalc => cpc \in {"recalc", "init_space"}
  BY DEF Recalc
<1> QED
  BY <1>2, <1>3, <1>4, <1>5, <1>6, <1>7, <1>8, <1>9, <1>10 DEF Next, ZpuNext, CpuStep, Take

LEMMA WakeupsStep ==
    ASSUME CountsInv, Roomy, Parts, [Next]_vars
    PROVE  Wakeups'
<1> USE DEF Parts, line, board, ram, zpu, cpu, counts, history
<1>1. /\ calls \in Nat /\ served \in Nat /\ kills \in Nat /\ stalls \in Nat
      /\ latched \in BOOLEAN /\ irq \in BOOLEAN
  BY DEF CountsInv
<1>2. CASE Raise
  <2>1. served' = served + 1 /\ latched' \in BOOLEAN /\ UNCHANGED <<calls, kills, stalls, cpc>>
    BY <1>1, <1>2 DEF Raise, RaiseLine
  <2> QED
    BY <1>1, <2>1 DEF Wakeups, Waiting
<1>3. CASE Stall
  <2>1. stalls' = stalls + 1 /\ latched' \in BOOLEAN /\ UNCHANGED <<calls, kills, served, cpc>>
    BY <1>1, <1>3 DEF Stall, RaiseLine
  <2> QED
    BY <1>1, <2>1 DEF Wakeups, Waiting
<1>4. CASE \E o \in Ops : Call(o)
  <2>1. /\ calls' = calls + 1 /\ cpc = "idle" /\ cpc' = "recalc"
        /\ UNCHANGED <<kills, served, stalls, latched>>
    BY <1>4 DEF Call
  <2> QED
    BY <1>1, <2>1 DEF Wakeups, Waiting
<1>5. CASE Select
  <2>1. /\ cpc = "select" /\ cpc' = "get_head" /\ latched = TRUE /\ latched' = FALSE
        /\ UNCHANGED <<calls, kills, served, stalls>>
    BY <1>1, <1>5 DEF Select, ReadValueFile
  <2> QED
    BY <1>1, <2>1 DEF Wakeups, Waiting
<1>6. CASE Kill
  <2>1. kills' = kills + 1 /\ UNCHANGED <<calls, served, stalls, latched>>
    BY <1>6 DEF Kill
  <2> QED
    BY <1>1, <2>1 DEF Wakeups
<1>7. CASE \/ Take \/ RetWrite \/ RetRead \/ Putc \/ InitFlow \/ InitHead \/ InitTail \/ InitDrain
           \/ Recalc \/ GetHead \/ GetTail \/ Return \/ Leave \/ UNCHANGED vars
  <2>1. UNCHANGED <<calls, served, kills, stalls>>
    BY <1>7 DEF Take, GetCmd, GetAdr, GetDat, RetWrite, RetRead, Putc, InitFlow, InitHead,
                InitTail, InitDrain, Recalc, GetHead, GetTail, Return, Leave, vars
  <2>2. latched' = latched \/ latched' = FALSE
    BY <1>7 DEF Take, GetCmd, GetAdr, GetDat, RetWrite, RetRead, Putc, InitFlow, InitHead,
                ClearLine, InitTail, InitDrain, ReadValueFile, Recalc, GetHead, GetTail, Return,
                Leave, vars
  <2>3. cpc \in {"recalc", "select"} <=> cpc' \in {"recalc", "select"}
    BY <1>7 DEF Take, GetCmd, GetAdr, GetDat, RetWrite, RetRead, Putc, InitFlow, InitHead,
                InitTail, InitDrain, Recalc, GetHead, GetTail, Return, Leave, Gone, vars
  <2> QED
    BY <1>1, <2>1, <2>2, <2>3 DEF Wakeups, Waiting
<1> QED
  BY <1>2, <1>3, <1>4, <1>5, <1>6, <1>7 DEF Next, ZpuNext, CpuStep, Take

LEMMA SpaceStep ==
    ASSUME CountsInv, Roomy, Parts, [Next]_vars
    PROVE  SpaceInv'
<1> USE DEF Parts, line, board, ram, zpu, cpu, counts, history
<1>1. /\ calls \in Nat /\ served \in Nat /\ kills \in Nat /\ stalls \in Nat
      /\ Len(rxq) \in Nat /\ Len(rxq) <= 5 * (calls - served)
      /\ spc \in Nat /\ RxCap \in Nat
  BY Served, RequestsFit DEF CountsInv, SpaceInv
<1>2. CASE Take
  <2>1. Len(rxq') \in Nat /\ Len(rxq') <= Len(rxq)
    <3>1. rxq \in Seq(RequestBytes) /\ rxq # <<>> /\ rxq' = Tail(rxq)
      BY <1>2 DEF Take, GetCmd, GetAdr, GetDat, Aligned, Requests
    <3>2. Len(Tail(rxq)) = Len(rxq) - 1 /\ Len(rxq) \in Nat \ {0}
      BY <3>1, HeadTailProperties, EmptySeq
    <3> QED
      BY <3>1, <3>2
  <2>2. UNCHANGED <<cpc, spc, kills, stalls>>
    BY <1>2 DEF Take, GetCmd, GetAdr, GetDat
  <2> QED
    BY <1>1, <2>1, <2>2 DEF SpaceInv
<1>3. ASSUME NEW o \in Ops, Call(o) PROVE SpaceInv'
  <2>1. rxq' = rxq \o Request(o) /\ spc' = spc - Size(o) /\ spc' \in Nat
    BY <1>3, CallPuts
  <2>2. Len(rxq') = Len(rxq) + Size(o) /\ Size(o) \in {3, 5}
    BY <1>1, <2>1, MoreRequests, OpFacts DEF Aligned
  <2>3. cpc = "idle" /\ cpc' = "recalc"
    BY <1>3 DEF Call
  <2>4. spc <= RxCap - Len(rxq)
    BY <2>3 DEF SpaceInv
  <2>5. spc' \in Nat /\ spc' <= RxCap - Len(rxq')
    BY <1>1, <2>1, <2>2, <2>4
  <2> QED
    BY <2>3, <2>5 DEF SpaceInv
\* The space is measured when the requests of dead processes are all that may be
\* there, and the one that was just put.
<1>4. CASE Recalc
  <2>1. /\ UNCHANGED <<rxq, kills, stalls>>
        /\ spc' = IF spc = RxCap THEN spc ELSE RxCap - Len(rxq)
        /\ cpc \in {"recalc", "init_space"} /\ cpc' \in {"select", "init_drain"}
    BY <1>4 DEF Recalc
  <2>2. calls - served <= kills + stalls + 1
    BY <1>1 DEF Wakeups
  <2>3. Len(rxq) <= 5 * (kills + stalls + 1)
    BY <1>1, <2>2
  <2>4. spc <= RxCap - Len(rxq)
    BY <2>1 DEF SpaceInv
  <2>5. \A l, c, w \in Nat : l <= w /\ w <= c => c - l >= c - w /\ c >= c - w /\ c - l \in Nat
    OBVIOUS
  <2> DEFINE w == 5 * (kills + stalls + 1)
  <2>6. w \in Nat /\ w' = w
    BY <1>1, <2>1
  <2>7. Len(rxq) <= w /\ w <= RxCap
    BY <1>1, <2>3 DEF Roomy
  <2> HIDE DEF w
  <2>8. spc' \in Nat /\ spc' <= RxCap - Len(rxq') /\ spc' >= RxCap - w
    BY <1>1, <2>1, <2>4, <2>5, <2>6, <2>7
  <2> QED
    BY <2>1, <2>6, <2>8 DEF SpaceInv, w
<1>5. CASE InitTail
  <2>1. cpc' = "init_space" /\ spc' = 0 /\ UNCHANGED <<rxq, kills, stalls, calls, served>>
    BY <1>5 DEF InitTail
  <2>2. calls - served <= kills + stalls + 1
    BY <1>1 DEF Wakeups
  <2>3. Len(rxq) <= 5 * (kills + stalls + 1)
    BY <1>1, <2>2
  <2>4. 0 <= RxCap - Len(rxq)
    BY <1>1, <2>3 DEF Roomy
  <2> QED
    BY <2>1, <2>4 DEF SpaceInv
<1>6. CASE Leave \/ Kill
  <2>1. cpc' = "down" /\ spc' = 0
    BY <1>6 DEF Leave, Kill, Gone
  <2> QED
    BY <2>1 DEF SpaceInv
<1>7. CASE InitFlow \/ InitHead
  <2>1. cpc' \in {"init_head", "init_tail"} /\ cpc \in {"down", "init_head"} /\ spc' = spc
    BY <1>7 DEF InitFlow, InitHead
  <2>2. spc = 0
    BY <2>1 DEF SpaceInv
  <2> QED
    BY <2>1, <2>2 DEF SpaceInv
<1>8. CASE Stall
  <2>1. UNCHANGED <<rxq, cpc, spc, kills>> /\ stalls' = stalls + 1
    BY <1>8 DEF Stall
  <2>2. spc >= RxCap - 5 * (kills + stalls + 1) => spc' >= RxCap - 5 * (kills' + stalls' + 1)
    BY <1>1, <2>1
  <2> QED
    BY <2>1, <2>2 DEF SpaceInv
<1>9. CASE InitDrain \/ Select \/ GetHead \/ GetTail \/ Return
  <2>1. /\ UNCHANGED <<rxq, spc, kills, stalls>>
        /\ cpc \in {"init_drain", "idle", "select", "get_head", "get_tail", "return"}
        /\ cpc' \in {"init_drain", "idle", "select", "get_head", "get_tail", "return"}
    BY <1>9 DEF InitDrain, Select, GetHead, GetTail, Return
  <2> QED
    BY <2>1 DEF SpaceInv
<1>10. CASE RetWrite \/ RetRead \/ Putc \/ Raise \/ UNCHANGED vars
  <2>1. UNCHANGED <<rxq, cpc, spc, kills, stalls>>
    BY <1>10 DEF RetWrite, RetRead, Putc, Raise, vars
  <2> QED
    BY <2>1 DEF SpaceInv
<1> QED
  BY <1>2, <1>3, <1>4, <1>5, <1>6, <1>7, <1>8, <1>9, <1>10 DEF Next, ZpuNext, CpuStep, Take

LEMMA StepInvStep == StepInv /\ [Next]_vars => StepInv'
<1> SUFFICES ASSUME StepInv, [Next]_vars PROVE StepInv'
  OBVIOUS
<1>1. CountsInv' /\ (Roomy' => Roomy)
  BY CountsStep DEF StepInv
<1>2. ASSUME Roomy PROVE Aligned' /\ Taken' /\ Current' /\ Wakeups' /\ SpaceInv'
  <2>1. CountsInv /\ Parts
    BY <1>2 DEF StepInv, Parts
  <2> QED
    BY <1>2, <2>1, AlignedStep, CurrentStep, WakeupsStep, SpaceStep
<1> QED
  BY <1>1, <1>2 DEF StepInv

LEMMA StepInvAlways == Spec => []StepInv
BY InitStepInv, StepInvStep, PTL DEF Spec

\* As long as the RX FIFO has room for a request of every process that died, one
\* for every stall, the next one and one of slack, each byte that zpu_muxbus reads
\* is the part of the request that its state takes it for (the states GET_* of
\* zpu_muxbus, zpu_fifo_put with its static rxfifo_spc, zpu_fifo_init).
THEOREM StaysInStep == Spec => []InStep
<1>1. StepInv => InStep
  <2> SUFFICES ASSUME StepInv, Roomy, rxq # <<>>, state \in Gets
               PROVE  Head(rxq).part = Expected
    BY DEF InStep, Roomy, Expected, Gets
  <2>1. Requests(rxq, calls) /\ calls \in Nat /\ rxq[1].part = Expected
    BY DEF StepInv, Aligned, CountsInv
  <2>2. Head(rxq) = rxq[1]
    BY <2>1, TailOfRequests
  <2> QED
    BY <2>1, <2>2
<1> QED
  BY <1>1, StepInvAlways, PTL

-----------------------------------------------------------------------------
(* The answers of zpu_muxbus, for any number of processes that die in one. *)

Byte(b) == b = [word |-> b.word, half |-> b.half] /\ b.half \in {"high", "low"}
Matches(h, l) == h.half = "high" => l = [h EXCEPT !.half = "low"]

\* The bytes in q are words, but that the first may have lost its high byte and the
\* last may lack its low byte.
Words(q) ==
    /\ \E S : q \in Seq(S)
    /\ \A i \in 1 .. Len(q) : Byte(q[i])
    /\ \A i \in 1 .. Len(q) - 1 : Matches(q[i], q[i + 1])

\* The low byte that is missing is the one the ZPU puts next.
WordsInv ==
    /\ Words(txq)
    /\ txq # <<>> /\ txq[Len(txq)].half = "high" =>
          state = "putc_low" /\ txq[Len(txq)].word = dat
    /\ snap \in Nat
    /\ cpc \in InCall => op \in Ops

\* Words without their beginning.
LEMMA SuffixOfWords ==
    ASSUME NEW q, Words(q), NEW n \in Nat
    PROVE  LET t == SubSeq(q, n + 1, Len(q))
           IN  Words(t) /\ (t # <<>> => t[Len(t)] = q[Len(q)] /\ q # <<>>)
<1> DEFINE t == SubSeq(q, n + 1, Len(q))
<1>1. PICK S : q \in Seq(S)
  BY DEF Words
<1>2. Len(q) \in Nat /\ \A i \in 1 .. Len(q) : q[i] \in S
  BY <1>1
<1>3. CASE n < Len(q)
  <2>1. \A i \in n + 1 .. Len(q) : q[i] \in S
    BY <1>2, <1>3
  <2>2. /\ t \in Seq(S) /\ Len(t) = Len(q) - n
        /\ \A i \in 1 .. Len(q) - n : t[i] = q[n + i]
    BY <1>2, <1>3, <2>1, SubSeqProperties
  <2> HIDE DEF t
  <2>3. \A i \in 1 .. Len(t) : Byte(t[i])
    <3> TAKE i \in 1 .. Len(t)
    <3>1. n + i \in 1 .. Len(q) /\ t[i] = q[n + i]
      BY <1>2, <1>3, <2>2
    <3> QED
      BY <3>1 DEF Words
  <2>4. \A i \in 1 .. Len(t) - 1 : Matches(t[i], t[i + 1])
    <3> TAKE i \in 1 .. Len(t) - 1
    <3>1. n + i \in 1 .. Len(q) - 1 /\ t[i] = q[n + i] /\ t[i + 1] = q[(n + i) + 1]
      BY <1>2, <1>3, <2>2
    <3> QED
      BY <3>1 DEF Words
  <2>5. t[Len(t)] = q[Len(q)] /\ q # <<>>
    BY <1>2, <1>3, <2>2
  <2> QED
    BY <2>2, <2>3, <2>4, <2>5 DEF Words, t
<1>4. CASE ~(n < Len(q))
  <2>1. t = <<>>
    BY <1>2, <1>4, SubSeqEmpty
  <2>2. Words(<<>>)
    BY DEF Words
  <2> QED
    BY <2>1, <2>2
<1> QED
  BY <1>3, <1>4

\* A byte more, the low one after a high one.
LEMMA MoreWords ==
    ASSUME NEW q, Words(q), NEW b, Byte(b), q # <<>> => Matches(q[Len(q)], b)
    PROVE  Words(Append(q, b)) /\ Append(q, b) # <<>>
           /\ Append(q, b)[Len(Append(q, b))] = b
<1> DEFINE t == Append(q, b)
<1>1. PICK S : q \in Seq(S)
  BY DEF Words
<1>2. q \in Seq(S \cup {b}) /\ b \in S \cup {b} /\ Len(q) \in Nat
  BY <1>1
<1>3. /\ t \in Seq(S \cup {b}) /\ t # <<>> /\ Len(t) = Len(q) + 1
      /\ \A i \in 1 .. Len(q) : t[i] = q[i]
      /\ t[Len(q) + 1] = b
  BY <1>2, AppendProperties
<1> HIDE DEF t
<1>4. \A i \in 1 .. Len(t) : Byte(t[i])
  <2> TAKE i \in 1 .. Len(t)
  <2>1. (i \in 1 .. Len(q) /\ t[i] = q[i]) \/ t[i] = b
    BY <1>2, <1>3
  <2> QED
    BY <2>1 DEF Words
<1>5. \A i \in 1 .. Len(t) - 1 : Matches(t[i], t[i + 1])
  <2> TAKE i \in 1 .. Len(t) - 1
  <2>1. CASE i \in 1 .. Len(q) - 1
    <3>1. t[i] = q[i] /\ t[i + 1] = q[i + 1]
      BY <1>2, <1>3, <2>1
    <3> QED
      BY <2>1, <3>1 DEF Words
  <2>2. CASE i = Len(q)
    <3>1. q # <<>> /\ t[i] = q[Len(q)] /\ t[i + 1] = b
      BY <1>2, <1>3, <2>2
    <3> QED
      BY <3>1
  <2> QED
    BY <1>2, <1>3, <2>1, <2>2
<1> QED
  BY <1>3, <1>4, <1>5 DEF Words, t

LEMMA InitWords == Init => WordsInv
<1> SUFFICES ASSUME Init PROVE WordsInv
  OBVIOUS
<1>1. txq = <<>> /\ snap = 0 /\ cpc = "down"
  BY DEF Init
<1>2. Words(<<>>)
  BY DEF Words
<1> QED
  BY <1>1, <1>2 DEF WordsInv, InCall

LEMMA WordsStep == WordsInv /\ [Next]_vars => WordsInv'
<1> SUFFICES ASSUME WordsInv, [Next]_vars
             PROVE  WordsInv'
  OBVIOUS
<1> USE DEF zpu, cpu, ram, board, counts, history
\* The next byte of the word.
<1>1. CASE Putc
  <2>1. state \in Puts /\ UNCHANGED <<dat, snap, cpc, op>>
    BY <1>1 DEF Putc
  <2>2. Byte(Half) /\ Half.word = dat
        /\ Half.half = (IF state = "putc_high" THEN "high" ELSE "low")
    BY DEF Half, Byte
  <2>3. txq # <<>> => Matches(txq[Len(txq)], Half)
    <3> SUFFICES ASSUME txq # <<>>, txq[Len(txq)].half = "high"
                 PROVE  Half = [txq[Len(txq)] EXCEPT !.half = "low"]
      BY DEF Matches
    <3>1. PICK S : txq \in Seq(S)
      BY DEF WordsInv, Words
    <3>2. Len(txq) \in 1 .. Len(txq)
      BY <3>1
    <3> DEFINE b == txq[Len(txq)]
    <3>3. b = [word |-> b.word, half |-> b.half] /\ b.word = dat /\ state = "putc_low"
      BY <3>2 DEF WordsInv, Words, Byte
    <3> HIDE DEF b
    <3>4. [b EXCEPT !.half = "low"] = [word |-> dat, half |-> "low"]
      BY <3>3
    <3>5. Half = [word |-> dat, half |-> "low"]
      BY <3>3 DEF Half
    <3> QED
      BY <3>4, <3>5 DEF b
  <2>4. state' = "putc_low" \/ state # "putc_high"
    BY <1>1 DEF Putc
  <2>5. CASE txq' = Append(txq, Half)
    <3>1. Words(txq') /\ txq'[Len(txq')] = Half
      BY <2>2, <2>3, <2>5, MoreWords DEF WordsInv
    <3> QED
      BY <2>1, <2>2, <2>4, <3>1 DEF WordsInv
  <2>6. CASE txq' = <<>>
    <3>1. Words(<<>>)
      BY DEF Words
    <3> QED
      BY <2>1, <2>6, <3>1 DEF WordsInv
  <2> QED
    BY <1>1, <2>5, <2>6 DEF Putc
\* Bytes are taken from the front.
<1>2. CASE InitTail \/ GetTail
  <2>1. /\ txq' = SubSeq(txq, snap + 1, Len(txq)) /\ snap' = 0 /\ UNCHANGED <<state, dat>>
        /\ (cpc' \in InCall => op' \in Ops)
    BY <1>2 DEF InitTail, GetTail, WordsInv, InCall
  <2>2. Words(txq') /\ (txq' # <<>> => txq'[Len(txq')] = txq[Len(txq)] /\ txq # <<>>)
    BY <2>1, SuffixOfWords DEF WordsInv
  <2> QED
    BY <2>1, <2>2 DEF WordsInv
\* The head is peeked.
<1>3. CASE InitHead \/ GetHead
  <2>1. PICK S : txq \in Seq(S)
    BY DEF WordsInv, Words
  <2>2. Len(txq) \in Nat
    BY <2>1
  <2>3. UNCHANGED <<txq, state, dat>> /\ (cpc' \in InCall => op' \in Ops)
    BY <1>3 DEF InitHead, GetHead, WordsInv, InCall
  <2>4. snap' \in Nat
    <3>1. CASE InitHead
      BY <2>2, <3>1 DEF InitHead
    <3>2. CASE GetHead
      <4>1. op \in Ops /\ snap' = Lesser(Len(txq), 2 * op.cnt)
        BY <3>2 DEF GetHead, Wanted, WordsInv, InCall
      <4>2. op.cnt \in Nat
        BY <4>1, AnswersFit DEF Ops, Atomic!Ops, Atomic!Pokes, Atomic!Peeks, Atomic!Streams
      <4> QED
        BY <2>2, <4>1, <4>2 DEF Lesser
    <3> QED
      BY <1>3, <3>1, <3>2
  <2> QED
    BY <2>3, <2>4 DEF WordsInv
\* The ZPU leaves the state of a high byte only with the low one.
<1>4. CASE GetCmd \/ GetAdr \/ GetDat \/ RetWrite \/ RetRead \/ Raise
  <2>1. UNCHANGED <<txq, snap, cpc, op>> /\ state # "putc_low"
    BY <1>4 DEF GetCmd, GetAdr, GetDat, RetWrite, RetRead, Raise
  <2> QED
    BY <2>1 DEF WordsInv
<1>5. CASE \/ Stall \/ InitFlow \/ InitDrain \/ Recalc \/ Select \/ Return \/ Leave \/ Kill
           \/ (\E o \in Ops : Call(o)) \/ UNCHANGED vars
  <2>1. UNCHANGED <<txq, state, dat>> /\ snap' \in {snap, 0}
        /\ (cpc' \in InCall => op' \in Ops)
    BY <1>5
       DEF WordsInv, InCall, Stall, InitFlow, InitDrain, Recalc, Select, Return, Leave, Kill, Gone, Call, vars
  <2> QED
    BY <2>1 DEF WordsInv
<1> QED
  BY <1>1, <1>2, <1>3, <1>4, <1>5 DEF Next, ZpuNext, CpuStep

\* The high byte of a word is followed by its low byte, or is the last and its low
\* byte is the next that the ZPU puts, however many processes die with an answer in
\* the FIFO (putc of zpu/fifo.c in RET_READ of zpu_muxbus, zpu_fifo_init and
\* zpu_fifo_get of tszpufifo.c).
THEOREM WordsStayWhole == Spec => []WholeWords
<1>1. WordsInv => WholeWords
  BY DEF WordsInv, Words, WholeWords, Matches
<1> QED
  BY <1>1, InitWords, WordsStep, PTL DEF Spec

-----------------------------------------------------------------------------
(* The bytes of an answer.                                                 *)

\* The next byte of the last word.
LEMMA AnsweredPut ==
    ASSUME NEW a \in Seq(Nat), a # <<>>, NEW q, Answered(q, a),
           NEW b,
           \/ Len(q) = 2 * Len(a) - 2 /\ b = High(a[Len(a)])
           \/ Len(q) = 2 * Len(a) - 1 /\ b = Low(a[Len(a)])
    PROVE  Answered(Append(q, b), a) /\ Len(Append(q, b)) = Len(q) + 1
<1> DEFINE t == Append(q, b)
           n == Len(a)
<1>1. n \in Nat /\ n >= 1 /\ a[n] \in Nat
  BY EmptySeq, LenProperties, ElementOfSeq
<1>2. q \in Seq(AnswerBytes) /\ Len(q) \in Nat
  BY LenProperties DEF Answered
<1>3. b \in AnswerBytes
  BY <1>1 DEF AnswerBytes, High, Low
<1>4. /\ t \in Seq(AnswerBytes) /\ Len(t) = Len(q) + 1
      /\ \A i \in 1 .. Len(q) : t[i] = q[i]
      /\ t[Len(q) + 1] = b
  BY <1>2, <1>3, AppendProperties
<1> HIDE DEF t
<1>5. ASSUME NEW k \in 1 .. n, 2 * k - 1 <= Len(t)
      PROVE  t[2 * k - 1] = High(a[k])
  <2>1. CASE 2 * k - 1 <= Len(q)
    <3>1. 2 * k - 1 \in 1 .. Len(q)
      BY <1>1, <1>2, <2>1
    <3>2. q[2 * k - 1] = High(a[k])
      BY <2>1 DEF Answered
    <3> QED
      BY <1>4, <3>1, <3>2
  <2>2. CASE 2 * k - 1 > Len(q)
    <3>1. 2 * k - 1 = Len(q) + 1
      BY <1>1, <1>2, <1>4, <1>5, <2>2
    <3>2. k = n /\ Len(q) = 2 * n - 2
      BY <1>1, <1>2, <3>1
    <3>3. b = High(a[n])
      BY <1>1, <3>2
    <3> QED
      BY <1>4, <3>1, <3>2, <3>3
  <2> QED
    BY <1>1, <1>2, <2>1, <2>2
<1>6. ASSUME NEW k \in 1 .. n, 2 * k <= Len(t)
      PROVE  t[2 * k] = Low(a[k])
  <2>1. CASE 2 * k <= Len(q)
    <3>1. 2 * k \in 1 .. Len(q)
      BY <1>1, <1>2, <2>1
    <3>2. q[2 * k] = Low(a[k])
      BY <2>1 DEF Answered
    <3> QED
      BY <1>4, <3>1, <3>2
  <2>2. CASE 2 * k > Len(q)
    <3> DEFINE m == 2 * k
    <3>0. m \in Nat /\ m <= Len(q) + 1 /\ m > Len(q)
      BY <1>1, <1>4, <1>6, <2>2
    <3> HIDE DEF m
    <3>1. m = Len(q) + 1
      BY <1>2, <3>0
    <3> USE DEF m
    <3>2. k = n /\ Len(q) = 2 * n - 1
      BY <1>1, <1>2, <3>1
    <3>3. b = Low(a[n])
      BY <1>1, <3>2
    <3> QED
      BY <1>4, <3>1, <3>2, <3>3
  <2> QED
    BY <1>1, <1>2, <2>1, <2>2
<1>7. Answered(t, a)
  BY <1>4, <1>5, <1>6 DEF Answered
<1> QED
  BY <1>4, <1>7 DEF t

\* A word more, of which nothing is put yet.
LEMMA AnsweredMore ==
    ASSUME NEW a \in Seq(Nat), NEW x \in Nat, NEW q, Answered(q, a), Len(q) = 2 * Len(a)
    PROVE  /\ Answered(q, Append(a, x))
           /\ Append(a, x) \in Seq(Nat) /\ Append(a, x) # <<>>
           /\ Len(Append(a, x)) = Len(a) + 1
           /\ Append(a, x)[Len(Append(a, x))] = x
<1> DEFINE t == Append(a, x)
           n == Len(a)
<1>1. /\ t \in Seq(Nat) /\ t # <<>> /\ Len(t) = n + 1 /\ n \in Nat
      /\ \A i \in 1 .. n : t[i] = a[i]
      /\ t[n + 1] = x
  BY AppendProperties, LenProperties
<1> HIDE DEF t
<1>2. ASSUME NEW k \in 1 .. Len(t)
      PROVE  /\ 2 * k - 1 <= Len(q) => q[2 * k - 1] = High(t[k])
             /\ 2 * k <= Len(q) => q[2 * k] = Low(t[k])
  <2>1. CASE k \in 1 .. n
    <3>1. t[k] = a[k]
      BY <1>1, <2>1
    <3> QED
      BY <2>1, <3>1 DEF Answered
  <2>2. CASE k = n + 1
    BY <1>1, <2>2
  <2> QED
    BY <1>1, <2>1, <2>2
<1>3. Answered(q, t)
  BY <1>2 DEF Answered
<1> QED
  BY <1>1, <1>3 DEF t

\* The caller makes the words of a whole answer.
LEMMA AnsweredWords ==
    ASSUME NEW a \in Seq(Nat), NEW q, Answered(q, a), Len(q) = 2 * Len(a)
    PROVE  [i \in 1 .. Len(a) |-> Word(q, i)] = a
<1>1. Len(a) \in Nat /\ a = [i \in 1 .. Len(a) |-> a[i]]
  BY LenProperties
<1>2. ASSUME NEW i \in 1 .. Len(a) PROVE Word(q, i) = a[i]
  <2>1. 2 * i - 1 <= Len(q) /\ 2 * i <= Len(q)
    BY <1>1
  <2>2. q[2 * i - 1] = High(a[i]) /\ q[2 * i] = Low(a[i])
    BY <2>1 DEF Answered
  <2>3. q[2 * i].word = a[i] /\ q[2 * i].half = "low"
    BY <2>2 DEF Low
  <2> QED
    BY <2>1, <2>2, <2>3 DEF Word, High
<1> QED
  BY <1>1, <1>2

LEMMA NothingAnswered == Answered(<<>>, <<>>)
BY EmptySeq DEF Answered
-----------------------------------------------------------------------------
(* Where a call is.                                                        *)

Undisturbed == kills = 0 /\ StepInv /\ AccessInv

\* A call waits for its request or has its interrupt; between calls the ZPU is idle.
LEMMA Phase ==
    ASSUME Undisturbed
    PROVE  /\ CountsInv /\ Roomy /\ Parts /\ stalls = 0
           /\ ValuesInv /\ Reading /\ Answering
           /\ served <= calls /\ calls <= served + 1
           /\ served < calls => Waiting /\ ~latched
           /\ served = calls => state = "GET_CMD" /\ rxq = <<>>
           /\ served < calls /\ state # "GET_CMD" => req = op
           /\ cpc \in InCall => op \in Ops
           /\ served < calls => op \in Ops
           /\ rxq # <<>> => 1 \in 1 .. Len(rxq) /\ Head(rxq) = rxq[1]
           /\ state = "GET_CMD" /\ rxq # <<>> => Head(rxq).req = op
<1>1. stalls = 0 /\ kills = 0 /\ ValuesInv /\ Reading /\ Answering /\ CountsInv
  BY DEF Undisturbed, AccessInv, StepInv
<1>2. Roomy
  BY <1>1, RequestsFit DEF Roomy
<1>3. Parts
  BY <1>2 DEF Undisturbed, StepInv, Parts
<1>4. /\ Len(rxq) \in Nat /\ Len(rxq) <= 5 * (calls - served)
      /\ served + (IF state = "GET_CMD" THEN 0 ELSE 1) <= calls
      /\ calls \in Nat /\ served \in Nat /\ latched \in BOOLEAN
  BY <1>1, <1>3, Served DEF CountsInv, Parts
<1>5. (calls - served) + (IF latched THEN 1 ELSE 0) <= (IF Waiting THEN 1 ELSE 0)
  BY <1>1, <1>3 DEF Parts, Wakeups
<1>6. served <= calls /\ calls <= served + 1 /\ (served < calls => Waiting /\ ~latched)
  BY <1>4, <1>5
<1>7. rxq # <<>> => Len(rxq) >= 1 /\ 1 \in 1 .. Len(rxq) /\ Head(rxq) = rxq[1]
  BY <1>1, <1>3, <1>4, LenOfRequests, TailOfRequests DEF Parts, Aligned, CountsInv
<1>8. served = calls => state = "GET_CMD" /\ rxq = <<>>
  BY <1>4, <1>7
<1>9. cpc \in InCall => op \in Ops
  BY <1>3 DEF Parts, Current
<1>10. served < calls => op \in Ops /\ op # NoOp
  BY <1>3, <1>6, <1>9 DEF Waiting, InCall, Parts, Current
<1>11. served < calls /\ state # "GET_CMD" => req = op
  BY <1>3, <1>4, <1>6, <1>10 DEF Parts, Current
<1>12. ASSUME state = "GET_CMD", rxq # <<>> PROVE Head(rxq).req = op
  <2>1. served < calls /\ calls = served + 1
    BY <1>4, <1>6, <1>8, <1>12
  <2>2. rxq[1].nr = calls
    BY <1>3, <1>12, <2>1 DEF Parts, Aligned, NextNr, Busy, Gets
  <2> QED
    BY <1>3, <1>7, <1>10, <1>12, <2>1, <2>2 DEF Parts, Current
<1> QED
  BY <1>1, <1>2, <1>3, <1>6, <1>7, <1>8, <1>9, <1>10, <1>11, <1>12

Kept == stalls = 0 /\ ValuesInv /\ Reading /\ Answering

LEMMA OpData ==
    ASSUME NEW o \in Ops
    PROVE  /\ o.dat \in Nat
           /\ o.rwn = "WRITE" => o \in Pokes /\ o.adr \in Registers /\ o.dat \in Values /\ o.cnt = 1
           /\ o.rwn = "READ" => \/ o \in Atomic!Peeks /\ o.adr \in Registers /\ o.cnt = 1
                                \/ o \in Atomic!Streams /\ o.adr = Stream
           /\ o.rwn = "READ" => o \notin Pokes
<1>1. CASE o \in Pokes
  BY <1>1, ValuesAssumption DEF Pokes, Atomic!Pokes
<1>2. CASE o \in Atomic!Peeks
  BY <1>2 DEF Pokes, Atomic!Pokes, Atomic!Peeks
<1>3. CASE o \in Atomic!Streams
  BY <1>3 DEF Pokes, Atomic!Pokes, Atomic!Streams
<1> QED
  BY <1>1, <1>2, <1>3 DEF Ops, Atomic!Ops, Pokes

\* The ZPU takes a byte of the request of the call.
LEMMA TakeAccess == ASSUME Undisturbed, Take PROVE Kept'
<1>1. /\ rxq # <<>> /\ state \in Gets
      /\ state' = CASE state = "GET_CMD"  -> "GET_ADRH"
                    [] state = "GET_ADRH" -> "GET_ADRL"
                    [] state = "GET_ADRL" -> (IF req.rwn = "READ" THEN "RET_READ" ELSE "GET_DATH")
                    [] state = "GET_DATH" -> "GET_DATL"
                    [] state = "GET_DATL" -> "RET_WRITE"
      /\ req' = (IF state = "GET_CMD" THEN Head(rxq).req ELSE req)
      /\ readcnt' = (IF state = "GET_CMD" THEN Head(rxq).req.cnt ELSE readcnt)
      /\ dat' = (IF state = "GET_DATL" THEN Head(rxq).req.dat ELSE dat)
      /\ UNCHANGED <<regs, samples, noflow, txq, stalled, cpc, op, snap, got, ans, served, calls,
                     stalls>>
  BY DEF Take, GetCmd, GetAdr, GetDat, Gets, board, cpu, counts, history
<1>2. served < calls /\ op \in Ops /\ Head(rxq) = rxq[1] /\ rxq[1] \in RequestBytes
  <2>1. CountsInv /\ Aligned /\ 1 \in 1 .. Len(rxq) /\ Head(rxq) = rxq[1]
    BY <1>1, Phase DEF Parts
  <2>2. rxq[1] \in RequestBytes
    BY <2>1, Served
  <2>3. served \in Nat /\ calls \in Nat /\ served <= calls /\ served # calls
    BY <1>1, <2>1, Phase DEF CountsInv
  <2> QED
    BY <2>1, <2>2, <2>3, Phase
<1>3. state' # "GET_CMD" /\ req' \in Ops
  <2>1. Taken'
    BY Phase, TakeStep DEF Parts
  <2> QED
    BY <1>1, <2>1 DEF Gets, Taken
<1>4. ans = <<>> /\ (state # "GET_CMD" => readcnt = req.cnt /\ req = op)
      /\ (state = "GET_CMD" => Head(rxq).req = op)
  BY <1>1, <1>2, Phase DEF Reading, Inside
<1>5. req' = op /\ readcnt' = op.cnt /\ op.cnt \in 1 .. MaxCount /\ op.cnt \in Nat
  BY <1>1, <1>2, <1>4, OpFacts
<1>6. dat' \in Nat
  <2>1. Head(rxq).req \in Ops
    BY <1>2 DEF RequestBytes
  <2>2. Head(rxq).req.dat \in Nat
    BY <2>1, OpData
  <2> QED
    BY <1>1, <2>2, Phase DEF ValuesInv
<1>7. ValuesInv'
  <2>1. readcnt' \in 0 .. MaxCount
    BY <1>5, AnswersFit
  <2> QED
    BY <1>1, <1>3, <1>6, <2>1, Phase DEF ValuesInv
<1>8. Reading'
  <2>1. Len(ans) = 0 /\ readcnt' = op.cnt - Len(ans) /\ Len(ans) < op.cnt
    BY <1>4, <1>5, EmptySeq
  <2>2. state' \notin Puts \cup {"raise"}
    BY <1>1 DEF Gets, Puts
  <2> QED
    BY <1>1, <1>4, <1>5, <2>1, <2>2 DEF Reading
<1>9. Filled' = Filled
  BY <1>1 DEF Filled, Gets
<1>10. Answering'
  BY <1>1, <1>9, Phase DEF Answering
<1> QED
  BY <1>1, <1>7, <1>8, <1>10, Phase DEF Kept

LEMMA RetWriteAccess ==
    ASSUME Undisturbed, RetWrite
    PROVE  Kept' /\ op \in Pokes /\ ans = <<>> /\ regs' = [regs EXCEPT ![op.adr] = op.dat]
<1>1. /\ state = "RET_WRITE" /\ state' = "raise" /\ ans' = <<Atomic!Done>>
      /\ regs' = [regs EXCEPT ![req.adr] = dat]
      /\ UNCHANGED <<samples, noflow, txq, req, readcnt, dat, stalled, cpc, op, snap, got,
                     served, calls, stalls>>
  BY DEF RetWrite, ram, cpu, counts
<1>2. served < calls /\ op \in Ops /\ req = op
  BY <1>1, Phase DEF CountsInv
<1>3. op.rwn = "WRITE" /\ dat = op.dat
  BY <1>1, <1>2, Phase DEF Parts, Taken
<1>4. op \in Pokes /\ op.adr \in Registers /\ op.dat \in Values /\ op.cnt = 1
  BY <1>2, <1>3, OpData
<1>5. ans = <<>> /\ regs' = [regs EXCEPT ![op.adr] = op.dat]
  BY <1>1, <1>2, <1>3, Phase DEF Reading
<1>6. ans' \in Seq(Nat) /\ Len(ans') = 1
  BY <1>1 DEF Atomic!Done
<1>7. ValuesInv'
  <2>1. regs' \in [Registers -> Values]
    BY <1>4, <1>5, Phase DEF ValuesInv
  <2> QED
    BY <1>1, <1>6, <2>1, Phase DEF ValuesInv
<1>8. Reading'
  BY <1>1, <1>4, <1>6 DEF Reading, Gets, Puts, Inside
<1>9. Filled' = 0 /\ Filled = 0
  BY <1>1, <1>3 DEF Filled
<1>10. Answering'
  <2>1. cpc \in InCall \ {"return"}
    BY <1>2, Phase DEF Waiting, InCall
  <2>2. Answered(txq, ans) /\ Len(txq) = 0 /\ got = <<>>
    BY <1>9, <2>1, Phase DEF Answering
  <2>3. Answered(txq, ans')
    BY <1>6, <2>2 DEF Answered
  <2> QED
    BY <1>1, <1>2, <1>9, <2>1, <2>2, <2>3, Phase DEF Answering
<1> QED
  BY <1>1, <1>4, <1>5, <1>7, <1>8, <1>10, Phase DEF Kept

LEMMA RetReadAccess ==
    ASSUME Undisturbed, RetRead
    PROVE  /\ Kept' /\ op \in Ops \ Pokes /\ req = op /\ dat' \in Nat
           /\ ans \in Seq(Nat) /\ Len(ans) < op.cnt
<1>1. /\ state = "RET_READ" /\ state' = "putc_high"
      /\ readcnt' = (readcnt - 1) % 256
      /\ dat' = (IF req.adr = Stream THEN samples + 1 ELSE regs[req.adr])
      /\ samples' = (IF req.adr = Stream THEN samples + 1 ELSE samples)
      /\ ans' = Append(ans, dat')
      /\ UNCHANGED <<regs, noflow, txq, req, stalled, cpc, op, snap, got, served, calls, stalls>>
  BY DEF RetRead, ram, cpu, counts
<1>2. served < calls /\ op \in Ops /\ req = op /\ Waiting
  BY <1>1, Phase DEF CountsInv
<1>3. op.rwn = "READ" /\ op \notin Pokes /\ op.cnt \in 1 .. MaxCount
  BY <1>1, <1>2, OpFacts, OpData, Phase DEF Parts, Taken
<1>4. /\ ans \in Seq(Nat) /\ Len(ans) \in Nat /\ Len(ans) < op.cnt
      /\ readcnt = op.cnt - Len(ans)
  <2>1. ans \in Seq(Nat)
    BY Phase DEF ValuesInv
  <2> QED
    BY <1>1, <1>2, <2>1, LenProperties, Phase DEF Reading
<1>5. dat' \in Nat /\ samples' \in Nat
  <2>1. samples \in Nat /\ regs \in [Registers -> Values]
    BY Phase DEF ValuesInv
  <2>2. req.adr # Stream => regs[req.adr] \in Nat
    BY <1>2, <1>3, <2>1, OpData, ValuesAssumption
  <2> QED
    BY <1>1, <2>1, <2>2
<1>6. readcnt' = op.cnt - (Len(ans) + 1) /\ readcnt' \in 0 .. MaxCount
  <2> DEFINE c == op.cnt
             l == Len(ans)
  <2>0. /\ c \in 1 .. MaxCount /\ MaxCount \in 1 .. 64
        /\ l \in Nat /\ l < c /\ readcnt = c - l
    BY <1>3, <1>4, AnswersFit
  <2> HIDE DEF c, l
  <2>1. readcnt - 1 \in 0 .. 63 /\ readcnt - 1 \in 0 .. MaxCount /\ readcnt - 1 = c - (l + 1)
    BY <2>0
  <2>2. \A k \in 0 .. 63 : k % 256 = k
    OBVIOUS
  <2>3. readcnt' = readcnt - 1
    BY <1>1, <2>1, <2>2
  <2> QED
    BY <2>1, <2>3 DEF c, l
<1>7. /\ cpc \in InCall \ {"return"} /\ got = <<>>
      /\ Answered(txq, ans) /\ Len(txq) = 2 * Len(ans)
  <2>1. cpc \in InCall \ {"return"}
    BY <1>2 DEF Waiting, InCall
  <2> QED
    BY <1>1, <1>3, <2>1, Phase DEF Answering, Filled
<1>8. /\ Answered(txq, ans') /\ ans' \in Seq(Nat) /\ ans' # <<>> /\ Len(ans') = Len(ans) + 1
      /\ ans'[Len(ans')] = dat'
  BY <1>1, <1>4, <1>5, <1>7, AnsweredMore
<1>9. ValuesInv'
  BY <1>1, <1>5, <1>6, <1>8, Phase DEF ValuesInv
<1>10. Reading'
  BY <1>1, <1>6, <1>8 DEF Reading, Gets, Inside
<1>11. Answering'
  <2>1. Filled' = 2 * Len(ans') - 2
    BY <1>1, <1>3 DEF Filled
  <2>2. Len(txq) = Filled'
    BY <1>4, <1>7, <1>8, <2>1
  <2> QED
    BY <1>1, <1>2, <1>7, <1>8, <2>2, Phase DEF Answering
<1> QED
  BY <1>1, <1>2, <1>3, <1>4, <1>5, <1>9, <1>10, <1>11, Phase DEF Kept

\* There is room for every byte of the answer.
LEMMA Putting ==
    ASSUME Undisturbed, state \in Puts
    PROVE  /\ served < calls /\ op \in Ops /\ op.rwn = "READ" /\ req = op
           /\ Waiting /\ cpc \in InCall \ {"return"} /\ got = <<>>
           /\ Answered(txq, ans) /\ Len(txq) = Filled /\ Len(txq) < TxCap
           /\ ans \in Seq(Nat) /\ ans # <<>> /\ dat = ans[Len(ans)]
           /\ readcnt = op.cnt - Len(ans) /\ readcnt \in Nat /\ Len(ans) \in Nat
<1>1. served < calls /\ op \in Ops /\ req = op /\ Waiting
  BY Phase DEF CountsInv, Puts
<1>2. op.rwn = "READ" /\ op.cnt \in 1 .. MaxCount
  BY <1>1, OpFacts, Phase DEF Parts, Taken, Puts
<1>3. cpc \in InCall \ {"return"}
  BY <1>1 DEF Waiting, InCall
<1>4. /\ ans \in Seq(Nat) /\ Len(ans) \in Nat /\ ans # <<>> /\ dat = ans[Len(ans)]
      /\ readcnt = op.cnt - Len(ans) /\ readcnt \in Nat
  <2>1. ans \in Seq(Nat) /\ readcnt \in Nat
    BY AnswersFit, Phase DEF ValuesInv
  <2>2. Len(ans) \in Nat
    BY <2>1, LenProperties
  <2> QED
    BY <1>1, <2>1, <2>2, Phase DEF Reading
<1>5. Answered(txq, ans) /\ Len(txq) = Filled /\ got = <<>>
  BY <1>3, Phase DEF Answering
<1>6. Filled \in {2 * Len(ans) - 2, 2 * Len(ans) - 1}
  BY <1>2 DEF Filled, Puts
<1>7. Filled < TxCap
  BY <1>2, <1>4, <1>6, AnswersFit
<1> QED
  BY <1>1, <1>2, <1>3, <1>4, <1>5, <1>7

LEMMA PutcAccess == ASSUME Undisturbed, Putc PROVE Kept'
<1>1. /\ state \in Puts
      /\ txq' = (IF Len(txq) < TxCap THEN Append(txq, Half) ELSE <<>>)
      /\ state' = (IF state = "putc_high" THEN "putc_low"
                   ELSE IF readcnt = 0 THEN "raise" ELSE "RET_READ")
      /\ stalled' = FALSE
      /\ UNCHANGED <<regs, samples, noflow, req, readcnt, dat, cpc, op, snap, got, ans, served,
                     calls, stalls>>
  BY DEF Putc, board, cpu, counts, history
<1>2. /\ served < calls /\ op.rwn = "READ" /\ Waiting /\ cpc \in InCall \ {"return"} /\ got = <<>>
      /\ Answered(txq, ans) /\ Len(txq) = Filled /\ ans \in Seq(Nat) /\ ans # <<>>
      /\ dat = ans[Len(ans)] /\ readcnt = op.cnt - Len(ans) /\ readcnt \in Nat
      /\ Len(ans) \in Nat /\ txq' = Append(txq, Half)
  BY <1>1, Putting
<1>3. \/ Len(txq) = 2 * Len(ans) - 2 /\ Half = High(ans[Len(ans)]) /\ state = "putc_high"
      \/ Len(txq) = 2 * Len(ans) - 1 /\ Half = Low(ans[Len(ans)]) /\ state = "putc_low"
  BY <1>1, <1>2 DEF Filled, Half, High, Low, Puts
<1>4. Answered(txq', ans) /\ Len(txq') = Len(txq) + 1
  BY <1>2, <1>3, AnsweredPut
<1>5. ValuesInv'
  BY <1>1, Phase DEF ValuesInv
<1>6. Reading'
  <2>1. op.cnt \in Nat
    BY OpFacts, <1>1, Putting
  <2>2. state' = "RET_READ" => Len(ans) < op.cnt
    BY <1>1, <1>2, <2>1 DEF Puts
  <2>3. state' = "raise" => Len(ans) = op.cnt
    BY <1>1, <1>2, <2>1
  <2> QED
    BY <1>1, <1>2, <2>2, <2>3 DEF Reading, Gets, Puts, Inside
<1>7. Len(txq') = Filled'
  <2>1. CASE state = "putc_high"
    BY <1>1, <1>2, <1>3, <1>4, <2>1 DEF Filled
  <2>2. CASE state = "putc_low"
    <3>1. state' \in {"raise", "RET_READ"}
      BY <1>1, <2>2
    <3>2. Filled' = 2 * Len(ans)
      BY <1>1, <1>2, <3>1 DEF Filled
    <3> QED
      BY <1>2, <1>3, <1>4, <2>2, <3>2
  <2> QED
    BY <1>1, <2>1, <2>2 DEF Puts
<1>8. Answering'
  <2>1. served' # calls' /\ snap' = 0 /\ cpc' \in InCall \ {"return", "get_tail"} /\ got' = <<>>
    <3>1. cpc \in {"recalc", "select"} /\ served # calls
      BY <1>2, Phase DEF Waiting, CountsInv
    <3> QED
      BY <1>1, <1>2, <3>1, Phase DEF InCall, Answering
  <2>2. ans' = ans
    BY <1>1
  <2> QED
    BY <1>4, <1>7, <2>1, <2>2 DEF Answering
<1> QED
  BY <1>1, <1>5, <1>6, <1>8, Phase DEF Kept

LEMMA NeverStalls == ASSUME Undisturbed PROVE ~Stall
BY Putting DEF Stall

LEMMA RaiseAccess == ASSUME Undisturbed, Raise PROVE Kept'
<1>1. /\ state = "raise" /\ state' = "GET_CMD" /\ served' = served + 1
      /\ UNCHANGED <<regs, samples, noflow, txq, req, readcnt, dat, stalled, cpc, op, snap, got,
                     ans, calls, stalls>>
  BY DEF Raise, board, ram, cpu
<1>2. served < calls /\ calls <= served + 1 /\ served \in Nat /\ calls \in Nat
  BY <1>1, Phase DEF CountsInv
<1>3. served' = calls /\ Len(ans) = op.cnt
  BY <1>1, <1>2, Phase DEF Reading
<1>4. ValuesInv'
  BY <1>1, Phase DEF ValuesInv
<1>5. Reading'
  BY <1>1, <1>2, <1>3 DEF Reading
<1>6. Filled' = Filled
  BY <1>1 DEF Filled
<1>7. Answering'
  BY <1>1, <1>3, <1>6, Phase DEF Answering
<1> QED
  BY <1>1, <1>4, <1>5, <1>7, Phase DEF Kept

\* A call begins with empty FIFOs.
LEMMA CallAccess == ASSUME Undisturbed, NEW o \in Ops, Call(o) PROVE Kept'
<1>1. /\ cpc = "idle" /\ cpc' = "recalc" /\ op' = o /\ ans' = <<>> /\ calls' = calls + 1
      /\ UNCHANGED <<regs, samples, noflow, txq, state, req, readcnt, dat, stalled, snap, got,
                     served, stalls>>
  BY DEF Call, board, zpu
<1>2. txq = <<>> /\ got = <<>> /\ snap = 0
  BY <1>1, Phase DEF Answering, InCall
<1>3. served = calls /\ state = "GET_CMD"
  <2>1. served \in Nat /\ calls \in Nat
    BY Phase DEF CountsInv
  <2> QED
    BY <1>1, <2>1, Phase DEF Waiting
<1>4. ValuesInv'
  BY <1>1, Phase DEF ValuesInv
<1>5. Reading'
  BY <1>1, <1>3 DEF Reading, Gets, Puts, Inside
<1>6. Filled' = 0
  BY <1>1, <1>3, EmptySeq DEF Filled
<1>7. Answering'
  <2>1. served' # calls'
    BY <1>1, <1>3, Phase DEF CountsInv
  <2>2. Len(<<>>) = 0
    BY EmptySeq
  <2> QED
    BY <1>1, <1>2, <1>6, <2>1, <2>2, NothingAnswered DEF Answering, InCall
<1> QED
  BY <1>1, <1>4, <1>5, <1>7, Phase DEF Kept

\* The answer is complete when the interrupt is taken.
LEMMA GetHeadAccess == ASSUME Undisturbed, GetHead PROVE Kept'
<1>1. /\ cpc = "get_head" /\ cpc' = "get_tail" /\ snap' = Lesser(Len(txq), Wanted(op))
      /\ UNCHANGED <<regs, samples, noflow, txq, state, req, readcnt, dat, stalled, op, got, ans,
                     served, calls, stalls>>
  BY DEF GetHead, board, ram, zpu, history, counts
<1>2. served = calls /\ state = "GET_CMD" /\ op \in Ops
  <2>1. served \in Nat /\ calls \in Nat
    BY Phase DEF CountsInv
  <2> QED
    BY <1>1, <2>1, Phase DEF Waiting, InCall
<1>3. Len(txq) = Filled /\ Len(ans) = op.cnt /\ got = <<>> /\ Answered(txq, ans)
  BY <1>1, <1>2, Phase DEF Answering, InCall
<1>4. Filled = IF op.rwn = "WRITE" THEN 0 ELSE 2 * op.cnt
  BY <1>2, <1>3 DEF Filled
<1>5. snap' = Len(txq)
  BY <1>1, <1>2, <1>3, <1>4, OpFacts DEF Lesser, Wanted
<1>6. Filled' = Filled
  BY <1>1 DEF Filled
<1>7. ValuesInv' /\ Reading'
  BY <1>1, Phase DEF ValuesInv, Reading, Inside
<1>8. Answering'
  BY <1>1, <1>3, <1>5, <1>6 DEF Answering, InCall
<1> QED
  BY <1>1, <1>7, <1>8, Phase DEF Kept

LEMMA GetTailAccess == ASSUME Undisturbed, GetTail PROVE Kept'
<1>1. /\ cpc = "get_tail" /\ cpc' = "return" /\ snap' = 0
      /\ got' = SubSeq(txq, 1, snap) /\ txq' = SubSeq(txq, snap + 1, Len(txq))
      /\ UNCHANGED <<regs, samples, noflow, state, req, readcnt, dat, stalled, op, ans, served,
                     calls, stalls>>
  BY DEF GetTail, board, zpu, history, counts
<1>2. /\ snap = Len(txq) /\ Answered(txq, ans) /\ Len(txq) = Filled
      /\ (served = calls => Len(ans) = op.cnt)
  BY <1>1, Phase DEF Answering, InCall
<1>3. txq \in Seq(AnswerBytes) /\ Len(txq) \in Nat
  BY <1>2, LenProperties DEF Answered
<1>4. got' = txq /\ txq' = <<>>
  BY <1>1, <1>2, <1>3, SubSeqFull, SubSeqEmpty
<1>5. Filled' = Filled
  BY <1>1 DEF Filled
<1>6. ValuesInv' /\ Reading'
  BY <1>1, Phase DEF ValuesInv, Reading, Inside
<1>7. Answering'
  BY <1>1, <1>2, <1>4, <1>5 DEF Answering, InCall
<1> QED
  BY <1>1, <1>6, <1>7, Phase DEF Kept

\* The other steps of the CPU leave the FIFOs as they are, or throw away nothing.
LEMMA CpuAccess ==
    ASSUME Undisturbed,
           \/ InitFlow \/ InitHead \/ InitTail \/ InitDrain \/ Recalc \/ Select \/ Return \/ Leave
           \/ UNCHANGED vars
    PROVE  Kept'
<1> USE DEF line, board, ram, zpu, cpu, counts, history
<1>1. CASE InitFlow \/ InitHead \/ InitTail \/ InitDrain \/ (Recalc /\ cpc = "init_space")
           \/ Return \/ Leave
  <2>1. /\ UNCHANGED <<regs, samples, state, req, readcnt, dat, stalled, ans, served, calls,
                       stalls>>
        /\ noflow' \in BOOLEAN
    BY <1>1, Phase DEF InitFlow, InitHead, InitTail, InitDrain, Recalc, Return, Leave, ValuesInv
  <2>2. cpc' \notin InCall /\ cpc \notin InCall \ {"return"}
    BY <1>1 DEF InitFlow, InitHead, InitTail, InitDrain, Recalc, Return, Leave, Gone, InCall
  <2>3. txq = <<>> /\ snap = 0 /\ (cpc # "return" => got = <<>>)
    BY <2>2, Phase DEF Answering, InCall
  <2>4. served = calls
    <3>1. served \in Nat /\ calls \in Nat /\ ~Waiting
      BY <2>2, Phase DEF CountsInv, Waiting, InCall
    <3> QED
      BY <3>1, Phase
  <2>5. txq' = <<>> /\ snap' = 0 /\ got' = <<>>
    <3>1. Len(<<>>) = 0 /\ SubSeq(<<>>, 0 + 1, 0) = <<>>
      BY EmptySeq, SubSeqEmpty
    <3>2. CASE InitTail
      BY <2>3, <3>1, <3>2 DEF InitTail
    <3>3. CASE InitHead
      BY <2>3, <3>1, <3>3 DEF InitHead
    <3>4. CASE Return \/ Leave
      BY <2>3, <3>4 DEF Return, Leave, Gone
    <3>5. CASE InitFlow \/ InitDrain \/ (Recalc /\ cpc = "init_space")
      <4>1. cpc # "return" /\ UNCHANGED <<txq, snap, got>>
        BY <3>5 DEF InitFlow, InitDrain, Recalc
      <4> QED
        BY <2>3, <4>1
    <3> QED
      BY <1>1, <3>2, <3>3, <3>4, <3>5
  <2>6. ValuesInv' /\ Reading'
    <3>1. ~(served' < calls')
      BY <2>1, <2>4, Phase DEF CountsInv
    <3> QED
      BY <2>1, <3>1, Phase DEF ValuesInv, Reading
  <2>7. Answering'
    <3>1. Len(<<>>) = 0
      BY EmptySeq
    <3> QED
      BY <2>2, <2>5, <3>1 DEF Answering, InCall
  <2> QED
    BY <2>1, <2>6, <2>7, Phase DEF Kept
<1>2. CASE (Recalc /\ cpc = "recalc") \/ Select
  <2>1. /\ UNCHANGED <<regs, samples, noflow, txq, state, req, readcnt, dat, stalled, op, snap,
                       got, ans, served, calls, stalls>>
        /\ cpc \in InCall \ {"return", "get_tail"} /\ cpc' \in InCall \ {"return", "get_tail"}
    BY <1>2 DEF Recalc, Select, InCall
  <2>2. ValuesInv' /\ Reading'
    BY <2>1, Phase DEF ValuesInv, Reading, Inside
  <2>3. Filled' = Filled
    BY <2>1 DEF Filled
  <2>4. Answering'
    BY <2>1, <2>3, Phase DEF Answering
  <2> QED
    BY <2>1, <2>2, <2>4, Phase DEF Kept
<1>3. CASE UNCHANGED vars
  BY <1>3, Phase DEF vars, Kept, ValuesInv, Reading, Inside, Answering, Filled
<1>4. Recalc => cpc \in {"recalc", "init_space"}
  BY DEF Recalc
<1> QED
  BY <1>1, <1>2, <1>3, <1>4

LEMMA AccessStep == Undisturbed /\ [Next]_vars => AccessInv'
<1> SUFFICES ASSUME Undisturbed, [Next]_vars, kills' = 0
             PROVE  Kept'
  BY DEF AccessInv, Kept
<1>1. ~Kill
  BY DEF Kill, Undisturbed
<1> QED
  BY <1>1, TakeAccess, RetWriteAccess, RetReadAccess, PutcAccess, NeverStalls, RaiseAccess,
     CallAccess, GetHeadAccess, GetTailAccess, CpuAccess
     DEF Next, ZpuNext, CpuStep, Take

LEMMA InitAccess == Init => AccessInv
<1> SUFFICES ASSUME Init PROVE AccessInv
  OBVIOUS
<1>1. ValuesInv
  <2>1. 0 \in 0 .. MaxCount /\ 0 \in Nat /\ <<>> \in Seq(Nat)
    BY AnswersFit
  <2> QED
    BY <2>1 DEF Init, ValuesInv
<1>2. Reading
  BY DEF Init, Reading
<1>3. Answering
  BY DEF Init, Answering, InCall
<1> QED
  BY <1>1, <1>2, <1>3 DEF AccessInv, Init

LEMMA DeathsStay == StepInv /\ [Next]_vars => (kills' = 0 => kills = 0)
<1> SUFFICES ASSUME StepInv, [Next]_vars, kills' = 0 PROVE kills = 0
  OBVIOUS
<1>1. kills \in Nat
  BY DEF StepInv, CountsInv
<1>2. kills' \in {kills, kills + 1}
  BY DEF Next, ZpuNext, CpuStep, GetCmd, GetAdr, GetDat, RetWrite, RetRead, Putc, Stall, Raise,
         InitFlow, InitHead, InitTail, InitDrain, Recalc, Select, GetHead, GetTail, Return,
         Call, Leave, Kill, vars, history, counts
<1> QED
  BY <1>1, <1>2

LEMMA AccessInvAlways == Spec => [](StepInv /\ AccessInv)
<1>1. Init => AccessInv
  BY InitAccess
<1>2. StepInv /\ AccessInv /\ [Next]_vars => AccessInv'
  BY AccessStep, DeathsStay DEF Undisturbed, AccessInv
<1> QED
  BY <1>1, <1>2, StepInvAlways, PTL DEF Spec

-----------------------------------------------------------------------------
(* What follows.                                                           *)

\* As long as no process has died, what the registers, the FIFOs and the variables of
\* zpu_muxbus and its callers hold are values of their kinds: no FIFO is overrun, and
\* zpu_fifo_get is never given more than its caller has room for.
THEOREM TypesWithoutDeaths == Spec => [](kills = 0 => TypeOK)
<1>1. StepInv /\ AccessInv => (kills = 0 => TypeOK)
  <2> SUFFICES ASSUME StepInv, AccessInv, kills = 0 PROVE TypeOK
    OBVIOUS
  <2>1. Undisturbed
    BY DEF Undisturbed
  <2>2. /\ CountsInv /\ ValuesInv /\ Reading /\ Answering /\ Parts
        /\ Roomy /\ stalls = 0 /\ calls <= served + 1 /\ served <= calls
        /\ cpc \in InCall => op \in Ops
    BY <2>1, Phase
  <2>3. /\ calls \in Nat /\ served \in Nat /\ RxCap \in Nat /\ RxCap >= 10
        /\ Len(rxq) \in Nat /\ Len(rxq) <= 5 * (calls - served)
    BY <2>2, Served, RequestsFit DEF CountsInv, Parts
  <2>4. Len(rxq) <= RxCap
    BY <2>2, <2>3
  <2>5. spc \in 0 .. RxCap
    <3>1. spc \in Nat /\ (spc = 0 \/ spc <= RxCap - Len(rxq))
      BY <2>2 DEF SpaceInv, Parts
    <3> QED
      BY <2>3, <3>1
  <2>6. /\ irq \in BOOLEAN /\ latched \in BOOLEAN /\ state \in States
        /\ regs \in [Registers -> Values] /\ samples \in Nat /\ noflow \in BOOLEAN
        /\ req \in Ops \cup {NoOp} /\ readcnt \in 0 .. MaxCount /\ dat \in Nat
        /\ stalled \in BOOLEAN
    BY <2>2 DEF CountsInv, ValuesInv
  <2>7. op \in Ops \cup {NoOp}
    BY <2>2 DEF Parts, Current
  \* An answer never has more bytes than were asked for.
  <2>8. cpc \in InCall => Filled \in 0 .. 2 * MaxCount
    <3> SUFFICES ASSUME cpc \in InCall PROVE Filled \in 0 .. 2 * MaxCount
      OBVIOUS
    <3>1. op \in Ops /\ op.cnt \in 1 .. MaxCount /\ MaxCount \in Nat
      BY <2>2, OpFacts, AnswersFit
    <3>2. ans \in Seq(Nat) /\ Len(ans) \in Nat /\ readcnt \in Nat
      BY <2>2, LenProperties, AnswersFit DEF ValuesInv
    <3>3. Len(ans) <= op.cnt /\ (state \in Puts => Len(ans) >= 1)
      <4>1. CASE served = calls
        BY <2>1, <3>1, <3>2, <4>1, Phase DEF Answering, Puts
      <4>2. CASE served < calls
        <5>1. state \in Gets \cup {"RET_WRITE"} => Len(ans) = 0
          BY <2>2, <4>2, EmptySeq DEF Reading
        <5>2. state \in {"RET_READ", "raise"} => Len(ans) <= op.cnt
          BY <2>1, <3>1, <3>2, <4>2, Phase DEF Reading
        <5>3. state \in Puts => Len(ans) <= op.cnt /\ Len(ans) >= 1
          BY <2>1, <3>1, <3>2, Putting, EmptySeq
        <5> QED
          BY <2>6, <3>1, <3>2, <5>1, <5>2, <5>3 DEF States, Gets, Puts
      <4> QED
        BY <2>2, <2>3, <4>1, <4>2
    <3> QED
      BY <3>1, <3>2, <3>3 DEF Filled, Puts
  <2>9. Len(txq) \in 0 .. TxCap /\ Len(got) <= 2 * MaxCount
    <3>1. MaxCount \in Nat /\ TxCap \in Nat /\ 2 * MaxCount <= TxCap
      BY AnswersFit
    <3>2. /\ txq = <<>> \/ (cpc \in InCall /\ Len(txq) = Filled)
          /\ got = <<>> \/ (cpc \in InCall /\ Len(got) = Filled)
      BY <2>2 DEF Answering, InCall
    <3>3. Len(<<>>) = 0
      BY EmptySeq
    <3> QED
      BY <2>8, <3>1, <3>2, <3>3
  <2>10. snap \in 0 .. TxCap
    BY <2>2, <2>9, AnswersFit DEF Answering
  <2> QED
    BY <2>4, <2>5, <2>6, <2>7, <2>9, <2>10 DEF TypeOK
<1> QED
  BY <1>1, AccessInvAlways, PTL

LEMMA InitAtomic == Init => Atomic!Init
BY DEF Init, Atomic!Init, NoOp

\* Each step of the calls and of zpu_muxbus is a step of an atomic access, or none.
LEMMA AtomicStep ==
    ASSUME Undisturbed, [Next]_vars, kills' = 0
    PROVE  [Atomic!Next]_(Atomic!vars)
<1> USE DEF line, board, ram, zpu, cpu, counts, history
<1>1. ~Kill /\ ~Stall
  BY NeverStalls DEF Kill, Undisturbed
<1>2. ASSUME NEW o \in Ops, Call(o) PROVE Atomic!Call(o)
  <2>1. op = NoOp
    BY <1>2, Phase DEF Call, Parts, Current, InCall
  <2> QED
    BY <1>2, <2>1 DEF Call, Atomic!Call, NoOp
\* The strobe of a write.
<1>3. CASE RetWrite
  <2>1. op \in Pokes /\ ans = <<>> /\ regs' = [regs EXCEPT ![op.adr] = op.dat]
    BY <1>3, RetWriteAccess
  <2>2. op \in Ops /\ op # NoOp /\ op.cnt = 1 /\ Len(ans) = 0
    <3>1. op \in Ops
      BY <2>1 DEF Ops, Atomic!Ops, Pokes
    <3> QED
      BY <2>1, <3>1, OpFacts, EmptySeq DEF Pokes, Atomic!Pokes
  <2>3. ans' = <<Atomic!Done>> /\ UNCHANGED <<samples, op, ret>>
    BY <1>3 DEF RetWrite
  <2>4. Atomic!Execute
    BY <2>1, <2>2, <2>3 DEF Atomic!Execute, NoOp, Pokes
  <2> QED
    BY <2>4 DEF Atomic!Next
\* The strobe of the read of a word.
<1>4. CASE RetRead
  <2>1. op \in Ops /\ op \notin Pokes /\ req = op /\ ans \in Seq(Nat) /\ Len(ans) < op.cnt
    BY <1>4, RetReadAccess
  <2>2. op # NoOp /\ op.rwn = "READ"
    BY <2>1, OpFacts, OpData
  <2>3. /\ dat' = (IF op.adr = Stream THEN samples + 1 ELSE regs[op.adr])
        /\ samples' = (IF op.adr = Stream THEN samples + 1 ELSE samples)
        /\ ans' = Append(ans, dat') /\ UNCHANGED <<regs, op, ret>>
    BY <1>4, <2>1 DEF RetRead
  <2>4. CASE op \in Atomic!Peeks /\ op.adr \in Registers /\ op.cnt = 1
    <3>1. op.adr # Stream
      BY <2>4, StreamAssumption
    <3>2. Len(ans) = 0
      BY <2>1, <2>4, LenProperties
    <3>3. ans = <<>>
      BY <2>1, <3>2, EmptySeq
    <3>4. ans' = <<regs[op.adr]>> /\ UNCHANGED samples
      BY <2>3, <3>1, <3>3
    <3>5. Atomic!Execute
      BY <2>1, <2>2, <2>3, <2>4, <3>4 DEF Atomic!Execute, NoOp
    <3> QED
      BY <3>5 DEF Atomic!Next
  <2>5. CASE op \in Atomic!Streams /\ op.adr = Stream
    <3>1. samples' = samples + 1 /\ ans' = Append(ans, samples + 1)
      BY <2>3, <2>5
    <3>2. Atomic!Execute
      BY <2>1, <2>2, <2>3, <2>5, <3>1 DEF Atomic!Execute, NoOp
    <3> QED
      BY <3>2 DEF Atomic!Next
  <2> QED
    BY <2>1, <2>2, <2>4, <2>5, OpData
\* What is returned is what was read.
<1>5. CASE Return
  <2>1. /\ cpc = "return" /\ op' = NoOp
        /\ ret' = (IF op \in Pokes THEN <<>> ELSE [i \in 1 .. op.cnt |-> Word(got, i)])
        /\ UNCHANGED <<regs, samples, ans>>
    BY <1>5 DEF Return
  <2>2. /\ op \in Ops /\ op # NoOp /\ op.rwn \in {"READ", "WRITE"}
        /\ served = calls /\ state = "GET_CMD"
    <3>1. op \in Ops /\ ~Waiting
      BY <2>1, Phase DEF Waiting, InCall
    <3>2. served = calls
      BY <3>1, Phase DEF CountsInv
    <3> QED
      BY <3>1, <3>2, OpFacts, Phase
  <2>3. Len(ans) = op.cnt /\ ans \in Seq(Nat) /\ Answered(got, ans) /\ Len(got) = Filled
    BY <2>1, <2>2, Phase DEF Answering, InCall, ValuesInv
  <2>4. op \notin Pokes => ret' = ans
    <3> SUFFICES ASSUME op \notin Pokes PROVE ret' = ans
      OBVIOUS
    <3>1. op.rwn = "READ"
      BY <2>2, OpData
    <3>2. Len(got) = 2 * Len(ans)
      BY <2>2, <2>3, <3>1 DEF Filled
    <3> QED
      BY <2>1, <2>3, <3>2, AnsweredWords
  <2>5. Atomic!Return
    BY <2>1, <2>2, <2>3, <2>4 DEF Atomic!Return, NoOp, Pokes
  <2> QED
    BY <2>5 DEF Atomic!Next
<1>6. CASE Leave
  <2>1. op = NoOp
    BY <1>6, Phase DEF Leave, Parts, Current, InCall
  <2> QED
    BY <1>6, <2>1 DEF Leave, Gone, Atomic!vars
<1>7. CASE \/ GetCmd \/ GetAdr \/ GetDat \/ Putc \/ Raise \/ InitFlow \/ InitHead \/ InitTail
           \/ InitDrain \/ Recalc \/ Select \/ GetHead \/ GetTail \/ UNCHANGED vars
  BY <1>7 DEF GetCmd, GetAdr, GetDat, Putc, Raise, InitFlow, InitHead, InitTail, InitDrain,
              Recalc, Select, GetHead, GetTail, vars, Atomic!vars
<1> QED
  BY <1>1, <1>2, <1>3, <1>4, <1>5, <1>6, <1>7 DEF Next, ZpuNext, CpuStep, Atomic!Next, Ops

\* As long as no process dies, zpu_muxbus_peek16, zpu_muxbus_poke16 and
\* zpu_muxbus_peek16_stream are atomic accesses of the registers: each takes effect
\* once, before it returns, and returns the words that were read for it, although
\* zpu_muxbus answers through two FIFOs, one interrupt line and an event that may be
\* stale.
THEOREM AccessesAreAtomic == Spec /\ [](kills = 0) => AtomicAccess
<1>1. Init => Atomic!Init
  BY InitAtomic
<1>2. /\ StepInv /\ AccessInv /\ [Next]_vars /\ kills = 0 /\ (kills = 0)'
      => [Atomic!Next]_(Atomic!vars)
  BY AtomicStep DEF Undisturbed
<1> QED
  BY <1>1, <1>2, AccessInvAlways, PTL DEF Spec, AtomicAccess, Atomic!Spec
=============================================================================

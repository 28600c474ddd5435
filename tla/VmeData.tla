------------------------------ MODULE VmeData -------------------------------
(***************************************************************************)
(* The data of a scan in src/src/ispvm.c: rows are decoded from the bytes  *)
(* of the file or of a loop into the buffers, shifted, sent, compared with *)
(* what the devices answer, or mixed with it and sent back.                *)
(*                                                                         *)
(* A scan is a record: "size" in bits, "rows" the names of its rows in the *)
(* order of the file, and the "shift" of its TDI data.  For each row it    *)
(* says in "meant" what the row was before it was encoded, and in "late"   *)
(* how many of its bytes a loop leaves to the file.  The "counts" of a     *)
(* script tell whether a run is encoded by the number of its bytes ("all") *)
(* or by those after the first ("more").                                   *)
(***************************************************************************)
EXTENDS Integers, SequencesExt

CONSTANTS
    Scripts,        \* what is played: scans, the bytes they are read from
    Answers         \* the bits the devices may answer a scan of size bits

VARIABLES
    script,
    at,             \* the scan that is played
    row,            \* the next of its rows
    heap, file,     \* the bytes that were not read yet
    buf,            \* g_pucInData, g_pucOutData, masks: bytes
    pairs,          \* g_pLVDSList
    source,         \* "past" when a row was read past the end of its source,
                    \* "spins" when ispVMDataSize reads there for ever
    verdict,        \* whether the last comparison failed
    sent, answered, \* history: the bits of the last exchange
    expected        \* history: what they were compared with

vars == <<script, at, row, heap, file, buf, pairs, source, verdict, sent, answered,
          expected>>

VAR == 85
Scan == script.scans[at]
Bytes(bits) == (bits + 7) \div 8
Rest(s, n) == SubSeq(s, n + 1, Len(s))

\* A row, and how many bytes it used up; what never comes back has used none.
Got(r, n) == [row |-> r, used |-> n]
Never == [row |-> <<>>, size |-> 0, used |-> 0]

\* Past the end of its source GetByte gives 0xFF, as often as a row asks for it.
Padded(s, size) == s \o [i \in 1 .. 2 * size + 2 |-> 255]

\* The bits of bytes, first the most significant, and back.
Bits(s) == [k \in 1 .. 8 * Len(s) |-> (s[(k + 7) \div 8] \div 2 ^ (7 - ((k - 1) % 8))) % 2]
Bit(b, k) == IF k <= Len(b) THEN b[k] ELSE 0
Byte(b, i) ==
    LET v[k \in 0 .. 8] == IF k = 0 THEN 0 ELSE 2 * v[k - 1] + Bit(b, 8 * (i - 1) + k)
    IN  v[8]
Pack(b) == [i \in 1 .. Bytes(Len(b)) |-> Byte(b, i)]

-----------------------------------------------------------------------------
\* Numbers and rows as a VME file encodes them.

\* Seven bits a byte, the least significant first, with a mark on all but the
\* last; the callers keep sixteen of them.  It reads on until it finds the last.
ispVMDataSize(s) ==
    LET n == CHOOSE k \in 1 .. Len(s) : s[k] < 128 /\ \A j \in 1 .. k - 1 : s[j] >= 128
        v[k \in 1 .. n + 1] == IF k > n THEN 0 ELSE (s[k] % 128) + 128 * v[k + 1]
    IN  IF \A k \in 1 .. Len(s) : s[k] >= 128 THEN Never
        ELSE [size |-> v[1] % 2 ^ 16, used |-> n]

Plain(s, size) == Got(SubSeq(s, 1, size), size)

\* The key stands for itself and for as many more as the number after it says.
Chain(size, left) == IF size + 1 > left THEN left ELSE size + 1

\* Bytes, where a key is followed by the number of its repetitions.
Runs(s, size, key) ==
    LET f[p \in 1 .. Len(s) + 1, left \in 0 .. size] ==
            IF left = 0 THEN Got(<<>>, p - 1)
            ELSE IF s[p] # key
            THEN LET g == f[p + 1, left - 1] IN [g EXCEPT !.row = <<s[p]>> \o @]
            ELSE LET count == ispVMDataSize(Rest(s, p))
                     n == Chain(count.size, left)
                     g == IF count.used = 0 THEN Never ELSE f[p + count.used + 1, left - n]
                 IN  [g EXCEPT !.row = [i \in 1 .. n |-> key] \o @]
    IN  f[1, size]

\* A block of nibbles that repeats itself; what it leaves over is zero.
Nibble(s, j) == IF j % 2 = 0 THEN s[j \div 2 + 1] \div 16 ELSE s[j \div 2 + 1] % 16
Blocks(s, size, block) ==
    LET whole == block * ((size * 2) \div block)
        n(j) == IF j < whole THEN Nibble(s, j % block) ELSE 0
    IN  Got([i \in 1 .. size |-> 16 * n(2 * i - 2) + n(2 * i - 1)],
            (block + 1) \div 2)

\* The key where a bit is 0, the next eight bits where it is 1.
Huffman(s, size, key) ==
    LET b == Bits(s)
        f[k \in 1 .. Len(b) + 1, left \in 0 .. size] ==
            IF left = 0 THEN Got(<<>>, Bytes(k - 1))
            ELSE LET g == f[IF b[k] = 1 THEN k + 9 ELSE k + 1, left - 1]
                     byte == IF b[k] = 1 THEN Byte(SubSeq(b, k + 1, k + 8), 1) ELSE key
                 IN  [g EXCEPT !.row = <<byte>> \o @]
    IN  f[1, size]

\* A row with n bytes before it: the code of its compression, and a key.
After(n, g) == IF g.used = 0 THEN g ELSE [g EXCEPT !.used = @ + n]
Decode(s, size) ==
    CASE s[1] = 0 -> After(1, Plain(Tail(s), size))
      [] s[1] = 1 -> After(1, Runs(Tail(s), size, 0))
      [] s[1] = 2 -> After(1, Runs(Tail(s), size, 255))
      [] s[1] = 255 -> After(2, Huffman(Rest(s, 2), size, s[2]))
      [] OTHER -> After(1, Blocks(Tail(s), size, s[1]))

\* A row of a loop that varies is marked in the loop, and is in the file; a
\* plain row from the first byte with the value of the mark on.
Mark(size) ==
    IF ~script.loop THEN 0
    ELSE IF script.compress THEN IF Padded(heap, size)[1] = VAR THEN 1 ELSE 0
    ELSE LET first == SelectInSeq(heap, LAMBDA b : b = VAR)
         IN  IF first <= size THEN first ELSE 0

\* What lies behind a loop is taken for 0xFF at once.
ispVMData(size) ==
    LET m == Mark(size)
        looped == script.loop /\ m = 0
        from == IF looped THEN Padded(heap, size) ELSE Padded(file, size)
        got == IF script.compress THEN Decode(from, size)
               ELSE IF m = 0 THEN Plain(from, size)
               ELSE LET g == Plain(from, size - m + 1)
                    IN  Got(SubSeq(heap, 1, m - 1) \o g.row, g.used)
        inHeap == IF looped THEN got.used ELSE m
        inFile == IF looped THEN 0 ELSE got.used
    IN  [row |-> got.row, heap |-> Rest(heap, inHeap), file |-> Rest(file, inFile),
         source |-> IF got.used = 0 THEN "spins"
                    ELSE IF inHeap > Len(heap) \/ inFile > Len(file) THEN "past"
                    ELSE source]

-----------------------------------------------------------------------------
\* ispVMBitShift: a byte that becomes zero hands its bit to the byte before it,
\* which is the next one to the right in a row that starts with its last bits.
\* Mutant: the byte that was left behind keeps its bit.
Bug_Carry(r, i, bit) == [r EXCEPT ![i - 1] = bit]
Carry(r, i, bit) == [r EXCEPT ![i] = 0, ![i - 1] = bit]
\* Mutant: the byte is not one of eight bits.
Bug_Step(mode, s) ==
    LET b == IF mode = "SHR" THEN 2 * s.row[s.i] ELSE s.row[s.i] \div 2
    IN  IF b # 0 THEN [s EXCEPT !.row[s.i] = b]
        ELSE [row |-> Carry(s.row, s.i, IF mode = "SHR" THEN 1 ELSE 8), i |-> s.i - 1]
Step(mode, s) ==
    LET b == IF mode = "SHR" THEN (2 * s.row[s.i]) % 256 ELSE s.row[s.i] \div 2
    IN  IF b # 0 THEN [s EXCEPT !.row[s.i] = b]
        ELSE [row |-> Carry(s.row, s.i, IF mode = "SHR" THEN 1 ELSE 8), i |-> s.i - 1]
ispVMBitShift(mode, n, r) ==
    LET byte[i \in 0 .. Len(r)] ==
            IF i = 0 THEN r
            ELSE LET shifted[k \in 0 .. n] ==
                        IF k = 0 THEN [row |-> byte[i - 1], i |-> i]
                        ELSE Step(mode, shifted[k - 1])
                 IN  IF byte[i - 1][i] = 0 THEN byte[i - 1] ELSE shifted[n].row
    IN  byte[Len(r)]

-----------------------------------------------------------------------------
Init ==
    /\ script \in Scripts
    /\ at = 1 /\ row = 1
    /\ heap = script.heap /\ file = script.file
    /\ buf = [TDI |-> <<>>, TDO |-> <<>>, MASK |-> <<>>, DMASK |-> <<>>]
    /\ pairs = [i \in 1 .. Len(script.pairs) |->
                  [pos |-> script.pairs[i][1], neg |-> script.pairs[i][2],
                   update |-> FALSE]]
    /\ source = "ok" /\ verdict = FALSE
    /\ sent = <<>> /\ answered = <<>> /\ expected = <<>>

\* ispVMDataCode: one row; that of XTDO is what an earlier scan left.
ispVMDataCode ==
    /\ source # "spins" /\ at <= Len(script.scans) /\ row <= Len(Scan.rows)
    /\ LET name == Scan.rows[row]
           got == ispVMData(Bytes(Scan.size))
           moved == IF name = "TDI" /\ Scan.shift.n > 0
                    THEN ispVMBitShift(Scan.shift.mode, Scan.shift.n, got.row)
                    ELSE got.row
       IN  CASE name = "XTDO" -> row' = row + 1 /\ UNCHANGED <<heap, file, buf, source>>
             [] name # "XTDO" /\ got.source = "spins" ->
                  source' = "spins" /\ UNCHANGED <<row, heap, file, buf>>
             [] OTHER ->
                  /\ heap' = got.heap /\ file' = got.file
                  /\ buf' = [buf EXCEPT ![name] = moved]
                  /\ source' = got.source /\ row' = row + 1
    /\ UNCHANGED <<script, at, pairs, verdict, sent, answered, expected>>

Has(name) == Contains(Scan.rows, name)
Loaded == at <= Len(script.scans) /\ row > Len(Scan.rows)
Data(name) == SubSeq(Bits(buf[name]), 1, Scan.size)
NextScan == at' = at + 1 /\ row' = 1 /\ UNCHANGED <<script, heap, file, source>>

\* Mutant: a buffer that has the right size already is not filled again.
Bug_Transfer(out) == IF Len(out) = Len(buf.TDI) THEN out ELSE buf.TDI
\* The bytes sent are what an XTDO of the next scan is compared with.
Transfer(out) == buf.TDI

ispVMSend ==
    /\ Loaded /\ ~Has("TDO") /\ ~Has("XTDO") /\ ~Has("DMASK")
    /\ sent' = Data("TDI")
    /\ buf' = [buf EXCEPT !.TDO = Transfer(@)]
    /\ NextScan
    /\ UNCHANGED <<pairs, verdict, answered, expected>>

\* The bits that MASK names, or all of them, are compared.
ispVMRead ==
    /\ Loaded /\ (Has("TDO") \/ Has("XTDO")) /\ ~Has("DMASK")
    /\ \E tdo \in Answers[Scan.size] :
        /\ verdict' = \E k \in 1 .. Scan.size :
                        /\ Has("MASK") => Data("MASK")[k] = 1
                        /\ tdo[k] # Data("TDO")[k]
        /\ answered' = tdo
    /\ expected' = Data("TDO") /\ sent' = Data("TDI")
    /\ buf' = [buf EXCEPT !.TDO = Transfer(@)]
    /\ NextScan
    /\ UNCHANGED pairs

\* ispVMReadandSave: TDI where DMASK is set, what the devices answer elsewhere;
\* of the pairs of which the negative half is set in DMASK, at any time, the
\* first one alone has it flipped.  A bit is looked up among the pairs until
\* one has it as its negative half.
Mixed(tdo) == [k \in 1 .. Scan.size |-> IF Data("DMASK")[k] = 1 THEN Data("TDI")[k] ELSE tdo[k]]
Driven(i) == Data("DMASK")[pairs[i].neg] = 1 /\ \A j \in 1 .. i - 1 : pairs[j].neg # pairs[i].neg
Updated == [i \in DOMAIN pairs |-> [pairs[i] EXCEPT !.update = @ \/ Driven(i)]]
\* Mutant: the negative half becomes what the positive one is.
Bug_Flipped(b, pair) == [b EXCEPT ![pair.neg] = b[pair.pos]]
Flipped(b, pair) == [b EXCEPT ![pair.neg] = 1 - b[pair.pos]]
ispVMReadandSave ==
    /\ Loaded /\ Has("DMASK")
    /\ \E tdo \in Answers[Scan.size] :
        LET first == SelectInSeq(Updated, LAMBDA p : p.update)
            b == IF first = 0 THEN Mixed(tdo) ELSE Flipped(Mixed(tdo), Updated[first])
        IN  /\ answered' = tdo
            /\ sent' = b
            /\ buf' = [buf EXCEPT !.TDO = Pack(b), !.TDI = Pack(b)]
    /\ pairs' = Updated
    /\ NextScan
    /\ UNCHANGED <<verdict, expected>>

Done == (at > Len(script.scans) \/ source = "spins") /\ UNCHANGED vars
Next == ispVMDataCode \/ ispVMSend \/ ispVMRead \/ ispVMReadandSave \/ Done
Spec == Init /\ [][Next]_vars

-----------------------------------------------------------------------------
\* The variables have their types: a row that was read has bytes for all its bits,
\* wherever they came from.
TypeOK ==
    /\ at \in 1 .. Len(script.scans) + 1 /\ source \in {"ok", "past", "spins"}
    /\ at <= Len(script.scans) =>
         /\ row \in 1 .. Len(Scan.rows) + 1
         /\ \A i \in 1 .. row - 1 :
              Scan.rows[i] # "XTDO" =>
                  buf[Scan.rows[i]] \in [1 .. Bytes(Scan.size) -> 0 .. 255]

\* What shifting by n bits means, and the rows that ispVMBitShift is for: one bit,
\* which stays in the row, and to the left also in its byte.
To(mode, n, k) == IF mode = "SHR" THEN k - n ELSE k + n
Moved(mode, n, b) ==
    [k \in DOMAIN b |-> IF \E j \in DOMAIN b : b[j] = 1 /\ To(mode, n, j) = k THEN 1 ELSE 0]
Movable(mode, n, b) ==
    LET ones == {k \in DOMAIN b : b[k] = 1}
    IN  \A k \in ones :
            /\ ones = {k} /\ To(mode, n, k) \in DOMAIN b
            /\ mode = "SHL" => Bytes(To(mode, n, k)) = Bytes(k)
Shifts(i) == Scan.rows[i] = "TDI" /\ Scan.shift.n > 0
Meant(i) ==
    IF Shifts(i) THEN Pack(Moved(Scan.shift.mode, Scan.shift.n, Bits(Scan.meant[i])))
    ELSE Scan.meant[i]

\* A plain row in the loop itself holds a byte that looks like the mark.
Mistaken(s) ==
    /\ s.loop /\ ~s.compress
    /\ \E n \in 1 .. Len(s.scans) : \E i \in 1 .. Len(s.scans[n].rows) :
         LET r == s.scans[n].meant[i]
         IN  Contains(SubSeq(r, 1, Len(r) - s.scans[n].late[i]), VAR)

\* Every row comes out of its encoding as it was, shifted by what the loop asks
\* for, and the next one is read from where it ends: at the end of the script
\* nothing is left over, neither of the loop nor of the rows the file has for it.
\* Excepted are what the source ends within; runs whose count is that of all their
\* bytes, as the comment of ispVMData has it (ispvm.c:1174-1190), where the code
\* counts those after the first; a plain row of a loop with a byte 0x55, which the
\* code takes for VAR (ispvm.c:1323); and a shift of more than one bit, or to the
\* left out of a byte, which sets bit 3 of the byte before (ispvm.c:1824-1827)
\* although it is to shift "by the number of bits" (ispvm.c:1779).
RowsDecoded ==
    source = "ok" /\ script.counts = "more" /\ ~Mistaken(script) =>
       /\ at <= Len(script.scans) =>
            \A i \in 1 .. row - 1 :
               /\ Scan.rows[i] # "XTDO"
               /\ Shifts(i) => Movable(Scan.shift.mode, Scan.shift.n, Bits(Scan.meant[i]))
               => buf[Scan.rows[i]] = Meant(i)
       /\ at > Len(script.scans) => heap = <<>> /\ file = <<>>

\* An XSDR compares what the devices answer with what the scan before it sent,
\* be that data of the file, shifted data, or what dynamic I/O sent back.
ExpressComparesSent ==
    [][ispVMRead /\ Has("XTDO") /\ at > 1 /\ Len(sent) = Scan.size
         => expected' = sent]_vars

\* When dynamic I/O has driven one LVDS pair, its halves differ in what is sent
\* back, in this scan and in every later one.  With two pairs driven the halves of
\* the first alone do, so that case is not claimed.
PairDiffers ==
    [][ispVMReadandSave /\ (\E i \in DOMAIN pairs :
            \A j \in DOMAIN pairs : Updated[j].update <=> j = i)
         => \E i \in DOMAIN pairs :
                pairs'[i].update /\ sent'[pairs[i].neg] # sent'[pairs[i].pos]]_vars
=============================================================================

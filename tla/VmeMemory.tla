------------------------------ MODULE VmeMemory -----------------------------
(***************************************************************************)
(* The buffers of the player of src/src/ispvm.c: what ispVMMemManager      *)
(* allocates for the rows of a scan, and what the scan then touches.       *)
(*                                                                         *)
(* A memory is a record: "cap" the size in bits each buffer was allocated  *)
(* for, Null for a NULL pointer, "prev" g_usPreviousSize, and "over"       *)
(* whether a row was stored in or taken from a buffer too small for it.    *)
(***************************************************************************)
EXTENDS Integers, SequencesExt

Null == -1
Rows == {"In", "Out", "Mask", "DMask"}
Others == {"HIR", "TIR", "HDR", "TDR", "HEAP", "LHEAP", "LVDS"}

NoMemory ==
    [cap |-> [b \in Rows \cup Others |-> Null], prev |-> 0, over |-> FALSE]

\* A buffer of size bits has size / 8 + 2 bytes.
Fits(m, b, bytes) == m.cap[b] # Null /\ bytes <= m.cap[b] \div 8 + 2

Alloc(m, b, size) == [m EXCEPT !.cap[b] = size]
\* Mutant: the size alone tells that a buffer is there.
Bug_Kept(m, b, size) == m.prev = size
Kept(m, b, size) == m.cap[b] # Null /\ m.prev = size
Renew(m, b, size) ==
    IF Kept(m, b, size) THEN m ELSE [Alloc(m, b, size) EXCEPT !.prev = size]

\* The cases of TDI end in those of TDO, unless the buffer is kept.
ispVMMemManager(m, target, size) ==
    CASE target \in {"TDI", "XTDI"} ->
            IF Kept(m, "In", size) THEN m
            ELSE Renew(Renew(m, "In", size), "Out", size)
      [] target \in {"TDO", "XTDO"} -> Renew(m, "Out", size)
      [] target = "MASK" -> Renew(m, "Mask", size)
      [] target = "DMASK" -> Renew(m, "DMask", size)
      [] target \in Others -> Alloc(m, target, size)
      [] OTHER -> m

ispVMFreeMem(m) == [m EXCEPT !.cap = NoMemory.cap]

\* The buffer the data of a row goes to; XTDO takes what an earlier row left.
Target(row) ==
    CASE row \in {"TDI"} -> "In"
      [] row \in {"TDO", "XTDO"} -> "Out"
      [] row = "MASK" -> "Mask"
      [] row = "DMASK" -> "DMask"

Bytes(bits) == (bits + 7) \div 8
Touch(m, b, bytes) == [m EXCEPT !.over = @ \/ ~Fits(m, b, bytes)]

\* ispVMDataCode: every row has its buffer looked after at the size of MEM,
\* and the data of the scan put there.
Stored(m, row, max, bits) ==
    Touch(ispVMMemManager(m, row, max), Target(row), Bytes(bits))
ispVMDataCode(m, rows, max, bits) ==
    LET after[i \in 0 .. Len(rows)] ==
            IF i = 0 THEN m ELSE Stored(after[i - 1], rows[i], max, bits)
    IN  after[Len(rows)]

\* After an SDR or XSDR the data sent becomes what the next one compares, if
\* there is a buffer; one byte more than the bits fill may be copied.
TransferOut(m, bits) ==
    IF m.cap["Out"] = Null THEN m
    ELSE Touch(Touch(m, "In", bits \div 8 + 1), "Out", bits \div 8 + 1)
\* ispVMReadandSave builds the new data in the TDO buffer, and it is copied
\* back to send it.
TransferIn(m, bits) ==
    Touch(Touch(m, "Out", bits \div 8 + 1), "In", bits \div 8 + 1)
=============================================================================

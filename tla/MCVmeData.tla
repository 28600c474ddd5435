----------------------------- MODULE MCVmeData ------------------------------
(* TLC instance of the data of scans: rows, all their encodings, and scripts *)
(* that read them from the file, from a loop, and in part from each.         *)
EXTENDS VmeData, FiniteSets

Num(n) == IF n < 128 THEN <<n>> ELSE <<128 + (n % 128), n \div 128>>
AsRuns(code, key, r) ==
    LET f[i \in 1 .. Len(r) + 1] ==
            IF i > Len(r) THEN <<>>
            ELSE IF r[i] # key THEN <<r[i]>> \o f[i + 1]
            ELSE LET n == CHOOSE n \in 1 .. Len(r) + 1 - i :
                            /\ \A j \in i .. i + n - 1 : r[j] = key
                            /\ i + n > Len(r) \/ r[i + n] # key
                 IN  <<key>> \o Num(n - 1) \o f[i + n]
    IN  <<code>> \o f[1]
AsHuffman(key, r) ==
    <<255, key>> \o Pack(FlattenSeq(
        [i \in DOMAIN r |-> IF r[i] = key THEN <<0>> ELSE <<1>> \o Bits(<<r[i]>>)]))
AsBlocks(block, r) ==
    LET n(j) == IF j < block THEN Nibble(r, j) ELSE 0
    IN  <<block>> \o [i \in 1 .. (block + 1) \div 2 |-> 16 * n(2 * i - 2) + n(2 * i - 1)]
Repeats(block, r) ==
    \A j \in 0 .. 2 * Len(r) - 1 :
        Nibble(r, j) = IF j >= block * ((2 * Len(r)) \div block) THEN 0
                       ELSE Nibble(r, j % block)
Codes(r) ==
    {<<0>> \o r, AsRuns(1, 0, r), AsRuns(2, 255, r), AsHuffman(0, r), AsHuffman(85, r)}
      \cup {AsBlocks(b, r) : b \in {n \in 3 .. 6 : Repeats(n, r)}}

Rows == {<<0, 0, 0>>, <<0, 0, 1>>, <<255, 255, 85>>, <<85, 0, 255>>,
         <<132, 33, 8>>, <<18, 49, 35>>, <<66, 16, 132>>}
Long == <<1>> \o [i \in 1 .. 140 |-> 0]

NoShift == [n |-> 0, mode |-> "SHR"]
Part(name, r, in, from, late) ==
    [name |-> name, meant |-> r, heap |-> in, file |-> from, late |-> late,
     shift |-> NoShift]
\* A row in the file, in a loop, or marked there and in the file.
Place(where, name, r, bytes) ==
    CASE where = "file" -> Part(name, r, <<>>, bytes, 0)
      [] where = "loop" -> Part(name, r, bytes, <<>>, 0)
      [] where = "varies" -> Part(name, r, <<VAR>>, bytes, Len(r))
      [] where = "partly" -> Part(name, r, <<r[1], VAR>>, Tail(r), Len(r) - 1)
Left == Part("XTDO", <<>>, <<>>, <<>>, 0)
\* The shifts a loop asks for move the bits of an address.
Shifted(p, mode, n) == [p EXCEPT !.shift = [mode |-> mode, n |-> n]]
Ones(places, size) == Pack([k \in 1 .. size |-> IF k \in places THEN 1 ELSE 0])

ScanOf(size, parts) ==
    [size |-> size, rows |-> [i \in DOMAIN parts |-> parts[i].name],
     meant |-> [i \in DOMAIN parts |-> parts[i].meant],
     late |-> [i \in DOMAIN parts |-> parts[i].late], shift |-> parts[1].shift]
Script(loop, compress, size, scans, ps) ==
    LET all == FlattenSeq(scans)
    IN  [loop |-> loop, compress |-> compress, pairs |-> ps, counts |-> "more",
         scans |-> [i \in DOMAIN scans |-> ScanOf(size, scans[i])],
         heap |-> FlattenSeq([i \in DOMAIN all |-> all[i].heap]),
         file |-> FlattenSeq([i \in DOMAIN all |-> all[i].file])]

\* A scan that verifies, and one that verifies by the data of the first.
Two(a, b, c) == <<<<a, b>>, <<c, Left>>>>
Compressed ==
    {Script(where # "file", TRUE, 20,
            Two(Place(where, "TDI", r, e),
                Place(IF where = "varies" THEN "loop" ELSE where, "TDO", s, <<0>> \o s),
                Place(where, "TDI", s, AsHuffman(0, s))), <<>>) :
        <<r, e>> \in UNION {{<<q, c>> : c \in Codes(q)} : q \in Rows},
        s \in {<<0, 33, 132>>, <<85, 85, 0>>}, where \in {"file", "loop", "varies"}}
\* Plain rows, also those in a loop with a byte that looks like the mark.
Uncompressed ==
    {Script(where # "file", FALSE, 20,
            Two(Place(where, "TDI", r, r), Place("loop", "MASK", <<0, 33, 132>>, <<0, 33, 132>>),
                Place(where, "TDI", s, s)), <<>>) :
        r \in {q \in Rows : q[1] # VAR}, s \in {q \in Rows : q[1] # VAR},
        where \in {"varies", "partly"}}
      \cup {Script(loop, FALSE, 20, <<<<Place(IF loop THEN "loop" ELSE "file", "TDI", r, r)>>>>, <<>>) :
              r \in Rows, loop \in BOOLEAN}
Longer ==
    {Script(FALSE, TRUE, 8 * 141, <<<<Place("file", "TDI", Long, AsRuns(1, 0, Long))>>>>, <<>>)}

\* The example of the comment of ispVMData, and a row after it.
Example == [i \in 1 .. 12 |-> IF i = 12 THEN 1 ELSE 0]
Counted ==
    {[Script(FALSE, TRUE, 96,
             <<<<Place("file", "TDI", Example, <<1, 0, 9, 1>>)>>,
               <<Place("file", "TDI", Example, <<0>> \o Example)>>>>, <<>>)
        EXCEPT !.counts = "all"]}

\* Files that end within a row: within its bytes, or within the count of a run.
Short(s, n) == [s EXCEPT !.file = SubSeq(@, 1, Len(@) - n)]
Cut ==
    {Short(Script(FALSE, TRUE, 20, Two(Place("file", "TDI", r, e),
                  Place("file", "TDO", r, <<0>> \o r), Place("file", "TDI", r, e)), <<>>), n) :
        <<r, e>> \in UNION {{<<q, c>> : c \in Codes(q)} : q \in {<<0, 0, 1>>, <<255, 255, 85>>}},
        n \in 1 .. 4}
      \cup {Short(Script(TRUE, FALSE, 20, <<<<Place("partly", "TDI", r, r)>>>>, <<>>), n) :
              r \in {<<18, 49, 35>>}, n \in 1 .. 2}

\* A loop shifts the bits of an address, across bytes or inside of one.  None goes
\* off the row: the code would write before or behind it.
Address(mode, n, from) ==
    Script(TRUE, FALSE, 20,
           <<<<Shifted(Place("loop", "TDI", from, from), mode, n)>>,
             <<Place("loop", "TDI", Ones({1}, 20), Ones({1}, 20)), Left>>>>, <<>>)
Addresses ==
    {Address("SHR", k - j, Ones({k}, 20)) : <<j, k>> \in {p \in (1 .. 20) \X (1 .. 20) : p[1] < p[2]}}
      \cup {Address("SHL", k - j, Ones({j}, 20)) :
              <<j, k>> \in {p \in (9 .. 20) \X (9 .. 20) : p[1] < p[2]}}
      \cup {Address("SHR", n, Ones({11, 12, 20}, 20)) : n \in 1 .. 6}

\* Dynamic I/O with one pair or two, also with one negative half, in two scans
\* with a verification between.
Dynamic ==
    {Script(FALSE, TRUE, 8,
            <<<<Place("file", "TDI", <<165>>, <<0, 165>>), Place("file", "DMASK", <<m>>, <<0, m>>)>>,
              <<Place("file", "TDI", <<15>>, <<0, 15>>), Left>>,
              <<Place("file", "TDI", <<90>>, <<0, 90>>), Place("file", "DMASK", <<n>>, <<0, n>>)>>>>, ps) :
        m \in {0, 16, 17}, n \in {0, 1, 48},
        ps \in {<<<<3, 4>>>>, <<<<7, 8>>, <<3, 4>>>>, <<<<3, 4>>, <<5, 4>>>>}}

AllScripts == Compressed \cup Uncompressed \cup Longer \cup Counted \cup Cut \cup Addresses \cup Dynamic
SomeAnswers ==
    [n \in {8, 20, 96, 8 * 141} |->
        {[k \in 1 .. n |-> 0], [k \in 1 .. n |-> 1], [k \in 1 .. n |-> k % 2]}]
=============================================================================

---------------------------- MODULE DfsPlacement ----------------------------
(***************************************************************************)
(* Which two of a file's four parts go to which of the four servers: the   *)
(* switch on hashInt in dfc.c, as a table.                                 *)
(***************************************************************************)
EXTENDS Integers

Servers == 0..3    \* DFS1 .. DFS4
Hashes  == 0..3    \* hashInt % 4
Parts   == 1..4    \* DFCBuf[0], DFCBuf[1], DFCBuf[2], PartDBuff

\* Placement[x + 1][s + 1] is <<first part written to s, second part>>.
Placement == << << <<1, 2>>, <<2, 3>>, <<3, 4>>, <<4, 1>> >>,
                << <<4, 1>>, <<1, 2>>, <<2, 3>>, <<3, 4>> >>,
                << <<3, 4>>, <<4, 1>>, <<1, 2>>, <<2, 3>> >>,
                << <<2, 3>>, <<3, 4>>, <<4, 1>>, <<1, 2>> >> >>

\* Variant: the third row of the table typed twice.
FirstPartTwice(x, s)  == Placement[(IF x = 3 /\ s < 2 THEN 2 ELSE x) + 1][s + 1][1]
FirstPart(x, s)  == Placement[x + 1][s + 1][1]
SecondPart(x, s) == Placement[x + 1][s + 1][2]
PartsOn(x, s) == {FirstPart(x, s), SecondPart(x, s)}

\* The bytes that the four fread() calls take, one after the other, from a file
\* of n bytes; n is at least 20, so that no count is negative.
PartBytes(n, x) == << n \div 4, n \div 4 - 5, n \div 4, n \div 4 + x + 1 >>
Covered(n, x) == PartBytes(n, x)[1] + PartBytes(n, x)[2]
                 + PartBytes(n, x)[3] + PartBytes(n, x)[4]
=============================================================================

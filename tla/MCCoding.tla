------------------------------- MODULE MCCoding -------------------------------
(* Instances of Coding for TLC. *)
EXTENDS Coding, Bitwise

XorTable == [a \in Numbers |-> [b \in Numbers |-> a ^^ b]]
TableXor(a, b) == XorTable[a][b]

\* Header bytes have one bit each: no XOR of several of them is a header.
FourHeaders == <<1, 2, 4, 8>>

Block(header, size) == [i \in 1..size |-> IF i = 1 THEN header ELSE 15 - header]

FilledWith(num, blocks) ==
  LET fill[i \in 0..Len(blocks)] == IF i = 0 THEN New(num) ELSE Add(fill[i - 1], blocks[i])
  IN  fill[Len(blocks)]

\* One, two and one blocks, so that lengths and counts differ in all ways, or
\* one block each, so that two of them XORed have none.
Cut(sizes) == [n \in Numbering |->
                 FilledWith(n, CASE n = 0 -> <<Block(1, sizes[1])>>
                             [] n = 1 /\ sizes[3] > 0 -> <<Block(2, sizes[2]), Block(4, sizes[3])>>
                             [] n = 1 /\ sizes[3] = 0 -> <<Block(2, sizes[2])>>
                             [] n = 2 -> <<Block(8, sizes[4])>>)]
SizesTaken == {<<1, 1, 1, 1>>, <<1, 1, 2, 3>>, <<3, 1, 1, 1>>, <<2, 2, 1, 4>>, <<1, 3, 0, 3>>}
Cuttings == {Cut(sizes) : sizes \in SizesTaken}
==============================================================================

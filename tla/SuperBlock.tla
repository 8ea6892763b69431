----------------------------- MODULE SuperBlock -----------------------------
(***************************************************************************)
(* src/super_block.rs: the record of concatenated blocks, how it is filled *)
(* and cut up again, and XOR with zero padding, by which superblocks of    *)
(* different lengths are combined into a droplet.                          *)
(*                                                                         *)
(* A block is a sequence of bytes that starts with its header, which is    *)
(* one byte here; bytes, sizes and counts are numbers below a power of two *)
(* and BitwiseXor is their exclusive or.                                   *)
(***************************************************************************)
EXTENDS Integers, Sequences

CONSTANTS SuperBlockMaxSize, \* SUPERBLOCK_MAX_SIZE
          MaxNumber,         \* bound on bytes, sizes and counts
          BitwiseXor(_, _)

Numbers == 0..MaxNumber

ASSUME SuperBlockBounds == MaxNumber \in Nat /\ SuperBlockMaxSize \in Numbers
ASSUME XorAssumption ==
  \A a, b, c \in Numbers : /\ BitwiseXor(a, b) \in Numbers
                           /\ BitwiseXor(a, b) = BitwiseXor(b, a)
                           /\ BitwiseXor(a, BitwiseXor(b, c)) = BitwiseXor(BitwiseXor(a, b), c)
                           /\ BitwiseXor(a, 0) = a /\ BitwiseXor(a, a) = 0

SuperBlocks == [num : Numbers, block_count : Numbers, bytes_length : Numbers,
                block_sizes : Seq(Numbers), raw_bytes : Seq(Numbers)]

Smaller(a, b) == IF a <= b THEN a ELSE b
Larger(a, b) == IF a <= b THEN b ELSE a
------------------------------------------------------------------------------
New(num) == [num |-> num, block_count |-> 0, bytes_length |-> 0,
             block_sizes |-> << >>, raw_bytes |-> << >>]

AvailableSpace(sb) == SuperBlockMaxSize - Len(sb.raw_bytes)

\* Only called when the block fits in.
Add(sb, block) ==
  [sb EXCEPT !.block_sizes = Append(@, Len(block)),
             !.raw_bytes = @ \o block,
             !.bytes_length = Len(sb.raw_bytes) + Len(block),
             !.block_count = @ + 1]

\* What add keeps up: the lengths that the record holds are those of its vectors.
Filled(sb) == sb.bytes_length = Len(sb.raw_bytes) /\ sb.block_count = Len(sb.block_sizes)

\* The numbers of a vector, followed by zeros.
Padded(v, i) == IF i <= Len(v) THEN v[i] ELSE 0

\* Mutant of XorVectors: only as far as both reach.
XorShorter(v, w) == [i \in 1..Smaller(Len(v), Len(w)) |-> BitwiseXor(v[i], w[i])]
XorVectors(v, w) == [i \in 1..Larger(Len(v), Len(w)) |-> BitwiseXor(Padded(v, i), Padded(w, i))]

\* Mutant of BitXor: the longer superblock tells how many blocks there are.
BitXorLargerCount(sb, rhs) ==
  [num |-> BitwiseXor(sb.num, rhs.num),
   block_count |-> Larger(sb.block_count, rhs.block_count),
   bytes_length |-> BitwiseXor(sb.bytes_length, rhs.bytes_length),
   block_sizes |-> XorVectors(sb.block_sizes, rhs.block_sizes),
   raw_bytes |-> XorVectors(sb.raw_bytes, rhs.raw_bytes)]
BitXor(sb, rhs) ==
  [num |-> BitwiseXor(sb.num, rhs.num),
   block_count |-> BitwiseXor(sb.block_count, rhs.block_count),
   bytes_length |-> BitwiseXor(sb.bytes_length, rhs.bytes_length),
   block_sizes |-> XorVectors(sb.block_sizes, rhs.block_sizes),
   raw_bytes |-> XorVectors(sb.raw_bytes, rhs.raw_bytes)]

Truncate(v, n) == SubSeq(v, 1, Smaller(n, Len(v)))

\* Mutant of CropPadding: the padding stays.
CropNothing(sb) == sb
CropPadding(sb) == [sb EXCEPT !.raw_bytes = Truncate(@, sb.bytes_length),
                              !.block_sizes = Truncate(@, sb.block_count)]
------------------------------------------------------------------------------
(* Cutting up a cropped superblock, the way block_hashes and into_blocks do. *)

\* Where the block number i ends.
End(sb, i) == LET end[j \in 0..Len(sb.block_sizes)] ==
                    IF j = 0 THEN 0 ELSE end[j - 1] + sb.block_sizes[j]
              IN  end[i]

EnoughBytes(sb) == End(sb, Len(sb.block_sizes)) <= Len(sb.raw_bytes)

IntoBlocks(sb) == [i \in 1..Len(sb.block_sizes) |->
                     SubSeq(sb.raw_bytes, End(sb, i - 1) + 1, End(sb, i))]

\* An encoded superblock can only be decoded from its file up to this length.
Loadable(sb) == Len(sb.raw_bytes) <= SuperBlockMaxSize
==============================================================================

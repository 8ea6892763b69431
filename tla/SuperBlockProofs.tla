--------------------------- MODULE SuperBlockProofs ---------------------------
(***************************************************************************)
(* The algebra of padded XOR, for superblocks of every length: why it does *)
(* not matter in which order a droplet's neighbors are XORed, and why      *)
(* XORing one out gives the rest back.                                     *)
(***************************************************************************)
EXTENDS SuperBlock, WellFoundedInduction, SequenceTheorems, TLAPS
------------------------------------------------------------------------------
LEMMA XorFacts ==
  ASSUME NEW a \in Numbers, NEW b \in Numbers, NEW c \in Numbers
  PROVE  /\ BitwiseXor(a, b) \in Numbers
         /\ BitwiseXor(a, b) = BitwiseXor(b, a)
         /\ BitwiseXor(BitwiseXor(a, b), c) = BitwiseXor(a, BitwiseXor(b, c))
         /\ BitwiseXor(a, 0) = a
         /\ BitwiseXor(0, 0) = 0
         /\ BitwiseXor(BitwiseXor(a, b), b) = a
<1>1. 0 \in Numbers
  BY SuperBlockBounds DEF Numbers
<1>2. BitwiseXor(0, 0) = 0
  BY <1>1, XorAssumption
<1>3. BitwiseXor(BitwiseXor(a, b), b) = BitwiseXor(a, BitwiseXor(b, b))
  BY XorAssumption
<1>4. BitwiseXor(b, b) = 0 /\ BitwiseXor(a, 0) = a
  BY XorAssumption
<1> QED BY <1>2, <1>3, <1>4, XorAssumption

LEMMA PaddedType ==
  ASSUME NEW v \in Seq(Numbers), NEW i \in Nat \ {0} PROVE Padded(v, i) \in Numbers
BY SuperBlockBounds DEF Padded, Numbers

LEMMA XorVectorsType ==
  ASSUME NEW v \in Seq(Numbers), NEW w \in Seq(Numbers)
  PROVE  /\ XorVectors(v, w) \in Seq(Numbers)
         /\ Len(XorVectors(v, w)) = Larger(Len(v), Len(w))
         /\ \A i \in Nat \ {0} : Padded(XorVectors(v, w), i) = BitwiseXor(Padded(v, i), Padded(w, i))
<1> DEFINE n == Larger(Len(v), Len(w))
<1>1. n \in Nat /\ Len(v) <= n /\ Len(w) <= n
  BY DEF Larger
<1>2. \A i \in 1..n : BitwiseXor(Padded(v, i), Padded(w, i)) \in Numbers
  BY <1>1, PaddedType, XorFacts
<1>3. XorVectors(v, w) = [i \in 1..n |-> BitwiseXor(Padded(v, i), Padded(w, i))]
  BY DEF XorVectors
<1>4. XorVectors(v, w) \in [1..n -> Numbers]
  BY <1>2, <1>3
<1>5. XorVectors(v, w) \in Seq(Numbers) /\ Len(XorVectors(v, w)) = n
  BY <1>1, <1>4
<1>6. ASSUME NEW i \in Nat \ {0}
      PROVE  Padded(XorVectors(v, w), i) = BitwiseXor(Padded(v, i), Padded(w, i))
  <2>1. CASE i <= n
    BY <1>1, <1>3, <1>5, <2>1 DEF Padded
  <2>2. CASE ~(i <= n)
    <3>1. Padded(v, i) = 0 /\ Padded(w, i) = 0 /\ Padded(XorVectors(v, w), i) = 0
      BY <1>1, <1>5, <2>2 DEF Padded
    <3>2. 0 \in Numbers
      BY SuperBlockBounds DEF Numbers
    <3> QED BY <3>1, <3>2, XorFacts
  <2> QED BY <2>1, <2>2
<1> QED BY <1>5, <1>6

\* Two vectors of the same length that are equal with their padding are equal.
LEMMA SameVector ==
  ASSUME NEW v \in Seq(Numbers), NEW w \in Seq(Numbers), Len(v) = Len(w),
         \A i \in Nat \ {0} : Padded(v, i) = Padded(w, i)
  PROVE  v = w
<1>1. ASSUME NEW i \in 1..Len(v) PROVE v[i] = w[i]
  <2>1. i \in Nat \ {0} /\ i <= Len(v) /\ i <= Len(w)
    OBVIOUS
  <2> QED BY <2>1 DEF Padded
<1> QED BY <1>1

LEMMA XorVectorsCommute ==
  ASSUME NEW v \in Seq(Numbers), NEW w \in Seq(Numbers)
  PROVE  XorVectors(v, w) = XorVectors(w, v)
<1>1. /\ Len(XorVectors(v, w)) = Larger(Len(v), Len(w))
      /\ Len(XorVectors(w, v)) = Larger(Len(w), Len(v))
  BY XorVectorsType
<1>3. Len(XorVectors(v, w)) = Len(XorVectors(w, v))
  BY <1>1 DEF Larger
<1>2. ASSUME NEW i \in Nat \ {0} PROVE Padded(XorVectors(v, w), i) = Padded(XorVectors(w, v), i)
  <2>1. Padded(v, i) \in Numbers /\ Padded(w, i) \in Numbers
    BY PaddedType
  <2> QED BY <2>1, XorVectorsType, XorFacts
<1> QED BY <1>2, <1>3, XorVectorsType, SameVector

LEMMA XorVectorsAssociate ==
  ASSUME NEW u \in Seq(Numbers), NEW v \in Seq(Numbers), NEW w \in Seq(Numbers)
  PROVE  XorVectors(XorVectors(u, v), w) = XorVectors(u, XorVectors(v, w))
<1> DEFINE uv == XorVectors(u, v)
           vw == XorVectors(v, w)
<1>1. /\ uv \in Seq(Numbers) /\ Len(uv) = Larger(Len(u), Len(v))
      /\ \A i \in Nat \ {0} : Padded(uv, i) = BitwiseXor(Padded(u, i), Padded(v, i))
  BY XorVectorsType
<1>2. /\ vw \in Seq(Numbers) /\ Len(vw) = Larger(Len(v), Len(w))
      /\ \A i \in Nat \ {0} : Padded(vw, i) = BitwiseXor(Padded(v, i), Padded(w, i))
  BY XorVectorsType
<1> HIDE DEF uv, vw
<1> DEFINE left == XorVectors(uv, w)
           right == XorVectors(u, vw)
<1>3. /\ left \in Seq(Numbers) /\ Len(left) = Larger(Len(uv), Len(w))
      /\ \A i \in Nat \ {0} : Padded(left, i) = BitwiseXor(Padded(uv, i), Padded(w, i))
  BY <1>1, XorVectorsType
<1>4. /\ right \in Seq(Numbers) /\ Len(right) = Larger(Len(u), Len(vw))
      /\ \A i \in Nat \ {0} : Padded(right, i) = BitwiseXor(Padded(u, i), Padded(vw, i))
  BY <1>2, XorVectorsType
<1> HIDE DEF left, right
<1>5. Len(left) = Len(right)
  BY <1>1, <1>2, <1>3, <1>4 DEF Larger
<1>6. ASSUME NEW i \in Nat \ {0} PROVE Padded(left, i) = Padded(right, i)
  <2>1. Padded(u, i) \in Numbers /\ Padded(v, i) \in Numbers /\ Padded(w, i) \in Numbers
    BY PaddedType
  <2>2. /\ Padded(left, i) = BitwiseXor(BitwiseXor(Padded(u, i), Padded(v, i)), Padded(w, i))
        /\ Padded(right, i) = BitwiseXor(Padded(u, i), BitwiseXor(Padded(v, i), Padded(w, i)))
    BY <1>1, <1>2, <1>3, <1>4
  <2> QED BY <2>1, <2>2, XorFacts
<1>7. left = right
  BY <1>3, <1>4, <1>5, <1>6, SameVector
<1> QED BY <1>7 DEF left, right, uv, vw

\* XORing a vector in and out again leaves the padding of the longer one.
LEMMA XorVectorsUndone ==
  ASSUME NEW v \in Seq(Numbers), NEW w \in Seq(Numbers)
  PROVE  Truncate(XorVectors(XorVectors(v, w), w), Len(v)) = v
<1> DEFINE x == XorVectors(XorVectors(v, w), w)
<1>1. XorVectors(v, w) \in Seq(Numbers) /\ Len(XorVectors(v, w)) >= Len(v)
  BY XorVectorsType DEF Larger
<1>2. x \in Seq(Numbers) /\ Len(x) >= Len(v)
  BY <1>1, XorVectorsType DEF Larger
<1>3. ASSUME NEW i \in 1..Len(v) PROVE x[i] = v[i]
  <2>1. i \in Nat \ {0} /\ i <= Len(v) /\ i <= Len(x)
    BY <1>2
  <2>2. Padded(x, i) = BitwiseXor(BitwiseXor(Padded(v, i), Padded(w, i)), Padded(w, i))
    BY <1>1, <2>1, XorVectorsType
  <2>3. Padded(x, i) = Padded(v, i)
    BY <2>1, <2>2, PaddedType, XorFacts
  <2> QED BY <2>1, <2>3 DEF Padded
<1> HIDE DEF x
<1>4. Truncate(x, Len(v)) = SubSeq(x, 1, Len(v))
  BY <1>2 DEF Truncate, Smaller
<1>5. SubSeq(x, 1, Len(v)) = v
  BY <1>2, <1>3
<1> QED BY <1>4, <1>5 DEF x
------------------------------------------------------------------------------
LEMMA BitXorType ==
  ASSUME NEW a \in SuperBlocks, NEW b \in SuperBlocks PROVE BitXor(a, b) \in SuperBlocks
BY XorFacts, XorVectorsType DEF BitXor, SuperBlocks

\* The XOR of superblocks does not depend on their order (super_block.rs:149):
\* the encoder takes neighbors from a hash set, whose order is random.
THEOREM BitXorCommutes ==
  ASSUME NEW a \in SuperBlocks, NEW b \in SuperBlocks
  PROVE  BitXor(a, b) = BitXor(b, a)
BY XorFacts, XorVectorsCommute DEF BitXor, SuperBlocks

\* Nor does it depend on how the XORs are grouped (fountain_encoder.rs:91): a
\* droplet is the same whichever of its neighbors are combined first.
THEOREM BitXorAssociates ==
  ASSUME NEW a \in SuperBlocks, NEW b \in SuperBlocks, NEW c \in SuperBlocks
  PROVE  BitXor(BitXor(a, b), c) = BitXor(a, BitXor(b, c))
<1>1. /\ BitXor(a, b).block_sizes = XorVectors(a.block_sizes, b.block_sizes)
      /\ BitXor(a, b).raw_bytes = XorVectors(a.raw_bytes, b.raw_bytes)
      /\ BitXor(b, c).block_sizes = XorVectors(b.block_sizes, c.block_sizes)
      /\ BitXor(b, c).raw_bytes = XorVectors(b.raw_bytes, c.raw_bytes)
  BY DEF BitXor
<1>2. /\ XorVectors(BitXor(a, b).block_sizes, c.block_sizes)
           = XorVectors(a.block_sizes, BitXor(b, c).block_sizes)
      /\ XorVectors(BitXor(a, b).raw_bytes, c.raw_bytes)
           = XorVectors(a.raw_bytes, BitXor(b, c).raw_bytes)
  BY <1>1, XorVectorsAssociate DEF SuperBlocks
<1>3. /\ BitwiseXor(BitXor(a, b).num, c.num) = BitwiseXor(a.num, BitXor(b, c).num)
      /\ BitwiseXor(BitXor(a, b).block_count, c.block_count)
           = BitwiseXor(a.block_count, BitXor(b, c).block_count)
      /\ BitwiseXor(BitXor(a, b).bytes_length, c.bytes_length)
           = BitwiseXor(a.bytes_length, BitXor(b, c).bytes_length)
  BY XorFacts DEF BitXor, SuperBlocks
<1> QED BY <1>2, <1>3 DEF BitXor

\* Every block that is added leaves the record filled (super_block.rs:43).
THEOREM AddKeepsFilled ==
  ASSUME NEW sb \in SuperBlocks, Filled(sb), NEW block \in Seq(Numbers)
  PROVE  Filled(Add(sb, block))
<1>1. /\ Add(sb, block).raw_bytes = sb.raw_bytes \o block
      /\ Add(sb, block).block_sizes = Append(sb.block_sizes, Len(block))
      /\ Add(sb, block).bytes_length = Len(sb.raw_bytes) + Len(block)
      /\ Add(sb, block).block_count = sb.block_count + 1
  BY DEF Add, SuperBlocks
<1>2. sb.raw_bytes \in Seq(Numbers) /\ sb.block_sizes \in Seq(Numbers)
  BY DEF SuperBlocks
<1> QED BY <1>1, <1>2 DEF Filled

\* A superblock to which another one was XORed is itself again, in every part,
\* when that one is XORed out and the padding cropped (fountain_decoder.rs:102,
\* super_block.rs:130), whichever of the two is longer or has more blocks.
THEOREM XorUndone ==
  ASSUME NEW a \in SuperBlocks, NEW b \in SuperBlocks, Filled(a)
  PROVE  CropPadding(BitXor(BitXor(a, b), b)) = a
<1> DEFINE x == BitXor(BitXor(a, b), b)
<1>1. x.num = a.num /\ x.block_count = a.block_count /\ x.bytes_length = a.bytes_length
  BY XorFacts DEF BitXor, SuperBlocks
<1>2. /\ x.block_sizes = XorVectors(XorVectors(a.block_sizes, b.block_sizes), b.block_sizes)
      /\ x.raw_bytes = XorVectors(XorVectors(a.raw_bytes, b.raw_bytes), b.raw_bytes)
  BY DEF BitXor
<1>3. /\ Truncate(x.raw_bytes, x.bytes_length) = a.raw_bytes
      /\ Truncate(x.block_sizes, x.block_count) = a.block_sizes
  BY <1>1, <1>2, XorVectorsUndone DEF SuperBlocks, Filled
<1>4. x \in SuperBlocks
  BY BitXorType
<1> HIDE DEF x
<1>5. CropPadding(x) = a
  BY <1>1, <1>3, <1>4 DEF CropPadding, SuperBlocks
<1> QED BY <1>5 DEF x
------------------------------------------------------------------------------
(* Running sums, by which a superblock is cut up again (and a degree sampled). *)

LEMMA NumberInduction ==
  ASSUME NEW S \in SUBSET Nat, 0 \in S, \A m \in S : m + 1 \in S
  PROVE  S = Nat
<1> SUFFICES ASSUME Nat \ S # {} PROVE FALSE
  OBVIOUS
<1>1. PICK m \in Nat \ S : \A n \in Nat \ S : ~(<<n, m>> \in OpToRel(<, Nat))
  BY NatLessThanWellFounded, WFMin, Zenon
<1>2. \A n \in Nat \ S : ~(n < m)
  BY <1>1 DEF OpToRel
<1>3. m # 0 /\ m - 1 \in Nat /\ m - 1 < m /\ (m - 1) + 1 = m
  OBVIOUS
<1>4. m - 1 \in S
  BY <1>2, <1>3
<1> QED BY <1>3, <1>4

\* f is the running sum of the numbers w up to the place n.
IsSum(f, w, n) == f = [j \in 0..n |-> IF j = 0 THEN w[0] ELSE f[j - 1] + w[j]]

LEMMA SumStep ==
  ASSUME NEW n \in Nat, NEW w, NEW f, IsSum(f, w, n)
  PROVE  f[0] = w[0] /\ \A j \in 1..n : f[j] = f[j - 1] + w[j]
<1>1. \A j \in 0..n : f[j] = IF j = 0 THEN w[0] ELSE f[j - 1] + w[j]
  BY DEF IsSum
<1> QED BY <1>1

LEMMA SumType ==
  ASSUME NEW n \in Nat, NEW w \in [0..n -> Nat], NEW f, IsSum(f, w, n)
  PROVE  \A j \in 0..n : f[j] \in Nat
<1> DEFINE S == {m \in Nat : m <= n => f[m] \in Nat}
<1>0. f[0] = w[0] /\ \A j \in 1..n : f[j] = f[j - 1] + w[j]
  BY SumStep
<1>1. 0 \in S
  BY <1>0
<1>2. ASSUME NEW m \in S PROVE m + 1 \in S
  <2>1. CASE m + 1 <= n
    <3>1. m + 1 \in 1..n /\ (m + 1) - 1 = m /\ f[m] \in Nat /\ w[m + 1] \in Nat
      BY <1>2, <2>1
    <3>2. f[m + 1] = f[m] + w[m + 1]
      BY <1>0, <3>1
    <3> QED BY <3>1, <3>2
  <2> QED BY <2>1
<1>3. S = Nat
  <2> HIDE DEF S
  <2> QED BY <1>1, <1>2, NumberInduction DEF S
<1> QED BY <1>3

LEMMA SumGrows ==
  ASSUME NEW n \in Nat, NEW w \in [0..n -> Nat], NEW f, IsSum(f, w, n),
         NEW i \in 0..n, NEW j \in 0..n, i <= j
  PROVE  f[i] <= f[j]
<1> DEFINE S == {m \in Nat : i <= m /\ m <= n => f[i] <= f[m]}
<1>0. \A k \in 1..n : f[k] = f[k - 1] + w[k]
  BY SumStep
<1>1. \A m \in 0..n : f[m] \in Nat
  BY SumType
<1>2. 0 \in S
  BY <1>1
<1>3. ASSUME NEW m \in S PROVE m + 1 \in S
  <2>1. SUFFICES ASSUME i <= m, m + 1 <= n PROVE f[i] <= f[m + 1]
    BY <1>1
  <2>2. m + 1 \in 1..n /\ m \in 0..n /\ (m + 1) - 1 = m /\ f[i] <= f[m] /\ w[m + 1] \in Nat
    BY <1>3, <2>1
  <2>3. f[m + 1] = f[m] + w[m + 1]
    BY <1>0, <2>2
  <2> QED BY <1>1, <2>2, <2>3
<1>4. S = Nat
  <2> HIDE DEF S
  <2> QED BY <1>2, <1>3, NumberInduction DEF S
<1> QED BY <1>4

\* The equation of a running sum has a solution.
LEMMA SumExists ==
  ASSUME NEW n \in Nat, NEW w PROVE \E f : IsSum(f, w, n)
<1> DEFINE S == {m \in Nat : \E f : IsSum(f, w, m)}
<1>1. 0 \in S
  <2> DEFINE g == [j \in 0..0 |-> w[0]]
  <2>1. IsSum(g, w, 0)
    BY DEF IsSum
  <2> QED BY <2>1
<1>2. ASSUME NEW m \in S PROVE m + 1 \in S
  <2>1. PICK f : IsSum(f, w, m)
    BY <1>2
  <2> DEFINE g == [j \in 0..(m + 1) |-> IF j = m + 1 THEN f[m] + w[m + 1] ELSE f[j]]
  <2>2. f[0] = w[0] /\ \A j \in 1..m : f[j] = f[j - 1] + w[j]
    BY <2>1, SumStep
  <2>3. ASSUME NEW j \in 0..(m + 1) PROVE g[j] = IF j = 0 THEN w[0] ELSE g[j - 1] + w[j]
    <3>1. CASE j = m + 1
      BY <3>1
    <3>2. CASE j = 0
      BY <2>2, <3>2
    <3>3. CASE j \in 1..m
      BY <2>2, <3>3
    <3> QED BY <3>1, <3>2, <3>3
  <2>4. IsSum(g, w, m + 1)
    BY <2>3 DEF IsSum
  <2> QED BY <2>4
<1>3. S = Nat
  <2> HIDE DEF S
  <2> QED BY <1>1, <1>2, NumberInduction DEF S
<1> QED BY <1>3

\* The sum up to a place only depends on the numbers up to there.
LEMMA SumUnique ==
  ASSUME NEW m \in Nat, NEW n \in Nat, m <= n, NEW w, NEW v, NEW f, NEW g,
         IsSum(f, w, m), IsSum(g, v, n), \A j \in 0..m : w[j] = v[j]
  PROVE  \A j \in 0..m : f[j] = g[j]
<1> DEFINE S == {j \in Nat : j <= m => f[j] = g[j]}
<1>1. 0 \in S
  BY SumStep
<1>2. ASSUME NEW j \in S PROVE j + 1 \in S
  <2>1. CASE j + 1 <= m
    <3>1. j + 1 \in 1..m /\ j + 1 \in 1..n /\ j + 1 \in 0..m /\ (j + 1) - 1 = j /\ f[j] = g[j]
      BY <1>2, <2>1
    <3>2. f[j + 1] = f[j] + w[j + 1] /\ g[j + 1] = g[j] + v[j + 1]
      BY <3>1, SumStep
    <3> QED BY <3>1, <3>2
  <2> QED BY <2>1
<1>3. S = Nat
  <2> HIDE DEF S
  <2> QED BY <1>1, <1>2, NumberInduction DEF S
<1> QED BY <1>3
------------------------------------------------------------------------------
(* Cutting up. *)

\* What the ends of the blocks are the running sum of.
Sizes(v) == [j \in 0..Len(v) |-> IF j = 0 THEN 0 ELSE v[j]]

LEMMA EndIsSum ==
  ASSUME NEW sb, Len(sb.block_sizes) \in Nat
  PROVE  \E f : /\ IsSum(f, Sizes(sb.block_sizes), Len(sb.block_sizes))
                /\ \A i : End(sb, i) = f[i]
<1> DEFINE n == Len(sb.block_sizes)
           F(e) == [j \in 0..n |-> IF j = 0 THEN 0 ELSE e[j - 1] + sb.block_sizes[j]]
           end == CHOOSE e : e = F(e)
<1>1. \A e : e = F(e) <=> IsSum(e, Sizes(sb.block_sizes), n)
  <2> SUFFICES ASSUME NEW e PROVE F(e) = [j \in 0..n |-> IF j = 0 THEN Sizes(sb.block_sizes)[0]
                                          ELSE e[j - 1] + Sizes(sb.block_sizes)[j]]
    BY DEF IsSum
  <2> QED BY DEF Sizes
<1>2. \E e : e = F(e)
  BY <1>1, SumExists
<1>3. end = F(end)
  BY <1>2
<1>4. \A i : End(sb, i) = end[i]
  BY DEF End
<1> QED BY <1>1, <1>3, <1>4

\* The blocks are as long, together, as the bytes.
Cuttable(sb) == End(sb, Len(sb.block_sizes)) = Len(sb.raw_bytes)

LEMMA EndOfAdded ==
  ASSUME NEW sb \in SuperBlocks, NEW block \in Seq(Numbers), Cuttable(sb)
  PROVE  /\ \A i \in 0..Len(sb.block_sizes) : /\ End(Add(sb, block), i) = End(sb, i)
                                              /\ End(sb, i) \in Nat
                                              /\ End(sb, i) <= Len(sb.raw_bytes)
         /\ \A i \in 1..Len(sb.block_sizes) : End(sb, i - 1) <= End(sb, i)
         /\ End(Add(sb, block), Len(sb.block_sizes) + 1) = Len(sb.raw_bytes) + Len(block)
<1> DEFINE v == sb.block_sizes
           w == Append(v, Len(block))
           n == Len(v)
<1>1. /\ v \in Seq(Numbers) /\ n \in Nat /\ w \in Seq(Nat) /\ Len(w) = n + 1 /\ w[n + 1] = Len(block)
      /\ \A i \in 1..n : w[i] = v[i] /\ v[i] \in Nat
  BY SuperBlockBounds DEF SuperBlocks, Numbers
<1>2. Add(sb, block).block_sizes = w
  BY DEF Add, SuperBlocks
<1> HIDE DEF v, w
<1>3. PICK f : IsSum(f, Sizes(v), n) /\ \A i : End(sb, i) = f[i]
  BY <1>1, EndIsSum DEF v
<1>4. PICK g : IsSum(g, Sizes(w), n + 1) /\ \A i : End(Add(sb, block), i) = g[i]
  <2>1. Len(Add(sb, block).block_sizes) = n + 1 /\ n + 1 \in Nat
    BY <1>1, <1>2
  <2> QED BY <1>2, <2>1, EndIsSum
<1>5. /\ Sizes(v) \in [0..n -> Nat] /\ \A j \in 0..n : Sizes(v)[j] = Sizes(w)[j]
      /\ Sizes(w)[n + 1] = Len(block)
  BY <1>1 DEF Sizes
<1>6. \A j \in 0..n : f[j] = g[j] /\ f[j] \in Nat
  <2>1. \A j \in 0..n : f[j] \in Nat
    BY <1>1, <1>3, <1>5, SumType
  <2>2. n + 1 \in Nat /\ n <= n + 1
    BY <1>1
  <2> DEFINE a == Sizes(v)
             b == Sizes(w)
  <2>3. n \in Nat /\ IsSum(f, a, n) /\ IsSum(g, b, n + 1) /\ \A j \in 0..n : a[j] = b[j]
    BY <1>1, <1>3, <1>4, <1>5
  <2> HIDE DEF a, b
  <2>4. \A j \in 0..n : f[j] = g[j]
    <3> HIDE DEF n
    <3> QED BY <2>2, <2>3, SumUnique
  <2> QED BY <2>1, <2>4
<1>7. f[n] = Len(sb.raw_bytes)
  BY <1>3 DEF Cuttable, v
<1>11. \A i, j \in 0..n : i <= j => f[i] <= f[j]
  BY <1>1, <1>3, <1>5, SumGrows
<1>8. \A i \in 0..n : f[i] <= f[n]
  BY <1>1, <1>11
<1>9. \A i \in 1..n : f[i - 1] <= f[i]
  BY <1>1, <1>11
<1>10. g[n + 1] = Len(sb.raw_bytes) + Len(block)
  <2>1. n + 1 \in 1..(n + 1) /\ (n + 1) - 1 = n /\ n \in 0..n /\ n + 1 \in Nat
    BY <1>1
  <2>2. g[n + 1] = g[n] + Len(block)
    BY <1>4, <1>5, <2>1, SumStep
  <2> QED BY <1>6, <1>7, <2>1, <2>2
<1> QED BY <1>3, <1>4, <1>6, <1>7, <1>8, <1>9, <1>10 DEF v

LEMMA NewCuttable == \A num \in Numbers : Cuttable(New(num)) /\ IntoBlocks(New(num)) = << >>
<1> SUFFICES ASSUME NEW num \in Numbers PROVE Cuttable(New(num)) /\ IntoBlocks(New(num)) = << >>
  OBVIOUS
<1>1. New(num).block_sizes = << >> /\ New(num).raw_bytes = << >>
  BY DEF New
<1>2. PICK f : IsSum(f, Sizes(<< >>), 0) /\ \A i : End(New(num), i) = f[i]
  BY <1>1, EndIsSum
<1>3. f[0] = 0
  BY <1>2, SumStep DEF Sizes
<1> QED BY <1>1, <1>2, <1>3 DEF Cuttable, IntoBlocks

LEMMA SubSeqOfFirst ==
  ASSUME NEW s \in Seq(Numbers), NEW t \in Seq(Numbers), NEW a \in Nat, NEW b \in Nat, b <= Len(s)
  PROVE  SubSeq(s \o t, a + 1, b) = SubSeq(s, a + 1, b)
<1>1. \A i \in 1..Len(s) : (s \o t)[i] = s[i]
  OBVIOUS
<1>2. \A i \in 1..(b - a) : (s \o t)[a + i] = s[a + i]
  BY <1>1
<1>3. SubSeq(s \o t, a + 1, b) = [i \in 1..(b - a) |-> (s \o t)[a + i]]
  OBVIOUS
<1>4. SubSeq(s, a + 1, b) = [i \in 1..(b - a) |-> s[a + i]]
  OBVIOUS
<1> QED BY <1>2, <1>3, <1>4

LEMMA SubSeqOfSecond ==
  ASSUME NEW s \in Seq(Numbers), NEW t \in Seq(Numbers)
  PROVE  SubSeq(s \o t, Len(s) + 1, Len(s) + Len(t)) = t
<1>1. \A i \in 1..Len(t) : (s \o t)[Len(s) + i] = t[i]
  OBVIOUS
<1>2. SubSeq(s \o t, Len(s) + 1, Len(s) + Len(t)) = [i \in 1..Len(t) |-> (s \o t)[Len(s) + i]]
  OBVIOUS
<1>3. t = [i \in 1..Len(t) |-> t[i]]
  OBVIOUS
<1> QED BY <1>1, <1>2, <1>3

\* Cutting up a superblock gives the blocks that were added, in their order and
\* with all their bytes (super_block.rs:44, 78 and 106): the recorded sizes and the
\* bytes stay in step.
THEOREM BlocksComeBack ==
  ASSUME NEW sb \in SuperBlocks, NEW block \in Seq(Numbers), Cuttable(sb)
  PROVE  /\ Cuttable(Add(sb, block))
         /\ IntoBlocks(Add(sb, block)) = Append(IntoBlocks(sb), block)
<1> DEFINE n == Len(sb.block_sizes)
           x == Add(sb, block)
           bytes == sb.raw_bytes
<1>1. /\ x.block_sizes = Append(sb.block_sizes, Len(block)) /\ x.raw_bytes = bytes \o block
      /\ bytes \in Seq(Numbers) /\ n \in Nat /\ Len(x.block_sizes) = n + 1
      /\ Len(x.raw_bytes) = Len(bytes) + Len(block)
  BY DEF Add, SuperBlocks
<1> HIDE DEF x
<1>2. /\ \A i \in 0..n : End(x, i) = End(sb, i) /\ End(sb, i) \in Nat /\ End(sb, i) <= Len(bytes)
      /\ \A i \in 1..n : End(sb, i - 1) <= End(sb, i)
      /\ End(x, n + 1) = Len(bytes) + Len(block)
  BY EndOfAdded DEF x
<1>3. Cuttable(x)
  BY <1>1, <1>2 DEF Cuttable
<1>4. ASSUME NEW i \in 1..n
      PROVE  SubSeq(x.raw_bytes, End(x, i - 1) + 1, End(x, i))
               = SubSeq(bytes, End(sb, i - 1) + 1, End(sb, i))
  <2>1. /\ End(x, i - 1) = End(sb, i - 1) /\ End(x, i) = End(sb, i)
        /\ End(sb, i - 1) \in Nat /\ End(sb, i) \in Nat /\ End(sb, i) <= Len(bytes)
    BY <1>1, <1>2
  <2>2. \A a, b \in Nat : b <= Len(bytes) => SubSeq(bytes \o block, a + 1, b) = SubSeq(bytes, a + 1, b)
    <3> HIDE DEF bytes
    <3> QED BY <1>1, SubSeqOfFirst
  <2> QED BY <1>1, <2>1, <2>2
<1>5. SubSeq(x.raw_bytes, End(x, n) + 1, End(x, n + 1)) = block
  <2>1. End(x, n) = Len(bytes) /\ End(x, n + 1) = Len(bytes) + Len(block)
    BY <1>1, <1>2 DEF Cuttable
  <2> QED BY <1>1, <2>1, SubSeqOfSecond
<1>10. (n + 1) - 1 = n /\ \A i \in 1..(n + 1) : i = n + 1 \/ i \in 1..n
  BY <1>1
<1>6. IntoBlocks(x) = [i \in 1..(n + 1) |-> IF i = n + 1 THEN block
                         ELSE SubSeq(bytes, End(sb, i - 1) + 1, End(sb, i))]
  BY <1>1, <1>4, <1>5, <1>10 DEF IntoBlocks
<1>7. IntoBlocks(sb) = [i \in 1..n |-> SubSeq(bytes, End(sb, i - 1) + 1, End(sb, i))]
  BY DEF IntoBlocks
<1>8. Len(IntoBlocks(sb)) = n
  BY <1>1, <1>7
<1>9. Append(IntoBlocks(sb), block) = [i \in 1..(n + 1) |-> IF i = n + 1 THEN block
                                         ELSE SubSeq(bytes, End(sb, i - 1) + 1, End(sb, i))]
  BY <1>1, <1>7, <1>8
<1> QED BY <1>3, <1>6, <1>9 DEF x
------------------------------------------------------------------------------
(* The superblocks that are cut: started empty, and filled with one block    *)
(* after the other as long as there is space (compressor.rs:155-186).        *)

Fillings == SuperBlocks \X Seq(Seq(Numbers))
FilledOn(C) ==
  /\ \A num \in Numbers : <<New(num), << >>>> \in C
  /\ \A p \in C : \A block \in Seq(Numbers) :
       /\ Len(block) <= AvailableSpace(p[1]) /\ Add(p[1], block) \in SuperBlocks
       => <<Add(p[1], block), Append(p[2], block)>> \in C
Cut == {p \in Fillings : \A C \in SUBSET Fillings : FilledOn(C) => p \in C}

\* A superblock that was cut holds the blocks that were put into it, as many
\* as there were, is filled and can be read from its file: what the decoder
\* relies on when it crops the padding (super_block.rs:43, 78, 106 and 126).
THEOREM CutSuperBlocks ==
  \A sb, blocks : <<sb, blocks>> \in Cut =>
    Filled(sb) /\ Loadable(sb) /\ EnoughBytes(sb) /\ IntoBlocks(sb) = blocks
<1> DEFINE Good(sb, blocks) == /\ Filled(sb) /\ Loadable(sb) /\ Cuttable(sb)
                               /\ IntoBlocks(sb) = blocks
           C == {p \in Fillings : Good(p[1], p[2])}
<1>1. ASSUME NEW num \in Numbers PROVE <<New(num), << >>>> \in C
  <2>1. New(num) \in SuperBlocks /\ Filled(New(num)) /\ Loadable(New(num))
    BY SuperBlockBounds DEF New, SuperBlocks, Filled, Loadable, Numbers
  <2>2. Cuttable(New(num)) /\ IntoBlocks(New(num)) = << >> /\ << >> \in Seq(Seq(Numbers))
    BY NewCuttable
  <2> DEFINE x == New(num)
  <2> HIDE DEF x
  <2>3. Good(x, << >>) /\ <<x, << >>>> \in Fillings
    BY <2>1, <2>2 DEF x, Fillings
  <2> QED BY <2>3 DEF x
<1>2. ASSUME NEW p \in C, NEW block \in Seq(Numbers),
             Len(block) <= AvailableSpace(p[1]), Add(p[1], block) \in SuperBlocks
      PROVE  <<Add(p[1], block), Append(p[2], block)>> \in C
  <2> DEFINE sb == p[1]
             x == Add(sb, block)
  <2>1. sb \in SuperBlocks /\ p[2] \in Seq(Seq(Numbers)) /\ Good(sb, p[2])
    BY DEF Fillings
  <2>2. Filled(x)
    BY <2>1, AddKeepsFilled
  <2>3. Cuttable(x) /\ IntoBlocks(x) = Append(p[2], block)
    BY <2>1, BlocksComeBack
  <2>4. Loadable(x)
    <3>1. Len(x.raw_bytes) = Len(sb.raw_bytes) + Len(block) /\ Len(sb.raw_bytes) \in Nat
      BY <2>1 DEF Add, SuperBlocks
    <3>2. Len(block) <= SuperBlockMaxSize - Len(sb.raw_bytes)
      BY <1>2 DEF AvailableSpace
    <3> QED BY <3>1, <3>2, SuperBlockBounds DEF Loadable, Numbers
  <2>5. Append(p[2], block) \in Seq(Seq(Numbers))
    BY <2>1
  <2>6. x \in SuperBlocks
    BY <1>2
  <2> HIDE DEF x, sb
  <2> QED BY <2>2, <2>3, <2>4, <2>5, <2>6 DEF Fillings, x, sb
<1>3. FilledOn(C)
  BY <1>1, <1>2 DEF FilledOn
<1>4. \A p \in Cut : Good(p[1], p[2])
  BY <1>3 DEF Cut
<1>5. ASSUME NEW sb, NEW blocks, <<sb, blocks>> \in Cut PROVE EnoughBytes(sb)
  <2>1. Cuttable(sb) /\ sb \in SuperBlocks
    BY <1>4, <1>5 DEF Cut, Fillings
  <2> QED BY <2>1 DEF Cuttable, EnoughBytes, SuperBlocks
<1> QED BY <1>4, <1>5
==============================================================================

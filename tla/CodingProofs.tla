----------------------------- MODULE CodingProofs -----------------------------
(***************************************************************************)
(* Proofs about Coding, for every number, length and cutting of the        *)
(* superblocks, every sample and choice of neighbors, and every order in   *)
(* which superblocks are XORed in and out.                                 *)
(***************************************************************************)
EXTENDS Coding, SuperBlockProofs, FiniteSetTheorems
------------------------------------------------------------------------------
(* The distribution. *)

LEMMA QuotientType ==
  ASSUME NEW a \in Nat, NEW b \in Nat \ {0} PROVE a \div b \in Nat
OBVIOUS

LEMMA ProductPositive ==
  ASSUME NEW a \in Nat \ {0}, NEW b \in Nat \ {0} PROVE a * b \in Nat \ {0}
OBVIOUS

LEMMA PmfType == Pmf(0) = 0 /\ \A d \in Degrees : Pmf(d) \in Nat
<1>0. K \in Nat \ {0} /\ R \in Nat \ {0} /\ Unit \in Nat /\ SpikeWeight \in Nat
  BY DistributionAssumption
<1>1. Pmf(0) = 0
  BY DEF Pmf, Ideal, DiracSpike
<1>2. ASSUME NEW d \in Degrees PROVE Ideal(d) \in Nat
  <2>1. CASE d = 0 \/ d = 1
    <3>1. Unit \div K \in Nat
      BY <1>0, QuotientType
    <3> QED BY <2>1, <3>1 DEF Ideal
  <2>2. CASE ~(d = 0 \/ d = 1)
    <3>1. d \in Nat \ {0} /\ d - 1 \in Nat \ {0}
      BY <1>0, <2>2 DEF Degrees
    <3>2. d * (d - 1) \in Nat \ {0}
      BY <3>1, ProductPositive
    <3>3. Unit \div (d * (d - 1)) \in Nat
      BY <1>0, <3>2, QuotientType
    <3> QED BY <2>2, <3>3 DEF Ideal
  <2> QED BY <2>1, <2>2
<1>3. ASSUME NEW d \in Degrees PROVE DiracSpike(d) \in Nat
  <2>1. CASE d = 0
    BY <2>1 DEF DiracSpike
  <2>2. CASE d # 0
    <3>1. d \in Nat \ {0}
      BY <1>0, <2>2 DEF Degrees
    <3>2. d * R \in Nat \ {0}
      BY <1>0, <3>1, ProductPositive
    <3>3. Unit \div (d * R) \in Nat
      BY <1>0, <3>2, QuotientType
    <3> QED BY <1>0, <2>2, <3>3 DEF DiracSpike
  <2> QED BY <2>1, <2>2
<1> QED BY <1>1, <1>2, <1>3 DEF Pmf

Densities == [d \in Degrees |-> Pmf(d)]

\* The equation that Cdf is defined by has a solution, the running sum.
LEMMA CdfIsSum == IsSum(Cdf, Densities, K)
<1> DEFINE F(g) == [d \in Degrees |-> IF d = 0 THEN Pmf(0) ELSE g[d - 1] + Pmf(d)]
<1>0. K \in Nat
  BY DistributionAssumption
<1>1. \A g : g = F(g) <=> IsSum(g, Densities, K)
  <2> SUFFICES ASSUME NEW g
               PROVE F(g) = [j \in 0..K |-> IF j = 0 THEN Densities[0] ELSE g[j - 1] + Densities[j]]
    BY DEF IsSum
  <2>1. \A d \in 0..K : Densities[d] = Pmf(d)
    BY DEF Densities, Degrees
  <2> QED BY <1>0, <2>1 DEF Degrees
<1>2. \E g : g = F(g)
  BY <1>0, <1>1, SumExists
<1>3. Cdf = F(Cdf)
  BY <1>2 DEF Cdf
<1> QED BY <1>1, <1>3

LEMMA CdfFacts ==
  /\ K \in Nat \ {0} /\ Cdf[0] = 0 /\ Total \in Nat /\ Shortfall \in Nat
  /\ \A d \in Degrees : Cdf[d] \in Nat
  /\ \A d \in 1..K : Cdf[d] = Cdf[d - 1] + Pmf(d) /\ Pmf(d) \in Nat
  /\ \A c, d \in Degrees : c <= d => Cdf[c] <= Cdf[d]
<1>1. K \in Nat \ {0} /\ Densities \in [0..K -> Nat]
  BY DistributionAssumption, PmfType DEF Densities, Degrees
<1>2. \A d \in 0..K : Densities[d] = Pmf(d)
  BY DEF Densities, Degrees
<1>3. Cdf[0] = Densities[0] /\ \A d \in 1..K : Cdf[d] = Cdf[d - 1] + Densities[d]
  BY <1>1, CdfIsSum, SumStep
<1>4. \A d \in 0..K : Cdf[d] \in Nat
  BY <1>1, CdfIsSum, SumType
<1>5. \A c, d \in 0..K : c <= d => Cdf[c] <= Cdf[d]
  BY <1>1, CdfIsSum, SumGrows
<1> QED BY <1>1, <1>2, <1>3, <1>4, <1>5, PmfType, DistributionAssumption DEF Degrees, Total

\* The search finds the first entry that is not below the sample.
LEMMA SampleIs ==
  ASSUME NEW u \in Nat, NEW m \in 1..K, Cdf[m - 1] < u, u <= Cdf[m]
  PROVE  Sample(u) = m
<1>1. ASSUME NEW d \in Degrees PROVE Cdf[d] < u <=> d \in 0..(m - 1)
  <2>0. m - 1 \in Degrees /\ m \in Degrees /\ d \in Nat /\ m \in Nat
    BY CdfFacts DEF Degrees
  <2>1. CASE d <= m - 1
    BY <2>0, <2>1, CdfFacts
  <2>2. CASE m <= d
    BY <2>0, <2>2, CdfFacts
  <2> QED BY <2>0, <2>1, <2>2
<1>2. {d \in Degrees : Cdf[d] < u} = 0..(m - 1)
  BY <1>1, CdfFacts DEF Degrees
<1>3. Cardinality(0..(m - 1)) = m
  BY FS_Interval, CdfFacts
<1> QED BY <1>2, <1>3 DEF Sample

LEMMA SampleFound ==
  ASSUME NEW u \in 1..Total
  PROVE  \E m \in 1..K : Cdf[m - 1] < u /\ u <= Cdf[m]
<1> DEFINE S == {d \in Nat : d <= K => Cdf[d] < u}
<1> SUFFICES ASSUME \A m \in 1..K : ~(Cdf[m - 1] < u /\ u <= Cdf[m]) PROVE FALSE
  OBVIOUS
<1>1. 0 \in S
  BY CdfFacts
<1>2. ASSUME NEW d \in S PROVE d + 1 \in S
  <2>1. SUFFICES ASSUME d + 1 <= K PROVE Cdf[d + 1] < u
    OBVIOUS
  <2>2. d + 1 \in 1..K /\ d + 1 \in Degrees /\ (d + 1) - 1 = d /\ Cdf[d] < u /\ u \in Nat
    BY <1>2, <2>1, CdfFacts DEF Degrees
  <2>3. ~(u <= Cdf[d + 1]) /\ Cdf[d + 1] \in Nat
    BY <2>2, CdfFacts
  <2> QED BY <2>2, <2>3
<1>3. S = Nat
  <2> HIDE DEF S
  <2> QED BY <1>1, <1>2, NumberInduction DEF S
<1>4. Cdf[K] < u
  BY <1>3, CdfFacts
<1> QED BY <1>4, CdfFacts DEF Total

\* The number 0 gives no degree of a droplet, nor do those above the last entry.
LEMMA SampleOfZero == Sample(0) = 0
<1>1. {d \in Degrees : Cdf[d] < 0} = {}
  BY CdfFacts
<1> QED BY <1>1, FS_EmptySet DEF Sample

LEMMA SampleAbove ==
  ASSUME NEW u \in (Total + 1)..(Total + Shortfall) PROVE Sample(u) = K + 1
<1>0. K \in Degrees /\ u \in Nat /\ Total \in Nat
  BY CdfFacts DEF Degrees
<1>1. \A d \in Degrees : Cdf[d] \in Nat /\ Cdf[d] <= Total
  BY <1>0, CdfFacts DEF Total, Degrees
<1>2. {d \in Degrees : Cdf[d] < u} = 0..K
  BY <1>0, <1>1 DEF Degrees
<1>3. Cardinality(0..K) = K + 1
  BY FS_Interval, CdfFacts
<1> QED BY <1>2, <1>3 DEF Sample

\* Every sample is 0, or one of a degree of droplets, or above the last entry.
LEMMA SampleKinds ==
  \A u \in Samples : \/ u = 0 /\ Sample(u) = 0
                     \/ u \in 1..Total /\ Sample(u) \in 1..K
                     \/ u \in (Total + 1)..(Total + Shortfall) /\ Sample(u) = K + 1
<1>1. ASSUME NEW u \in 1..Total PROVE Sample(u) \in 1..K
  <2>1. PICK m \in 1..K : Cdf[m - 1] < u /\ u <= Cdf[m]
    BY SampleFound
  <2> QED BY <2>1, SampleIs, CdfFacts
<1>2. \A u \in Samples : u = 0 \/ u \in 1..Total \/ u \in (Total + 1)..(Total + Shortfall)
  BY CdfFacts DEF Samples
<1> QED BY <1>1, <1>2, SampleOfZero, SampleAbove

LEMMA SampleType == \A u \in Samples : Sample(u) \in 0..(K + 1)
BY SampleKinds, CdfFacts

\* Every degree comes out of as many samples as its density says.
LEMMA SamplesOfDegree ==
  ASSUME NEW d \in 1..K
  PROVE  Cardinality({u \in Samples : Sample(u) = d}) = Pmf(d)
<1>0. /\ d \in Degrees /\ d - 1 \in Degrees /\ K \in Degrees /\ Cdf[d - 1] \in Nat /\ Cdf[d] \in Nat
      /\ Cdf[d] = Cdf[d - 1] + Pmf(d) /\ Pmf(d) \in Nat /\ Cdf[d] <= Total /\ Total \in Nat
  BY CdfFacts DEF Degrees, Total
<1>1. ASSUME NEW u \in 1..Total PROVE Sample(u) = d <=> u \in (Cdf[d - 1] + 1)..Cdf[d]
  <2>1. PICK m \in 1..K : Cdf[m - 1] < u /\ u <= Cdf[m]
    BY SampleFound
  <2>2. Sample(u) = m /\ u \in Nat
    BY <2>1, SampleIs, <1>0
  <2>3. ASSUME u \in (Cdf[d - 1] + 1)..Cdf[d] PROVE Sample(u) = d
    BY <1>0, <2>2, <2>3, SampleIs
  <2>4. ASSUME m = d PROVE u \in (Cdf[d - 1] + 1)..Cdf[d]
    BY <1>0, <2>1, <2>2, <2>4
  <2> QED BY <2>2, <2>3, <2>4
<1>2. {u \in Samples : Sample(u) = d} = (Cdf[d - 1] + 1)..Cdf[d]
  <2>1. 1..Total \subseteq Samples /\ \A u \in Samples : Sample(u) = d => u \in 1..Total
    BY <1>0, SampleKinds, CdfFacts DEF Samples
  <2>2. \A u \in (Cdf[d - 1] + 1)..Cdf[d] : u \in 1..Total
    BY <1>0
  <2> QED BY <1>1, <2>1, <2>2
<1>3. \A a, b \in Nat : Cardinality((a + 1)..(a + b)) = b
  <2> SUFFICES ASSUME NEW a \in Nat, NEW b \in Nat PROVE Cardinality((a + 1)..(a + b)) = b
    OBVIOUS
  <2>1. a + 1 \in Int /\ a + b \in Int
    OBVIOUS
  <2>2. Cardinality((a + 1)..(a + b)) = IF a + 1 > a + b THEN 0 ELSE (a + b) - (a + 1) + 1
    BY <2>1, FS_Interval
  <2> QED BY <2>2
<1>4. Cardinality((Cdf[d - 1] + 1)..(Cdf[d - 1] + Pmf(d))) = Pmf(d)
  BY <1>0, <1>3
<1> QED BY <1>0, <1>2, <1>4
------------------------------------------------------------------------------
(* Types. *)

DropletRecords == [num : Nat, neighbors : SUBSET Numbering, xored_superblock : SuperBlocks]

\* What the types rest on: the number of the next droplet is its place.
TypeInv ==
  /\ TypeOK
  /\ droplets \in Seq(DropletRecords)
  /\ encoding \in {"none", "ready"} => neighbors = {}
  /\ encoding # "none" => droplet_counter = Len(droplets)
  /\ encoding \in {"draw", "xor"} => droplet_counter < MaxDroplets

LEMMA Basics ==
  /\ IsFiniteSet(Numbering) /\ K \in Nat /\ MaxDroplets \in Nat /\ MaxVanished \in Nat
  /\ New(0) \in SuperBlocks /\ Cardinality({}) = 0 /\ 0 \in 0..MaxDroplets
  /\ \A S \in SUBSET Numbering : IsFiniteSet(S) /\ Cardinality(S) \in Nat
<1>1. IsFiniteSet(Numbering)
  BY FS_Interval, DistributionAssumption DEF Numbering
<1>2. \A S \in SUBSET Numbering : IsFiniteSet(S)
  BY <1>1, FS_Subset
<1>3. \A S \in SUBSET Numbering : Cardinality(S) \in Nat
  BY <1>2, FS_CardinalityType
<1>4. New(0) \in SuperBlocks
  BY SuperBlockBounds DEF New, SuperBlocks, Numbers
<1>5. K \in Nat
  BY CdfFacts
<1> QED BY <1>1, <1>2, <1>3, <1>4, <1>5, EncoderAssumption, CodingAssumption, FS_EmptySet

LEMMA SourceType == ASSUME TypeOK PROVE \A n \in Numbering : super_blocks[n] \in SuperBlocks
BY EncoderAssumption DEF TypeOK

LEMMA TruncateType ==
  ASSUME NEW v \in Seq(Numbers), NEW n \in Nat PROVE Truncate(v, n) \in Seq(Numbers)
<1>1. Smaller(n, Len(v)) \in Nat /\ Smaller(n, Len(v)) <= Len(v)
  BY DEF Smaller
<1> QED BY <1>1 DEF Truncate

LEMMA CropType == ASSUME NEW x \in SuperBlocks PROVE CropPadding(x) \in SuperBlocks
<1>1. x.bytes_length \in Nat /\ x.block_count \in Nat
  BY SuperBlockBounds DEF SuperBlocks, Numbers
<1>2. /\ Truncate(x.raw_bytes, x.bytes_length) \in Seq(Numbers)
      /\ Truncate(x.block_sizes, x.block_count) \in Seq(Numbers)
  BY <1>1, TruncateType DEF SuperBlocks
<1> QED BY <1>2 DEF CropPadding, SuperBlocks

LEMMA TypeInit == Init => TypeInv
<1> SUFFICES ASSUME Init PROVE TypeInv
  OBVIOUS
<1>1. droplets \in Seq(DropletRecords) /\ Len(droplets) = 0 /\ DOMAIN droplets = {}
  BY DEF Init, InitEncoder
<1> QED BY <1>1, Basics DEF Init, InitEncoder, NoDroplet, TypeInv, TypeOK

LEMMA EncodeType ==
  ASSUME TypeInv, Encode, UNCHANGED decoderVars PROVE TypeInv'
<1> USE DEF source, droplet, decoderVars
<1>0. /\ TypeOK /\ droplets \in Seq(DropletRecords) /\ Len(droplets) \in Nat /\ MaxDroplets \in Nat
      /\ degree \in Nat
  BY Basics, CdfFacts DEF TypeInv, TypeOK, Degrees
<1>1. CASE InitEpoch \/ TruncateStorage
  <2>1. /\ UNCHANGED <<super_blocks, droplets, degree, neighbors, remaining, encoded>>
        /\ UNCHANGED <<known, recovered, decoding, toXorOut, unknown, rejected, vanished>>
        /\ \/ encoding = "none" /\ encoding' = "ready" /\ droplet_counter' = Len(droplets)
           \/ encoding = "ready" /\ encoding' = "none" /\ droplet_counter' = droplet_counter
    BY <1>1 DEF InitEpoch, TruncateStorage
  <2>2. droplet_counter' \in 0..MaxDroplets
    BY <1>0, <2>1 DEF TypeOK
  <2> QED BY <2>1, <2>2 DEF TypeInv, TypeOK
<1>2. ASSUME NEW u \in Samples, SampleDegree(u) PROVE TypeInv'
  <2>1. degree' \in 0..(K + 1) /\ degree' \in Nat /\ neighbors = {}
    BY <1>2, SampleType, CdfFacts DEF SampleDegree, TypeInv
  <2>2. Cardinality(neighbors) <= degree'
    BY <2>1, Basics
  <2> QED BY <1>2, <2>1, <2>2 DEF SampleDegree, TypeInv, TypeOK
<1>3. ASSUME NEW n \in Numbering, Draw(n) PROVE TypeInv'
  <2>1. neighbors' = neighbors \cup {n} /\ Cardinality(neighbors) < degree /\ encoding' = "draw"
    BY <1>3 DEF Draw
  <2>2. neighbors' \subseteq Numbering /\ remaining \subseteq neighbors'
    BY <1>0, <2>1 DEF TypeOK
  <2>3. Cardinality(neighbors') <= degree
    <3>1. IsFiniteSet(neighbors) /\ Cardinality(neighbors) \in Nat
      BY <1>0, Basics DEF TypeOK
    <3>2. Cardinality(neighbors \cup {n}) = IF n \in neighbors THEN Cardinality(neighbors)
                                              ELSE Cardinality(neighbors) + 1
      BY <3>1, FS_AddElement
    <3> QED BY <1>0, <2>1, <3>1, <3>2
  <2> QED BY <1>3, <2>1, <2>2, <2>3 DEF Draw, TypeInv, TypeOK
<1>4. CASE StartXor
  BY <1>4, Basics DEF StartXor, Drawn, TypeInv, TypeOK
<1>5. ASSUME NEW n \in Numbering, XorNeighbor(n) PROVE TypeInv'
  <2>1. encoded' \in SuperBlocks
    BY <1>0, <1>5, SourceType, BitXorType DEF XorNeighbor, TypeOK
  <2> QED BY <1>5, <2>1 DEF XorNeighbor, TypeInv, TypeOK
<1>6. CASE Panic \/ SuperBlockNotFound
  <2>1. /\ UNCHANGED <<super_blocks, droplets, droplet_counter>> /\ encoding' = "none"
        /\ degree' = 0 /\ neighbors' = {} /\ remaining' = {} /\ encoded' = New(0)
    BY <1>6 DEF Panic, SuperBlockNotFound, Forget
  <2>2. Cardinality(neighbors') <= degree'
    BY <2>1, Basics
  <2> QED BY <2>1, <2>2, Basics DEF TypeInv, TypeOK
<1>7. CASE FinishDroplet
  <2> DEFINE d == [num |-> droplet_counter, neighbors |-> neighbors, xored_superblock |-> encoded]
  <2>1. d \in DropletRecords
    BY <1>0 DEF DropletRecords, TypeOK
  <2>2. /\ droplets' = Append(droplets, d) /\ encoding = "xor" /\ encoding' = "ready"
        /\ droplet_counter' = droplet_counter + 1
    BY <1>7 DEF FinishDroplet
  <2> HIDE DEF d
  <2>3. /\ droplets' \in Seq(DropletRecords) /\ Len(droplets') = Len(droplets) + 1
        /\ DOMAIN droplets \subseteq DOMAIN droplets'
    BY <1>0, <2>1, <2>2
  <2>4. droplet_counter = Len(droplets) /\ droplet_counter < MaxDroplets
    BY <2>2 DEF TypeInv
  <2> QED BY <1>0, <1>7, <2>2, <2>3, <2>4, Basics DEF FinishDroplet, Forget, TypeInv, TypeOK
<1> QED BY <1>1, <1>2, <1>3, <1>4, <1>5, <1>6, <1>7 DEF Encode, Generate

DecodedTypes ==
  /\ known \subseteq Numbering /\ DOMAIN recovered \subseteq known
  /\ \A n \in DOMAIN recovered : recovered[n] \in SuperBlocks
  /\ decoding \in {0} \cup DOMAIN droplets
  /\ toXorOut \subseteq Numbering
  /\ unknown \in SuperBlocks
  /\ rejected \subseteq DOMAIN droplets /\ hollow \subseteq known
  /\ vanished \in 0..MaxVanished

LEMMA DecodeType ==
  ASSUME TypeInv, Decode, UNCHANGED encoderVars PROVE TypeInv'
<1> USE DEF encoderVars, source, droplet, NextDroplet
<1>0. /\ DecodedTypes /\ droplets \in Seq(DropletRecords) /\ droplets' = droplets
      /\ \A i \in DOMAIN droplets : droplets[i] \in DropletRecords
  BY DEF TypeInv, TypeOK, DecodedTypes
<1>1. SUFFICES DecodedTypes'
  BY DEF TypeInv, TypeOK, DecodedTypes
<1>2. ASSUME NEW i \in DOMAIN droplets, TakeDroplet(i) PROVE DecodedTypes'
  BY <1>0, <1>2 DEF TakeDroplet, DropletRecords, DecodedTypes
<1>3. ASSUME NEW n \in Numbering, XorOut(n) PROVE DecodedTypes'
  <2>1. unknown' \in SuperBlocks
    BY <1>0, <1>3, BitXorType DEF XorOut, DecodedTypes
  <2> QED BY <1>0, <1>3, <2>1 DEF XorOut, DecodedTypes
<1>4. ASSUME NEW n \in Numbering, Vanish(n) PROVE DecodedTypes'
  <2>1. vanished' \in 0..MaxVanished
    BY <1>0, <1>4, Basics DEF Vanish, DecodedTypes
  <2> QED BY <1>0, <1>4, <2>1 DEF Vanish, DecodedTypes
<1>5. CASE Accept
  <2>1. PICK u \in droplets[decoding].neighbors \ known :
          /\ known' = known \cup {u}
          /\ recovered' = [n \in DOMAIN recovered \cup {u} |->
                             IF n = u THEN CropPadding(unknown) ELSE recovered[n]]
          /\ hollow' \in {hollow, hollow \cup {u}}
    BY <1>5 DEF Accept
  <2>2. decoding \in DOMAIN droplets
    BY <1>0, <1>5 DEF Accept, Decoded, DecodedTypes
  <2>3. u \in Numbering
    BY <1>0, <2>1, <2>2 DEF DropletRecords
  <2>4. CropPadding(unknown) \in SuperBlocks
    BY <1>0, CropType DEF DecodedTypes
  <2> QED BY <1>0, <1>5, <2>1, <2>3, <2>4, Basics DEF Accept, DecodedTypes
<1>6. CASE Reject
  BY <1>0, <1>6, Basics DEF Reject, Decoded, DecodedTypes
<1> QED BY <1>2, <1>3, <1>4, <1>5, <1>6 DEF Decode

LEMMA TypeInvariant == TypeInv /\ [Next]_vars => TypeInv'
<1> SUFFICES ASSUME TypeInv, [Next]_vars PROVE TypeInv'
  OBVIOUS
<1>1. CASE UNCHANGED vars
  BY <1>1 DEF vars, encoderVars, source, droplet, decoderVars, TypeInv, TypeOK
<1> QED BY <1>1, EncodeType, DecodeType DEF Next

\* Degrees, neighbors, superblocks and droplets are what they should be: no more
\* neighbors are drawn than the degree says, no more droplets are numbered than
\* there are, and a superblock has a file only if its number is known.
THEOREM CodingTypeCorrect == Spec => []TypeOK
<1>1. TypeInv => TypeOK
  BY DEF TypeInv
<1> QED BY <1>1, TypeInit, TypeInvariant, PTL DEF Spec

\* Sampling follows the distribution (distribution.rs:123), for every K, R and
\* Unit, and whatever rounding leaves of the last entry: the degrees 0 and K + 1
\* come out of no other samples than the number 0 and those above that entry.
THEOREM SamplingFollowsPmf == Spec => []SampleFollowsPmf
<1>1. TypeOK => SampleFollowsPmf
  <2> SUFFICES ASSUME TypeOK
               PROVE  Cardinality({u \in Samples : Sample(u) = degree}) =
                        IF degree = 0 THEN 1 ELSE IF degree > K THEN Shortfall ELSE Pmf(degree)
    BY DEF SampleFollowsPmf
  <2>0. K \in Nat \ {0} /\ Total \in Nat /\ Shortfall \in Nat /\ 0 \in Samples
    BY CdfFacts DEF Samples
  <2>1. CASE degree = 0
    <3>1. {u \in Samples : Sample(u) = 0} = {0}
      BY <2>0, SampleKinds
    <3>2. Cardinality({0}) = 1
      BY FS_Singleton
    <3> QED BY <2>1, <3>1, <3>2
  <2>2. CASE degree \in 1..K
    <3>1. degree # 0 /\ ~(degree > K)
      BY <2>0, <2>2
    <3> QED BY <2>2, <3>1, SamplesOfDegree
  <2>3. CASE degree = K + 1
    <3>1. (Total + 1)..(Total + Shortfall) \subseteq Samples
      BY <2>0 DEF Samples
    <3>2. {u \in Samples : Sample(u) = K + 1} = (Total + 1)..(Total + Shortfall)
      BY <2>0, <3>1, SampleKinds
    <3>3. Cardinality((Total + 1)..(Total + Shortfall)) = Shortfall
      <4>1. Cardinality((Total + 1)..(Total + Shortfall)) =
              IF Total + 1 > Total + Shortfall THEN 0 ELSE (Total + Shortfall) - (Total + 1) + 1
        BY <2>0, FS_Interval
      <4> QED BY <2>0, <4>1
    <3>4. degree # 0 /\ degree > K
      BY <2>0, <2>3
    <3>5. Cardinality({u \in Samples : Sample(u) = degree}) = Shortfall
      BY <2>3, <3>2, <3>3, Zenon
    <3> QED BY <3>4, <3>5
  <2> QED BY <2>0, <2>1, <2>2, <2>3 DEF TypeOK
<1> QED BY <1>1, CodingTypeCorrect, PTL
------------------------------------------------------------------------------
(* Superblocks of zeros: what is left of a superblock XORed in and out. *)

Zeros == {z \in SuperBlocks : BitXor(z, z) = z}

LEMMA XorTwiceVector ==
  ASSUME NEW v \in Seq(Numbers) PROVE XorVectors(XorVectors(v, v), v) = v
<1> DEFINE x == XorVectors(v, v)
<1>1. /\ x \in Seq(Numbers) /\ Len(x) = Larger(Len(v), Len(v))
      /\ \A i \in Nat \ {0} : Padded(x, i) = BitwiseXor(Padded(v, i), Padded(v, i))
  BY XorVectorsType
<1> HIDE DEF x
<1>2. /\ XorVectors(x, v) \in Seq(Numbers) /\ Len(XorVectors(x, v)) = Larger(Len(x), Len(v))
      /\ \A i \in Nat \ {0} : Padded(XorVectors(x, v), i) = BitwiseXor(Padded(x, i), Padded(v, i))
  BY <1>1, XorVectorsType
<1>3. Len(XorVectors(x, v)) = Len(v)
  BY <1>1, <1>2 DEF Larger
<1>4. ASSUME NEW i \in Nat \ {0} PROVE Padded(XorVectors(x, v), i) = Padded(v, i)
  <2>1. Padded(v, i) \in Numbers
    BY PaddedType
  <2> QED BY <1>1, <1>2, <2>1, XorFacts
<1> QED BY <1>2, <1>3, <1>4, SameVector DEF x

LEMMA XorTwice == ASSUME NEW b \in SuperBlocks PROVE BitXor(BitXor(b, b), b) = b
BY XorTwiceVector, XorFacts DEF BitXor, SuperBlocks

LEMMA SelfIsZeros == ASSUME NEW b \in SuperBlocks PROVE BitXor(b, b) \in Zeros
<1>1. BitXor(b, b) \in SuperBlocks
  BY BitXorType
<1>2. BitXor(BitXor(b, b), BitXor(b, b)) = BitXor(BitXor(BitXor(b, b), b), b)
  BY <1>1, BitXorAssociates
<1> QED BY <1>1, <1>2, XorTwice DEF Zeros

LEMMA ZerosTogether == ASSUME NEW y \in Zeros, NEW z \in Zeros PROVE BitXor(y, z) \in Zeros
<1>1. y \in SuperBlocks /\ z \in SuperBlocks /\ BitXor(y, z) \in SuperBlocks
  BY BitXorType DEF Zeros
<1>2. BitXor(BitXor(y, z), BitXor(y, z)) = BitXor(y, BitXor(z, BitXor(y, z)))
  BY <1>1, BitXorAssociates
<1>3. BitXor(z, BitXor(y, z)) = BitXor(BitXor(z, z), y)
  BY <1>1, BitXorAssociates, BitXorCommutes
<1>4. BitXor(z, BitXor(y, z)) = BitXor(z, y)
  BY <1>3 DEF Zeros
<1>5. BitXor(y, BitXor(z, y)) = BitXor(BitXor(y, y), z)
  BY <1>1, BitXorAssociates, BitXorCommutes
<1>6. BitXor(y, BitXor(z, y)) = BitXor(y, z)
  BY <1>5 DEF Zeros
<1> QED BY <1>1, <1>2, <1>4, <1>6 DEF Zeros

LEMMA ZerosCropped ==
  ASSUME NEW a \in SuperBlocks, Filled(a), NEW z \in Zeros PROVE CropPadding(BitXor(a, z)) = a
<1>1. z \in SuperBlocks /\ BitXor(z, z) = z
  BY DEF Zeros
<1>2. BitXor(BitXor(a, z), z) = BitXor(a, z)
  BY <1>1, BitXorAssociates
<1>3. CropPadding(BitXor(BitXor(a, z), z)) = a
  BY <1>1, XorUndone
<1> QED BY <1>2, <1>3

LEMMA NewXor == ASSUME NEW a \in SuperBlocks PROVE BitXor(New(0), a) = a
<1>1. ASSUME NEW v \in Seq(Numbers) PROVE XorVectors(<< >>, v) = v
  <2>1. << >> \in Seq(Numbers) /\ Len(<< >>) = 0
    OBVIOUS
  <2>2. /\ XorVectors(<< >>, v) \in Seq(Numbers) /\ Len(XorVectors(<< >>, v)) = Larger(0, Len(v))
        /\ \A i \in Nat \ {0} :
             Padded(XorVectors(<< >>, v), i) = BitwiseXor(Padded(<< >>, i), Padded(v, i))
    BY <2>1, XorVectorsType
  <2>3. Len(XorVectors(<< >>, v)) = Len(v)
    BY <2>2 DEF Larger
  <2>4. ASSUME NEW i \in Nat \ {0} PROVE Padded(XorVectors(<< >>, v), i) = Padded(v, i)
    <3>1. Padded(<< >>, i) = 0 /\ Padded(v, i) \in Numbers /\ 0 \in Numbers
      BY PaddedType, SuperBlockBounds DEF Padded, Numbers
    <3>2. BitwiseXor(0, Padded(v, i)) = Padded(v, i)
      BY <3>1, XorFacts
    <3> QED BY <2>2, <3>1, <3>2
  <2> QED BY <2>2, <2>3, <2>4, SameVector
<1>2. \A n \in Numbers : BitwiseXor(0, n) = n
  <2>1. 0 \in Numbers
    BY SuperBlockBounds DEF Numbers
  <2> QED BY <2>1, XorFacts
<1> QED BY <1>1, <1>2 DEF BitXor, New, SuperBlocks

LEMMA NewIsZeros == New(0) \in Zeros
BY Basics, NewXor DEF Zeros
------------------------------------------------------------------------------
(* What a set of superblocks is combined to.  XORing them one after the      *)
(* other gives the same in every order, so this is a function of the set,    *)
(* but it is enough to know that it can be taken apart at every member.      *)

Pairs == (SUBSET Numbering) \X SuperBlocks

Growing(C) ==
  /\ <<{}, New(0)>> \in C
  /\ \A p \in C : \A n \in Numbering \ p[1] : <<p[1] \cup {n}, BitXor(p[2], super_blocks[n])>> \in C
Combos == {p \in Pairs : \A C \in SUBSET Pairs : Growing(C) => p \in C}

LEMMA CombosGrow == ASSUME TypeOK PROVE Growing(Combos)
<1>1. <<{}, New(0)>> \in Combos
  BY Basics DEF Combos, Pairs, Growing
<1>2. ASSUME NEW p \in Combos, NEW n \in Numbering \ p[1]
      PROVE  <<p[1] \cup {n}, BitXor(p[2], super_blocks[n])>> \in Combos
  <2>1. p \in Pairs /\ \A C \in SUBSET Pairs : Growing(C) => p \in C
    BY DEF Combos
  <2>2. <<p[1] \cup {n}, BitXor(p[2], super_blocks[n])>> \in Pairs
    BY <2>1, SourceType, BitXorType DEF Pairs
  <2>3. ASSUME NEW C \in SUBSET Pairs, Growing(C)
        PROVE  <<p[1] \cup {n}, BitXor(p[2], super_blocks[n])>> \in C
    BY <2>1, <2>3 DEF Growing
  <2> QED BY <2>2, <2>3 DEF Combos
<1> QED BY <1>1, <1>2 DEF Growing

LEMMA CombosLeast ==
  ASSUME NEW C \in SUBSET Combos, Growing(C) PROVE Combos = C
<1>1. C \in SUBSET Pairs
  BY DEF Combos
<1> QED BY <1>1 DEF Combos

LEMMA CombosUnchanged == ASSUME super_blocks' = super_blocks PROVE Combos' = Combos
BY DEF Combos, Growing

LEMMA ComboType ==
  ASSUME NEW S, NEW x, <<S, x>> \in Combos PROVE S \in SUBSET Numbering /\ x \in SuperBlocks
BY DEF Combos, Pairs

LEMMA ComboIn ==
  ASSUME TypeOK, NEW S, NEW x, <<S, x>> \in Combos, NEW n \in Numbering, n \notin S
  PROVE  <<S \cup {n}, BitXor(x, super_blocks[n])>> \in Combos
<1>1. n \in Numbering \ <<S, x>>[1] /\ <<S, x>>[1] = S /\ <<S, x>>[2] = x
  OBVIOUS
<1> QED BY <1>1, CombosGrow DEF Growing

LEMMA EmptyCombo == ASSUME TypeOK PROVE \A x : <<{}, x>> \in Combos => x = New(0)
<1> DEFINE C == {p \in Combos : p[1] = {} => p[2] = New(0)}
<1>1. <<{}, New(0)>> \in C
  BY CombosGrow DEF Growing
<1>2. ASSUME NEW p \in C, NEW n \in Numbering \ p[1]
      PROVE  <<p[1] \cup {n}, BitXor(p[2], super_blocks[n])>> \in C
  <2>1. <<p[1] \cup {n}, BitXor(p[2], super_blocks[n])>> \in Combos
    BY CombosGrow DEF Growing
  <2>2. p[1] \cup {n} # {}
    OBVIOUS
  <2> QED BY <2>1, <2>2
<1>3. Growing(C)
  BY <1>1, <1>2 DEF Growing
<1>4. Combos = C
  BY <1>3, CombosLeast
<1> QED BY <1>4

\* Whichever was XORed in first, each of them can be taken as the last one.
LEMMA ComboOut ==
  ASSUME TypeOK
  PROVE  \A S, x : <<S, x>> \in Combos => \A n \in S : \E y : /\ <<S \ {n}, y>> \in Combos
                                                            /\ x = BitXor(y, super_blocks[n])
<1> DEFINE Apart(S, x) == \A n \in S : \E y : /\ <<S \ {n}, y>> \in Combos
                                              /\ x = BitXor(y, super_blocks[n])
           C == {p \in Combos : Apart(p[1], p[2])}
<1>1. <<{}, New(0)>> \in C
  BY CombosGrow DEF Growing
<1>2. ASSUME NEW p \in C, NEW m \in Numbering \ p[1]
      PROVE  <<p[1] \cup {m}, BitXor(p[2], super_blocks[m])>> \in C
  <2> DEFINE S == p[1]
             x == p[2]
             T == S \cup {m}
             t == BitXor(x, super_blocks[m])
  <2>0. p = <<S, x>> /\ S \in SUBSET Numbering /\ x \in SuperBlocks /\ Apart(S, x) /\ p \in Combos
    BY DEF Combos, Pairs
  <2>1. <<T, t>> \in Combos
    BY CombosGrow DEF Growing
  <2> HIDE DEF S, x
  <2>2. ASSUME NEW n \in T PROVE \E y : <<T \ {n}, y>> \in Combos /\ t = BitXor(y, super_blocks[n])
    <3>1. CASE n = m
      <4>1. T \ {n} = S
        BY <3>1 DEF S
      <4> QED BY <2>0, <3>1, <4>1
    <3>2. CASE n # m
      <4>1. n \in S /\ n \in Numbering
        BY <2>0, <3>2
      <4>2. PICK y : <<S \ {n}, y>> \in Combos /\ x = BitXor(y, super_blocks[n])
        BY <2>0, <4>1
      <4>3. m \notin S \ {n}
        BY DEF S
      <4>4. <<(S \ {n}) \cup {m}, BitXor(y, super_blocks[m])>> \in Combos
        BY <4>2, <4>3, ComboIn
      <4>5. (S \ {n}) \cup {m} = T \ {n}
        BY <3>2
      <4>6. y \in SuperBlocks /\ super_blocks[n] \in SuperBlocks /\ super_blocks[m] \in SuperBlocks
        BY <4>1, <4>2, ComboType, SourceType
      <4>7. t = BitXor(BitXor(y, super_blocks[m]), super_blocks[n])
        BY <4>2, <4>6, BitXorAssociates, BitXorCommutes
      <4> QED BY <4>4, <4>5, <4>7
    <3> QED BY <3>1, <3>2
  <2>3. <<T, t>>[1] = T /\ <<T, t>>[2] = t
    OBVIOUS
  <2> QED BY <2>1, <2>2, <2>3 DEF S, x
<1>3. Growing(C)
  BY <1>1, <1>2 DEF Growing
<1>4. Combos = C
  BY <1>3, CombosLeast
<1> QED BY <1>4

LEMMA SingleCombo ==
  ASSUME TypeOK, NEW u \in Numbering, NEW x, <<{u}, x>> \in Combos PROVE x = super_blocks[u]
<1> DEFINE S == {u}
<1>0. <<S, x>> \in Combos /\ u \in S
  OBVIOUS
<1> HIDE DEF S
<1>8. \E y : <<S \ {u}, y>> \in Combos /\ x = BitXor(y, super_blocks[u])
  BY <1>0, ComboOut
<1>1. PICK y : <<{u} \ {u}, y>> \in Combos /\ x = BitXor(y, super_blocks[u])
  BY <1>8 DEF S
<1>2. {u} \ {u} = {}
  OBVIOUS
<1>3. y = New(0)
  BY <1>1, <1>2, EmptyCombo
<1> QED BY <1>1, <1>3, NewXor, SourceType
------------------------------------------------------------------------------
(* The encoder and the decoder. *)

EncoderInv ==
  /\ encoding = "xor" => neighbors # {} /\ <<neighbors \ remaining, encoded>> \in Combos
  /\ \A i \in DOMAIN droplets :
       /\ droplets[i].num = i - 1
       /\ droplets[i].neighbors # {}
       /\ <<droplets[i].neighbors, droplets[i].xored_superblock>> \in Combos

\* The superblock that is being decoded is what those neighbors combine to that
\* are not XORed out yet, with zeros behind.
Left == toXorOut \cup (droplets[decoding].neighbors \ known)
DecoderInv ==
  /\ DOMAIN recovered = known /\ rejected = {}
  /\ \A n \in known : recovered[n] = super_blocks[n]
  /\ decoding # 0 =>
       /\ toXorOut \subseteq droplets[decoding].neighbors
       /\ \E u \in Numbering : droplets[decoding].neighbors \ known = {u}
       /\ \E y : \E z \in Zeros : <<Left, y>> \in Combos /\ unknown = BitXor(y, z)

CodingInv == TypeInv /\ EncoderInv /\ (vanished = 0 => DecoderInv)

LEMMA EncoderKeeps ==
  ASSUME TypeInv, EncoderInv, Encode PROVE EncoderInv'
<1> USE DEF source, droplet
<1>0. TypeOK /\ droplets \in Seq(DropletRecords) /\ Len(droplets) \in Nat
  BY DEF TypeInv
<1>1. super_blocks' = super_blocks /\ Combos' = Combos
  <2>1. super_blocks' = super_blocks
    BY DEF Encode, InitEpoch, TruncateStorage, SampleDegree, Generate, Draw, XorNeighbor, StartXor,
           Panic, FinishDroplet, SuperBlockNotFound
  <2> QED BY <2>1, CombosUnchanged
<1>2. CASE FinishDroplet
  <2> DEFINE d == [num |-> droplet_counter, neighbors |-> neighbors, xored_superblock |-> encoded]
  <2>1. droplets' = Append(droplets, d) /\ encoding' = "ready" /\ encoding = "xor" /\ remaining = {}
    BY <1>2 DEF FinishDroplet
  <2>2. neighbors # {} /\ <<neighbors, encoded>> \in Combos
    <3>1. neighbors \ remaining = neighbors
      BY <2>1
    <3> QED BY <2>1, <3>1 DEF EncoderInv
  <2>3. droplet_counter = Len(droplets)
    BY <2>1 DEF TypeInv
  <2> HIDE DEF d
  <2>4. /\ DOMAIN droplets' = 1..(Len(droplets) + 1) /\ droplets'[Len(droplets) + 1] = d
        /\ \A i \in DOMAIN droplets : droplets'[i] = droplets[i]
        /\ DOMAIN droplets = 1..Len(droplets)
    BY <1>0, <2>1
  <2>5. ASSUME NEW i \in DOMAIN droplets'
        PROVE  /\ droplets'[i].num = i - 1
               /\ droplets'[i].neighbors # {}
               /\ <<droplets'[i].neighbors, droplets'[i].xored_superblock>> \in Combos
    <3>1. CASE i \in DOMAIN droplets
      BY <2>4, <3>1 DEF EncoderInv
    <3>2. CASE i = Len(droplets) + 1
      BY <1>0, <2>2, <2>3, <2>4, <3>2 DEF d
    <3> QED BY <1>0, <2>4, <3>1, <3>2
  <2> QED BY <1>1, <2>1, <2>5 DEF EncoderInv
<1>3. ASSUME NEW n \in Numbering, XorNeighbor(n) PROVE EncoderInv'
  <2>1. /\ encoding = "xor" /\ n \in remaining /\ encoded' = BitXor(encoded, super_blocks[n])
        /\ remaining' = remaining \ {n} /\ UNCHANGED <<neighbors, droplets>>
    BY <1>3 DEF XorNeighbor
  <2>2. neighbors' \ remaining' = (neighbors \ remaining) \cup {n} /\ n \notin neighbors \ remaining
    BY <1>0, <2>1 DEF TypeOK
  <2>3. <<(neighbors \ remaining) \cup {n}, encoded'>> \in Combos
    BY <1>0, <2>1, <2>2, ComboIn DEF EncoderInv
  <2> QED BY <1>1, <2>1, <2>2, <2>3 DEF EncoderInv
<1>4. CASE StartXor
  <2>1. neighbors' # {} /\ neighbors' \ remaining' = {} /\ encoded' = New(0) /\ droplets' = droplets
    BY <1>4 DEF StartXor
  <2>2. <<{}, New(0)>> \in Combos
    BY <1>0, CombosGrow DEF Growing
  <2> QED BY <1>1, <2>1, <2>2 DEF EncoderInv
<1>5. ASSUME droplets' = droplets, encoding' # "xor" PROVE EncoderInv'
  BY <1>1, <1>5 DEF EncoderInv
<1>6. CASE InitEpoch \/ TruncateStorage \/ Panic \/ SuperBlockNotFound
  BY <1>5, <1>6 DEF InitEpoch, TruncateStorage, Panic, SuperBlockNotFound
<1>7. ASSUME NEW u \in Samples, SampleDegree(u) PROVE EncoderInv'
  BY <1>5, <1>7 DEF SampleDegree
<1>8. ASSUME NEW n \in Numbering, Draw(n) PROVE EncoderInv'
  BY <1>5, <1>8 DEF Draw
<1> QED BY <1>2, <1>3, <1>4, <1>6, <1>7, <1>8 DEF Encode, Generate

\* The encoder adds droplets and leaves the others as they are.
LEMMA EncodeAdds ==
  ASSUME TypeInv, Encode
  PROVE  /\ super_blocks' = super_blocks
         /\ \A i \in DOMAIN droplets : i \in DOMAIN droplets' /\ droplets'[i] = droplets[i]
<1> USE DEF source, droplet
<1>0. droplets \in Seq(DropletRecords)
  BY DEF TypeInv
<1>1. CASE FinishDroplet
  BY <1>0, <1>1 DEF FinishDroplet
<1>2. CASE ~FinishDroplet
  BY <1>2 DEF Encode, InitEpoch, TruncateStorage, SampleDegree, Generate, Draw, XorNeighbor, StartXor,
              Panic, SuperBlockNotFound
<1> QED BY <1>1, <1>2

LEMMA DecoderUndisturbed ==
  ASSUME TypeInv, DecoderInv, super_blocks' = super_blocks, UNCHANGED decoderVars,
         \A i \in DOMAIN droplets : i \in DOMAIN droplets' /\ droplets'[i] = droplets[i]
  PROVE  DecoderInv'
<1>1. Combos' = Combos
  BY CombosUnchanged
<1>2. UNCHANGED <<known, recovered, decoding, toXorOut, unknown, rejected>>
  BY DEF decoderVars
<1>3. decoding # 0 => droplets'[decoding] = droplets[decoding]
  BY DEF TypeInv, TypeOK
<1>4. decoding # 0 => Left' = Left
  BY <1>2, <1>3 DEF Left
<1> QED BY <1>1, <1>2, <1>3, <1>4 DEF DecoderInv

\* Once everything else is XORed out and the padding cropped, the superblock
\* itself is left.
LEMMA DecodedIsSource ==
  ASSUME TypeInv, DecoderInv, Decoded
  PROVE  \E u \in Numbering : /\ droplets[decoding].neighbors \ known = {u}
                              /\ CropPadding(unknown) = super_blocks[u]
                              /\ Acceptable(super_blocks[u])
<1>0. decoding # 0 /\ toXorOut = {} /\ TypeOK
  BY DEF Decoded, TypeInv
<1>1. PICK u \in Numbering : droplets[decoding].neighbors \ known = {u}
  BY <1>0 DEF DecoderInv
<1>2. PICK y : \E z \in Zeros : <<Left, y>> \in Combos /\ unknown = BitXor(y, z)
  BY <1>0 DEF DecoderInv
<1>6. PICK z \in Zeros : <<Left, y>> \in Combos /\ unknown = BitXor(y, z)
  BY <1>2
<1>3. Left = {u}
  BY <1>0, <1>1 DEF Left
<1>4. y = super_blocks[u]
  BY <1>0, <1>3, <1>6, SingleCombo
<1>5. super_blocks[u] \in SuperBlocks /\ Filled(super_blocks[u]) /\ Acceptable(super_blocks[u])
  BY <1>0, SourceType, CutAssumption DEF TypeOK
<1> QED BY <1>1, <1>4, <1>5, <1>6, ZerosCropped

LEMMA DecodeKeepsSource ==
  ASSUME UNCHANGED encoderVars
  PROVE  super_blocks' = super_blocks /\ droplets' = droplets /\ Combos' = Combos
BY CombosUnchanged DEF encoderVars, source

LEMMA TakeKeeps ==
  ASSUME TypeInv, EncoderInv, DecoderInv, UNCHANGED encoderVars,
         NEW i \in DOMAIN droplets, TakeDroplet(i)
  PROVE  DecoderInv'
<1> DEFINE d == droplets[i]
           N == d.neighbors \ known
<1>0. TypeOK /\ d \in DropletRecords
  BY DEF TypeInv
<1>1. /\ decoding' = i /\ toXorOut' = d.neighbors /\ unknown' = d.xored_superblock
      /\ UNCHANGED <<known, recovered, rejected>> /\ Cardinality(N) = 1
  BY DEF TakeDroplet
<1>2. super_blocks' = super_blocks /\ droplets' = droplets /\ Combos' = Combos
  BY DecodeKeepsSource
<1>3. <<d.neighbors, d.xored_superblock>> \in Combos
  BY DEF EncoderInv
<1>4. d.neighbors \in SUBSET Numbering /\ d.xored_superblock \in SuperBlocks
  BY <1>3, ComboType
<1> HIDE DEF d
<1>5. \E u \in Numbering : N = {u}
  <2>1. IsFiniteSet(N) /\ N \in SUBSET Numbering
    BY <1>4, Basics
  <2>2. PICK u : N = {u}
    BY <1>1, <2>1, FS_Singleton
  <2> QED BY <2>1, <2>2
<1>6. Left' = d.neighbors
  BY <1>1, <1>2 DEF Left, d
<1>7. d.xored_superblock = BitXor(d.xored_superblock, New(0)) /\ New(0) \in Zeros
  BY <1>4, NewXor, BitXorCommutes, NewIsZeros, Basics
<1>8. \E y : \E z \in Zeros : <<Left', y>> \in Combos' /\ unknown' = BitXor(y, z)
  BY <1>1, <1>2, <1>3, <1>6, <1>7
<1>9. droplets'[decoding'] = d /\ known' = known
  BY <1>1, <1>2 DEF d
<1>10. toXorOut' \subseteq droplets'[decoding'].neighbors
  BY <1>1, <1>9
<1>11. \E u \in Numbering : droplets'[decoding'].neighbors \ known' = {u}
  BY <1>5, <1>9
<1>12. /\ DOMAIN recovered' = known' /\ rejected' = {}
       /\ \A n \in known' : recovered'[n] = super_blocks'[n]
  BY <1>1, <1>2 DEF DecoderInv
<1> QED BY <1>8, <1>10, <1>11, <1>12 DEF DecoderInv

LEMMA XorOutKeeps ==
  ASSUME TypeInv, DecoderInv, UNCHANGED encoderVars, NEW n \in Numbering, XorOut(n)
  PROVE  DecoderInv'
<1>0. TypeOK
  BY DEF TypeInv
<1>1. /\ n \in toXorOut /\ toXorOut' = toXorOut \ {n}
      /\ unknown' = IF n \in known THEN BitXor(unknown, recovered[n]) ELSE unknown
      /\ UNCHANGED <<known, recovered, decoding, rejected>>
  BY DEF XorOut, DecoderInv
<1>2. super_blocks' = super_blocks /\ droplets' = droplets /\ Combos' = Combos
  BY DecodeKeepsSource
<1>3. ASSUME decoding # 0
      PROVE  \E y : \E z \in Zeros : <<Left', y>> \in Combos /\ unknown' = BitXor(y, z)
  <2>1. PICK y : \E z \in Zeros : <<Left, y>> \in Combos /\ unknown = BitXor(y, z)
    BY <1>3 DEF DecoderInv
  <2>2. PICK z \in Zeros : <<Left, y>> \in Combos /\ unknown = BitXor(y, z)
    BY <2>1
  <2>3. CASE n \in known
    <3>1. Left' = Left \ {n} /\ n \in Left
      BY <1>1, <1>2, <2>3 DEF Left
    <3>2. PICK x : <<Left \ {n}, x>> \in Combos /\ y = BitXor(x, super_blocks[n])
      BY <1>0, <2>2, <3>1, ComboOut
    <3> DEFINE b == super_blocks[n]
               w == BitXor(BitXor(b, b), z)
    <3>3. unknown' = BitXor(BitXor(BitXor(x, b), z), b)
      BY <1>1, <2>2, <2>3, <3>2 DEF DecoderInv
    <3>4. x \in SuperBlocks /\ b \in SuperBlocks /\ z \in SuperBlocks
      BY <1>0, <3>2, ComboType, SourceType DEF Zeros
    <3> HIDE DEF b
    <3>5. BitXor(x, b) \in SuperBlocks /\ BitXor(b, z) \in SuperBlocks /\ BitXor(b, b) \in SuperBlocks
      BY <3>4, BitXorType
    <3>6. BitXor(BitXor(BitXor(x, b), z), b) = BitXor(x, BitXor(BitXor(b, z), b))
      BY <3>4, <3>5, BitXorAssociates
    <3>7. BitXor(BitXor(b, z), b) = w
      BY <3>4, <3>5, BitXorAssociates, BitXorCommutes
    <3>8. w \in Zeros
      BY <3>4, SelfIsZeros, ZerosTogether
    <3> QED BY <3>1, <3>2, <3>3, <3>6, <3>7, <3>8
  <2>4. CASE n \notin known
    <3>1. Left' = Left
      <4>1. n \in droplets[decoding].neighbors
        BY <1>1, <1>3 DEF DecoderInv
      <4> QED BY <1>1, <1>2, <2>4, <4>1 DEF Left
    <3> QED BY <1>1, <2>2, <2>4, <3>1
  <2> QED BY <2>3, <2>4
<1>4. /\ DOMAIN recovered' = known' /\ rejected' = {}
      /\ \A m \in known' : recovered'[m] = super_blocks'[m]
  BY <1>1, <1>2 DEF DecoderInv
<1>5. ASSUME decoding' # 0
      PROVE  /\ toXorOut' \subseteq droplets'[decoding'].neighbors
             /\ \E u \in Numbering : droplets'[decoding'].neighbors \ known' = {u}
  BY <1>1, <1>2, <1>5 DEF DecoderInv
<1> QED BY <1>1, <1>2, <1>3, <1>4, <1>5 DEF DecoderInv

LEMMA DecoderKeeps ==
  ASSUME TypeInv, EncoderInv, DecoderInv, Decode, UNCHANGED encoderVars, vanished' = 0
  PROVE  DecoderInv'
<1>0. super_blocks' = super_blocks /\ droplets' = droplets /\ Combos' = Combos
  BY DecodeKeepsSource
<1>1. ASSUME NEW i \in DOMAIN droplets, TakeDroplet(i) PROVE DecoderInv'
  BY <1>1, TakeKeeps
<1>2. ASSUME NEW n \in Numbering, XorOut(n) PROVE DecoderInv'
  BY <1>2, XorOutKeeps
<1>3. ASSUME NEW n \in Numbering, Vanish(n) PROVE FALSE
  BY <1>3 DEF Vanish, TypeInv, TypeOK
<1>4. CASE Accept
  <2>1. PICK u \in Numbering : /\ droplets[decoding].neighbors \ known = {u}
                               /\ CropPadding(unknown) = super_blocks[u]
    BY <1>4, DecodedIsSource DEF Accept
  <2>2. /\ known' = known \cup {u} /\ rejected' = rejected /\ decoding' = 0
        /\ recovered' = [n \in DOMAIN recovered \cup {u} |->
                           IF n = u THEN CropPadding(unknown) ELSE recovered[n]]
    BY <1>4, <2>1 DEF Accept, NextDroplet
  <2> QED BY <1>0, <2>1, <2>2 DEF DecoderInv
<1>5. CASE Reject
  <2>1. Acceptable(CropPadding(unknown))
    BY <1>5, DecodedIsSource DEF Reject
  <2> QED BY <1>5, <2>1 DEF Reject
<1> QED BY <1>1, <1>2, <1>3, <1>4, <1>5 DEF Decode

LEMMA CodingInvInit == Init => CodingInv
<1> SUFFICES ASSUME Init PROVE CodingInv
  OBVIOUS
<1>1. TypeInv
  BY TypeInit
<1>2. EncoderInv
  BY DEF Init, InitEncoder, EncoderInv
<1>3. DecoderInv
  BY DEF Init, DecoderInv
<1> QED BY <1>1, <1>2, <1>3 DEF CodingInv

LEMMA CodingInvariant == CodingInv /\ [Next]_vars => CodingInv'
<1> SUFFICES ASSUME CodingInv, [Next]_vars PROVE CodingInv'
  OBVIOUS
<1>0. TypeInv /\ EncoderInv /\ (vanished = 0 => DecoderInv)
  BY DEF CodingInv
<1>1. TypeInv'
  BY <1>0, TypeInvariant
<1>2. CASE Encode /\ UNCHANGED decoderVars
  <2>1. EncoderInv'
    BY <1>0, <1>2, EncoderKeeps
  <2>2. ASSUME vanished' = 0 PROVE DecoderInv'
    <3>1. DecoderInv
      BY <1>0, <1>2, <2>2 DEF decoderVars
    <3> QED BY <1>0, <1>2, <3>1, EncodeAdds, DecoderUndisturbed
  <2> QED BY <1>1, <2>1, <2>2 DEF CodingInv
<1>3. CASE Decode /\ UNCHANGED encoderVars
  <2>1. EncoderInv'
    <3>1. /\ encoding' = encoding /\ neighbors' = neighbors /\ remaining' = remaining
          /\ encoded' = encoded /\ droplets' = droplets /\ Combos' = Combos
      BY <1>3, DecodeKeepsSource DEF encoderVars, droplet
    <3> QED BY <1>0, <3>1 DEF EncoderInv
  <2>2. ASSUME vanished' = 0 PROVE DecoderInv'
    <3>1. vanished' \in {vanished, vanished + 1}
      BY <1>3 DEF Decode, TakeDroplet, XorOut, Vanish, Accept, Reject
    <3>2. vanished = 0
      BY <1>0, <2>2, <3>1, CodingAssumption DEF TypeInv, TypeOK
    <3> QED BY <1>0, <1>3, <2>2, <3>2, DecoderKeeps
  <2> QED BY <1>1, <2>1, <2>2 DEF CodingInv
<1>4. CASE UNCHANGED vars
  <2>1. UNCHANGED encoderVars /\ UNCHANGED decoderVars
    BY <1>4 DEF vars
  <2>2. /\ encoding' = encoding /\ neighbors' = neighbors /\ remaining' = remaining
        /\ encoded' = encoded /\ droplets' = droplets /\ super_blocks' = super_blocks
        /\ Combos' = Combos
    BY <2>1, DecodeKeepsSource DEF encoderVars, droplet
  <2>3. EncoderInv'
    BY <1>0, <2>2 DEF EncoderInv
  <2>4. ASSUME vanished' = 0 PROVE DecoderInv'
    <3>1. DecoderInv
      BY <1>0, <2>1, <2>4 DEF decoderVars
    <3> QED BY <1>0, <2>1, <2>2, <3>1, DecoderUndisturbed
  <2> QED BY <1>1, <2>3, <2>4 DEF CodingInv
<1> QED BY <1>2, <1>3, <1>4 DEF Next

\* The bytes that come out are the bytes that went in, for any K, any
\* distribution and any superblocks that were well cut: every superblock in the
\* temporary storage is the one that was cut, whatever droplets it came from
\* and in whatever order they were decoded (fountain_decoder.rs:98-143).
THEOREM DecodedAsCut == Spec => []Undone
<1>1. CodingInv => Undone
  BY DEF CodingInv, DecoderInv, Undone
<1> QED BY <1>1, CodingInvInit, CodingInvariant, PTL DEF Spec

\* The droplets of an honest node are never rejected (README.md:29), as long as
\* no temporary file vanishes under a known number (tmp_file_storage.rs:72).
THEOREM HonestAccepted == Spec => []NothingRejected
<1>1. CodingInv => NothingRejected
  BY DEF CodingInv, DecoderInv, NothingRejected
<1> QED BY <1>1, CodingInvInit, CodingInvariant, PTL DEF Spec
------------------------------------------------------------------------------
(* What a droplet holds. *)

LEMMA ParityOfNone == ASSUME NEW w PROVE Parity(0, {}, w)
<1>1. ASSUME NEW b \in BitPlaces PROVE Bit(0, b) = Cardinality({n \in {} : Bit(w[n], b) = 1}) % 2
  <2>1. {n \in {} : Bit(w[n], b) = 1} = {} /\ 0 \in Numbers
    BY SuperBlockBounds DEF Numbers
  <2> QED BY <2>1, Basics, BitsAssumption
<1> QED BY <1>1 DEF Parity

LEMMA ParityAdds ==
  \A c \in Nat : ((c % 2) + 0) % 2 = c % 2 /\ ((c % 2) + 1) % 2 = (c + 1) % 2
OBVIOUS

LEMMA ParityOfOneMore ==
  ASSUME NEW S \in SUBSET Numbering, NEW m \in Numbering, m \notin S, NEW x \in Numbers,
         NEW v, NEW w, \A n \in S : w[n] = v[n], w[m] \in Numbers, Parity(x, S, v)
  PROVE  Parity(BitwiseXor(x, w[m]), S \cup {m}, w)
<1> SUFFICES ASSUME NEW b \in BitPlaces
             PROVE  Bit(BitwiseXor(x, w[m]), b) =
                      Cardinality({n \in S \cup {m} : Bit(w[n], b) = 1}) % 2
  BY DEF Parity
<1> DEFINE A == {n \in S : Bit(v[n], b) = 1}
           B == {n \in S \cup {m} : Bit(w[n], b) = 1}
<1>1. /\ Bit(BitwiseXor(x, w[m]), b) = (Bit(x, b) + Bit(w[m], b)) % 2
      /\ Bit(w[m], b) \in {0, 1}
  BY BitsAssumption
<1>2. Bit(x, b) = Cardinality(A) % 2
  BY DEF Parity
<1>3. IsFiniteSet(A) /\ Cardinality(A) \in Nat /\ m \notin A
  BY Basics
<1>4. CASE Bit(w[m], b) = 0
  <2>1. B = A
    BY <1>4
  <2>2. (Bit(x, b) + Bit(w[m], b)) % 2 = Cardinality(A) % 2
    BY <1>2, <1>3, <1>4, ParityAdds
  <2> QED BY <1>1, <2>1, <2>2
<1>5. CASE Bit(w[m], b) = 1
  <2>1. B = A \cup {m}
    BY <1>5
  <2>2. Cardinality(B) = Cardinality(A) + 1
    BY <1>3, <2>1, FS_AddElement
  <2>3. (Bit(x, b) + Bit(w[m], b)) % 2 = (Cardinality(A) + 1) % 2
    BY <1>2, <1>3, <1>5, ParityAdds
  <2> QED BY <1>1, <2>2, <2>3
<1> QED BY <1>1, <1>4, <1>5

\* HoldsParity, with the vectors followed by zeros.
Holds(S, x) ==
  /\ Parity(x.num, S, [n \in S |-> super_blocks[n].num])
  /\ Parity(x.block_count, S, [n \in S |-> super_blocks[n].block_count])
  /\ Parity(x.bytes_length, S, [n \in S |-> super_blocks[n].bytes_length])
  /\ \A n \in S : Len(x.raw_bytes) >= Len(super_blocks[n].raw_bytes)
                  /\ Len(x.block_sizes) >= Len(super_blocks[n].block_sizes)
  /\ \A i \in Nat \ {0} :
       /\ Parity(Padded(x.raw_bytes, i), S, [n \in S |-> Padded(super_blocks[n].raw_bytes, i)])
       /\ Parity(Padded(x.block_sizes, i), S, [n \in S |-> Padded(super_blocks[n].block_sizes, i)])
  /\ Loadable(x)

LEMMA HoldsNone == Holds({}, New(0))
<1>1. Len(<< >>) = 0 /\ \A i \in Nat \ {0} : Padded(<< >>, i) = 0
  BY DEF Padded
<1> QED BY <1>1, ParityOfNone, SuperBlockBounds DEF Holds, New, Loadable, Numbers

LEMMA HoldsOneMore ==
  ASSUME TypeOK, NEW S \in SUBSET Numbering, NEW m \in Numbering, m \notin S,
         NEW x \in SuperBlocks, Holds(S, x)
  PROVE  Holds(S \cup {m}, BitXor(x, super_blocks[m]))
<1> DEFINE T == S \cup {m}
           c == super_blocks[m]
           y == BitXor(x, c)
<1>0. c \in SuperBlocks /\ y \in SuperBlocks /\ \A n \in T : super_blocks[n] \in SuperBlocks
  BY SourceType, BitXorType
<1>1. /\ y.num = BitwiseXor(x.num, c.num)
      /\ y.block_count = BitwiseXor(x.block_count, c.block_count)
      /\ y.bytes_length = BitwiseXor(x.bytes_length, c.bytes_length)
      /\ y.block_sizes = XorVectors(x.block_sizes, c.block_sizes)
      /\ y.raw_bytes = XorVectors(x.raw_bytes, c.raw_bytes)
  BY DEF BitXor
<1>2. /\ x.num \in Numbers /\ x.block_count \in Numbers /\ x.bytes_length \in Numbers
      /\ x.raw_bytes \in Seq(Numbers) /\ x.block_sizes \in Seq(Numbers)
      /\ c.num \in Numbers /\ c.block_count \in Numbers /\ c.bytes_length \in Numbers
      /\ c.raw_bytes \in Seq(Numbers) /\ c.block_sizes \in Seq(Numbers)
  BY <1>0 DEF SuperBlocks
<1> HIDE DEF c, y, T
<1>3. /\ Len(y.raw_bytes) = Larger(Len(x.raw_bytes), Len(c.raw_bytes))
      /\ Len(y.block_sizes) = Larger(Len(x.block_sizes), Len(c.block_sizes))
      /\ \A i \in Nat \ {0} :
           /\ Padded(y.raw_bytes, i) = BitwiseXor(Padded(x.raw_bytes, i), Padded(c.raw_bytes, i))
           /\ Padded(y.block_sizes, i) =
                BitwiseXor(Padded(x.block_sizes, i), Padded(c.block_sizes, i))
  <2>1. /\ Len(y.raw_bytes) = Larger(Len(x.raw_bytes), Len(c.raw_bytes))
        /\ \A i \in Nat \ {0} :
             Padded(y.raw_bytes, i) = BitwiseXor(Padded(x.raw_bytes, i), Padded(c.raw_bytes, i))
    <3> DEFINE v == x.raw_bytes
               w == c.raw_bytes
    <3>1. v \in Seq(Numbers) /\ w \in Seq(Numbers)
      BY <1>2
    <3> HIDE DEF v, w
    <3>2. /\ Len(XorVectors(v, w)) = Larger(Len(v), Len(w))
          /\ \A i \in Nat \ {0} : Padded(XorVectors(v, w), i) = BitwiseXor(Padded(v, i), Padded(w, i))
      BY <3>1, XorVectorsType
    <3> QED BY <1>1, <3>2 DEF v, w
  <2>2. /\ Len(y.block_sizes) = Larger(Len(x.block_sizes), Len(c.block_sizes))
        /\ \A i \in Nat \ {0} :
             Padded(y.block_sizes, i) = BitwiseXor(Padded(x.block_sizes, i), Padded(c.block_sizes, i))
    <3> DEFINE v == x.block_sizes
               w == c.block_sizes
    <3>1. v \in Seq(Numbers) /\ w \in Seq(Numbers)
      BY <1>2
    <3> HIDE DEF v, w
    <3>2. /\ Len(XorVectors(v, w)) = Larger(Len(v), Len(w))
          /\ \A i \in Nat \ {0} : Padded(XorVectors(v, w), i) = BitwiseXor(Padded(v, i), Padded(w, i))
      BY <3>1, XorVectorsType
    <3> QED BY <1>1, <3>2 DEF v, w
  <2> QED BY <2>1, <2>2
<1>4. /\ Parity(y.num, T, [n \in T |-> super_blocks[n].num])
      /\ Parity(y.block_count, T, [n \in T |-> super_blocks[n].block_count])
      /\ Parity(y.bytes_length, T, [n \in T |-> super_blocks[n].bytes_length])
  <2> DEFINE f == [n \in T |-> super_blocks[n].num]
             g == [n \in T |-> super_blocks[n].block_count]
             h == [n \in T |-> super_blocks[n].bytes_length]
  <2>1. f[m] = c.num /\ g[m] = c.block_count /\ h[m] = c.bytes_length
    BY DEF T, c
  <2>2. Parity(BitwiseXor(x.num, f[m]), T, f)
    <3>1. /\ Parity(x.num, S, [n \in S |-> super_blocks[n].num])
          /\ \A n \in S : f[n] = [k \in S |-> super_blocks[k].num][n]
      BY DEF Holds, T
    <3> HIDE DEF f
    <3> QED BY <1>2, <2>1, <3>1, ParityOfOneMore DEF T
  <2>3. Parity(BitwiseXor(x.block_count, g[m]), T, g)
    <3>1. /\ Parity(x.block_count, S, [n \in S |-> super_blocks[n].block_count])
          /\ \A n \in S : g[n] = [k \in S |-> super_blocks[k].block_count][n]
      BY DEF Holds, T
    <3> HIDE DEF g
    <3> QED BY <1>2, <2>1, <3>1, ParityOfOneMore DEF T
  <2>4. Parity(BitwiseXor(x.bytes_length, h[m]), T, h)
    <3>1. /\ Parity(x.bytes_length, S, [n \in S |-> super_blocks[n].bytes_length])
          /\ \A n \in S : h[n] = [k \in S |-> super_blocks[k].bytes_length][n]
      BY DEF Holds, T
    <3> HIDE DEF h
    <3> QED BY <1>2, <2>1, <3>1, ParityOfOneMore DEF T
  <2> QED BY <1>1, <2>1, <2>2, <2>3, <2>4
<1>5. ASSUME NEW i \in Nat \ {0}
      PROVE  /\ Parity(Padded(y.raw_bytes, i), T, [n \in T |-> Padded(super_blocks[n].raw_bytes, i)])
             /\ Parity(Padded(y.block_sizes, i), T,
                       [n \in T |-> Padded(super_blocks[n].block_sizes, i)])
  <2> DEFINE f == [n \in T |-> Padded(super_blocks[n].raw_bytes, i)]
             g == [n \in T |-> Padded(super_blocks[n].block_sizes, i)]
  <2>1. f[m] = Padded(c.raw_bytes, i) /\ g[m] = Padded(c.block_sizes, i)
    BY DEF T, c
  <2>2. /\ Padded(x.raw_bytes, i) \in Numbers /\ Padded(x.block_sizes, i) \in Numbers
        /\ f[m] \in Numbers /\ g[m] \in Numbers
    BY <1>2, <2>1, PaddedType
  <2>3. Parity(BitwiseXor(Padded(x.raw_bytes, i), f[m]), T, f)
    <3>1. /\ Parity(Padded(x.raw_bytes, i), S, [n \in S |-> Padded(super_blocks[n].raw_bytes, i)])
          /\ \A n \in S : f[n] = [k \in S |-> Padded(super_blocks[k].raw_bytes, i)][n]
      BY DEF Holds, T
    <3> HIDE DEF f
    <3> QED BY <2>2, <3>1, ParityOfOneMore DEF T
  <2>4. Parity(BitwiseXor(Padded(x.block_sizes, i), g[m]), T, g)
    <3>1. /\ Parity(Padded(x.block_sizes, i), S, [n \in S |-> Padded(super_blocks[n].block_sizes, i)])
          /\ \A n \in S : g[n] = [k \in S |-> Padded(super_blocks[k].block_sizes, i)][n]
      BY DEF Holds, T
    <3> HIDE DEF g
    <3> QED BY <2>2, <3>1, ParityOfOneMore DEF T
  <2> QED BY <1>3, <2>1, <2>3, <2>4
<1>6. \A n \in T : Len(y.raw_bytes) >= Len(super_blocks[n].raw_bytes)
                   /\ Len(y.block_sizes) >= Len(super_blocks[n].block_sizes)
  <2>1. ASSUME NEW n \in T PROVE Len(super_blocks[n].raw_bytes) \in Nat /\ Len(super_blocks[n].block_sizes) \in Nat
    BY <1>0 DEF SuperBlocks
  <2>2. /\ Len(x.raw_bytes) \in Nat /\ Len(x.block_sizes) \in Nat
        /\ Len(c.raw_bytes) \in Nat /\ Len(c.block_sizes) \in Nat
    BY <1>2
  <2>3. \A n \in S : Len(x.raw_bytes) >= Len(super_blocks[n].raw_bytes)
                     /\ Len(x.block_sizes) >= Len(super_blocks[n].block_sizes)
    BY DEF Holds
  <2>4. /\ Len(y.raw_bytes) >= Len(x.raw_bytes) /\ Len(y.raw_bytes) >= Len(c.raw_bytes)
        /\ Len(y.block_sizes) >= Len(x.block_sizes) /\ Len(y.block_sizes) >= Len(c.block_sizes)
        /\ Len(y.raw_bytes) \in Nat /\ Len(y.block_sizes) \in Nat
    BY <1>3, <2>2 DEF Larger
  <2>5. ASSUME NEW n \in S
        PROVE  Len(y.raw_bytes) >= Len(super_blocks[n].raw_bytes)
               /\ Len(y.block_sizes) >= Len(super_blocks[n].block_sizes)
    <3>1. Len(super_blocks[n].raw_bytes) \in Nat /\ Len(super_blocks[n].block_sizes) \in Nat
      BY <2>1 DEF T
    <3> QED BY <2>2, <2>3, <2>4, <3>1
  <2> QED BY <2>4, <2>5 DEF T, c
<1>7. Loadable(y)
  <2>1. Loadable(x) /\ Loadable(c)
    BY CutAssumption DEF Holds, TypeOK, c
  <2> QED BY <1>2, <1>3, <2>1 DEF Loadable, Larger
<1> QED BY <1>4, <1>5, <1>6, <1>7 DEF Holds, T, c, y

LEMMA CombosHold ==
  ASSUME TypeOK PROVE \A S, x : <<S, x>> \in Combos => Holds(S, x)
<1> DEFINE C == {p \in Combos : Holds(p[1], p[2])}
<1>1. <<{}, New(0)>> \in C
  BY CombosGrow, HoldsNone DEF Growing
<1>2. ASSUME NEW p \in C, NEW m \in Numbering \ p[1]
      PROVE  <<p[1] \cup {m}, BitXor(p[2], super_blocks[m])>> \in C
  <2>1. <<p[1] \cup {m}, BitXor(p[2], super_blocks[m])>> \in Combos
    BY CombosGrow DEF Growing
  <2>2. p[1] \in SUBSET Numbering /\ p[2] \in SuperBlocks
    BY DEF Combos, Pairs
  <2> QED BY <2>1, <2>2, HoldsOneMore
<1>3. Growing(C)
  BY <1>1, <1>2 DEF Growing
<1>4. Combos = C
  BY <1>3, CombosLeast
<1> QED BY <1>4

\* Every droplet of an encoder is honest: at every byte, size and count it has
\* the parity of all its neighbors, whatever their lengths and the order in
\* which they were XORed, and its file can be read again
\* (fountain_encoder.rs:80-104, super_block.rs:149).
THEOREM DropletsAreHonest == Spec => []HonestDroplets
<1>1. CodingInv => HonestDroplets
  <2> SUFFICES ASSUME CodingInv, NEW i \in DOMAIN droplets
               PROVE  HoldsParity(droplets[i]) /\ droplets[i].num = i - 1
    BY DEF HonestDroplets
  <2> DEFINE S == droplets[i].neighbors
             x == droplets[i].xored_superblock
  <2>1. TypeOK /\ S # {} /\ <<S, x>> \in Combos /\ droplets[i].num = i - 1
    BY DEF CodingInv, TypeInv, EncoderInv
  <2>2. Holds(S, x) /\ x \in SuperBlocks
    BY <2>1, CombosHold, ComboType
  <2> HIDE DEF S, x
  <2>3. ASSUME NEW j \in DOMAIN x.raw_bytes
        PROVE  Parity(x.raw_bytes[j], S, [n \in S |-> Padded(super_blocks[n].raw_bytes, j)])
    <3>1. j \in Nat \ {0} /\ Padded(x.raw_bytes, j) = x.raw_bytes[j]
      BY <2>2 DEF SuperBlocks, Padded
    <3>2. Parity(Padded(x.raw_bytes, j), S, [n \in S |-> Padded(super_blocks[n].raw_bytes, j)])
      BY <2>2, <3>1 DEF Holds
    <3> QED BY <3>1, <3>2
  <2>4. ASSUME NEW j \in DOMAIN x.block_sizes
        PROVE  Parity(x.block_sizes[j], S, [n \in S |-> Padded(super_blocks[n].block_sizes, j)])
    <3>1. j \in Nat \ {0} /\ Padded(x.block_sizes, j) = x.block_sizes[j]
      BY <2>2 DEF SuperBlocks, Padded
    <3>2. Parity(Padded(x.block_sizes, j), S, [n \in S |-> Padded(super_blocks[n].block_sizes, j)])
      BY <2>2, <3>1 DEF Holds
    <3> QED BY <3>1, <3>2
  <2> QED BY <2>1, <2>2, <2>3, <2>4 DEF HoldsParity, Holds, S, x
<1> QED BY <1>1, CodingInvInit, CodingInvariant, PTL DEF Spec
------------------------------------------------------------------------------
(* When a temporary file has vanished.                                       *)

\* The superblock that is being decoded is what some of the droplet's neighbors
\* combine to, with zeros behind: those that have not been looked up, and those
\* that could not be XORed out, among them the one that is not known.
MixtureOf(S) ==
  /\ toXorOut \subseteq S /\ droplets[decoding].neighbors \ known \subseteq S
  /\ \E y : \E z \in Zeros : <<S, y>> \in Combos /\ unknown = BitXor(y, z)
MixtureInv ==
  hollow = {} =>
    /\ \A n \in DOMAIN recovered : recovered[n] = super_blocks[n]
    /\ decoding # 0 => /\ droplets[decoding].neighbors \ known # {}
                       /\ \E S : MixtureOf(S)

LEMMA SizesType ==
  ASSUME NEW v \in Seq(Numbers)
  PROVE  Len(v) \in Nat /\ Sizes(v) \in [0..Len(v) -> Nat] /\ Sizes(v)[0] = 0
<1>1. Len(v) \in Nat /\ \A j \in 1..Len(v) : v[j] \in Nat
  BY SuperBlockBounds DEF Numbers
<1>2. \A j \in 0..Len(v) : j = 0 \/ j \in 1..Len(v)
  BY <1>1
<1> QED BY <1>1, <1>2 DEF Sizes

LEMMA FirstEnds ==
  ASSUME NEW x \in SuperBlocks
  PROVE  /\ End(x, 0) = 0
         /\ Len(x.block_sizes) # 0 =>
              /\ End(x, 1) \in Nat /\ End(x, Len(x.block_sizes)) \in Nat
              /\ End(x, 1) <= End(x, Len(x.block_sizes))
<1> DEFINE v == x.block_sizes
           n == Len(v)
<1>0. n \in Nat /\ v \in Seq(Numbers) /\ Numbers \subseteq Nat
  BY SuperBlockBounds DEF SuperBlocks, Numbers
<1>1. PICK f : IsSum(f, Sizes(v), n) /\ \A i : End(x, i) = f[i]
  BY <1>0, EndIsSum
<1> HIDE DEF v
<1>2. Sizes(v) \in [0..n -> Nat] /\ Sizes(v)[0] = 0
  BY <1>0, SizesType
<1>3. f[0] = 0
  BY <1>0, <1>1, <1>2, SumStep
<1>4. \A j \in 0..n : f[j] \in Nat
  BY <1>0, <1>1, <1>2, SumType
<1>5. \A i, j \in 0..n : i <= j => f[i] <= f[j]
  BY <1>0, <1>1, <1>2, SumGrows
<1>6. n # 0 => f[1] \in Nat /\ f[n] \in Nat /\ f[1] <= f[n]
  BY <1>0, <1>4, <1>5
<1> QED BY <1>1, <1>3, <1>6 DEF v

\* What is accepted with a block starts with a header.
LEMMA AcceptedStart ==
  ASSUME NEW x \in SuperBlocks, Acceptable(x), IntoBlocks(x) # << >>
  PROVE  \E p \in DOMAIN Headers : Headers[p] = Padded(x.raw_bytes, 1) /\ Len(x.raw_bytes) >= 1
<1> DEFINE b == SubSeq(x.raw_bytes, 1, End(x, 1))
<1>0. Len(x.block_sizes) \in Nat /\ x.raw_bytes \in Seq(Numbers) /\ Len(x.raw_bytes) \in Nat
  BY DEF SuperBlocks
<1>1. 1 \in 1..Len(x.block_sizes)
  <2>1. CASE Len(x.block_sizes) = 0
    <3>1. IntoBlocks(x) = << >>
      BY <2>1 DEF IntoBlocks
    <3> QED BY <3>1
  <2> QED BY <1>0, <2>1
<1>2. 1 \in DOMAIN IntoBlocks(x) /\ IntoBlocks(x)[1] = b
  <2>1. IntoBlocks(x)[1] = SubSeq(x.raw_bytes, End(x, 1 - 1) + 1, End(x, 1))
    BY <1>1 DEF IntoBlocks
  <2>2. End(x, 1 - 1) + 1 = 1
    BY FirstEnds
  <2> QED BY <1>1, <2>1, <2>2 DEF IntoBlocks
<1>3. PICK p : p \in Place(b)
  BY <1>2 DEF Acceptable, ValidateBlocks
<1>4. b # << >> /\ p \in DOMAIN Headers /\ Headers[p] = b[1]
  BY <1>3 DEF Place
<1>5. End(x, 1) \in Nat /\ End(x, 1) <= Len(x.raw_bytes)
  <2>1. End(x, Len(x.block_sizes)) <= Len(x.raw_bytes)
    BY DEF Acceptable, EnoughBytes
  <2> QED BY <1>0, <1>1, <2>1, FirstEnds
<1>6. End(x, 1) # 0
  BY <1>0, <1>4
<1>7. b[1] = x.raw_bytes[1] /\ Len(x.raw_bytes) >= 1
  BY <1>0, <1>5, <1>6
<1> QED BY <1>0, <1>4, <1>7 DEF Padded

LEMMA ZerosFront == ASSUME NEW z \in Zeros PROVE z \in SuperBlocks /\ Padded(z.raw_bytes, 1) = 0
<1>1. z \in SuperBlocks /\ z.raw_bytes \in Seq(Numbers) /\ BitXor(z, z) = z
  BY DEF Zeros, SuperBlocks
<1>2. z.raw_bytes = XorVectors(z.raw_bytes, z.raw_bytes)
  BY <1>1 DEF BitXor
<1>3. Padded(z.raw_bytes, 1) = BitwiseXor(Padded(z.raw_bytes, 1), Padded(z.raw_bytes, 1))
  BY <1>1, <1>2, XorVectorsType
<1>4. Padded(z.raw_bytes, 1) \in Numbers
  BY <1>1, PaddedType
<1> QED BY <1>1, <1>3, <1>4, XorAssumption

\* A mixture is accepted with a block only if it is of one superblock.
LEMMA MixtureFails ==
  ASSUME TypeOK, NEW S, S # {}, NEW y, <<S, y>> \in Combos, NEW z \in Zeros,
         Acceptable(CropPadding(BitXor(y, z))), IntoBlocks(CropPadding(BitXor(y, z))) # << >>
  PROVE  \E u \in S : S = {u} /\ CropPadding(BitXor(y, z)) = super_blocks[u]
<1> DEFINE w == BitXor(y, z)
           x == CropPadding(w)
<1>1. S \in SUBSET Numbering /\ y \in SuperBlocks /\ z \in SuperBlocks /\ w \in SuperBlocks
  BY ComboType, BitXorType, ZerosFront
<1>2. x \in SuperBlocks
  BY <1>1, CropType
<1>3. Padded(w.raw_bytes, 1) = Padded(y.raw_bytes, 1)
  <2>1. /\ y.raw_bytes \in Seq(Numbers) /\ z.raw_bytes \in Seq(Numbers)
        /\ w.raw_bytes = XorVectors(y.raw_bytes, z.raw_bytes)
    BY <1>1 DEF BitXor, SuperBlocks
  <2>2. Padded(w.raw_bytes, 1) = BitwiseXor(Padded(y.raw_bytes, 1), 0)
    <3>1. PICK a, b : a = y.raw_bytes /\ b = z.raw_bytes
      OBVIOUS
    <3>2. a \in Seq(Numbers) /\ b \in Seq(Numbers) /\ w.raw_bytes = XorVectors(a, b)
      BY <2>1, <3>1
    <3>3. Padded(XorVectors(a, b), 1) = BitwiseXor(Padded(a, 1), Padded(b, 1))
      BY <3>2, XorVectorsType
    <3> QED BY <3>1, <3>2, <3>3, ZerosFront
  <2>3. Padded(y.raw_bytes, 1) \in Numbers
    BY <2>1, PaddedType
  <2> QED BY <2>2, <2>3, XorFacts
<1> HIDE DEF w
<1>4. Padded(x.raw_bytes, 1) = Padded(w.raw_bytes, 1) \/ Len(x.raw_bytes) = 0
  <2>1. w.raw_bytes \in Seq(Numbers) /\ Len(w.raw_bytes) \in Nat /\ w.bytes_length \in Nat
    BY <1>1, SuperBlockBounds DEF SuperBlocks, Numbers
  <2>2. x.raw_bytes = SubSeq(w.raw_bytes, 1, Smaller(w.bytes_length, Len(w.raw_bytes)))
    BY <1>1 DEF CropPadding, Truncate, SuperBlocks
  <2>3. /\ Smaller(w.bytes_length, Len(w.raw_bytes)) \in Nat
        /\ Smaller(w.bytes_length, Len(w.raw_bytes)) <= Len(w.raw_bytes)
    BY <2>1 DEF Smaller
  <2> QED BY <2>1, <2>2, <2>3 DEF Padded
<1> HIDE DEF x
<1>5. PICK p \in DOMAIN Headers : Headers[p] = Padded(x.raw_bytes, 1) /\ Len(x.raw_bytes) >= 1
  BY <1>2, AcceptedStart DEF x, w
<1>6. Headers[p] = Padded(y.raw_bytes, 1)
  BY <1>3, <1>4, <1>5
<1>7. Parity(Padded(y.raw_bytes, 1), S, [n \in S |-> Padded(super_blocks[n].raw_bytes, 1)])
  <2>1. Holds(S, y) /\ 1 \in Nat \ {0}
    BY CombosHold
  <2> QED BY <2>1 DEF Holds
<1>8. super_blocks \in Epochs
  BY DEF TypeOK
<1>9. \E u \in S : S = {u}
  <2>1. \A p1 \in DOMAIN Headers :
          Parity(Headers[p1], S, [n \in S |-> Padded(super_blocks[n].raw_bytes, 1)])
            => \E u \in S : S = {u}
    <3>1. S \in (SUBSET Numbering) \ {{}}
      BY <1>1
    <3> QED BY <1>8, <3>1, HashAssumption
  <2>2. PICK g : g = [n \in S |-> Padded(super_blocks[n].raw_bytes, 1)]
    OBVIOUS
  <2>3. Parity(Headers[p], S, g)
    BY <1>6, <1>7, <2>2
  <2> QED BY <2>1, <2>2, <2>3
<1>10. PICK u \in S : S = {u}
  BY <1>9
<1>11. y = super_blocks[u] /\ u \in Numbering
  BY <1>1, <1>10, SingleCombo
<1>12. super_blocks[u] \in SuperBlocks /\ Filled(super_blocks[u])
  BY <1>8, <1>11, SourceType, CutAssumption
<1> QED BY <1>10, <1>11, <1>12, ZerosCropped DEF x, w

\* What a superblock XORed out again leaves of a mixture are zeros.
LEMMA MixtureOut ==
  ASSUME TypeOK, NEW S, NEW y, <<S, y>> \in Combos, NEW z \in Zeros, NEW n \in S
  PROVE  \E x : \E w \in Zeros : /\ <<S \ {n}, x>> \in Combos
                                 /\ BitXor(BitXor(y, z), super_blocks[n]) = BitXor(x, w)
<1>1. n \in Numbering
  BY ComboType
<1>2. PICK x : <<S \ {n}, x>> \in Combos /\ y = BitXor(x, super_blocks[n])
  BY ComboOut
<1> DEFINE b == super_blocks[n]
           w == BitXor(BitXor(b, b), z)
<1>3. x \in SuperBlocks /\ b \in SuperBlocks /\ z \in SuperBlocks
  BY <1>1, <1>2, ComboType, SourceType DEF Zeros
<1>4. y = BitXor(x, b)
  BY <1>2
<1> HIDE DEF b
<1>5. BitXor(x, b) \in SuperBlocks /\ BitXor(b, z) \in SuperBlocks /\ BitXor(b, b) \in SuperBlocks
  BY <1>3, BitXorType
<1>6. BitXor(BitXor(BitXor(x, b), z), b) = BitXor(x, BitXor(BitXor(b, z), b))
  BY <1>3, <1>5, BitXorAssociates
<1>7. BitXor(BitXor(b, z), b) = w
  BY <1>3, <1>5, BitXorAssociates, BitXorCommutes
<1>8. w \in Zeros
  BY <1>3, SelfIsZeros, ZerosTogether
<1>9. BitXor(BitXor(y, z), b) = BitXor(x, w)
  BY <1>4, <1>6, <1>7
<1> QED BY <1>2, <1>8, <1>9 DEF b

LEMMA MixtureInit == Init => MixtureInv
BY DEF Init, MixtureInv

LEMMA MixtureUndisturbed ==
  ASSUME TypeInv, MixtureInv, super_blocks' = super_blocks, UNCHANGED decoderVars,
         \A i \in DOMAIN droplets : i \in DOMAIN droplets' /\ droplets'[i] = droplets[i]
  PROVE  MixtureInv'
<1>1. Combos' = Combos
  BY CombosUnchanged
<1>2. UNCHANGED <<known, recovered, decoding, toXorOut, unknown, hollow>>
  BY DEF decoderVars
<1>3. decoding # 0 => droplets'[decoding] = droplets[decoding]
  BY DEF TypeInv, TypeOK
<1>4. decoding # 0 => \A S : MixtureOf(S) => MixtureOf(S)'
  BY <1>1, <1>2, <1>3 DEF MixtureOf
<1> QED BY <1>2, <1>3, <1>4, super_blocks' = super_blocks DEF MixtureInv

LEMMA MixtureTaken ==
  ASSUME TypeInv, EncoderInv, MixtureInv, UNCHANGED encoderVars,
         NEW i \in DOMAIN droplets, TakeDroplet(i)
  PROVE  MixtureInv'
<1> DEFINE d == droplets[i]
<1>1. /\ decoding' = i /\ toXorOut' = d.neighbors /\ unknown' = d.xored_superblock
      /\ UNCHANGED <<known, recovered, hollow>> /\ Cardinality(d.neighbors \ known) = 1
  BY DEF TakeDroplet
<1>2. super_blocks' = super_blocks /\ droplets' = droplets /\ Combos' = Combos
  BY DecodeKeepsSource
<1>3. <<d.neighbors, d.xored_superblock>> \in Combos
  BY DEF EncoderInv
<1>4. droplets'[decoding'] = d
  BY <1>1, <1>2
<1> HIDE DEF d
<1>5. d.neighbors \ known # {}
  BY <1>1, Basics
<1>6. \E y : \E z \in Zeros : <<d.neighbors, y>> \in Combos /\ unknown' = BitXor(y, z)
  <2>1. d.xored_superblock \in SuperBlocks
    BY <1>3, ComboType
  <2>2. d.xored_superblock = BitXor(d.xored_superblock, New(0)) /\ New(0) \in Zeros
    BY <2>1, NewXor, BitXorCommutes, NewIsZeros, Basics
  <2> QED BY <1>1, <1>3, <2>2
<1>7. \E S : MixtureOf(S)'
  <2>1. PICK S : S = d.neighbors
    OBVIOUS
  <2>2. droplets'[decoding'].neighbors = S /\ toXorOut' = S
    BY <1>1, <1>4, <2>1
  <2>3. MixtureOf(S)'
    BY <1>2, <1>6, <2>1, <2>2 DEF MixtureOf
  <2> QED BY <2>3
<1>8. hollow' = {} => \A n \in DOMAIN recovered' : recovered'[n] = super_blocks'[n]
  BY <1>1, <1>2 DEF MixtureInv
<1>9. droplets'[decoding'].neighbors \ known' # {}
  BY <1>1, <1>4, <1>5
<1> QED BY <1>7, <1>8, <1>9 DEF MixtureInv

LEMMA MixtureXored ==
  ASSUME TypeInv, MixtureInv, UNCHANGED encoderVars, NEW n \in Numbering, XorOut(n)
  PROVE  MixtureInv'
<1>0. TypeOK /\ DOMAIN recovered \subseteq known
  BY DEF TypeInv, TypeOK
<1>1. /\ n \in toXorOut /\ toXorOut' = toXorOut \ {n}
      /\ unknown' = IF n \in DOMAIN recovered THEN BitXor(unknown, recovered[n]) ELSE unknown
      /\ UNCHANGED <<known, recovered, decoding, hollow>>
  BY DEF XorOut
<1>2. super_blocks' = super_blocks /\ droplets' = droplets /\ Combos' = Combos
  BY DecodeKeepsSource
<1>3. ASSUME hollow = {}, decoding # 0 PROVE \E S : MixtureOf(S)'
  <2>1. PICK S : MixtureOf(S)
    BY <1>3 DEF MixtureInv
  <2>2. PICK y : \E z \in Zeros : <<S, y>> \in Combos /\ unknown = BitXor(y, z)
    BY <2>1 DEF MixtureOf
  <2>3. PICK z \in Zeros : <<S, y>> \in Combos /\ unknown = BitXor(y, z)
    BY <2>2
  <2>4. n \in S /\ toXorOut \subseteq S /\ droplets[decoding].neighbors \ known \subseteq S
    BY <1>1, <2>1 DEF MixtureOf
  <2>5. CASE n \in DOMAIN recovered
    <3>1. unknown' = BitXor(BitXor(y, z), super_blocks[n])
      BY <1>1, <1>3, <2>3, <2>5 DEF MixtureInv
    <3>2. \E x : \E w \in Zeros : <<S \ {n}, x>> \in Combos /\ unknown' = BitXor(x, w)
      BY <1>0, <2>3, <2>4, <3>1, MixtureOut
    <3>3. toXorOut' \subseteq S \ {n} /\ droplets[decoding].neighbors \ known \subseteq S \ {n}
      BY <1>0, <1>1, <2>4, <2>5
    <3>4. MixtureOf(S \ {n})'
      BY <1>1, <1>2, <3>2, <3>3 DEF MixtureOf
    <3> QED BY <3>4
  <2>6. CASE n \notin DOMAIN recovered
    <3>1. unknown' = unknown /\ toXorOut' \subseteq S
      BY <1>1, <2>4, <2>6
    <3>2. MixtureOf(S)'
      BY <1>1, <1>2, <2>3, <2>4, <3>1 DEF MixtureOf
    <3> QED BY <3>2
  <2> QED BY <2>5, <2>6
<1>4. hollow = {} /\ decoding # 0 => droplets[decoding].neighbors \ known # {}
  BY DEF MixtureInv
<1>5. hollow = {} => \A m \in DOMAIN recovered : recovered[m] = super_blocks[m]
  BY DEF MixtureInv
<1> QED BY <1>1, <1>2, <1>3, <1>4, <1>5 DEF MixtureInv

\* Where a mixture of several would pass the check it has no block, and that
\* makes a hollow superblock.
LEMMA MixtureAccepted ==
  ASSUME TypeInv, MixtureInv, UNCHANGED encoderVars, Accept PROVE MixtureInv'
<1> DEFINE x == CropPadding(unknown)
<1>1. TypeOK /\ super_blocks' = super_blocks /\ decoding' = 0
  BY DecodeKeepsSource DEF TypeInv, Accept, NextDroplet
<1>2. decoding # 0 /\ Acceptable(x)
  BY DEF Accept, Decoded
<1>3. PICK u \in droplets[decoding].neighbors \ known :
        /\ recovered' = [n \in DOMAIN recovered \cup {u} |-> IF n = u THEN x ELSE recovered[n]]
        /\ hollow' = IF IntoBlocks(x) = << >> THEN hollow \cup {u} ELSE hollow
  BY DEF Accept
<1>4. ASSUME hollow' = {} PROVE x = super_blocks[u] /\ hollow = {}
  <2>1. hollow = {} /\ IntoBlocks(x) # << >>
    BY <1>3, <1>4
  <2>2. PICK S : MixtureOf(S)
    BY <1>2, <2>1 DEF MixtureInv
  <2>3. u \in S
    BY <2>2 DEF MixtureOf
  <2>4. PICK y : \E z \in Zeros : <<S, y>> \in Combos /\ unknown = BitXor(y, z)
    BY <2>2 DEF MixtureOf
  <2>5. PICK z \in Zeros : <<S, y>> \in Combos /\ unknown = BitXor(y, z)
    BY <2>4
  <2>6. Acceptable(CropPadding(BitXor(y, z))) /\ IntoBlocks(CropPadding(BitXor(y, z))) # << >>
    BY <1>2, <2>1, <2>5
  <2>7. \E v \in S : S = {v} /\ CropPadding(BitXor(y, z)) = super_blocks[v]
    BY <1>1, <2>3, <2>5, <2>6, MixtureFails
  <2>8. x = super_blocks[u]
    BY <2>3, <2>5, <2>7
  <2> QED BY <2>1, <2>8
<1>5. hollow' = {} => \A n \in DOMAIN recovered' : recovered'[n] = super_blocks'[n]
  <2> HIDE DEF x
  <2> QED BY <1>1, <1>3, <1>4 DEF MixtureInv
<1> QED BY <1>1, <1>5 DEF MixtureInv

LEMMA MixtureKept ==
  ASSUME TypeInv, EncoderInv, MixtureInv, Decode, UNCHANGED encoderVars PROVE MixtureInv'
<1>0. super_blocks' = super_blocks /\ droplets' = droplets /\ Combos' = Combos
  BY DecodeKeepsSource
<1>1. ASSUME NEW i \in DOMAIN droplets, TakeDroplet(i) PROVE MixtureInv'
  BY <1>1, MixtureTaken
<1>2. ASSUME NEW n \in Numbering, XorOut(n) PROVE MixtureInv'
  BY <1>2, MixtureXored
<1>3. ASSUME NEW n \in Numbering, Vanish(n) PROVE MixtureInv'
  <2>1. /\ recovered' = [m \in DOMAIN recovered \ {n} |-> recovered[m]]
        /\ UNCHANGED <<known, decoding, toXorOut, unknown, hollow>>
    BY <1>3 DEF Vanish
  <2>2. \A S : MixtureOf(S) => MixtureOf(S)'
    BY <1>0, <2>1 DEF MixtureOf
  <2> QED BY <1>0, <2>1, <2>2 DEF MixtureInv
<1>4. CASE Accept
  BY <1>4, MixtureAccepted
<1>5. CASE Reject
  BY <1>0, <1>5 DEF Reject, NextDroplet, MixtureInv
<1> QED BY <1>1, <1>2, <1>3, <1>4, <1>5 DEF Decode

LEMMA MixtureInvariant ==
  CodingInv /\ MixtureInv /\ [Next]_vars => MixtureInv'
<1> SUFFICES ASSUME CodingInv, MixtureInv, [Next]_vars PROVE MixtureInv'
  OBVIOUS
<1>0. TypeInv /\ EncoderInv
  BY DEF CodingInv
<1>1. CASE Encode /\ UNCHANGED decoderVars
  BY <1>0, <1>1, EncodeAdds, MixtureUndisturbed
<1>2. CASE Decode /\ UNCHANGED encoderVars
  BY <1>0, <1>2, MixtureKept
<1>3. CASE UNCHANGED vars
  <2>1. UNCHANGED encoderVars /\ UNCHANGED decoderVars
    BY <1>3 DEF vars
  <2>2. super_blocks' = super_blocks /\ droplets' = droplets
    BY <2>1, DecodeKeepsSource
  <2> QED BY <1>0, <2>1, <2>2, MixtureUndisturbed
<1> QED BY <1>1, <1>2, <1>3 DEF Next

\* What the check against the header-chain is good for: also after temporary
\* files vanished under known numbers, which leaves superblocks mixed into the
\* ones that are decoded, nothing is stored but what was cut, as long as nothing
\* without a block was stored (fountain_decoder.rs:98-118).
THEOREM NothingWrongStored == Spec => []NoWrongBlock
<1>1. MixtureInv => NoWrongBlock
  BY DEF MixtureInv, NoWrongBlock
<1> QED BY <1>1, CodingInvInit, CodingInvariant, MixtureInit, MixtureInvariant, PTL DEF Spec
------------------------------------------------------------------------------
(* The symbols of FountainDecoder.  There a content is a set of superblocks,  *)
(* and XORing is the symmetric difference.                                    *)

Difference(S, T) == (S \ T) \cup (T \ S)

\* The order of the XORs does not matter: a set is combined to one superblock.
THEOREM OrderDoesNotMatter ==
  ASSUME TypeOK PROVE \A S, x, y : <<S, x>> \in Combos /\ <<S, y>> \in Combos => x = y
<1> DEFINE C == {p \in Combos : \A y : <<p[1], y>> \in Combos => y = p[2]}
<1>1. <<{}, New(0)>> \in C
  BY CombosGrow, EmptyCombo DEF Growing
<1>2. ASSUME NEW p \in C, NEW m \in Numbering \ p[1]
      PROVE  <<p[1] \cup {m}, BitXor(p[2], super_blocks[m])>> \in C
  <2> DEFINE T == p[1] \cup {m}
  <2>1. <<T, BitXor(p[2], super_blocks[m])>> \in Combos
    BY CombosGrow DEF Growing
  <2>2. ASSUME NEW y, <<T, y>> \in Combos PROVE y = BitXor(p[2], super_blocks[m])
    <3>1. m \in T /\ T \ {m} = p[1]
      OBVIOUS
    <3> HIDE DEF T
    <3>2. PICK w : <<T \ {m}, w>> \in Combos /\ y = BitXor(w, super_blocks[m])
      BY <2>2, <3>1, ComboOut
    <3> QED BY <3>1, <3>2
  <2> QED BY <2>1, <2>2
<1>3. Growing(C)
  BY <1>1, <1>2 DEF Growing
<1>4. Combos = C
  BY <1>3, CombosLeast
<1>5. \A S, x, y : <<S, x>> \in C => <<S, x>>[1] = S /\ <<S, x>>[2] = x
  OBVIOUS
<1> QED BY <1>4, <1>5

LEMMA XoredWithOneMore ==
  ASSUME TypeOK, NEW S, NEW T, NEW x \in SuperBlocks, NEW y \in SuperBlocks,
         NEW w, <<Difference(S, T), w>> \in Combos, NEW z \in Zeros, BitXor(x, y) = BitXor(w, z),
         NEW m \in Numbering, m \notin T
  PROVE  \E v : \E u \in Zeros : /\ <<Difference(S, T \cup {m}), v>> \in Combos
                                 /\ BitXor(x, BitXor(y, super_blocks[m])) = BitXor(v, u)
<1> DEFINE D == Difference(S, T)
           b == super_blocks[m]
<1>1. b \in SuperBlocks /\ w \in SuperBlocks /\ z \in SuperBlocks
  BY SourceType, ComboType DEF Zeros
<1>2. BitXor(x, BitXor(y, b)) = BitXor(BitXor(w, z), b)
  <2> HIDE DEF b
  <2> QED BY <1>1, BitXorAssociates
<1>3. CASE m \in S
  <2>1. m \in D /\ Difference(S, T \cup {m}) = D \ {m}
    BY <1>3 DEF Difference
  <2>2. <<D, w>> \in Combos
    OBVIOUS
  <2>3. \E v : \E u \in Zeros : /\ <<D \ {m}, v>> \in Combos
                                /\ BitXor(BitXor(w, z), super_blocks[m]) = BitXor(v, u)
    <3> HIDE DEF D
    <3> QED BY <2>1, <2>2, MixtureOut
  <2> QED BY <1>2, <2>1, <2>3
<1>4. CASE m \notin S
  <2>1. m \notin D /\ Difference(S, T \cup {m}) = D \cup {m}
    BY <1>4 DEF Difference
  <2>2. <<D \cup {m}, BitXor(w, b)>> \in Combos
    <3> HIDE DEF D
    <3> QED BY <2>1, ComboIn DEF D
  <2>3. BitXor(BitXor(w, z), b) = BitXor(BitXor(w, b), z)
    <3> HIDE DEF b
    <3>1. BitXor(BitXor(w, z), b) = BitXor(w, BitXor(z, b)) /\ BitXor(z, b) = BitXor(b, z)
      BY <1>1, BitXorAssociates, BitXorCommutes
    <3> QED BY <1>1, <3>1, BitXorAssociates
  <2> QED BY <1>2, <2>1, <2>2, <2>3
<1> QED BY <1>3, <1>4

\* What FountainDecoder takes for granted of contents, of whatever lengths and
\* counts they are (super_block.rs:149): two XORs of superblocks XORed are, with
\* zeros behind, the XOR of those that are in one of them only, and what is left
\* of a single one is, once cropped, that superblock.
THEOREM XorIsDifference ==
  ASSUME TypeOK, NEW S, NEW x, <<S, x>> \in Combos, NEW T, NEW y, <<T, y>> \in Combos
  PROVE  \E w : \E z \in Zeros :
           /\ <<Difference(S, T), w>> \in Combos /\ BitXor(x, y) = BitXor(w, z)
           /\ \A u \in Numbering : Difference(S, T) = {u} =>
                CropPadding(BitXor(x, y)) = super_blocks[u]
<1> DEFINE Is(U, v) == \E w : \E z \in Zeros :
                         <<Difference(S, U), w>> \in Combos /\ BitXor(x, v) = BitXor(w, z)
           C == {p \in Combos : Is(p[1], p[2])}
<1>0. x \in SuperBlocks
  BY ComboType
<1>1. <<{}, New(0)>> \in C
  <2>1. Difference(S, {}) = S
    BY DEF Difference
  <2>2. Is({}, New(0))
    BY <2>1, NewIsZeros
  <2> QED BY <2>2, CombosGrow DEF Growing
<1>2. ASSUME NEW p \in C, NEW m \in Numbering \ p[1]
      PROVE  <<p[1] \cup {m}, BitXor(p[2], super_blocks[m])>> \in C
  <2>1. <<p[1] \cup {m}, BitXor(p[2], super_blocks[m])>> \in Combos
    BY CombosGrow DEF Growing
  <2>2. p[2] \in SuperBlocks /\ Is(p[1], p[2])
    BY DEF Combos, Pairs
  <2>3. Is(p[1] \cup {m}, BitXor(p[2], super_blocks[m]))
    BY <1>0, <2>2, XoredWithOneMore
  <2> QED BY <2>1, <2>3
<1>3. Combos = C
  <2>1. Growing(C)
    BY <1>1, <1>2 DEF Growing
  <2> QED BY <2>1, CombosLeast
<1>4. Is(T, y)
  <2>1. <<T, y>> \in C /\ <<T, y>>[1] = T /\ <<T, y>>[2] = y
    BY <1>3
  <2> QED BY <2>1
<1>5. PICK w : \E z \in Zeros : <<Difference(S, T), w>> \in Combos /\ BitXor(x, y) = BitXor(w, z)
  BY <1>4
<1>6. PICK z \in Zeros : <<Difference(S, T), w>> \in Combos /\ BitXor(x, y) = BitXor(w, z)
  BY <1>5
<1>7. ASSUME NEW u \in Numbering, Difference(S, T) = {u}
      PROVE  CropPadding(BitXor(x, y)) = super_blocks[u]
  <2>1. w = super_blocks[u]
    BY <1>6, <1>7, SingleCombo
  <2>2. super_blocks[u] \in SuperBlocks /\ Filled(super_blocks[u])
    BY SourceType, CutAssumption DEF TypeOK
  <2> QED BY <1>6, <2>1, <2>2, ZerosCropped
<1> QED BY <1>6, <1>7
==============================================================================

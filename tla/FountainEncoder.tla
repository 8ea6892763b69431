--------------------------- MODULE FountainEncoder ---------------------------
(***************************************************************************)
(* src/encoder/fountain_encoder.rs: an epoch's superblocks are combined    *)
(* into droplets.  One action is one turn of the loops of                  *)
(* generate_droplet.  The random generator may give any number.            *)
(***************************************************************************)
EXTENDS SuperBlock, DegreeDistribution

CONSTANTS Epochs,     \* the superblocks an epoch may consist of
          MaxDroplets \* bound on the droplets that are made

Numbering == 0..(K - 1)

ASSUME EncoderAssumption == /\ \A sources \in Epochs : sources \in [Numbering -> SuperBlocks]
                            /\ MaxDroplets \in Nat

VARIABLES super_blocks,    \* the storage of the epoch's superblocks
          droplets,        \* the droplets made, by number
          droplet_counter,
          encoding,        \* where the encoder is: "none" outside of an epoch
          degree, neighbors,
          remaining,       \* neighbors still to be XORed
          encoded          \* encoded_superblock

source == <<super_blocks, droplets>>
droplet == <<degree, neighbors, remaining, encoded>>
encoderVars == <<source, droplet_counter, encoding, droplet>>

NoDroplet == degree = 0 /\ neighbors = {} /\ remaining = {} /\ encoded = New(0)
------------------------------------------------------------------------------
InitEncoder == /\ super_blocks \in Epochs
               /\ droplets = << >>
               /\ droplet_counter = 0
               /\ encoding = "none"
               /\ NoDroplet

\* generate starts, or goes on with an epoch after a run that failed.
InitEpoch == /\ encoding = "none"
             /\ encoding' = "ready"
             /\ droplet_counter' = Len(droplets)
             /\ UNCHANGED <<source, droplet>>

TruncateStorage == /\ encoding = "ready"
                   /\ encoding' = "none"
                   /\ UNCHANGED <<source, droplet_counter, droplet>>

SampleDegree(u) == /\ encoding = "ready" /\ droplet_counter < MaxDroplets
                   /\ encoding' = "draw"
                   /\ degree' = Sample(u)
                   /\ UNCHANGED <<source, droplet_counter, neighbors, remaining, encoded>>

\* Mutant of Draw: one neighbor more than the degree.
DrawOneMore(n) == /\ encoding = "draw" /\ Cardinality(neighbors) <= degree
                  /\ neighbors' = neighbors \cup {n}
                  /\ UNCHANGED <<source, droplet_counter, encoding, degree, remaining, encoded>>
\* Mutant of Draw: the random range begins with 1.
DrawNotFirst(n) == /\ encoding = "draw" /\ Cardinality(neighbors) < degree /\ n # 0
                   /\ neighbors' = neighbors \cup {n}
                   /\ UNCHANGED <<source, droplet_counter, encoding, degree, remaining, encoded>>
\* A number that was drawn before is drawn again; with a degree above K the
\* search for neighbors goes on without end.
Draw(n) == /\ encoding = "draw" /\ Cardinality(neighbors) < degree
           /\ neighbors' = neighbors \cup {n}
           /\ UNCHANGED <<source, droplet_counter, encoding, degree, remaining, encoded>>

Drawn == encoding = "draw" /\ Cardinality(neighbors) >= degree

StartXor == /\ Drawn /\ neighbors # {}
            /\ encoding' = "xor"
            /\ remaining' = neighbors
            /\ encoded' = New(0)
            /\ UNCHANGED <<source, droplet_counter, degree, neighbors>>

Forget == degree' = 0 /\ neighbors' = {} /\ remaining' = {} /\ encoded' = New(0)

\* The assertion that there are neighbors fails.
Panic == /\ Drawn /\ neighbors = {}
         /\ encoding' = "none"
         /\ Forget
         /\ UNCHANGED <<source, droplet_counter>>

\* The neighbors are in no particular order.
XorNeighbor(n) == /\ encoding = "xor" /\ n \in remaining
                  /\ encoded' = BitXor(encoded, super_blocks[n])
                  /\ remaining' = remaining \ {n}
                  /\ UNCHANGED <<source, droplet_counter, encoding, degree, neighbors>>

\* The file of a superblock is missing or cannot be read: the command fails.
SuperBlockNotFound == /\ encoding = "xor" /\ remaining # {}
                      /\ encoding' = "none"
                      /\ Forget
                      /\ UNCHANGED <<source, droplet_counter>>

FinishDroplet ==
  /\ encoding = "xor" /\ remaining = {}
  /\ encoding' = "ready"
  /\ droplets' = Append(droplets, [num |-> droplet_counter, neighbors |-> neighbors,
                                   xored_superblock |-> encoded])
  /\ droplet_counter' = droplet_counter + 1
  /\ Forget
  /\ UNCHANGED super_blocks

Generate == \/ \E n \in Numbering : Draw(n) \/ XorNeighbor(n)
            \/ StartXor \/ Panic \/ FinishDroplet
Encode == \/ InitEpoch \/ TruncateStorage
          \/ \E u \in Samples : SampleDegree(u)
          \/ Generate \/ SuperBlockNotFound

\* generate_droplet is a loop in one thread, and a random generator does not
\* give the same numbers for ever.
EncoderFairness == WF_encoderVars(Generate)
------------------------------------------------------------------------------
\* Numbers as rows of bits, to say what a droplet holds without BitwiseXor.
Bit(x, b) == (x \div 2^b) % 2
BitPlaces == {b \in 0..MaxNumber : 2^b <= MaxNumber}
\* Exclusive or works on every bit.
ASSUME BitsAssumption ==
  \A b \in BitPlaces : \A x, y \in Numbers :
    Bit(x, b) \in {0, 1} /\ Bit(0, b) = 0 /\ Bit(BitwiseXor(x, y), b) = (Bit(x, b) + Bit(y, b)) % 2
Parity(x, S, value) == \A b \in BitPlaces :
                         Bit(x, b) = Cardinality({n \in S : Bit(value[n], b) = 1}) % 2

\* A droplet holds the column parity of its neighbors' numbers and bytes, each
\* followed by zeros, whatever the lengths and the order of its neighbors; the
\* file that it becomes is short enough to be read again; and it has its place
\* in the directory as its number (fountain_encoder.rs:80-104).
HoldsParity(d) ==
  LET x == d.xored_superblock
      S == d.neighbors
  IN  /\ S # {}
      /\ Parity(x.num, S, [n \in S |-> super_blocks[n].num])
      /\ Parity(x.block_count, S, [n \in S |-> super_blocks[n].block_count])
      /\ Parity(x.bytes_length, S, [n \in S |-> super_blocks[n].bytes_length])
      /\ \A n \in S : Len(x.raw_bytes) >= Len(super_blocks[n].raw_bytes)
                      /\ Len(x.block_sizes) >= Len(super_blocks[n].block_sizes)
      /\ \A i \in DOMAIN x.raw_bytes :
           Parity(x.raw_bytes[i], S, [n \in S |-> Padded(super_blocks[n].raw_bytes, i)])
      /\ \A i \in DOMAIN x.block_sizes :
           Parity(x.block_sizes[i], S, [n \in S |-> Padded(super_blocks[n].block_sizes, i)])
      /\ Loadable(x)
HonestDroplets == \A i \in DOMAIN droplets : HoldsParity(droplets[i]) /\ droplets[i].num = i - 1

\* Sampling follows the distribution (distribution.rs:123): the degree that was
\* sampled comes out of as many samples as its probability says.  The degrees
\* that no droplet has come out of the number 0 alone, and of the numbers that
\* rounding leaves above the last entry.
SampleFollowsPmf ==
  encoding = "draw" =>
    Cardinality({u \in Samples : Sample(u) = degree}) =
      IF degree = 0 THEN 1 ELSE IF degree > K THEN Shortfall ELSE Pmf(degree)

\* A droplet once begun is made, or the command ends: the search for neighbors
\* (fountain_encoder.rs:71) terminates if no more are asked for than there are
\* superblocks.  Otherwise it never does.
GenerateReturns ==
  /\ encoding \in {"draw", "xor"} /\ degree <= K ~> encoding \in {"ready", "none"}
  /\ [](encoding = "draw" /\ degree > K => [](encoding = "draw"))
==============================================================================

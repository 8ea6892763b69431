-------------------------------- MODULE Coding --------------------------------
(***************************************************************************)
(* Superblocks through a droplet and back: the encoder of a droplet node,  *)
(* and the decoder of a bucket node as far as it handles bytes             *)
(* (src/decoder/fountain_decoder.rs with src/super_block.rs and            *)
(* src/storage/tmp_file_storage.rs).  The order in which the decoder looks *)
(* at its droplets is the subject of FountainDecoder; here it is open.     *)
(***************************************************************************)
EXTENDS FountainEncoder

CONSTANTS Headers,    \* the header-chain, a sequence of header bytes
          MaxVanished \* bound on temporary files that vanish

ASSUME CodingAssumption == Headers \in Seq(Numbers) /\ MaxVanished \in Nat

VARIABLES known,     \* known_neighbors, the keys of the temporary storage
          recovered, \* the superblocks in its files
          decoding,  \* droplet being decoded, 0 for none
          toXorOut,  \* its neighbors not yet looked up
          unknown,   \* unknown_superblock
          rejected,  \* droplets that were ever rejected
          hollow,    \* superblocks that were stored without a block
          vanished   \* number of temporary files that vanished

decoderVars == <<known, recovered, decoding, toXorOut, unknown, rejected, hollow, vanished>>
vars == <<encoderVars, decoderVars>>
------------------------------------------------------------------------------
(* The header-chain's check. *)

\* Bytes are a block only if there is a header at their front.
Place(block) == IF block = << >> THEN {} ELSE {p \in DOMAIN Headers : Headers[p] = block[1]}

\* Mutant of ValidateBlocks: no look at the header-chain.
ValidateNothing(blocks) == TRUE
ValidateBlocks(blocks) ==
  \A i \in DOMAIN blocks : \E p \in Place(blocks[i]) : i > 1 => p - 1 \in Place(blocks[i - 1])

Acceptable(sb) == EnoughBytes(sb) /\ ValidateBlocks(IntoBlocks(sb))

\* An epoch's superblocks are cut by add from blocks that follow one another in
\* the header-chain.
ASSUME CutAssumption == \A sources \in Epochs : \A n \in Numbering :
                          Filled(sources[n]) /\ Loadable(sources[n]) /\ Acceptable(sources[n])

\* Headers are known by their hashes: none of them is what the bytes at the
\* fronts of several superblocks are XORed to.
ASSUME HashAssumption ==
  \A sources \in Epochs : \A S \in (SUBSET Numbering) \ {{}} : \A p \in DOMAIN Headers :
    Parity(Headers[p], S, [n \in S |-> Padded(sources[n].raw_bytes, 1)]) => \E n \in S : S = {n}
------------------------------------------------------------------------------
Init == /\ InitEncoder
        /\ known = {}
        /\ recovered = [n \in {} |-> New(0)]
        /\ decoding = 0 /\ toXorOut = {} /\ unknown = New(0)
        /\ rejected = {} /\ hollow = {}
        /\ vanished = 0

NextDroplet == decoding' = 0 /\ toXorOut' = {} /\ unknown' = New(0)

TakeDroplet(i) == /\ decoding = 0
                  /\ Loadable(droplets[i].xored_superblock)
                  /\ Cardinality(droplets[i].neighbors \ known) = 1
                  /\ decoding' = i
                  /\ toXorOut' = droplets[i].neighbors
                  /\ unknown' = droplets[i].xored_superblock
                  /\ UNCHANGED <<known, recovered, rejected, hollow, vanished>>

\* A neighbor without a key or without a file is passed over.
XorOut(n) == /\ n \in toXorOut
             /\ toXorOut' = toXorOut \ {n}
             /\ unknown' = IF n \in DOMAIN recovered THEN BitXor(unknown, recovered[n]) ELSE unknown
             /\ UNCHANGED <<known, recovered, decoding, rejected, hollow, vanished>>

Decoded == decoding # 0 /\ toXorOut = {}

Accept == /\ Decoded /\ Acceptable(CropPadding(unknown))
          /\ \E u \in droplets[decoding].neighbors \ known :
               /\ known' = known \cup {u}
               /\ recovered' = [n \in DOMAIN recovered \cup {u} |->
                                  IF n = u THEN CropPadding(unknown) ELSE recovered[n]]
               /\ hollow' = IF IntoBlocks(CropPadding(unknown)) = << >> THEN hollow \cup {u} ELSE hollow
          /\ NextDroplet
          /\ UNCHANGED <<rejected, vanished>>

Reject == /\ Decoded /\ ~Acceptable(CropPadding(unknown))
          /\ rejected' = rejected \cup {decoding}
          /\ NextDroplet
          /\ UNCHANGED <<known, recovered, hollow, vanished>>

\* A cleaner of the directory for temporary files removes one of them.
Vanish(n) == /\ n \in DOMAIN recovered /\ vanished < MaxVanished
             /\ recovered' = [m \in DOMAIN recovered \ {n} |-> recovered[m]]
             /\ vanished' = vanished + 1
             /\ UNCHANGED <<known, decoding, toXorOut, unknown, rejected, hollow>>

Decode == \/ \E i \in DOMAIN droplets : TakeDroplet(i)
          \/ \E n \in Numbering : XorOut(n) \/ Vanish(n)
          \/ Accept \/ Reject

Next == \/ Encode /\ UNCHANGED decoderVars
        \/ Decode /\ UNCHANGED encoderVars

Spec == Init /\ [][Next]_vars
FairSpec == Spec /\ EncoderFairness
------------------------------------------------------------------------------
TypeOK ==
  /\ super_blocks \in Epochs
  /\ encoding \in {"none", "ready", "draw", "xor"}
  /\ degree \in 0..(K + 1) /\ neighbors \subseteq Numbering /\ remaining \subseteq neighbors
  /\ Cardinality(neighbors) <= degree
  /\ encoded \in SuperBlocks
  /\ droplet_counter \in 0..MaxDroplets /\ Len(droplets) <= MaxDroplets
  /\ known \subseteq Numbering /\ DOMAIN recovered \subseteq known
  /\ \A n \in DOMAIN recovered : recovered[n] \in SuperBlocks
  /\ decoding \in {0} \cup DOMAIN droplets
  /\ toXorOut \subseteq Numbering
  /\ unknown \in SuperBlocks
  /\ rejected \subseteq DOMAIN droplets /\ hollow \subseteq known
  /\ vanished \in 0..MaxVanished

\* The bytes that come out are the bytes that went in: every superblock stored
\* is the one that was cut, its padding gone and its blocks in their places,
\* whatever lengths and block counts it was mixed with.
Undone == vanished = 0 => \A n \in DOMAIN recovered : recovered[n] = super_blocks[n]

\* No honest droplet is ever taken for a murky one (README.md:29), unless a
\* temporary file vanished under a known number, which leaves that superblock
\* mixed into the decoded one (tmp_file_storage.rs:72).
NothingRejected == vanished = 0 => rejected = {}

\* What the header-chain's check is good for: also when a file vanished, what
\* is stored is what was cut, until the first superblock without a block passes
\* (two superblocks of as many blocks XORed have none, super_block.rs:79).
NoWrongBlock == hollow = {} => \A n \in DOMAIN recovered : recovered[n] = super_blocks[n]
==============================================================================

-------------------------- MODULE MCFountainDecoder --------------------------
(* Instances of FountainDecoder for TLC. *)
EXTENDS FountainDecoder

CONSTANT noise \* bytes of no block of the chain

Made(S) == [neighbors |-> S, payload |-> S, readable |-> TRUE]
Spoiled(S) == [neighbors |-> S, payload |-> S \cup {noise}, readable |-> TRUE]
Torn == [neighbors |-> {0}, payload |-> {0}, readable |-> FALSE]

Codes == (SUBSET Epoch) \ {{}}
NoTerms == {}
OneNoise == {noise}
\* Superblocks 0 and 1 have as many blocks and as many bytes.
ZeroAndOne == {{0, 1}}

\* Every honest droplet, every murky one, and a torn file.
HonestMurkyTorn == {Made(S) : S \in Codes} \cup {Spoiled(S) : S \in Codes} \cup {Torn}
==============================================================================

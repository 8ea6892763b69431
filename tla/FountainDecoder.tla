--------------------------- MODULE FountainDecoder ---------------------------
(***************************************************************************)
(* src/decoder/fountain_decoder.rs: the error-resilient peeling decoder of *)
(* one epoch, with the header-chain check of src/blockchain/headerchain.rs *)
(* that it calls.  One action is one turn of the loops of                  *)
(* get_decoded_superblock.                                                 *)
(*                                                                         *)
(* Content of a superblock or of a droplet is a vector over GF(2), written *)
(* as the set of the terms that occur in it an odd number of times.  The   *)
(* superblock number s of the epoch is {s}; a droplet made by the encoder  *)
(* holds exactly its neighbors.  Noise are bytes that belong to no block   *)
(* of the chain; Foreign is a run of good blocks that is not a superblock  *)
(* of this epoch (blocks of another epoch, or of this one cut otherwise).  *)
(* The numbers among Noise may be so large that no memory can be had for   *)
(* them: Huge.  Hollow are XORs of superblocks in which the block counts   *)
(* and the lengths cancel: they are cropped to nothing.                    *)
(***************************************************************************)
EXTENDS Integers, FiniteSets

CONSTANTS SuperBlocksPerEpoch, \* k of the configuration
          Foreign, Noise,      \* terms that are no superblock of the epoch
          Huge, Hollow,
          Collected,           \* the droplets that may have been collected
          MaxDroplets,         \* bound on how many of them there are
          TmpStorageMayFail    \* whether the storage of recovered superblocks can fail

Epoch == 0..(SuperBlocksPerEpoch - 1)
Terms == Epoch \cup Foreign \cup Noise

\* A droplet file that cannot be decoded, or is missing, is not readable.
Droplet == [neighbors : (SUBSET Epoch) \ {{}}, payload : SUBSET Terms, readable : BOOLEAN]

ASSUME KAssumption == SuperBlocksPerEpoch \in Nat \ {0}
ASSUME TermsAssumption == /\ Foreign \cap Epoch = {}
                          /\ Noise \cap (Epoch \cup Foreign) = {}
                          /\ Huge \subseteq Noise
ASSUME HollowAssumption == /\ Hollow \subseteq SUBSET (Epoch \cup Foreign)
                           /\ \A t \in Terms : {t} \notin Hollow
ASSUME CollectedAssumption == Collected \subseteq Droplet
ASSUME BoundAssumption == MaxDroplets \in Nat /\ TmpStorageMayFail \in BOOLEAN

VARIABLES count,      \* number of droplets in the epoch directory
          droplets,   \* the droplets, by file number
          known,      \* known_neighbors
          recovered,  \* recovered_super_blocks, by superblock number
          pc,         \* where get_decoded_superblock is: "ready" between calls
          requested,  \* num, the superblock asked for
          round,      \* turns of the outer loop that are over
          index,      \* i of the inner loop
          skip,       \* droplets_to_skip, empty at the start of every call
          missed,     \* history: in this call a recovered superblock was not there to read
          outcome,    \* "found", "notDecoded", "failed": what the call returned
          superblock  \* the content returned with "found"

vars == <<count, droplets, known, recovered, pc, requested, round, index, skip,
          missed, outcome, superblock>>
stores == <<count, droplets>>
loop == <<round, index, skip, missed>>
------------------------------------------------------------------------------
(* The droplets. *)

Honest(d) == d.payload = d.neighbors
Murky(d) == d.payload \cap Noise # {}

\* Mutant of Unknown: recovered neighbors count as unknown.
UnknownUnfiltered(i) == droplets[i].neighbors
Unknown(i) == droplets[i].neighbors \ known
Peelable(i) == \E u \in Epoch : Unknown(i) = {u}

Recovered(i) == droplets[i].neighbors \cap known
\* The recovered neighbors whose files can be opened.  One that cannot is taken
\* for one that is not there, without an error.
Opened(i) == IF TmpStorageMayFail THEN SUBSET Recovered(i) ELSE {Recovered(i)}

Odd(n) == n % 2 = 1
Occurrences(opened, t) == {n \in opened : t \in recovered[n]}

\* The droplet's content after XORing out the recovered neighbors that were opened.
XorOut(i, opened) ==
  {t \in Terms : IF t \in droplets[i].payload THEN ~Odd(Cardinality(Occurrences(opened, t)))
                                              ELSE Odd(Cardinality(Occurrences(opened, t)))}

\* Mutant of Valid: no check against the header-chain.
ValidAlways(content) == TRUE
\* block_hashes succeeds and validate_blocks accepts: every block is in the
\* header-chain and follows the one before it.  No blocks at all pass too.
Valid(content) == \/ content = {} \/ content \in Hollow
                  \/ \E t \in Epoch \cup Foreign : content = {t}
Cropped(content) == IF content \in Hollow THEN {} ELSE content
------------------------------------------------------------------------------
Init == /\ count \in 0..MaxDroplets
        /\ droplets \in [0..(count - 1) -> Collected]
        /\ known = {}
        /\ recovered = [n \in {} |-> {}]
        /\ pc = "ready"
        /\ requested = 0
        /\ round = 0 /\ index = 0 /\ skip = {} /\ missed = FALSE
        /\ outcome = "pending"
        /\ superblock = {}

Call(num) == /\ pc = "ready"
             /\ pc' = "lookup"
             /\ requested' = num
             /\ round' = 0 /\ index' = 0 /\ skip' = {} /\ missed' = FALSE
             /\ outcome' = "pending"
             /\ superblock' = {}
             /\ UNCHANGED <<stores, known, recovered>>

Return(reply, content) == /\ pc' = "ready"
                          /\ outcome' = reply
                          /\ superblock' = content
                          /\ UNCHANGED requested

LookupHit == /\ pc = "lookup"
             /\ requested \in DOMAIN recovered
             /\ Return("found", recovered[requested])
             /\ UNCHANGED <<stores, known, recovered, loop>>

\* A superblock whose file cannot be opened is searched for like one that is not
\* recovered, but is never found: it is known.
LookupMiss == /\ pc = "lookup"
              /\ requested \notin DOMAIN recovered \/ TmpStorageMayFail
              /\ pc' = "scanning"
              /\ missed' = (requested \in DOMAIN recovered)
              /\ UNCHANGED <<stores, known, recovered, requested, round, index, skip, outcome,
                             superblock>>

\* Mutant of Rounds: one pass less.
RoundsButOne == IF count = 0 THEN 0 ELSE count - 1
Rounds == count

\* Mutant of Scan: one pass more than there are droplets.
ScanOnceMore == pc = "scanning" /\ round <= Rounds
Scan == pc = "scanning" /\ round < Rounds

\* Mutant of NextPass: the pass is not counted.
NextPassUncounted == UNCHANGED round /\ index' = 0
NextPass == round' = round + 1 /\ index' = 0
NextDroplet == index' = index + 1 /\ UNCHANGED round

EndPass == /\ Scan /\ index = count
           /\ NextPass
           /\ UNCHANGED <<stores, known, recovered, pc, requested, skip, missed, outcome, superblock>>

GiveUp == /\ pc = "scanning" /\ round = Rounds
          /\ Return("notDecoded", {})
          /\ UNCHANGED <<stores, known, recovered, loop>>

SkipDroplet == /\ Scan /\ index \in skip
               /\ NextDroplet
               /\ UNCHANGED <<stores, known, recovered, pc, requested, skip, missed, outcome, superblock>>

Visit == Scan /\ index < count /\ index \notin skip

ReadFails == /\ Visit /\ ~droplets[index].readable
             /\ Return("failed", {})
             /\ UNCHANGED <<stores, known, recovered, loop>>

NotPeelable == /\ Visit /\ droplets[index].readable /\ ~Peelable(index)
               /\ NextDroplet
               /\ UNCHANGED <<stores, known, recovered, pc, requested, skip, missed, outcome, superblock>>

OneUnknown == Visit /\ droplets[index].readable /\ Peelable(index)

\* A superblock's file cannot be decoded, or a new one cannot be stored.
TmpStorageFails == /\ TmpStorageMayFail
                   /\ pc = "lookup" \/ OneUnknown
                   /\ Return("failed", {})
                   /\ UNCHANGED <<stores, known, recovered, loop>>

\* block_hashes sets memory aside for as many bytes and blocks as the content
\* says.  If there is not that much, the process ends, and no call follows.
Dies == /\ OneUnknown
        /\ \E opened \in Opened(index) : XorOut(index, opened) \cap Huge # {}
        /\ pc' = "dead"
        /\ UNCHANGED <<stores, known, recovered, requested, loop, outcome, superblock>>

Miss(opened) == missed' = (missed \/ opened # Recovered(index))

\* Mutant of Reject: the droplet is not remembered as invalid.
RejectForgetful == /\ OneUnknown
                   /\ \E opened \in Opened(index) : ~Valid(XorOut(index, opened)) /\ Miss(opened)
                   /\ NextPass
                   /\ UNCHANGED <<stores, known, recovered, pc, requested, skip, outcome, superblock>>
\* An invalid droplet is never looked at again in this call, and the pass is
\* given up: the droplets after it wait for the next pass.
Reject == /\ OneUnknown
          /\ \E opened \in Opened(index) : ~Valid(XorOut(index, opened)) /\ Miss(opened)
          /\ skip' = skip \cup {index}
          /\ NextPass
          /\ UNCHANGED <<stores, known, recovered, pc, requested, outcome, superblock>>

Store(u, content) ==
  /\ recovered' = [n \in known \cup {u} |-> IF n = u THEN content ELSE recovered[n]]
  /\ known' = known \cup {u}

Recover ==
  /\ OneUnknown
  /\ \E opened \in Opened(index), u \in Epoch :
       LET content == Cropped(XorOut(index, opened)) IN
       /\ Valid(XorOut(index, opened)) /\ Miss(opened)
       /\ Unknown(index) = {u}
       /\ Store(u, content)
       /\ IF u = requested
            THEN Return("found", content) /\ UNCHANGED <<round, index>>
            ELSE NextDroplet /\ UNCHANGED <<pc, requested, outcome, superblock>>
  /\ skip' = skip \cup {index}
  /\ UNCHANGED stores

Next == \/ \E num \in Epoch : Call(num)
        \/ LookupHit \/ LookupMiss
        \/ EndPass \/ GiveUp
        \/ SkipDroplet \/ ReadFails \/ NotPeelable
        \/ TmpStorageFails \/ Dies \/ Reject \/ Recover

Spec == Init /\ [][Next]_vars

\* A call is a loop in one thread: once made, it keeps running.
Running == pc # "ready" /\ Next
FairSpec == Spec /\ WF_vars(Running)
------------------------------------------------------------------------------
TypeOK ==
  /\ count \in 0..MaxDroplets
  /\ droplets \in [0..(count - 1) -> Collected]
  /\ known \subseteq Epoch
  /\ recovered \in [known -> SUBSET Terms]
  /\ pc \in {"ready", "lookup", "scanning", "dead"}
  /\ requested \in Epoch
  /\ round \in 0..count
  /\ index \in 0..count
  /\ skip \subseteq 0..(count - 1)
  /\ missed \in BOOLEAN
  /\ outcome \in {"pending", "found", "notDecoded", "failed"}
  /\ superblock \in SUBSET Terms

\* Every droplet at hand was made by an encoder of this epoch or is detectably
\* corrupted: what the decoder's header-chain check is able to tell apart.
HonestOrMurky == \A d \in Collected : Honest(d) \/ Murky(d)

\* What is recovered under a number is the superblock of that number, and so is
\* what a call returns, whatever murky droplets were met in whatever order
\* (README.md:29: "will accept a decoded droplet only if" it matches).  When
\* files could not be opened and what is left over cancels, it may have no block
\* in it, but never the blocks of another superblock.
Hollowed(content) == TmpStorageMayFail /\ Hollow # {} /\ content = {}
Sound == /\ \A n \in known : recovered[n] = {n} \/ Hollowed(recovered[n])
         /\ outcome = "found" => superblock = {requested} \/ Hollowed(superblock)

\* "notDecoded" is only answered when peeling is really exhausted, or a recovered
\* superblock was not there to read in this call: no droplet is left that has one
\* unknown neighbor and yields valid content.  The passes are cut short by every
\* rejected droplet and their number is bounded by the number of droplets, so
\* this says that the bound is large enough.
Stuck(i) == ~Peelable(i) \/ ~Valid(XorOut(i, Recovered(i)))
Exhausted == outcome = "notDecoded" /\ ~missed =>
               \A i \in 0..(count - 1) : droplets[i].readable /\ Stuck(i)

\* A superblock once recovered stays, with the same content, over all calls:
\* conflicting droplets met later never replace it.
NeverReplaced ==
  [][\A n \in DOMAIN recovered : n \in known' /\ recovered'[n] = recovered[n]]_vars

\* Every call ends with an answer or an error, unless a droplet is at hand whose
\* numbers are too large for the memory: then the process may end instead.
EveryCallReturns ==
  pc # "ready" ~> \/ pc = "ready"
                  \/ pc = "dead" /\ \E i \in 0..(count - 1) : droplets[i].payload \cap Huge # {}

\* The scan implements the order-free promise of a peeling decoder: it answers
\* "notDecoded" exactly for superblocks that the honest droplets do not
\* determine, and fails only where a storage fails.  Only if a superblock was
\* lost, because its file could not be opened or nothing is in it, one that they
\* do determine may be said to be not decoded (tmp_file_storage.rs:72).
Lost == missed \/ \E n \in known : recovered[n] = {}
Abstract == INSTANCE Peeling WITH
  Symbols <- Epoch,
  codes <- {droplets[i].neighbors : i \in {j \in 0..(count - 1) : Honest(droplets[j])}},
  mayFail <- TmpStorageMayFail \/ \E i \in 0..(count - 1) : ~droplets[i].readable,
  busy <- pc # "ready",
  lost <- Lost

ImplementsPeeling == Abstract!Spec
==============================================================================

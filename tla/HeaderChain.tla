----------------------------- MODULE HeaderChain -----------------------------
(***************************************************************************)
(* src/blockchain/headerchain.rs: a bucket node's header-chain, how the    *)
(* command headerchain brings it up to date with a source node's chain,    *)
(* and how decoded blocks are checked against it.                          *)
(*                                                                         *)
(* Headers form a tree.  The source's active chain ends in one of them and *)
(* switches to higher ones.  The library that keeps the headers is         *)
(* external: it takes a header if it knows the parent, has the highest as  *)
(* its best one, and after a crash may have lost headers it had not        *)
(* written yet.                                                            *)
(***************************************************************************)
EXTENDS Integers, Sequences, FiniteSets

CONSTANTS Headers, Genesis,
          Parent,     \* of every other header
          MaxReorg,   \* bound on the headers a reorganisation takes back
          MaxCrashes, \* bound on the crashes
          MaxBlocks   \* bound on the blocks checked together

Height[h \in Headers] == IF h = Genesis THEN 0 ELSE Height[Parent[h]] + 1
Chain[h \in Headers] == IF h = Genesis THEN <<h>> ELSE Append(Chain[Parent[h]], h)
On(h) == {Chain[h][i] : i \in DOMAIN Chain[h]}

ASSUME HeadersAssumption == /\ IsFiniteSet(Headers) /\ Genesis \in Headers
                            /\ Parent \in [Headers \ {Genesis} -> Headers]
\* Headers form a tree: all of them descend from the genesis.
ASSUME TreeAssumption ==
  \A S \in SUBSET Headers :
    Genesis \in S /\ (\A h \in Headers \ {Genesis} : Parent[h] \in S => h \in S) => S = Headers
ASSUME HeaderBounds == MaxReorg \in Nat /\ MaxCrashes \in Nat /\ MaxBlocks \in Nat

VARIABLES active,  \* tip of the source's active chain
          known,   \* the headers the library has
          written, \* those that a crash does not lose
          best,    \* best_entry
          pc,      \* "loop" in generate, "idle" between commands
          next,    \* height of the next entry of the source's chain
          outcome, \* how the last command ended
          crashes

vars == <<active, known, written, best, pc, next, outcome, crashes>>
------------------------------------------------------------------------------
Init == /\ active \in Headers
        /\ known = {Genesis} /\ written = {Genesis} /\ best = Genesis
        /\ pc = "idle" /\ next = 0
        /\ outcome = "none"
        /\ crashes = 0

\* A command sees one chain.
SourceAdvances(tip) == /\ pc = "idle"
                       /\ Height[tip] > Height[active]
                       /\ Cardinality(On(active) \ On(tip)) <= MaxReorg
                       /\ active' = tip
                       /\ UNCHANGED <<known, written, best, pc, next, outcome, crashes>>

\* Mutant of FirstEntry: the entry after the best one.
FirstEntryAfterBest == Height[best] + 1
FirstEntry == Height[best]

Generate == /\ pc = "idle"
            /\ pc' = "loop"
            /\ next' = FirstEntry
            /\ outcome' = "running"
            /\ UNCHANGED <<active, known, written, best, crashes>>

Entry == Chain[active][next + 1]
\* Mutant of Connects: every header is taken.
ConnectsAlways(h) == TRUE
Connects(h) == h # Genesis => Parent[h] \in known

ProcessHeader == /\ pc = "loop" /\ next <= Height[active]
                 /\ Connects(Entry)
                 /\ known' = known \cup {Entry}
                 /\ best' = IF Height[Entry] > Height[best] THEN Entry ELSE best
                 /\ next' = next + 1
                 /\ UNCHANGED <<active, written, pc, outcome, crashes>>

\* The library writes what it has when it is closed.
End(how) == /\ pc' = "idle"
            /\ outcome' = how
            /\ written' = known
            /\ UNCHANGED <<active, known, best, next, crashes>>

\* Mutant of HeaderFails: the error is logged only.
HeaderFailsSilently == /\ pc = "loop" /\ next <= Height[active]
                       /\ ~Connects(Entry)
                       /\ next' = next + 1
                       /\ UNCHANGED <<active, known, written, best, pc, outcome, crashes>>
HeaderFails == /\ pc = "loop" /\ next <= Height[active]
               /\ ~Connects(Entry)
               /\ End("failed")

Done == /\ pc = "loop" /\ next > Height[active]
        /\ End("done")

Closed(S) == Genesis \in S /\ \A h \in S \ {Genesis} : Parent[h] \in S
Best(h, S) == h \in S /\ \A g \in S : Height[g] <= Height[h]

Crash == /\ pc = "loop" /\ crashes < MaxCrashes
         /\ pc' = "idle"
         /\ outcome' = "interrupted"
         /\ crashes' = crashes + 1
         /\ \E kept \in SUBSET known : /\ written \subseteq kept /\ Closed(kept)
                                       /\ known' = kept /\ written' = kept
                                       /\ Best(best', kept)
         /\ UNCHANGED <<active, next>>

Step == ProcessHeader \/ HeaderFails \/ Done

Next == \/ \E tip \in Headers : SourceAdvances(tip)
        \/ Generate \/ Step
        \/ Crash

Spec == Init /\ [][Next]_vars

\* A command keeps running, and is called again.
FairSpec == Spec /\ WF_vars(Step) /\ WF_vars(Generate)
------------------------------------------------------------------------------
(* The check of decoded blocks.  A block's hash is its header. *)

\* Mutant of ValidateBlocks: the predecessors are not compared.
ValidateKnown(blocks) == \A i \in DOMAIN blocks : blocks[i] \in known
ValidateBlocks(blocks) ==
  \A i \in DOMAIN blocks :
    /\ blocks[i] \in known
    /\ i > 1 => blocks[i] # Genesis /\ Parent[blocks[i]] = blocks[i - 1]
------------------------------------------------------------------------------
TypeOK ==
  /\ active \in Headers
  /\ known \subseteq Headers /\ written \subseteq known
  /\ Closed(known) /\ Closed(written)
  /\ Best(best, known)
  /\ pc \in {"idle", "loop"}
  /\ next \in Nat
  /\ outcome \in {"none", "running", "done", "failed", "interrupted"}
  /\ crashes \in 0..MaxCrashes

\* "Done" means up to date: every header of the source's chain is there, also
\* those below the height the command started at, which it did not look at
\* (headerchain.rs:103).
DoneIsComplete == [][pc = "loop" /\ outcome' = "done" => On(active) \subseteq known']_vars

\* Blocks are accepted exactly if they are a piece, in order and without a
\* gap, of one branch of the header-chain (headerchain.rs:14): no block is
\* compared with any but the one before it.
Runs == UNION {[1..n -> Headers] : n \in 1..MaxBlocks}
Piece(blocks, chain) == \E from \in 0..(Len(chain) - Len(blocks)) :
                          \A i \in DOMAIN blocks : blocks[i] = chain[from + i]
ValidatesPieces ==
  \A blocks \in Runs :
    ValidateBlocks(blocks) <=> \E tip \in known : Piece(blocks, Chain[tip])

\* The comment at fountain_decoder.rs:117 says more: the blocks that are accepted
\* "correspond to the longest header-chain", or to one of those as long.
AcceptsLongestOnly ==
  \A blocks \in Runs :
    ValidateBlocks(blocks) => \E tip \in known : Best(tip, known) /\ Piece(blocks, Chain[tip])

\* As long as the command is called again, the header-chain gets to the end of
\* the source's chain and stays there, unless the source has taken back more
\* than the header that the command starts at.
OffBranch == Cardinality(On(best) \ On(active))
CatchesUpUnlessDeep == <>[](On(active) \subseteq known \/ OffBranch > 1)

\* README.md:58 promises that without a condition: the command corresponds to
\* "downloading valid (longest) header-chain".
CatchesUp == <>[](On(active) \subseteq known)
==============================================================================

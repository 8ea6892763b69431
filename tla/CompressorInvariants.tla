------------------------ MODULE CompressorInvariants ------------------------
(***************************************************************************)
(* Why the epochs of Compressor agree and tile the chain when no run dies: *)
(* the loop cuts an epoch greedily, so its layout follows from its first   *)
(* block.                                                                  *)
(***************************************************************************)
EXTENDS Compressor

\* A superblock holds the blocks from first to next - 1, and no more would fit.
FullSuperBlock(first, next) == /\ first < next
                               /\ \A h \in first..(next - 1) : Fits(first, h)
                               /\ ~Fits(first, next)
Greedy(layout) ==
  \A j \in 1..(Len(layout) - 1) : FullSuperBlock(layout[j], layout[j + 1])

\* Where an epoch has to begin, by the droplets of the one before it.
BeginsAt(e, first) ==
  IF e = 0 THEN first = 0
           ELSE /\ e - 1 \in DOMAIN store
                /\ \E m \in Whole(store, e - 1) : first = Last(store[e - 1][m]) + 1

\* Epoch e, cut into s so far with the block at height h next, is like the
\* droplets its directory holds already.
CutAt(e, s, h) ==
  /\ Greedy(s)
  /\ BeginsAt(e, IF s = << >> THEN h ELSE s[1])
  /\ s # << >> => s[Len(s)] < h /\ \A g \in s[Len(s)]..(h - 1) : Fits(s[Len(s)], g)
  /\ e \in DOMAIN store =>
       \A n \in Whole(store, e) : /\ \A j \in 1..Len(s) : store[e][n][j] = s[j]
                                  /\ store[e][n][Len(s) + 1] >= h
Cutting ==
  pc = "scan" => /\ epoch \in Nat /\ Len(starts) < SuperBlocksPerEpoch
                 /\ CutAt(epoch, starts, height)

\* Epoch e, cut into s with the last block at height h, is like the droplets
\* its directory holds.
EncodedAt(e, s, h) ==
  /\ Len(s) = SuperBlocksPerEpoch /\ s[SuperBlocksPerEpoch] = h
  /\ Greedy(s)
  /\ BeginsAt(e, s[1])
  /\ e \in DOMAIN store => \A n \in Whole(store, e) : store[e][n] = s

Encoding == {"open", "create", "write", "truncateCount", "writeCount", "truncateBlock", "writeBlock"}
Saving == {"truncateCount", "writeCount", "truncateBlock", "writeBlock"}
Encoded ==
  pc \in Encoding =>
    /\ epoch \in Nat
    /\ EncodedAt(epoch, starts, height)
    /\ pc # "open" => epoch \in DOMAIN store
    /\ pc \in Saving \/ (pc \in {"create", "write"} /\ produced > 0) =>
         Whole(store, epoch) # {}

\* New droplets are numbered after the files of the directory.
Numbered ==
  /\ pc = "create" => /\ epoch \in DOMAIN store
                      /\ counter = FilesCount(store, epoch)
  /\ pc = "write" => /\ epoch \in DOMAIN store
                     /\ counter + 1 = FilesCount(store, epoch)
                     /\ store[epoch][counter] = Torn

\* No run, resumed or not, works on an epoch beyond the next one.
EpochInv ==
  /\ NoEpochMissing
  /\ epochsCountFile <= EpochCount(store)
  /\ pc \in {"scan", "open"} => epoch <= EpochCount(store)
  /\ pc \in Encoding \ {"open"} => epoch \in DOMAIN store

NumberInv == Contiguous /\ Numbered

\* Without crashes there is never anything to resume.
NothingToResume ==
  /\ pc \in {"idle", "begin"} => epochsCountFile = Missing /\ lastBlockFile = Missing
  /\ pc = "removeBlock" => epochsCountFile = Missing

StoredGreedy == \A e \in DOMAIN store : \A n \in Whole(store, e) : Greedy(store[e][n])

PartitionInv == /\ NumberInv /\ NothingToResume
                /\ Cutting /\ Encoded /\ StoredGreedy
                /\ EpochsAgree /\ EpochsTile
=============================================================================

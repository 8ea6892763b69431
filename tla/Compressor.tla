----------------------------- MODULE Compressor -----------------------------
(***************************************************************************)
(* src/blockchain/compressor.rs (generate_droplets) and the commands       *)
(* generate and generate-all of src/main.rs: the droplet node cuts the     *)
(* chain into epochs of superblocks and writes droplets of every complete  *)
(* epoch, recording its progress in two files so that an interrupted run   *)
(* can be resumed.                                                         *)
(*                                                                         *)
(* What an epoch is cut into is its layout: the heights of the first       *)
(* blocks of its superblocks.  An epoch is over as soon as its last        *)
(* superblock has one block, so the last start is also the last block.     *)
(* A droplet of the epoch is modelled by the layout it was encoded from:   *)
(* two droplets can be decoded together only if they agree on it.          *)
(***************************************************************************)
EXTENDS FileStorage, Sequences

CONSTANTS MaxHeight,              \* bound on the height of the chain
          Chains,                 \* the chains: byte offset of every block
          SuperBlockMaxSize,
          SuperBlocksPerEpoch,    \* k
          StorageReductionRatio,
          EpochsToEncode,         \* 0: the whole chain
          MinEncodedSymbols,      \* droplets needed to restore an epoch
          CrashPoints,            \* the steps before which a run may die
          MaxCommands, MaxCrashes \* bounds on the behaviours explored

Heights == 0..MaxHeight

CeilDiv(a, b) == (a + b - 1) \div b
ProducedDroplets == CeilDiv(SuperBlocksPerEpoch, StorageReductionRatio)
\* Mutant of RepetitionsNeeded: rounds down.
RepetitionsFloor == MinEncodedSymbols \div ProducedDroplets
RepetitionsNeeded == CeilDiv(MinEncodedSymbols, ProducedDroplets)

ASSUME NumbersAssumption ==
  /\ MaxHeight \in Nat /\ MaxCommands \in Nat /\ MaxCrashes \in Nat
  /\ SuperBlocksPerEpoch \in Nat \ {0}
  /\ StorageReductionRatio \in Nat \ {0}
  /\ MinEncodedSymbols \in Nat \ {0}
  /\ SuperBlockMaxSize \in Nat /\ EpochsToEncode \in Nat
\* Blocks lie one after the other, and each of them fits in a superblock.
ASSUME ChainsAssumption ==
  \A c \in Chains : /\ c \in [0..(MaxHeight + 1) -> Nat]
                    /\ \A g, h \in 0..(MaxHeight + 1) : g <= h => c[g] <= c[h]
                    /\ \A h \in Heights : c[h + 1] - c[h] <= SuperBlockMaxSize

VARIABLES chain,           \* the offsets of the blocks of the active chain
          tip,             \* its height
          store,           \* the droplets directory
          epochsCountFile, \* epochs_count.dat
          lastBlockFile,   \* last_compressed_block.dat
          pc,              \* the step generate_droplets is at, "idle" between commands
          command,         \* the last command
          rounds,          \* rounds of generate-all still to do, this one included
          resumed,         \* history: a round of the command went on where a run died
          epoch,
          height,          \* the block looked at
          starts,          \* first blocks of the superblocks of this epoch so far
          counter,         \* droplet_counter of the encoder
          produced,        \* droplets of this epoch written in this round
          outcome,         \* how the last command ended
          commands, crashes

chainVars == <<chain, tip>>
files == <<store, epochsCountFile, lastBlockFile>>
progress == <<epoch, height, starts>>
encoder == <<counter, produced>>
control == <<command, rounds, resumed, outcome>>
bounds == <<commands, crashes>>
vars == <<chainVars, files, pc, progress, encoder, control, bounds>>
------------------------------------------------------------------------------
(* The progress files hold a number, are missing, or are empty when they    *)
(* were truncated and not written.                                          *)

Missing == -2
Empty == -1

Parses(file) == file # Empty
Parsed(file) == IF file = Missing THEN 0 ELSE file
------------------------------------------------------------------------------
(* Cutting the chain. *)

\* The blocks from first to h together are no longer than a superblock.
Fits(first, h) == chain[h + 1] - chain[first] <= SuperBlockMaxSize

\* Mutant of WithBlock: looks at the size before the block is added.
WithBlockTooLate(s, h) == IF s # << >> /\ Fits(s[Len(s)], h - 1) THEN s ELSE Append(s, h)
WithBlock(s, h) == IF s # << >> /\ Fits(s[Len(s)], h) THEN s ELSE Append(s, h)

\* Mutant of LastRequested: counts epochs from one.
LastRequestedFromOne(e) == EpochsToEncode # 0 /\ e = EpochsToEncode
LastRequested(e) == EpochsToEncode # 0 /\ e = EpochsToEncode - 1
------------------------------------------------------------------------------
Init == /\ chain \in Chains
        /\ tip \in Heights
        /\ store = EmptyStore
        /\ epochsCountFile = Missing
        /\ lastBlockFile = Missing
        /\ pc = "idle"
        /\ command = "none" /\ rounds = 0 /\ resumed = FALSE /\ outcome = "none"
        /\ epoch = 0 /\ height = 0 /\ starts = << >>
        /\ counter = 0 /\ produced = 0
        /\ commands = 0 /\ crashes = 0

\* The node's chain grows while no command runs; a command sees one chain.
ChainGrows == /\ pc = "idle" /\ tip < MaxHeight
              /\ tip' = tip + 1
              /\ UNCHANGED <<chain, files, pc, progress, encoder, control, bounds>>

Start(cmd) == /\ pc = "idle" /\ commands < MaxCommands
              /\ pc' = "begin"
              /\ command' = cmd
              /\ rounds' = IF cmd = "generateAll" THEN RepetitionsNeeded ELSE 1
              /\ resumed' = FALSE
              /\ outcome' = "running"
              /\ commands' = commands + 1
              /\ UNCHANGED <<chainVars, files, progress, encoder, crashes>>

\* Mutant of BeginAt: the superblocks of an epoch left incomplete are still there.
BeginAtKept(e, h) == /\ pc' = "scan"
                     /\ epoch' = e /\ height' = h /\ UNCHANGED starts
                     /\ resumed' = (resumed \/ e # 0 \/ h # 0)
                     /\ UNCHANGED <<chainVars, files, encoder, command, rounds, outcome, bounds>>
BeginAt(e, h) == /\ pc' = "scan"
                 /\ epoch' = e /\ height' = h /\ starts' = << >>
                 /\ resumed' = (resumed \/ e # 0 \/ h # 0)
                 /\ UNCHANGED <<chainVars, files, encoder, command, rounds, outcome, bounds>>

BeginFromScratch == /\ pc = "begin" /\ EpochCount(store) <= 1
                    /\ BeginAt(0, 0)

\* Mutant of Resume: resumes as soon as there is an epoch.
ResumeEarly == /\ pc = "begin" /\ EpochCount(store) > 0
               /\ Parses(epochsCountFile) /\ Parses(lastBlockFile)
               /\ BeginAt(Parsed(epochsCountFile), Parsed(lastBlockFile))

Resume == /\ pc = "begin" /\ EpochCount(store) > 1
          /\ Parses(epochsCountFile) /\ Parses(lastBlockFile)
          /\ BeginAt(Parsed(epochsCountFile), Parsed(lastBlockFile))

Stop(result) == /\ pc' = "idle"
                /\ outcome' = result
                /\ rounds' = 0
                /\ UNCHANGED <<command, resumed>>

ResumeFails == /\ pc = "begin" /\ EpochCount(store) > 1
               /\ ~(Parses(epochsCountFile) /\ Parses(lastBlockFile))
               /\ Stop("unresumable")
               /\ UNCHANGED <<chainVars, files, progress, encoder, bounds>>

\* Mutant of NextBlock: reads one block past the tip.
NextBlockPastTip(e) == IF height <= tip
                         THEN pc' = "scan" /\ epoch' = e /\ height' = height + 1
                         ELSE pc' = "removeCount" /\ epoch' = e - 1 /\ UNCHANGED height
\* The end of a turn of the loop over the blocks: after the last block the
\* epoch begun last is taken back, it is incomplete.
NextBlock(e) == IF height < tip
                  THEN pc' = "scan" /\ epoch' = e /\ height' = height + 1
                  ELSE pc' = "removeCount" /\ epoch' = e - 1 /\ UNCHANGED height

\* Mutant of AddBlock: encodes the incomplete epoch at the tip as well.
AddBlockAtTip == /\ pc = "scan"
                 /\ starts' = WithBlock(starts, height)
                 /\ IF Len(starts') = SuperBlocksPerEpoch \/ height = tip
                      THEN pc' = "open" /\ UNCHANGED <<epoch, height>>
                      ELSE NextBlock(epoch)
                 /\ UNCHANGED <<chainVars, files, encoder, control, bounds>>
AddBlock == /\ pc = "scan"
            /\ starts' = WithBlock(starts, height)
            /\ IF Len(starts') = SuperBlocksPerEpoch
                 THEN pc' = "open" /\ UNCHANGED <<epoch, height>>
                 ELSE NextBlock(epoch)
            /\ UNCHANGED <<chainVars, files, encoder, control, bounds>>

\* Mutant of OpenStorage: the files of earlier rounds are not counted.
OpenStorageUncounted == /\ pc = "open"
                        /\ pc' = "create"
                        /\ store' = OpenDir(store, epoch)
                        /\ counter' = 0
                        /\ produced' = 0
                        /\ UNCHANGED <<chainVars, epochsCountFile, lastBlockFile, progress, control,
                                       bounds>>

OpenStorage == /\ pc = "open"
               /\ pc' = "create"
               /\ store' = OpenDir(store, epoch)
               /\ counter' = FilesCount(store', epoch)
               /\ produced' = 0
               /\ UNCHANGED <<chainVars, epochsCountFile, lastBlockFile, progress, control, bounds>>

\* Mutant of CreateDroplet: numbers files from one.
CreateDropletFromOne == /\ pc = "create" /\ produced < ProducedDroplets
                        /\ pc' = "write"
                        /\ store' = CreateFile(store, epoch, counter + 1)
                        /\ UNCHANGED <<chainVars, epochsCountFile, lastBlockFile, progress, encoder,
                                       control, bounds>>
CreateDroplet == /\ pc = "create" /\ produced < ProducedDroplets
                 /\ pc' = "write"
                 /\ store' = CreateFile(store, epoch, counter)
                 /\ UNCHANGED <<chainVars, epochsCountFile, lastBlockFile, progress, encoder,
                                control, bounds>>

\* Mutant of WriteDroplet: the error of a write is not noticed.
WriteDropletUnchecked == /\ pc = "write"
                         /\ pc' = "create"
                         /\ store' \in {store, PutFile(store, epoch, counter, starts)}
                         /\ counter' = counter + 1
                         /\ produced' = produced + 1
                         /\ UNCHANGED <<chainVars, epochsCountFile, lastBlockFile, progress, control,
                                        bounds>>
WriteDroplet == /\ pc = "write"
                /\ pc' = "create"
                /\ store' = PutFile(store, epoch, counter, starts)
                /\ counter' = counter + 1
                /\ produced' = produced + 1
                /\ UNCHANGED <<chainVars, epochsCountFile, lastBlockFile, progress, control, bounds>>

\* Mutant of FinishEpoch: records the epoch before its last droplet.
FinishEpochEarly == /\ pc = "create" /\ produced = ProducedDroplets - 1
                    /\ pc' = IF LastRequested(epoch) THEN "removeCount" ELSE "truncateCount"
                    /\ UNCHANGED <<chainVars, files, progress, encoder, control, bounds>>
FinishEpoch == /\ pc = "create" /\ produced = ProducedDroplets
               /\ pc' = IF LastRequested(epoch) THEN "removeCount" ELSE "truncateCount"
               /\ UNCHANGED <<chainVars, files, progress, encoder, control, bounds>>

\* fs::write truncates the file before it writes, the two files one by one.
TruncateCount == /\ pc = "truncateCount"
                 /\ pc' = "writeCount"
                 /\ epochsCountFile' = Empty
                 /\ UNCHANGED <<chainVars, store, lastBlockFile, progress, encoder, control, bounds>>

\* Mutant of WriteCount: records the epoch after the next one.
WriteCountAhead == /\ pc = "writeCount"
                   /\ pc' = "truncateBlock"
                   /\ epochsCountFile' = epoch + 2
                   /\ UNCHANGED <<chainVars, store, lastBlockFile, progress, encoder, control, bounds>>

WriteCount == /\ pc = "writeCount"
              /\ pc' = "truncateBlock"
              /\ epochsCountFile' = epoch + 1
              /\ UNCHANGED <<chainVars, store, lastBlockFile, progress, encoder, control, bounds>>

TruncateBlock == /\ pc = "truncateBlock"
                 /\ pc' = "writeBlock"
                 /\ lastBlockFile' = Empty
                 /\ UNCHANGED <<chainVars, store, epochsCountFile, progress, encoder, control, bounds>>

WriteBlock == /\ pc = "writeBlock"
              /\ lastBlockFile' = height
              /\ starts' = << >>
              /\ NextBlock(epoch + 1)
              /\ UNCHANGED <<chainVars, store, epochsCountFile, encoder, control, bounds>>

RemoveCount == /\ pc = "removeCount"
               /\ pc' = "removeBlock"
               /\ epochsCountFile' = Missing
               /\ UNCHANGED <<chainVars, store, lastBlockFile, progress, encoder, control, bounds>>

\* Mutants of RemoveBlock: the file stays, or the round is not counted.
RemoveBlockNot == /\ pc = "removeBlock"
                  /\ IF rounds > 1
                       THEN /\ pc' = "begin" /\ rounds' = rounds - 1
                            /\ UNCHANGED <<command, resumed, outcome>>
                       ELSE Stop("done")
                  /\ UNCHANGED <<chainVars, files, progress, encoder, bounds>>
RemoveBlockUncounted == /\ pc = "removeBlock"
                        /\ lastBlockFile' = Missing
                        /\ IF rounds > 1 THEN pc' = "begin" /\ UNCHANGED control ELSE Stop("done")
                        /\ UNCHANGED <<chainVars, store, epochsCountFile, progress, encoder, bounds>>
RemoveBlock == /\ pc = "removeBlock"
               /\ lastBlockFile' = Missing
               /\ IF rounds > 1
                    THEN /\ pc' = "begin" /\ rounds' = rounds - 1
                         /\ UNCHANGED <<command, resumed, outcome>>
                    ELSE Stop("done")
               /\ UNCHANGED <<chainVars, store, epochsCountFile, progress, encoder, bounds>>

\* The process dies, or a call on the file system fails and ends it.
Crash == /\ pc \in CrashPoints /\ crashes < MaxCrashes
         /\ Stop("interrupted")
         /\ crashes' = crashes + 1
         /\ UNCHANGED <<chainVars, files, progress, encoder, commands>>

Step == \/ BeginFromScratch \/ Resume \/ ResumeFails
        \/ AddBlock
        \/ OpenStorage \/ CreateDroplet \/ WriteDroplet \/ FinishEpoch
        \/ TruncateCount \/ WriteCount \/ TruncateBlock \/ WriteBlock
        \/ RemoveCount \/ RemoveBlock

Next == \/ ChainGrows
        \/ \E cmd \in {"generate", "generateAll"} : Start(cmd)
        \/ Step
        \/ Crash

Spec == Init /\ [][Next]_vars

\* A command is one thread that runs to its end.
FairSpec == Spec /\ WF_vars(Step)
------------------------------------------------------------------------------
Layouts == [1..SuperBlocksPerEpoch -> Heights]
First(layout) == layout[1]
Last(layout) == layout[SuperBlocksPerEpoch]
Alike(s, e, layout) == {n \in DOMAIN s[e] : s[e][n] = layout}

StoreTypeOK(s) ==
  /\ DOMAIN s \subseteq Nat /\ IsFiniteSet(DOMAIN s)
  /\ \A e \in DOMAIN s : /\ DOMAIN s[e] \subseteq Nat /\ IsFiniteSet(DOMAIN s[e])
                         /\ \A n \in DOMAIN s[e] : s[e][n] \in Layouts \cup {Torn}

TypeOK ==
  /\ chain \in Chains /\ tip \in Heights
  /\ StoreTypeOK(store)
  /\ epochsCountFile \in Nat \cup {Missing, Empty}
  /\ lastBlockFile \in Heights \cup {Missing, Empty}
  /\ pc \in {"idle", "begin", "scan", "open", "create", "write", "truncateCount", "writeCount",
             "truncateBlock", "writeBlock", "removeCount", "removeBlock"}
  /\ command \in {"none", "generate", "generateAll"}
  /\ rounds \in Nat /\ resumed \in BOOLEAN
  /\ epoch \in Nat \cup {-1}
  /\ height \in Heights
  /\ starts \in Seq(Heights) /\ Len(starts) <= SuperBlocksPerEpoch
  /\ counter \in Nat /\ produced \in 0..ProducedDroplets
  /\ outcome \in {"none", "running", "done", "unresumable", "interrupted"}
  /\ commands \in 0..MaxCommands /\ crashes \in 0..MaxCrashes

\* All droplets of an epoch directory were encoded from the same superblocks,
\* whichever rounds, commands and heights of the chain they come from: the
\* decoder XORs them with one another (fountain_decoder.rs:102-115).
EpochsAgree ==
  \A e \in DOMAIN store : \A m, n \in Whole(store, e) : store[e][m] = store[e][n]

\* The epochs are consecutive pieces of the chain: none of its blocks is left
\* out between two of them or encoded in both (README.md:23).
EpochsTile ==
  \A e \in DOMAIN store : \A n \in Whole(store, e) :
    IF e = 0 THEN First(store[e][n]) = 0
             ELSE /\ e - 1 \in DOMAIN store
                  /\ \E m \in Whole(store, e - 1) :
                       First(store[e][n]) = Last(store[e - 1][m]) + 1

\* generate-all leaves as many droplets as a restore needs (README.md:56) in every
\* epoch that it reports, all of one cutting: others cannot be decoded together.
\* A command that goes on where a run died may cut the rest of the chain elsewhere
\* in its first round (compressor.rs:150), so that one round less is on the cutting
\* of the others.
ManyAlike(e, n) == e \in DOMAIN store
                   /\ \E layout \in Layouts : Cardinality(Alike(store, e, layout)) >= n
Reported == outcome = "done" /\ command = "generateAll"
EnoughDroplets ==
  Reported => \A e \in 0..epoch :
    ManyAlike(e, IF resumed THEN (RepetitionsNeeded - 1) * ProducedDroplets
                            ELSE MinEncodedSymbols)

\* Only the requested epochs are ever begun, also by a run that resumes another
\* one: the test for the last one (compressor.rs:274) is an equality, which a
\* run that starts beyond it would never meet.
RequestedOnly == EpochsToEncode # 0 => DOMAIN store \subseteq 0..(EpochsToEncode - 1)

\* The files of an epoch are numbered without a gap: the decoder reads the
\* droplets 0 to count - 1 and gives up at the first that it cannot open.
Contiguous ==
  \A e \in DOMAIN store : DOMAIN store[e] = 0..(FilesCount(store, e) - 1)

\* The epochs that have a directory are 0 to count - 1, wherever runs died:
\* restore and purge-droplets (decompressor.rs:76, main.rs:117) count the
\* directories and visit the epochs below that number.
NoEpochMissing == DOMAIN store = 0..(EpochCount(store) - 1)

\* Every block up to the recorded one is in enough droplets of one round: a
\* resumed run may start there. Holds wherever the run before was interrupted.
Covers(layout, h) == First(layout) <= h /\ h <= Last(layout)
RecordedBlocksStored ==
  \A h \in 0..lastBlockFile : \E e \in DOMAIN store : \E layout \in Layouts :
    /\ Covers(layout, h)
    /\ Cardinality(Alike(store, e, layout)) >= ProducedDroplets

\* A run dies with at most one droplet half written.
TornPerCrash ==
  pc = "idle" =>
    Cardinality(UNION {{<<e, n>> : n \in DOMAIN store[e] \ Whole(store, e)} :
                         e \in DOMAIN store}) <= crashes

\* A droplet, once written, is never overwritten nor lost, over all commands.
DropletsKept ==
  [][\A e \in DOMAIN store : \A n \in Whole(store, e) :
       e \in DOMAIN store' /\ n \in DOMAIN store'[e] /\ store'[e][n] = store[e][n]]_vars

\* Every command ends.
EveryCommandEnds == pc # "idle" ~> pc = "idle"

------------------------------------------------------------------------------
\* What the documentation says of resuming, which the code does not keep.

\* main.rs:82 and README.md:56: after generate-all there are enough droplets for
\* a restoration, also when it went on after "the last compressed block"
\* (compressor.rs:109).
EnoughAlsoResumed == Reported => \A e \in 0..epoch : ManyAlike(e, MinEncodedSymbols)

\* compressor.rs:278: the progress files are stored "to enable resuming of
\* interrupted encoding".
ResumeWorks == outcome # "unresumable"
==============================================================================

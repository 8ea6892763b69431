-------------------------- MODULE CompressorProofs --------------------------
(***************************************************************************)
(* Proofs about Compressor, for every chain, every configuration and any   *)
(* number of commands and interruptions.                                   *)
(***************************************************************************)
EXTENDS CompressorInvariants, FiniteSetTheorems, TLAPS
------------------------------------------------------------------------------
(* Arithmetic of the configuration. *)

LEMMA CeilDivPositive ==
  ASSUME NEW a \in Nat \ {0}, NEW b \in Nat \ {0}
  PROVE  CeilDiv(a, b) \in Nat \ {0}
<1>1. (a + b - 1) \div b \in Int /\ (a + b - 1) \div b >= 1
  OBVIOUS
<1> QED BY <1>1 DEF CeilDiv

LEMMA ProducedPositive ==
  ProducedDroplets \in Nat \ {0} /\ RepetitionsNeeded \in Nat \ {0}
BY CeilDivPositive, NumbersAssumption DEF ProducedDroplets, RepetitionsNeeded
------------------------------------------------------------------------------
(* Operations on the store. *)

LEMMA OpenDirType ==
  ASSUME StoreTypeOK(store), NEW e \in Nat
  PROVE  /\ StoreTypeOK(OpenDir(store, e))
         /\ DOMAIN OpenDir(store, e) = DOMAIN store \cup {e}
         /\ FilesCount(OpenDir(store, e), e) \in Nat
<1>1. DOMAIN OpenDir(store, e) = DOMAIN store \cup {e}
  BY DEF OpenDir
<1>2. IsFiniteSet(DOMAIN store \cup {e})
  BY FS_AddElement DEF StoreTypeOK
<1>3. IsFiniteSet(DOMAIN NoFiles) /\ DOMAIN NoFiles = {}
  BY FS_EmptySet DEF NoFiles
<1>4. StoreTypeOK(OpenDir(store, e))
  BY <1>1, <1>2, <1>3 DEF StoreTypeOK, OpenDir
<1> QED BY <1>1, <1>4, FS_CardinalityType DEF StoreTypeOK, FilesCount

LEMMA PutFileType ==
  ASSUME StoreTypeOK(store), NEW e \in DOMAIN store, NEW n \in Nat,
         NEW content \in Layouts \cup {Torn}
  PROVE  /\ StoreTypeOK(PutFile(store, e, n, content))
         /\ DOMAIN PutFile(store, e, n, content) = DOMAIN store
<1>1. /\ DOMAIN PutFile(store, e, n, content) = DOMAIN store
      /\ PutFile(store, e, n, content)[e] =
           [k \in DOMAIN store[e] \cup {n} |-> IF k = n THEN content ELSE store[e][k]]
      /\ \A d \in DOMAIN store : d # e => PutFile(store, e, n, content)[d] = store[d]
  BY DEF PutFile
<1>2. IsFiniteSet(DOMAIN store[e] \cup {n})
  BY FS_AddElement DEF StoreTypeOK
<1> QED BY <1>1, <1>2 DEF StoreTypeOK
------------------------------------------------------------------------------
(* Type correctness. *)

\* Besides its type, what a step needs to know of the steps before it.
StepOK ==
  /\ pc \in {"scan", "open", "create", "write", "truncateCount", "writeCount", "truncateBlock",
             "writeBlock"} => epoch \in Nat
  /\ pc \in Encoding => Len(starts) = SuperBlocksPerEpoch
  /\ pc = "scan" => Len(starts) < SuperBlocksPerEpoch
  /\ pc \in {"create", "write"} => epoch \in DOMAIN store
  /\ pc = "write" => produced < ProducedDroplets

LEMMA WithBlockType ==
  ASSUME NEW s \in Seq(Heights), NEW h \in Heights
  PROVE  /\ WithBlock(s, h) \in Seq(Heights)
         /\ Len(WithBlock(s, h)) \in {Len(s), Len(s) + 1}
BY DEF WithBlock

\* A step that leaves the chain, the store and the encoder alone, and moves on
\* to scan or to the end, as NextBlock does.
LEMMA NextBlockType ==
  ASSUME TypeOK, NEW e \in Nat, NextBlock(e)
  PROVE  /\ pc' \in {"scan", "removeCount"}
         /\ epoch' \in Nat \cup {-1}
         /\ height' \in Heights
         /\ pc' = "scan" => epoch' \in Nat
BY NumbersAssumption DEF NextBlock, TypeOK, Heights

LEMMA ParsedType ==
  ASSUME TypeOK, Parses(epochsCountFile), Parses(lastBlockFile)
  PROVE  Parsed(epochsCountFile) \in Nat /\ Parsed(lastBlockFile) \in Heights
BY NumbersAssumption DEF TypeOK, Parses, Parsed, Missing, Empty, Heights

LEMMA TypeInvariant == TypeOK /\ StepOK /\ [Next]_vars => TypeOK' /\ StepOK'
<1> SUFFICES ASSUME TypeOK, StepOK, [Next]_vars PROVE TypeOK' /\ StepOK'
  OBVIOUS
<1> USE DEF chainVars, files, progress, encoder, control, bounds
<1>0. 0 \in Heights /\ 0 \in 0..ProducedDroplets /\ << >> \in Seq(Heights) /\ Len(<< >>) = 0
  BY NumbersAssumption, ProducedPositive DEF Heights
<1>1. CASE ChainGrows
  BY <1>1, NumbersAssumption DEF ChainGrows, TypeOK, StepOK, Heights, StoreTypeOK, Encoding
<1>2. ASSUME NEW cmd \in {"generate", "generateAll"}, Start(cmd) PROVE TypeOK' /\ StepOK'
  <2>1. rounds' \in Nat /\ commands' \in 0..MaxCommands
    BY <1>2, NumbersAssumption, ProducedPositive DEF Start, TypeOK
  <2> QED BY <1>2, <2>1 DEF Start, TypeOK, StepOK, StoreTypeOK, Encoding
<1>3. ASSUME NEW e \in Nat, NEW h \in Heights, BeginAt(e, h) PROVE TypeOK' /\ StepOK'
  BY <1>3, <1>0, NumbersAssumption DEF BeginAt, TypeOK, StepOK, StoreTypeOK, Encoding
<1>4. CASE BeginFromScratch
  BY <1>4, <1>3, <1>0 DEF BeginFromScratch
<1>5. CASE Resume
  BY <1>5, <1>3, ParsedType DEF Resume
<1>6. CASE ResumeFails
  BY <1>6 DEF ResumeFails, Stop, TypeOK, StepOK, StoreTypeOK, Encoding
<1>7. CASE AddBlock
  <2>1. /\ starts' \in Seq(Heights) /\ Len(starts') <= SuperBlocksPerEpoch
        /\ Len(starts') \in Nat
    <3>1. starts \in Seq(Heights) /\ height \in Heights /\ starts' = WithBlock(starts, height)
      BY <1>7 DEF AddBlock, TypeOK
    <3>2. Len(starts) \in Nat /\ Len(starts) < SuperBlocksPerEpoch
      BY <1>7, <3>1 DEF AddBlock, StepOK
    <3>3. starts' \in Seq(Heights) /\ Len(starts') \in {Len(starts), Len(starts) + 1}
      BY <3>1, WithBlockType
    <3>4. SuperBlocksPerEpoch \in Nat
      BY NumbersAssumption
    <3> QED BY <3>2, <3>3, <3>4
  <2>2. CASE Len(starts') = SuperBlocksPerEpoch
    BY <1>7, <2>1, <2>2 DEF AddBlock, TypeOK, StepOK, StoreTypeOK, Encoding
  <2>3. CASE Len(starts') # SuperBlocksPerEpoch
    <3>1. NextBlock(epoch) /\ epoch \in Nat
      BY <1>7, <2>3 DEF AddBlock, StepOK
    <3> QED BY <1>7, <2>1, <2>3, <3>1, NextBlockType, NumbersAssumption
            DEF AddBlock, TypeOK, StepOK, StoreTypeOK, Encoding
  <2> QED BY <2>2, <2>3
<1>8. CASE OpenStorage
  <2>1. StoreTypeOK(store') /\ DOMAIN store' = DOMAIN store \cup {epoch} /\ counter' \in Nat
    BY <1>8, OpenDirType DEF OpenStorage, TypeOK, StepOK
  <2> QED BY <1>8, <2>1, <1>0 DEF OpenStorage, TypeOK, StepOK, StoreTypeOK, Encoding
<1>9. CASE CreateDroplet
  <2>1. StoreTypeOK(store') /\ DOMAIN store' = DOMAIN store
    BY <1>9, PutFileType DEF CreateDroplet, CreateFile, TypeOK, StepOK
  <2> QED BY <1>9, <2>1 DEF CreateDroplet, TypeOK, StepOK, StoreTypeOK, Encoding
<1>10. CASE WriteDroplet
  <2>1. starts \in Layouts
    BY <1>10 DEF WriteDroplet, TypeOK, StepOK, Layouts, Encoding
  <2>2. StoreTypeOK(store') /\ DOMAIN store' = DOMAIN store
    BY <1>10, <2>1, PutFileType DEF WriteDroplet, TypeOK, StepOK
  <2>3. counter' \in Nat /\ produced' \in 0..ProducedDroplets
    BY <1>10, ProducedPositive DEF WriteDroplet, TypeOK, StepOK
  <2> QED BY <1>10, <2>2, <2>3 DEF WriteDroplet, TypeOK, StepOK, StoreTypeOK, Encoding
<1>11. CASE FinishEpoch
  BY <1>11 DEF FinishEpoch, TypeOK, StepOK, StoreTypeOK, Encoding
<1>12. CASE TruncateCount \/ TruncateBlock \/ RemoveCount
  BY <1>12 DEF TruncateCount, TruncateBlock, RemoveCount, TypeOK, StepOK, StoreTypeOK, Encoding
<1>13. CASE WriteCount
  BY <1>13 DEF WriteCount, TypeOK, StepOK, StoreTypeOK, Encoding
<1>14. CASE WriteBlock
  <2>1. epoch + 1 \in Nat /\ NextBlock(epoch + 1)
    BY <1>14 DEF WriteBlock, StepOK
  <2> QED BY <1>14, <2>1, <1>0, NextBlockType, NumbersAssumption
          DEF WriteBlock, TypeOK, StepOK, StoreTypeOK, Encoding
<1>15. CASE RemoveBlock
  BY <1>15 DEF RemoveBlock, Stop, TypeOK, StepOK, StoreTypeOK, Encoding
<1>16. CASE Crash
  BY <1>16, NumbersAssumption DEF Crash, Stop, TypeOK, StepOK, StoreTypeOK, Encoding
<1>17. CASE UNCHANGED vars
  BY <1>17 DEF vars, TypeOK, StepOK, StoreTypeOK, Encoding
<1> QED BY <1>1, <1>2, <1>4, <1>5, <1>6, <1>7, <1>8, <1>9, <1>10, <1>11, <1>12, <1>13, <1>14,
           <1>15, <1>16, <1>17 DEF Next, Step

LEMMA TypeInit == Init => TypeOK /\ StepOK
<1> SUFFICES ASSUME Init PROVE TypeOK /\ StepOK
  OBVIOUS
<1>1. resumed \in BOOLEAN
  BY DEF Init
<1> QED BY <1>1, NumbersAssumption, ProducedPositive, FS_EmptySet
        DEF Init, TypeOK, StepOK, StoreTypeOK, Heights, EmptyStore, Encoding

\* Every variable keeps its type, also when runs die and are resumed: the
\* droplets directory holds only complete layouts and torn files.
THEOREM TypeCorrect == Spec => []TypeOK
<1> QED BY TypeInit, TypeInvariant, PTL DEF Spec
------------------------------------------------------------------------------
(* Numbering: droplets are appended to a directory, never put over others. *)

StoreUnchanged == \/ ChainGrows \/ (\E cmd \in {"generate", "generateAll"} : Start(cmd))
                  \/ BeginFromScratch \/ Resume \/ ResumeFails \/ AddBlock \/ FinishEpoch
                  \/ TruncateCount \/ WriteCount \/ TruncateBlock \/ WriteBlock
                  \/ RemoveCount \/ RemoveBlock \/ Crash \/ UNCHANGED vars

LEMMA FourKinds ==
  [Next]_vars => StoreUnchanged \/ OpenStorage \/ CreateDroplet \/ WriteDroplet
BY DEF Next, Step, StoreUnchanged

LEMMA StoreUnchangedKeeps ==
  StoreUnchanged => store' = store /\ (pc' \in {"create", "write"} =>
                                         pc' = pc /\ epoch' = epoch /\ counter' = counter)
BY DEF StoreUnchanged, ChainGrows, Start, BeginFromScratch, Resume, BeginAt, ResumeFails, Stop,
       AddBlock, NextBlock, FinishEpoch, TruncateCount, WriteCount, TruncateBlock, WriteBlock,
       RemoveCount, RemoveBlock, Crash, vars, chainVars, files, progress, encoder, control

LEMMA OpenDirContiguous ==
  ASSUME StoreTypeOK(store), Contiguous, NEW e \in Nat
  PROVE  \A d \in DOMAIN OpenDir(store, e) :
           DOMAIN OpenDir(store, e)[d] = 0..(FilesCount(OpenDir(store, e), d) - 1)
<1>1. ASSUME NEW d \in DOMAIN store
      PROVE  DOMAIN OpenDir(store, e)[d] = 0..(FilesCount(OpenDir(store, e), d) - 1)
  BY <1>1 DEF OpenDir, Contiguous, FilesCount
<1>2. CASE e \notin DOMAIN store
  <2>1. OpenDir(store, e)[e] = NoFiles
    BY <1>2 DEF OpenDir
  <2>2. DOMAIN OpenDir(store, e)[e] = 0..(FilesCount(OpenDir(store, e), e) - 1)
    BY <2>1, FS_EmptySet DEF NoFiles, FilesCount
  <2> QED BY <1>1, <2>2 DEF OpenDir
<1> QED BY <1>1, <1>2 DEF OpenDir

\* A file created after the existing ones extends their numbering by one.
LEMMA CreateContiguous ==
  ASSUME StoreTypeOK(store), Contiguous, NEW e \in DOMAIN store,
         NEW n, n = FilesCount(store, e)
  PROVE  /\ n \in Nat /\ n \notin DOMAIN store[e]
         /\ FilesCount(CreateFile(store, e, n), e) = n + 1
         /\ CreateFile(store, e, n)[e][n] = Torn
         /\ \A d \in DOMAIN store :
              DOMAIN CreateFile(store, e, n)[d] = 0..(FilesCount(CreateFile(store, e, n), d) - 1)
<1>1. n \in Nat
  BY FS_CardinalityType DEF StoreTypeOK, FilesCount
<1>2. DOMAIN store[e] = 0..(n - 1)
  BY DEF Contiguous
<1>3. n \notin DOMAIN store[e]
  BY <1>1, <1>2
<1>4. DOMAIN CreateFile(store, e, n)[e] = 0..n
  BY <1>1, <1>2 DEF CreateFile, PutFile
<1>5. FilesCount(CreateFile(store, e, n), e) = n + 1
  BY <1>1, <1>4, FS_Interval DEF FilesCount
<1>6. CreateFile(store, e, n)[e][n] = Torn
  BY DEF CreateFile, PutFile
<1>7. ASSUME NEW d \in DOMAIN store, d # e
      PROVE  DOMAIN CreateFile(store, e, n)[d] = 0..(FilesCount(CreateFile(store, e, n), d) - 1)
  BY <1>7 DEF CreateFile, PutFile, Contiguous, FilesCount
<1>8. DOMAIN CreateFile(store, e, n)[e] = 0..(FilesCount(CreateFile(store, e, n), e) - 1)
  BY <1>1, <1>4, <1>5
<1> QED BY <1>1, <1>3, <1>5, <1>6, <1>7, <1>8

\* Writing the droplet into the file that was created for it.
LEMMA RewriteContiguous ==
  ASSUME StoreTypeOK(store), Contiguous, NEW e \in DOMAIN store,
         NEW n \in DOMAIN store[e], NEW content
  PROVE  \A d \in DOMAIN store :
           /\ DOMAIN PutFile(store, e, n, content)[d] = DOMAIN store[d]
           /\ FilesCount(PutFile(store, e, n, content), d) = FilesCount(store, d)
<1>1. \A d \in DOMAIN store : DOMAIN PutFile(store, e, n, content)[d] = DOMAIN store[d]
  BY DEF PutFile
<1> QED BY <1>1 DEF FilesCount

LEMMA WritesCreated ==
  ASSUME TypeOK, NumberInv, WriteDroplet
  PROVE  /\ epoch \in DOMAIN store /\ counter \in DOMAIN store[epoch]
         /\ store[epoch][counter] = Torn
BY DEF TypeOK, NumberInv, Numbered, Contiguous, WriteDroplet

LEMMA NumberInvariant ==
  TypeOK /\ StepOK /\ NumberInv /\ [Next]_vars => NumberInv'
<1> SUFFICES ASSUME TypeOK, StepOK, NumberInv, [Next]_vars PROVE NumberInv'
  OBVIOUS
<1>1. CASE StoreUnchanged
  BY <1>1, StoreUnchangedKeeps DEF NumberInv, Contiguous, Numbered
<1>2. CASE OpenStorage
  <2>1. /\ epoch \in Nat /\ store' = OpenDir(store, epoch) /\ epoch' = epoch
        /\ pc' = "create" /\ counter' = FilesCount(store', epoch)
    BY <1>2 DEF OpenStorage, StepOK, progress
  <2>2. Contiguous'
    BY <2>1, OpenDirContiguous DEF NumberInv, Contiguous, TypeOK
  <2>3. Numbered'
    BY <2>1, OpenDirType DEF Numbered, TypeOK
  <2> QED BY <2>2, <2>3 DEF NumberInv
<1>3. CASE CreateDroplet
  <2>1. /\ epoch \in DOMAIN store /\ counter = FilesCount(store, epoch)
        /\ store' = CreateFile(store, epoch, counter) /\ pc' = "write"
        /\ epoch' = epoch /\ counter' = counter
    BY <1>3 DEF CreateDroplet, NumberInv, Numbered, progress, encoder
  <2>2. DOMAIN store' = DOMAIN store
    BY <2>1 DEF CreateFile, PutFile
  <2>3. Contiguous'
    BY <2>1, <2>2, CreateContiguous DEF NumberInv, Contiguous, TypeOK
  <2>4. Numbered'
    BY <2>1, <2>2, CreateContiguous DEF NumberInv, Numbered, TypeOK
  <2> QED BY <2>3, <2>4 DEF NumberInv
<1>4. CASE WriteDroplet
  <2>1. /\ store' = PutFile(store, epoch, counter, starts) /\ pc' = "create"
        /\ epoch' = epoch /\ counter' = counter + 1
        /\ counter + 1 = FilesCount(store, epoch)
    BY <1>4 DEF WriteDroplet, NumberInv, Numbered, progress
  <2>2. DOMAIN store' = DOMAIN store
    BY <2>1 DEF PutFile
  <2>3. Contiguous'
    BY <1>4, <2>1, <2>2, WritesCreated, RewriteContiguous DEF NumberInv, Contiguous, TypeOK
  <2>4. Numbered'
    BY <1>4, <2>1, <2>2, WritesCreated, RewriteContiguous DEF NumberInv, Numbered, TypeOK
  <2> QED BY <2>3, <2>4 DEF NumberInv
<1> QED BY <1>1, <1>2, <1>3, <1>4, FourKinds

LEMMA NumberInit == Init => NumberInv
BY DEF Init, NumberInv, Contiguous, Numbered, EmptyStore

\* The files of an epoch are 0 to count - 1, whatever runs died and were
\* resumed: what the decoder relies on when it opens them by number.
THEOREM ContiguousNumbering == Spec => []Contiguous
<1>1. NumberInv => Contiguous
  BY DEF NumberInv
<1> QED BY <1>1, TypeInit, TypeInvariant, NumberInit, NumberInvariant, PTL DEF Spec

LEMMA EpochCountType ==
  ASSUME StoreTypeOK(store) PROVE EpochCount(store) \in Nat
BY FS_CardinalityType DEF StoreTypeOK, EpochCount

\* Opening the directory of an epoch adds at most the next one.
LEMMA OpenNext ==
  ASSUME StoreTypeOK(store), NoEpochMissing, NEW e \in Nat, e <= EpochCount(store)
  PROVE  /\ DOMAIN OpenDir(store, e) = 0..(EpochCount(OpenDir(store, e)) - 1)
         /\ EpochCount(store) <= EpochCount(OpenDir(store, e))
         /\ e \in DOMAIN OpenDir(store, e)
<1>0. /\ EpochCount(store) \in Nat /\ DOMAIN store = 0..(EpochCount(store) - 1)
      /\ DOMAIN OpenDir(store, e) = DOMAIN store \cup {e}
  BY EpochCountType, OpenDirType DEF NoEpochMissing
<1>1. CASE e = EpochCount(store)
  <2>1. DOMAIN OpenDir(store, e) = 0..e
    BY <1>0, <1>1
  <2>2. EpochCount(OpenDir(store, e)) = e + 1
    BY <2>1, FS_Interval DEF EpochCount
  <2> QED BY <1>1, <2>1, <2>2
<1>2. CASE e # EpochCount(store)
  <2>1. DOMAIN OpenDir(store, e) = DOMAIN store
    BY <1>0, <1>2
  <2> QED BY <1>0, <2>1 DEF EpochCount
<1> QED BY <1>1, <1>2

LEMMA EpochInit == Init => EpochInv
<1> SUFFICES ASSUME Init PROVE EpochInv
  OBVIOUS
<1>1. DOMAIN store = {} /\ EpochCount(store) = 0
  BY FS_EmptySet DEF Init, EmptyStore, EpochCount
<1> QED BY <1>1 DEF Init, EpochInv, NoEpochMissing, Encoding, Missing

LEMMA EpochInvariant ==
  TypeOK /\ StepOK /\ EpochInv /\ [Next]_vars => EpochInv'
<1> SUFFICES ASSUME TypeOK, StepOK, EpochInv, [Next]_vars PROVE EpochInv'
  OBVIOUS
<1>0. /\ EpochCount(store) \in Nat /\ DOMAIN store = 0..(EpochCount(store) - 1)
      /\ epochsCountFile <= EpochCount(store)
  BY EpochCountType DEF TypeOK, EpochInv, NoEpochMissing
<1> USE DEF chainVars, files, progress, encoder, control
<1>1. ASSUME store' = store, epochsCountFile' <= EpochCount(store),
             pc' \in {"scan", "open"} => epoch' <= EpochCount(store),
             pc' \in Encoding \ {"open"} => epoch' \in DOMAIN store
      PROVE  EpochInv'
  BY <1>0, <1>1 DEF EpochInv, NoEpochMissing
<1>2. CASE BeginFromScratch \/ Resume
  <2>1. /\ store' = store /\ epochsCountFile' = epochsCountFile /\ pc' = "scan"
        /\ epoch' <= EpochCount(store)
    BY <1>0, <1>2 DEF BeginFromScratch, Resume, BeginAt, Parsed
  <2> QED BY <1>0, <1>1, <2>1 DEF Encoding
<1>3. CASE AddBlock
  <2>1. store' = store /\ epochsCountFile' = epochsCountFile
    BY <1>3 DEF AddBlock
  <2>2. pc' \in {"scan", "open"} => epoch' = epoch /\ pc = "scan"
    BY <1>3 DEF AddBlock, NextBlock
  <2>3. pc' \in {"scan", "open", "removeCount"}
    BY <1>3 DEF AddBlock, NextBlock
  <2> QED BY <1>0, <1>1, <2>1, <2>2, <2>3 DEF EpochInv, Encoding
<1>4. CASE OpenStorage
  <2>1. /\ store' = OpenDir(store, epoch) /\ epoch' = epoch /\ pc' = "create"
        /\ epochsCountFile' = epochsCountFile /\ epoch \in Nat /\ epoch <= EpochCount(store)
    BY <1>4 DEF OpenStorage, StepOK, EpochInv
  <2>2. /\ DOMAIN store' = 0..(EpochCount(store') - 1)
        /\ EpochCount(store) <= EpochCount(store') /\ epoch \in DOMAIN store'
        /\ EpochCount(store') \in Nat
    BY <2>1, OpenNext, OpenDirType, FS_CardinalityType
       DEF TypeOK, EpochInv, StoreTypeOK, EpochCount
  <2>3. epochsCountFile' <= EpochCount(store')
    BY <1>0, <2>1, <2>2 DEF TypeOK, Missing, Empty
  <2> QED BY <2>1, <2>2, <2>3 DEF EpochInv, NoEpochMissing, Encoding
<1>5. CASE CreateDroplet \/ WriteDroplet
  <2>1. /\ DOMAIN store' = DOMAIN store /\ epoch' = epoch /\ pc' \in {"create", "write"}
        /\ epochsCountFile' = epochsCountFile /\ epoch \in DOMAIN store
    BY <1>5 DEF CreateDroplet, WriteDroplet, CreateFile, PutFile, StepOK
  <2> QED BY <1>0, <2>1 DEF EpochInv, NoEpochMissing, EpochCount, Encoding
<1>6. CASE FinishEpoch \/ TruncateCount \/ TruncateBlock
  <2>1. /\ store' = store /\ epoch' = epoch /\ epoch \in DOMAIN store
        /\ epochsCountFile' \in {epochsCountFile, Empty}
        /\ pc' \notin {"scan", "open"}
    BY <1>6 DEF FinishEpoch, TruncateCount, TruncateBlock, EpochInv, Encoding
  <2> QED BY <1>0, <1>1, <2>1 DEF Empty
<1>7. CASE WriteCount
  <2>1. /\ store' = store /\ epoch' = epoch /\ epoch \in DOMAIN store
        /\ epochsCountFile' = epoch + 1 /\ pc' = "truncateBlock"
    BY <1>7 DEF WriteCount, EpochInv, Encoding
  <2>2. epochsCountFile' <= EpochCount(store)
    BY <1>0, <2>1
  <2> QED BY <1>1, <2>1, <2>2
<1>8. CASE WriteBlock
  <2>1. /\ store' = store /\ epochsCountFile' = epochsCountFile /\ epoch \in DOMAIN store
        /\ pc' \in {"scan", "removeCount"}
        /\ pc' = "scan" => epoch' = epoch + 1
    BY <1>8 DEF WriteBlock, NextBlock, EpochInv, Encoding
  <2>2. pc' = "scan" => epoch' <= EpochCount(store)
    BY <1>0, <2>1
  <2> QED BY <1>0, <1>1, <2>1, <2>2 DEF Encoding
<1>9. CASE \/ ChainGrows \/ (\E cmd \in {"generate", "generateAll"} : Start(cmd)) \/ ResumeFails
           \/ RemoveCount \/ RemoveBlock \/ Crash
  <2>1. /\ store' = store /\ epochsCountFile' \in {epochsCountFile, Missing}
        /\ pc' \notin Encoding /\ pc' # "scan"
    BY <1>9 DEF ChainGrows, Start, ResumeFails, RemoveCount, RemoveBlock, Crash, Stop, Encoding
  <2> QED BY <1>0, <1>1, <2>1 DEF Missing, Encoding
<1>10. CASE UNCHANGED vars
  BY <1>0, <1>1, <1>10 DEF vars, EpochInv
<1> QED BY <1>2, <1>3, <1>4, <1>5, <1>6, <1>7, <1>8, <1>9, <1>10 DEF Next, Step

\* Whatever runs died and were resumed, the epochs with a directory are 0 to
\* count - 1: what restore and purge-droplets rely on when they visit them.
THEOREM NoEpochIsMissing == Spec => []NoEpochMissing
<1>1. EpochInv => NoEpochMissing
  BY DEF EpochInv
<1> QED BY <1>1, TypeInit, TypeInvariant, EpochInit, EpochInvariant, PTL DEF Spec

\* The progress recorded is never beyond the last requested epoch, so that a
\* resumed run meets the equality of the test for it.
RequestInv ==
  EpochsToEncode # 0 =>
    /\ DOMAIN store \subseteq 0..(EpochsToEncode - 1)
    /\ epochsCountFile < EpochsToEncode
    /\ pc \in {"scan", "open", "create", "write"} => epoch < EpochsToEncode
    /\ pc \in Saving => epoch + 1 < EpochsToEncode

LEMMA RequestInit == Init => RequestInv
BY NumbersAssumption DEF Init, RequestInv, EmptyStore, Missing, Saving

LEMMA RequestInvariant ==
  TypeOK /\ StepOK /\ RequestInv /\ [Next]_vars => RequestInv'
<1> SUFFICES ASSUME TypeOK, StepOK, RequestInv, [Next]_vars, EpochsToEncode # 0 PROVE RequestInv'
  BY DEF RequestInv
<1>0. /\ EpochsToEncode \in Nat \ {0}
      /\ DOMAIN store \subseteq 0..(EpochsToEncode - 1) /\ epochsCountFile < EpochsToEncode
      /\ pc \in {"scan", "open", "create", "write"} => epoch < EpochsToEncode
      /\ pc \in Saving => epoch + 1 < EpochsToEncode
  BY NumbersAssumption DEF RequestInv
<1> USE DEF chainVars, files, progress, encoder, control
<1>1. ASSUME DOMAIN store' \subseteq 0..(EpochsToEncode - 1), epochsCountFile' < EpochsToEncode,
             pc' \in {"scan", "open", "create", "write"} => epoch' < EpochsToEncode,
             pc' \in Saving => epoch' + 1 < EpochsToEncode
      PROVE  RequestInv'
  BY <1>1 DEF RequestInv
<1>2. CASE BeginFromScratch \/ Resume
  <2>1. /\ store' = store /\ epochsCountFile' = epochsCountFile /\ pc' = "scan"
        /\ epoch' \in {0, epochsCountFile}
    BY <1>2 DEF BeginFromScratch, Resume, BeginAt, Parsed
  <2> QED BY <1>0, <1>1, <2>1 DEF Saving
<1>3. CASE AddBlock
  <2>1. /\ store' = store /\ epochsCountFile' = epochsCountFile /\ pc = "scan"
        /\ pc' \in {"scan", "open", "removeCount"}
        /\ pc' \in {"scan", "open"} => epoch' = epoch
    BY <1>3 DEF AddBlock, NextBlock
  <2> QED BY <1>0, <1>1, <2>1 DEF Saving
<1>4. CASE OpenStorage \/ CreateDroplet \/ WriteDroplet
  <2>1. /\ DOMAIN store' \subseteq DOMAIN store \cup {epoch} /\ epoch \in Nat
        /\ pc \in {"open", "create", "write"}
    BY <1>4 DEF OpenStorage, OpenDir, CreateDroplet, WriteDroplet, CreateFile, PutFile, StepOK
  <2>2. epochsCountFile' = epochsCountFile /\ epoch' = epoch /\ pc' \in {"create", "write"}
    BY <1>4 DEF OpenStorage, CreateDroplet, WriteDroplet
  <2>3. epoch \in 0..(EpochsToEncode - 1)
    BY <1>0, <2>1
  <2> QED BY <1>0, <1>1, <2>1, <2>2, <2>3 DEF Saving
<1>5. CASE FinishEpoch
  <2>1. /\ store' = store /\ epochsCountFile' = epochsCountFile /\ epoch' = epoch
        /\ pc = "create" /\ pc' \in {"truncateCount", "removeCount"}
        /\ pc' = "truncateCount" => ~LastRequested(epoch)
    BY <1>5 DEF FinishEpoch
  <2>2. epoch \in Nat /\ epoch < EpochsToEncode
    BY <1>0, <2>1 DEF StepOK
  <2>3. pc' = "truncateCount" => epoch # EpochsToEncode - 1
    BY <1>0, <2>1 DEF LastRequested
  <2> QED BY <1>0, <1>1, <2>1, <2>2, <2>3 DEF Saving
<1>6. CASE TruncateCount \/ WriteCount \/ TruncateBlock
  <2>1. /\ store' = store /\ epoch' = epoch /\ pc \in Saving /\ pc' \in Saving
        /\ epochsCountFile' \in {epochsCountFile, Empty, epoch + 1}
    BY <1>6 DEF TruncateCount, WriteCount, TruncateBlock, Saving
  <2> QED BY <1>0, <1>1, <2>1 DEF Saving, Empty
<1>7. CASE WriteBlock
  <2>1. /\ store' = store /\ epochsCountFile' = epochsCountFile /\ pc \in Saving
        /\ pc' \in {"scan", "removeCount"}
        /\ pc' = "scan" => epoch' = epoch + 1
    BY <1>7 DEF WriteBlock, NextBlock, Saving
  <2> QED BY <1>0, <1>1, <2>1 DEF Saving
<1>8. CASE \/ ChainGrows \/ (\E cmd \in {"generate", "generateAll"} : Start(cmd)) \/ ResumeFails
           \/ RemoveCount \/ RemoveBlock \/ Crash
  <2>1. /\ store' = store /\ epochsCountFile' \in {epochsCountFile, Missing}
        /\ pc' \in {"idle", "begin", "removeBlock"}
    BY <1>8 DEF ChainGrows, Start, ResumeFails, RemoveCount, RemoveBlock, Crash, Stop
  <2> QED BY <1>0, <1>1, <2>1 DEF Missing, Saving
<1>9. CASE UNCHANGED vars
  BY <1>0, <1>1, <1>9 DEF vars
<1> QED BY <1>2, <1>3, <1>4, <1>5, <1>6, <1>7, <1>8, <1>9 DEF Next, Step

\* Whatever runs died and were resumed, no epoch beyond the requested ones is
\* ever begun: the equality that stops the loop is always met.
THEOREM RequestedEpochsOnly == Spec => []RequestedOnly
<1>1. RequestInv => RequestedOnly
  BY DEF RequestInv, RequestedOnly
<1> QED BY <1>1, TypeInit, TypeInvariant, RequestInit, RequestInvariant, PTL DEF Spec

Kept == \A e \in DOMAIN store : \A n \in Whole(store, e) :
          e \in DOMAIN store' /\ n \in DOMAIN store'[e] /\ store'[e][n] = store[e][n]

LEMMA KeptByStep == TypeOK /\ StepOK /\ NumberInv /\ [Next]_vars => Kept
<1> SUFFICES ASSUME TypeOK, StepOK, NumberInv, [Next]_vars PROVE Kept
  OBVIOUS
<1>1. CASE StoreUnchanged
  BY <1>1, StoreUnchangedKeeps DEF Kept, Whole
<1>2. CASE OpenStorage
  BY <1>2 DEF OpenStorage, OpenDir, Kept, Whole
<1>3. CASE CreateDroplet
  <2>1. counter \notin DOMAIN store[epoch]
    BY <1>3, CreateContiguous DEF CreateDroplet, NumberInv, Numbered, TypeOK
  <2> QED BY <1>3, <2>1 DEF CreateDroplet, CreateFile, PutFile, Kept, Whole
<1>4. CASE WriteDroplet
  BY <1>4, WritesCreated DEF WriteDroplet, PutFile, Kept, Whole
<1> QED BY <1>1, <1>2, <1>3, <1>4, FourKinds

\* No round, command or crash ever overwrites or loses a written droplet.
THEOREM DropletsAreKept == Spec => DropletsKept
<1>1. TypeOK /\ StepOK /\ NumberInv /\ [Next]_vars => [Kept]_vars
  BY KeptByStep
<1> QED BY <1>1, TypeInit, TypeInvariant, NumberInit, NumberInvariant, PTL
        DEF Spec, DropletsKept, Kept
------------------------------------------------------------------------------
(* Partition: without interruptions, the droplets of an epoch agree.          *)

LEMMA LayoutType ==
  ASSUME NEW l \in Layouts
  PROVE  /\ l \in Seq(Heights) /\ Len(l) = SuperBlocksPerEpoch /\ l # Torn
         /\ \A j \in 1..SuperBlocksPerEpoch : l[j] \in Nat
<1>1. SuperBlocksPerEpoch \in Nat \ {0}
  BY NumbersAssumption
<1>2. l \in Seq(Heights) /\ Len(l) = SuperBlocksPerEpoch
  BY <1>1 DEF Layouts
<1>3. l # Torn
  BY <1>1, <1>2 DEF Torn
<1> QED BY <1>1, <1>2, <1>3 DEF Layouts, Heights

LEMMA WholeType ==
  ASSUME TypeOK, NEW e \in DOMAIN store, NEW n \in Whole(store, e)
  PROVE  store[e][n] \in Layouts
BY DEF TypeOK, StoreTypeOK, Whole

LEMMA BlockFits == ASSUME TypeOK, NEW h \in Heights PROVE Fits(h, h)
BY ChainsAssumption DEF TypeOK, Fits

\* A stored layout that agrees with the cutting so far goes on like it: its
\* next superblock starts where the loop starts one, and not before.
LEMMA SameNextStart ==
  ASSUME NEW l \in Layouts, Greedy(l), NEW i \in 1..(SuperBlocksPerEpoch - 1),
         NEW h \in Nat, l[i] < h, l[i + 1] >= h
  PROVE  /\ Fits(l[i], h) => l[i + 1] >= h + 1
         /\ ~Fits(l[i], h) => l[i + 1] = h
<1>1. FullSuperBlock(l[i], l[i + 1])
  BY LayoutType, NumbersAssumption DEF Greedy
<1>2. l[i] \in Nat /\ l[i + 1] \in Nat
  <2>1. i \in 1..SuperBlocksPerEpoch /\ i + 1 \in 1..SuperBlocksPerEpoch
    BY NumbersAssumption
  <2> QED BY <2>1, LayoutType
<1>3. CASE l[i + 1] = h
  BY <1>1, <1>2, <1>3 DEF FullSuperBlock
<1>4. CASE l[i + 1] # h
  <2>1. h \in l[i]..(l[i + 1] - 1)
    BY <1>2, <1>4
  <2> QED BY <1>1, <1>2, <1>4, <2>1 DEF FullSuperBlock
<1> QED BY <1>3, <1>4

LEMMA GreedyUnchanged == ASSUME chain' = chain, NEW l PROVE Greedy(l)' = Greedy(l)
BY DEF Greedy, FullSuperBlock, Fits

\* Appending a start that did not fit keeps the cutting greedy.
LEMMA GreedyAppend ==
  ASSUME NEW s \in Seq(Heights), s # << >>, Greedy(s), NEW h \in Heights,
         s[Len(s)] < h, \A g \in s[Len(s)]..(h - 1) : Fits(s[Len(s)], g), ~Fits(s[Len(s)], h)
  PROVE  Greedy(Append(s, h))
<1>1. Len(s) \in Nat \ {0} /\ Len(Append(s, h)) = Len(s) + 1
  OBVIOUS
<1>2. \A j \in 1..Len(s) : Append(s, h)[j] = s[j]
  OBVIOUS
<1>3. Append(s, h)[Len(s) + 1] = h
  OBVIOUS
<1>4. ASSUME NEW j \in 1..Len(s)
      PROVE  FullSuperBlock(Append(s, h)[j], Append(s, h)[j + 1])
  <2>1. CASE j = Len(s)
    BY <1>2, <1>3, <1>4, <2>1 DEF FullSuperBlock
  <2>2. CASE j # Len(s)
    <3>1. j \in 1..(Len(s) - 1) /\ j + 1 \in 1..Len(s)
      BY <1>1, <1>4, <2>2
    <3> QED BY <1>2, <1>4, <3>1 DEF Greedy
  <2> QED BY <2>1, <2>2
<1> QED BY <1>1, <1>4 DEF Greedy

\* The first superblock of a stored layout starts where the epoch begins.
LEMMA SameFirst ==
  ASSUME TypeOK, EpochsAgree, EpochsTile, NEW e \in Nat, e \in DOMAIN store,
         NEW n \in Whole(store, e), NEW first, BeginsAt(e, first)
  PROVE  store[e][n][1] = first
<1>1. CASE e = 0
  BY <1>1 DEF EpochsTile, BeginsAt, First
<1>2. CASE e # 0
  BY <1>2 DEF EpochsTile, EpochsAgree, BeginsAt, First
<1> QED BY <1>1, <1>2

\* The cutting with the block at height h taken in.
CutUpTo(s, h) ==
  /\ s \in Seq(Heights) /\ s # << >> /\ Len(s) \in 1..SuperBlocksPerEpoch
  /\ Greedy(s)
  /\ BeginsAt(epoch, s[1])
  /\ s[Len(s)] <= h
  /\ \A g \in s[Len(s)]..h : Fits(s[Len(s)], g)
  /\ Len(s) = SuperBlocksPerEpoch => s[SuperBlocksPerEpoch] = h
  /\ epoch \in DOMAIN store =>
       \A n \in Whole(store, epoch) :
         /\ \A j \in 1..Len(s) : store[epoch][n][j] = s[j]
         /\ Len(s) < SuperBlocksPerEpoch => store[epoch][n][Len(s) + 1] >= h + 1

LEMMA CutFirst ==
  ASSUME TypeOK, StepOK, PartitionInv, pc = "scan", starts = << >>
  PROVE  CutUpTo(<<height>>, height)
<1>0. height \in Heights /\ Heights \subseteq Nat /\ SuperBlocksPerEpoch \in Nat \ {0}
  BY NumbersAssumption DEF TypeOK, Heights
<1>1. epoch \in Nat /\ BeginsAt(epoch, height)
  BY DEF PartitionInv, Cutting, CutAt
<1>2. Greedy(<<height>>)
  BY DEF Greedy
<1>3. \A g \in height..height : Fits(height, g)
  BY <1>0, BlockFits
<1>4. ASSUME epoch \in DOMAIN store, NEW n \in Whole(store, epoch)
      PROVE  /\ store[epoch][n][1] = height
             /\ 1 < SuperBlocksPerEpoch => store[epoch][n][2] >= height + 1
  <2>1. store[epoch][n][1] = height
    BY <1>1, <1>4, SameFirst DEF PartitionInv
  <2>2. CASE 1 < SuperBlocksPerEpoch
    <3>1. store[epoch][n] \in Layouts /\ Greedy(store[epoch][n])
      BY <1>4, WholeType DEF PartitionInv, StoredGreedy
    <3>2. Len(store[epoch][n]) = SuperBlocksPerEpoch /\ store[epoch][n][2] \in Nat
      BY <3>1, <2>2, <1>0, LayoutType
    <3>3. FullSuperBlock(store[epoch][n][1], store[epoch][n][2])
      BY <3>1, <3>2, <2>2, <1>0 DEF Greedy
    <3> QED BY <2>1, <3>2, <3>3, <1>0 DEF FullSuperBlock
  <2> QED BY <2>1, <2>2
<1>5. <<height>> \in Seq(Heights) /\ Len(<<height>>) = 1 /\ <<height>>[1] = height
  BY <1>0
<1> QED BY <1>0, <1>1, <1>2, <1>3, <1>4, <1>5 DEF CutUpTo

LEMMA CutNext ==
  ASSUME TypeOK, StepOK, PartitionInv, pc = "scan", starts # << >>
  PROVE  CutUpTo(WithBlock(starts, height), height)
<1>0. /\ height \in Heights /\ Heights \subseteq Nat /\ SuperBlocksPerEpoch \in Nat \ {0}
      /\ starts \in Seq(Heights) /\ Len(starts) \in 1..(SuperBlocksPerEpoch - 1)
      /\ starts[Len(starts)] \in Nat
  BY NumbersAssumption DEF TypeOK, StepOK, Heights
<1>1. /\ Greedy(starts) /\ BeginsAt(epoch, starts[1])
      /\ starts[Len(starts)] < height
      /\ \A g \in starts[Len(starts)]..(height - 1) : Fits(starts[Len(starts)], g)
  BY DEF PartitionInv, Cutting, CutAt
<1>2. ASSUME epoch \in DOMAIN store, NEW n \in Whole(store, epoch)
      PROVE  /\ \A j \in 1..Len(starts) : store[epoch][n][j] = starts[j]
             /\ Fits(starts[Len(starts)], height) =>
                  store[epoch][n][Len(starts) + 1] >= height + 1
             /\ ~Fits(starts[Len(starts)], height) =>
                  store[epoch][n][Len(starts) + 1] = height
  <2>1. store[epoch][n] \in Layouts /\ Greedy(store[epoch][n])
    BY <1>2, WholeType DEF PartitionInv, StoredGreedy
  <2>2. /\ \A j \in 1..Len(starts) : store[epoch][n][j] = starts[j]
        /\ store[epoch][n][Len(starts) + 1] >= height
    BY <1>2 DEF PartitionInv, Cutting, CutAt
  <2>3. store[epoch][n][Len(starts)] = starts[Len(starts)]
    BY <2>2, <1>0
  <2> QED BY <2>1, <2>2, <2>3, <1>0, <1>1, SameNextStart
<1>3. CASE Fits(starts[Len(starts)], height)
  <2>1. WithBlock(starts, height) = starts
    BY <1>3 DEF WithBlock
  <2>2. \A g \in starts[Len(starts)]..height : Fits(starts[Len(starts)], g)
    <3>1. \A g \in starts[Len(starts)]..height : g = height \/ g \in starts[Len(starts)]..(height - 1)
      BY <1>0
    <3> QED BY <1>1, <1>3, <3>1
  <2>3. CutUpTo(starts, height)
    BY <1>0, <1>1, <1>2, <1>3, <2>2 DEF CutUpTo
  <2> QED BY <2>1, <2>3
<1>4. CASE ~Fits(starts[Len(starts)], height)
  <2> DEFINE s == Append(starts, height)
  <2>1. WithBlock(starts, height) = s
    BY <1>4 DEF WithBlock
  <2>2. /\ s \in Seq(Heights) /\ s # << >> /\ Len(s) = Len(starts) + 1
        /\ \A j \in 1..Len(starts) : s[j] = starts[j]
        /\ s[Len(starts) + 1] = height /\ s[1] = starts[1]
    BY <1>0
  <2>3. Greedy(s)
    BY <1>0, <1>1, <1>4, GreedyAppend
  <2>4. \A g \in height..height : Fits(height, g)
    BY <1>0, BlockFits
  <2>5. ASSUME epoch \in DOMAIN store, NEW n \in Whole(store, epoch)
        PROVE  /\ \A j \in 1..Len(s) : store[epoch][n][j] = s[j]
               /\ Len(s) < SuperBlocksPerEpoch => store[epoch][n][Len(s) + 1] >= height + 1
    <3>1. \A j \in 1..Len(s) : store[epoch][n][j] = s[j]
      <4>1. \A j \in 1..Len(s) : j \in 1..Len(starts) \/ j = Len(starts) + 1
        BY <1>0, <2>2
      <4> QED BY <1>2, <1>4, <2>2, <2>5, <4>1
    <3>2. CASE Len(s) < SuperBlocksPerEpoch
      <4>1. store[epoch][n] \in Layouts /\ Greedy(store[epoch][n])
        BY <2>5, WholeType DEF PartitionInv, StoredGreedy
      <4>2. /\ Len(s) \in 1..(Len(store[epoch][n]) - 1)
            /\ store[epoch][n][Len(s) + 1] \in Nat
        BY <4>1, <3>2, <1>0, <2>2, LayoutType
      <4>3. store[epoch][n][Len(s)] < store[epoch][n][Len(s) + 1]
        BY <4>1, <4>2 DEF Greedy, FullSuperBlock
      <4>4. store[epoch][n][Len(s)] = height
        BY <3>1, <1>0, <2>2
      <4>5. store[epoch][n][Len(s) + 1] >= height + 1
        BY <4>2, <4>3, <4>4, <1>0
      <4> QED BY <3>1, <4>5
    <3> QED BY <3>1, <3>2
  <2>6. CutUpTo(s, height)
    <3> HIDE DEF s
    <3> QED BY <1>0, <1>1, <2>2, <2>3, <2>4, <2>5 DEF CutUpTo
  <2> QED BY <2>1, <2>6
<1> QED BY <1>3, <1>4

LEMMA CutStep ==
  ASSUME TypeOK, StepOK, PartitionInv, AddBlock
  PROVE  CutUpTo(starts', height)
<1>1. pc = "scan" /\ starts' = WithBlock(starts, height)
  BY DEF AddBlock
<1>2. starts = << >> => WithBlock(starts, height) = <<height>>
  BY DEF WithBlock
<1> QED BY <1>1, <1>2, CutFirst, CutNext

\* Directories that gain no whole droplet keep all that is said of layouts.
SameDroplets ==
  /\ chain' = chain
  /\ DOMAIN store \subseteq DOMAIN store'
  /\ \A e \in DOMAIN store' :
       IF e \in DOMAIN store
         THEN /\ Whole(store, e)' = Whole(store, e)
              /\ \A n \in Whole(store, e) : store'[e][n] = store[e][n]
         ELSE Whole(store, e)' = {}

LEMMA SamePartition ==
  ASSUME SameDroplets, StoredGreedy, EpochsAgree, EpochsTile
  PROVE  StoredGreedy' /\ EpochsAgree' /\ EpochsTile'
<1>1. StoredGreedy'
  BY GreedyUnchanged DEF SameDroplets, StoredGreedy, Whole
<1>2. EpochsAgree'
  BY DEF SameDroplets, EpochsAgree, Whole
<1>3. EpochsTile'
  <2> SUFFICES ASSUME NEW e \in DOMAIN store', NEW n \in Whole(store', e)
               PROVE  IF e = 0 THEN First(store'[e][n]) = 0
                      ELSE /\ e - 1 \in DOMAIN store'
                           /\ \E m \in Whole(store', e - 1) :
                                First(store'[e][n]) = Last(store'[e - 1][m]) + 1
    BY DEF EpochsTile, Whole
  <2>1. e \in DOMAIN store /\ n \in Whole(store, e) /\ store'[e][n] = store[e][n]
    BY DEF SameDroplets, Whole
  <2>2. CASE e = 0
    BY <2>1, <2>2 DEF EpochsTile
  <2>3. CASE e # 0
    <3>1. PICK m \in Whole(store, e - 1) :
            /\ e - 1 \in DOMAIN store
            /\ First(store[e][n]) = Last(store[e - 1][m]) + 1
      BY <2>1, <2>3 DEF EpochsTile
    <3>2. e - 1 \in DOMAIN store' /\ m \in Whole(store', e - 1) /\ store'[e - 1][m] = store[e - 1][m]
      BY <3>1 DEF SameDroplets, Whole
    <3> QED BY <2>1, <2>3, <3>1, <3>2
  <2> QED BY <2>2, <2>3
<1> QED BY <1>1, <1>2, <1>3

LEMMA SameBegin ==
  ASSUME SameDroplets, NEW e \in Nat, NEW first, BeginsAt(e, first)
  PROVE  BeginsAt(e, first)'
BY DEF SameDroplets, BeginsAt, Whole

LEMMA SameCut ==
  ASSUME SameDroplets, NEW e \in Nat, NEW s, NEW h, CutAt(e, s, h)
  PROVE  CutAt(e, s, h)'
<1>1. Greedy(s)' /\ \A g \in Int : s # << >> => Fits(s[Len(s)], g)' = Fits(s[Len(s)], g)
  BY GreedyUnchanged DEF SameDroplets, Fits, CutAt
<1>2. BeginsAt(e, IF s = << >> THEN h ELSE s[1])'
  BY SameBegin DEF CutAt
<1>3. e \in DOMAIN store' =>
        \A n \in Whole(store', e) : /\ \A j \in 1..Len(s) : store'[e][n][j] = s[j]
                                    /\ store'[e][n][Len(s) + 1] >= h
  BY DEF SameDroplets, CutAt, Whole
<1>4. s # << >> => \A g \in s[Len(s)]..(h - 1) : Fits(s[Len(s)], g)'
  BY <1>1 DEF CutAt
<1> QED BY <1>1, <1>2, <1>3, <1>4 DEF CutAt

LEMMA SameEncoded ==
  ASSUME SameDroplets, NEW e \in Nat, NEW s, NEW h, EncodedAt(e, s, h)
  PROVE  EncodedAt(e, s, h)'
<1>1. Greedy(s)'
  BY GreedyUnchanged DEF SameDroplets, EncodedAt
<1>2. BeginsAt(e, s[1])'
  BY SameBegin DEF EncodedAt
<1>3. e \in DOMAIN store' => \A n \in Whole(store', e) : store'[e][n] = s
  BY DEF SameDroplets, EncodedAt, Whole
<1> QED BY <1>1, <1>2, <1>3 DEF EncodedAt

LEMMA SameWhenUnchanged ==
  ASSUME UNCHANGED <<chain, store>> PROVE SameDroplets
BY DEF SameDroplets, Whole

LEMMA SameWhenOpened ==
  ASSUME chain' = chain, NEW e \in Nat, store' = OpenDir(store, e)
  PROVE  SameDroplets
BY DEF SameDroplets, Whole, OpenDir, NoFiles

LEMMA SameWhenCreated ==
  ASSUME chain' = chain, NEW e \in DOMAIN store, NEW n, n \notin DOMAIN store[e],
         store' = CreateFile(store, e, n)
  PROVE  SameDroplets
<1>1. DOMAIN store' = DOMAIN store
  BY DEF CreateFile, PutFile
<1>2. /\ DOMAIN store'[e] = DOMAIN store[e] \cup {n}
      /\ store'[e][n] = Torn
      /\ \A k \in DOMAIN store[e] : store'[e][k] = store[e][k]
  BY DEF CreateFile, PutFile
<1>3. \A d \in DOMAIN store : d # e => store'[d] = store[d]
  BY DEF CreateFile, PutFile
<1> QED BY <1>1, <1>2, <1>3 DEF SameDroplets, Whole

PartitionOK == StoredGreedy /\ EpochsAgree /\ EpochsTile

\* Between epochs there is nothing to say of the cutting.
LEMMA AwayFromEpoch ==
  ASSUME pc' \notin Encoding, pc' # "scan" PROVE Cutting' /\ Encoded'
BY DEF Cutting, Encoded, Encoding


\* What a step that leaves the droplets alone has to show of the state after it.
LEMMA CuttingAfter ==
  ASSUME SameDroplets, pc' = "scan", epoch' \in Nat, Len(starts') < SuperBlocksPerEpoch,
         CutAt(epoch', starts', height')
  PROVE  Cutting' /\ Encoded'
<1>1. PICK e, s, h : e \in Nat /\ e = epoch' /\ s = starts' /\ h = height'
  OBVIOUS
<1>2. CutAt(e, s, h)
  BY <1>1
<1>3. CutAt(e, s, h)'
  BY <1>1, <1>2, SameCut
<1>4. CutAt(epoch, starts, height)'
  BY <1>1, <1>3 DEF CutAt
<1> QED BY <1>4 DEF Cutting, Encoded, Encoding

LEMMA EncodedAfter ==
  ASSUME SameDroplets, pc' \in Encoding, epoch' \in Nat,
         EncodedAt(epoch', starts', height'),
         pc' # "open" => epoch' \in DOMAIN store',
         pc' \in Saving \/ (pc' \in {"create", "write"} /\ produced' > 0) =>
           epoch' \in DOMAIN store /\ Whole(store, epoch') # {}
  PROVE  Cutting' /\ Encoded'
<1>1. PICK e, s, h : e \in Nat /\ e = epoch' /\ s = starts' /\ h = height'
  OBVIOUS
<1>2. EncodedAt(e, s, h)
  BY <1>1
<1>3. EncodedAt(e, s, h)'
  BY <1>1, <1>2, SameEncoded
<1>4. EncodedAt(epoch, starts, height)'
  BY <1>1, <1>3 DEF EncodedAt
<1>5. pc' \in Saving \/ (pc' \in {"create", "write"} /\ produced' > 0) =>
        Whole(store', epoch') # {}
  BY DEF SameDroplets, Whole
<1> QED BY <1>4, <1>5 DEF Cutting, Encoded, Encoding

\* Where an epoch starts, the droplets it holds already start there too.
LEMMA CutAtStart ==
  ASSUME TypeOK, PartitionOK, NEW e \in Nat, NEW h \in Nat, BeginsAt(e, h)
  PROVE  CutAt(e, << >>, h)
<1>1. Greedy(<< >>)
  BY DEF Greedy
<1>2. e \in DOMAIN store => \A n \in Whole(store, e) : store[e][n][1] = h
  BY SameFirst DEF PartitionOK
<1> QED BY <1>1, <1>2 DEF CutAt

Goal == NothingToResume' /\ Cutting' /\ Encoded' /\ PartitionOK'

LEMMA PartitionBegin ==
  ASSUME TypeOK, PartitionInv, BeginFromScratch \/ Resume PROVE Goal
<1>1. /\ UNCHANGED <<chain, store>> /\ pc' = "scan" /\ starts' = << >>
      /\ epoch' = 0 /\ height' = 0
  BY DEF BeginFromScratch, Resume, BeginAt, chainVars, files, PartitionInv, NothingToResume,
         Parsed, Missing
<1>2. CutAt(0, << >>, 0)
  BY CutAtStart DEF PartitionInv, PartitionOK, BeginsAt
<1>3. SameDroplets
  BY <1>1, SameWhenUnchanged
<1>4. Len(<< >>) < SuperBlocksPerEpoch
  BY NumbersAssumption
<1>5. Cutting' /\ Encoded'
  BY <1>1, <1>2, <1>3, <1>4, CuttingAfter
<1> QED BY <1>1, <1>3, <1>5, SamePartition DEF PartitionInv, PartitionOK, NothingToResume, Goal

LEMMA SameLayout ==
  ASSUME NEW l \in Layouts, NEW k \in Layouts, \A j \in 1..SuperBlocksPerEpoch : l[j] = k[j]
  PROVE  l = k
<1>1. l = [j \in 1..SuperBlocksPerEpoch |-> l[j]] /\ k = [j \in 1..SuperBlocksPerEpoch |-> k[j]]
  BY DEF Layouts
<1>2. [j \in 1..SuperBlocksPerEpoch |-> l[j]] = [j \in 1..SuperBlocksPerEpoch |-> k[j]]
  OBVIOUS
<1> QED BY <1>1, <1>2

LEMMA LastOfType ==
  ASSUME NEW s \in Seq(Heights), s # << >> PROVE s[Len(s)] \in Nat
<1>1. Len(s) \in 1..Len(s)
  OBVIOUS
<1>2. s[Len(s)] \in Heights
  BY <1>1
<1> QED BY <1>2, NumbersAssumption DEF Heights

LEMMA CutUpToLast ==
  ASSUME NEW s, NEW h, CutUpTo(s, h) PROVE s[Len(s)] \in Nat
BY LastOfType DEF CutUpTo

LEMMA PartitionAddBlock ==
  ASSUME TypeOK, StepOK, PartitionInv, AddBlock PROVE Goal
<1>1. /\ UNCHANGED <<chain, store>> /\ pc = "scan" /\ epoch \in Nat /\ height \in Nat
      /\ SuperBlocksPerEpoch \in Nat /\ Heights \subseteq Nat
  BY NumbersAssumption DEF AddBlock, chainVars, files, PartitionInv, Cutting, TypeOK, Heights
<1>2. CutUpTo(starts', height)
  BY CutStep
<1>3. SameDroplets
  BY <1>1, SameWhenUnchanged
<1>4. PartitionOK' /\ (pc' \notin {"idle", "begin", "removeBlock"} => NothingToResume')
  BY <1>3, SamePartition DEF PartitionInv, PartitionOK, NothingToResume
<1>5. CASE Len(starts') = SuperBlocksPerEpoch
  <2>1. pc' = "open" /\ epoch' = epoch /\ height' = height
    BY <1>5 DEF AddBlock
  <2>2. ASSUME epoch \in DOMAIN store, NEW n \in Whole(store, epoch)
        PROVE  store[epoch][n] = starts'
    <3>1. store[epoch][n] \in Layouts
      BY <2>2, WholeType
    <3>2. starts' \in Layouts
      BY <1>2, <1>5 DEF CutUpTo, Layouts
    <3>3. \A j \in 1..SuperBlocksPerEpoch : store[epoch][n][j] = starts'[j]
      BY <1>2, <1>5, <2>2 DEF CutUpTo
    <3> HIDE DEF Layouts
    <3> QED BY <3>1, <3>2, <3>3, SameLayout
  <2>3. EncodedAt(epoch', starts', height')
    BY <1>2, <1>5, <2>1, <2>2 DEF CutUpTo, EncodedAt
  <2>4. Cutting' /\ Encoded'
    BY <1>1, <1>3, <2>1, <2>3, EncodedAfter DEF Encoding, Saving
  <2> QED BY <1>4, <2>1, <2>4 DEF Goal
<1>6. CASE Len(starts') # SuperBlocksPerEpoch /\ pc' = "scan"
  <2>1. epoch' = epoch /\ height' = height + 1
    BY <1>6 DEF AddBlock, NextBlock
  <2>2. Len(starts') \in Nat /\ Len(starts') < SuperBlocksPerEpoch
    BY <1>1, <1>2, <1>6 DEF CutUpTo
  <2>3. starts'[Len(starts')] \in Nat
    BY <1>2, CutUpToLast
  <2>4. starts'[Len(starts')] < height + 1 /\ (height + 1) - 1 = height
    BY <1>1, <1>2, <2>3 DEF CutUpTo
  <2>5. CutAt(epoch, starts', height + 1)
    BY <1>2, <2>2, <2>4 DEF CutUpTo, CutAt
  <2>6. Cutting' /\ Encoded'
    BY <1>1, <1>3, <1>6, <2>1, <2>2, <2>5, CuttingAfter
  <2> QED BY <1>4, <1>6, <2>6 DEF Goal
<1>7. CASE Len(starts') # SuperBlocksPerEpoch /\ pc' # "scan"
  <2>1. pc' = "removeCount"
    BY <1>7 DEF AddBlock, NextBlock
  <2> QED BY <1>4, <2>1, AwayFromEpoch DEF Encoding, Goal
<1> QED BY <1>5, <1>6, <1>7

LEMMA PartitionWriteBlock ==
  ASSUME TypeOK, StepOK, PartitionInv, WriteBlock PROVE Goal
<1>1. /\ UNCHANGED <<chain, store>> /\ pc = "writeBlock" /\ epoch \in Nat /\ height \in Nat
      /\ EncodedAt(epoch, starts, height) /\ epoch \in DOMAIN store
      /\ Whole(store, epoch) # {}
  BY NumbersAssumption
     DEF WriteBlock, chainVars, PartitionInv, Encoded, Encoding, Saving, TypeOK, Heights
<1>2. SameDroplets
  BY <1>1, SameWhenUnchanged
<1>3. PartitionOK' /\ (pc' \notin {"idle", "begin", "removeBlock"} => NothingToResume')
  BY <1>2, SamePartition DEF PartitionInv, PartitionOK, NothingToResume
<1>4. CASE pc' = "scan"
  <2>1. epoch' = epoch + 1 /\ height' = height + 1 /\ starts' = << >>
    BY <1>4 DEF WriteBlock, NextBlock
  <2>2. PICK n \in Whole(store, epoch) : TRUE
    BY <1>1
  <2>3. Last(store[epoch][n]) = height
    BY <1>1, <2>2 DEF EncodedAt, Last
  <2>4. BeginsAt(epoch + 1, height + 1)
    <3>1. epoch + 1 # 0 /\ (epoch + 1) - 1 = epoch
      BY <1>1
    <3> QED BY <1>1, <2>2, <2>3, <3>1 DEF BeginsAt
  <2>5. CutAt(epoch + 1, << >>, height + 1)
    BY <1>1, <2>4, CutAtStart DEF PartitionInv, PartitionOK
  <2>6. Len(<< >>) < SuperBlocksPerEpoch
    BY NumbersAssumption
  <2>7. Cutting' /\ Encoded'
    BY <1>1, <1>2, <1>4, <2>1, <2>5, <2>6, CuttingAfter
  <2> QED BY <1>3, <1>4, <2>7 DEF Goal
<1>5. CASE pc' # "scan"
  <2>1. pc' = "removeCount"
    BY <1>5 DEF WriteBlock, NextBlock
  <2> QED BY <1>3, <2>1, AwayFromEpoch DEF Encoding, Goal
<1> QED BY <1>4, <1>5

LEMMA PartitionOpen ==
  ASSUME TypeOK, StepOK, PartitionInv, OpenStorage PROVE Goal
<1>1. /\ chain' = chain /\ store' = OpenDir(store, epoch) /\ epoch \in Nat
      /\ epoch' = epoch /\ starts' = starts /\ height' = height /\ produced' = 0
      /\ pc' = "create" /\ EncodedAt(epoch, starts, height)
  BY DEF OpenStorage, chainVars, progress, PartitionInv, Encoded, Encoding
<1>2. SameDroplets
  BY <1>1, SameWhenOpened
<1>3. PartitionOK' /\ NothingToResume'
  BY <1>1, <1>2, SamePartition DEF PartitionInv, PartitionOK, NothingToResume
<1>4. epoch' \in DOMAIN store' /\ ~(produced' > 0) /\ pc' \notin Saving /\ pc' \in Encoding
  BY <1>1 DEF OpenDir, Saving, Encoding
<1>5. Cutting' /\ Encoded'
  BY <1>1, <1>2, <1>4, EncodedAfter
<1> QED BY <1>3, <1>5 DEF Goal

LEMMA PartitionCreate ==
  ASSUME TypeOK, StepOK, PartitionInv, CreateDroplet PROVE Goal
<1>1. /\ chain' = chain /\ store' = CreateFile(store, epoch, counter) /\ epoch \in Nat
      /\ epoch' = epoch /\ starts' = starts /\ height' = height /\ produced' = produced
      /\ pc = "create" /\ pc' = "write" /\ EncodedAt(epoch, starts, height)
      /\ epoch \in DOMAIN store /\ counter = FilesCount(store, epoch)
      /\ produced > 0 => Whole(store, epoch) # {}
  BY DEF CreateDroplet, chainVars, progress, encoder, PartitionInv, Encoded, Encoding, Saving,
         NumberInv, Numbered
<1>2. counter \notin DOMAIN store[epoch]
  BY <1>1, CreateContiguous DEF PartitionInv, NumberInv, TypeOK
<1>3. SameDroplets
  BY <1>1, <1>2, SameWhenCreated
<1>4. PartitionOK' /\ NothingToResume'
  BY <1>1, <1>3, SamePartition DEF PartitionInv, PartitionOK, NothingToResume
<1>5. epoch' \in DOMAIN store' /\ pc' \notin Saving /\ pc' \in Encoding
  BY <1>1, <1>3 DEF SameDroplets, Saving, Encoding
<1>6. Cutting' /\ Encoded'
  BY <1>1, <1>3, <1>5, EncodedAfter
<1> QED BY <1>4, <1>6 DEF Goal

\* A droplet of an epoch is like the others, and starts where the epoch begins.
LEMMA PartitionWrite ==
  ASSUME TypeOK, StepOK, PartitionInv, WriteDroplet PROVE Goal
<1>1. /\ chain' = chain /\ store' = PutFile(store, epoch, counter, starts) /\ epoch \in Nat
      /\ epoch' = epoch /\ starts' = starts /\ height' = height
      /\ pc' = "create" /\ EncodedAt(epoch, starts, height)
      /\ epoch \in DOMAIN store
  BY DEF WriteDroplet, chainVars, progress, PartitionInv, Encoded, Encoding
<1>2. starts \in Layouts /\ starts # Torn
  <2>1. starts \in Layouts
    BY DEF WriteDroplet, StepOK, Encoding, TypeOK, Layouts
  <2> QED BY <2>1, LayoutType
<1>3. counter \in DOMAIN store[epoch] /\ store[epoch][counter] = Torn
  BY WritesCreated DEF PartitionInv
<1>4. /\ DOMAIN store' = DOMAIN store
      /\ \A d \in DOMAIN store : d # epoch => store'[d] = store[d]
      /\ DOMAIN store'[epoch] = DOMAIN store[epoch]
      /\ \A n \in DOMAIN store[epoch] :
           store'[epoch][n] = IF n = counter THEN starts ELSE store[epoch][n]
  BY <1>1, <1>3 DEF PutFile
<1>5. \A n \in Whole(store', epoch) : store'[epoch][n] = starts
  BY <1>1, <1>4 DEF Whole, EncodedAt
<1>6. \A d \in DOMAIN store : d # epoch => Whole(store', d) = Whole(store, d)
  BY <1>4 DEF Whole
<1>7. /\ \A d \in DOMAIN store : Whole(store, d) \subseteq Whole(store', d)
      /\ \A d \in DOMAIN store : \A n \in Whole(store, d) : store'[d][n] = store[d][n]
  BY <1>3, <1>4 DEF Whole
<1>8. Greedy(starts) /\ \A l : Greedy(l)' = Greedy(l)
  BY <1>1, GreedyUnchanged DEF EncodedAt
<1>9. StoredGreedy'
  BY <1>4, <1>5, <1>6, <1>8 DEF StoredGreedy, PartitionInv, Whole
<1>10. EpochsAgree'
  BY <1>4, <1>5, <1>6 DEF EpochsAgree, PartitionInv, Whole
<1>11. ASSUME NEW e \in Nat, NEW first, BeginsAt(e, first) PROVE BeginsAt(e, first)'
  BY <1>4, <1>7, <1>11 DEF BeginsAt, Whole
<1>12. ASSUME NEW e \in DOMAIN store', NEW n \in Whole(store', e),
              NEW first, first = First(store'[e][n])
       PROVE  BeginsAt(e, first)'
  <2>1. CASE e = epoch
    <3>1. first = starts[1]
      BY <1>5, <1>12, <2>1 DEF First
    <3> QED BY <1>1, <1>11, <2>1, <3>1 DEF EncodedAt
  <2>2. CASE e # epoch
    <3>1. e \in Nat /\ e \in DOMAIN store /\ n \in Whole(store, e) /\ store'[e] = store[e]
      BY <1>4, <1>6, <2>2 DEF TypeOK, StoreTypeOK
    <3>2. BeginsAt(e, first)
      BY <1>12, <3>1 DEF PartitionInv, EpochsTile, BeginsAt, First
    <3> QED BY <1>11, <3>1, <3>2
  <2> QED BY <2>1, <2>2
<1>13. EpochsTile'
  BY <1>12 DEF EpochsTile, BeginsAt, Whole, First
<1>14. Whole(store', epoch) # {}
  BY <1>2, <1>3, <1>4 DEF Whole
<1>15. EncodedAt(epoch, starts, height)'
  <2>1. Greedy(starts)'
    BY <1>1, <1>8 DEF Greedy, FullSuperBlock, Fits
  <2>2. BeginsAt(epoch, starts[1])'
    <3>1. PICK e, first : e \in Nat /\ e = epoch /\ first = starts[1]
      BY <1>1
    <3>2. BeginsAt(e, first)'
      BY <1>1, <1>11, <3>1 DEF EncodedAt
    <3> QED BY <1>1, <3>1, <3>2 DEF BeginsAt
  <2> QED BY <1>1, <1>5, <2>1, <2>2 DEF EncodedAt, Whole
<1>16. Cutting' /\ Encoded'
  BY <1>1, <1>4, <1>14, <1>15 DEF Cutting, Encoded, Whole
<1>17. NothingToResume'
  BY <1>1 DEF NothingToResume
<1> QED BY <1>9, <1>10, <1>13, <1>16, <1>17 DEF Goal, PartitionOK

LEMMA PartitionFinish ==
  ASSUME TypeOK, StepOK, PartitionInv, FinishEpoch \/ TruncateCount \/ WriteCount \/ TruncateBlock
  PROVE  Goal
<1>1. /\ UNCHANGED <<chain, store>> /\ pc \in Encoding \ {"open"} /\ epoch \in Nat
      /\ epoch' = epoch /\ starts' = starts /\ height' = height
      /\ EncodedAt(epoch, starts, height) /\ epoch \in DOMAIN store
      /\ pc' \in Saving \cup {"removeCount"}
  BY DEF FinishEpoch, TruncateCount, WriteCount, TruncateBlock, chainVars, files, progress,
         PartitionInv, Encoded, Encoding, Saving
<1>2. Whole(store, epoch) # {}
  <2>1. CASE FinishEpoch
    BY <2>1, ProducedPositive DEF FinishEpoch, PartitionInv, Encoded, Encoding, Saving
  <2>2. CASE TruncateCount \/ WriteCount \/ TruncateBlock
    BY <2>2 DEF TruncateCount, WriteCount, TruncateBlock, PartitionInv, Encoded, Encoding, Saving
  <2> QED BY <2>1, <2>2
<1>3. SameDroplets
  BY <1>1, SameWhenUnchanged
<1>4. PartitionOK' /\ NothingToResume'
  BY <1>1, <1>3, SamePartition DEF PartitionInv, PartitionOK, NothingToResume, Saving
<1>5. CASE pc' \in Saving
  <2>1. pc' \in Encoding /\ epoch' \in DOMAIN store'
    BY <1>1, <1>5 DEF Encoding, Saving
  <2>2. Cutting' /\ Encoded'
    BY <1>1, <1>2, <1>3, <2>1, EncodedAfter
  <2> QED BY <1>4, <2>2 DEF Goal
<1>6. CASE pc' = "removeCount"
  BY <1>4, <1>6, AwayFromEpoch DEF Encoding, Goal
<1> QED BY <1>1, <1>5, <1>6

\* The steps between two epochs, and those that end a command.
LEMMA PartitionAway ==
  ASSUME TypeOK, StepOK, PartitionInv,
         \/ ChainGrows \/ (\E cmd \in {"generate", "generateAll"} : Start(cmd)) \/ ResumeFails
         \/ RemoveCount \/ RemoveBlock
  PROVE  Goal
<1>1. /\ UNCHANGED <<chain, store>> /\ pc' \in {"idle", "begin", "removeBlock"}
      /\ NothingToResume'
  BY DEF ChainGrows, Start, ResumeFails, RemoveCount, RemoveBlock, Stop, chainVars, files,
         PartitionInv, NothingToResume
<1>2. Cutting' /\ Encoded'
  BY <1>1, AwayFromEpoch DEF Encoding
<1>3. PartitionOK'
  BY <1>1, SameWhenUnchanged, SamePartition DEF PartitionInv, PartitionOK
<1> QED BY <1>1, <1>2, <1>3 DEF Goal

LEMMA PartitionStutter ==
  ASSUME TypeOK, PartitionInv, UNCHANGED vars PROVE Goal
<1>1. UNCHANGED <<chain, store, epochsCountFile, lastBlockFile, pc, epoch, height, starts, produced>>
  BY DEF vars, chainVars, files, progress, encoder
<1>2. PartitionOK'
  BY <1>1, SameWhenUnchanged, SamePartition DEF PartitionInv, PartitionOK
<1>3. NothingToResume'
  BY <1>1 DEF PartitionInv, NothingToResume
<1>4. Cutting' /\ Encoded'
  BY <1>1 DEF PartitionInv, Cutting, Encoded, CutAt, EncodedAt, BeginsAt, Greedy, FullSuperBlock,
              Fits, Whole
<1> QED BY <1>2, <1>3, <1>4 DEF Goal

LEMMA PartitionInvariant ==
  ASSUME CrashPoints = {}
  PROVE  TypeOK /\ StepOK /\ PartitionInv /\ [Next]_vars => PartitionInv'
<1> SUFFICES ASSUME TypeOK, StepOK, PartitionInv, [Next]_vars PROVE PartitionInv'
  OBVIOUS
<1>1. NumberInv'
  BY NumberInvariant DEF PartitionInv
<1>2. ~Crash
  BY DEF Crash
<1>3. Goal
  BY <1>2, PartitionBegin, PartitionAddBlock, PartitionOpen, PartitionCreate, PartitionWrite,
     PartitionFinish, PartitionWriteBlock, PartitionAway, PartitionStutter DEF Next, Step
<1> QED BY <1>1, <1>3 DEF Goal, PartitionOK, PartitionInv

LEMMA PartitionInit == Init => PartitionInv
BY NumberInit DEF Init, PartitionInv, NothingToResume, Cutting, Encoded, Encoding, StoredGreedy,
                  EpochsAgree, EpochsTile, EmptyStore

\* As long as no run is interrupted, the loop cuts every epoch as the droplets
\* in its directory were cut: the reason why a later round, on a longer chain,
\* adds droplets that go with those of the earlier ones.
THEOREM PartitionHolds ==
  ASSUME CrashPoints = {} PROVE Spec => []PartitionInv
<1>1. TypeOK /\ StepOK /\ PartitionInv /\ [Next]_vars => PartitionInv'
  BY PartitionInvariant
<1> QED BY <1>1, TypeInit, TypeInvariant, PartitionInit, PTL DEF Spec

\* As long as no run is interrupted, all droplets of an epoch were encoded from
\* the same superblocks, whichever rounds and heights of the chain they come from.
THEOREM DropletsAgree == ASSUME CrashPoints = {} PROVE Spec => []EpochsAgree
<1>1. PartitionInv => EpochsAgree
  BY DEF PartitionInv
<1> QED BY <1>1, PartitionHolds, PTL

\* As long as no run is interrupted, the epochs are consecutive pieces of the
\* chain that leave out no block between them.
THEOREM EpochsTileChain == ASSUME CrashPoints = {} PROVE Spec => []EpochsTile
<1>1. PartitionInv => EpochsTile
  BY DEF PartitionInv
<1> QED BY <1>1, PartitionHolds, PTL
==============================================================================

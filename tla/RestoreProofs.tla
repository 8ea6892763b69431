---------------------------- MODULE RestoreProofs ----------------------------
(***************************************************************************)
(* Proofs about Restore, for every number of epochs, superblocks and       *)
(* blocks, every collection of droplets and every interruption.            *)
(*                                                                         *)
(* On the decoder's variables every step of a restore is a step of the     *)
(* decoder, or a new decoder over the files of a directory.  So the        *)
(* decoder's invariants hold here too, and tell what an answer is worth.   *)
(***************************************************************************)
EXTENDS Restore, FountainDecoderProofs
------------------------------------------------------------------------------
(* The decoder within the command. *)

\* What passed the header-chain check is a run of blocks, or nothing.
Plain(content) == content = {} \/ \E t \in Epoch \cup Foreign : content = {t}
ContentInv == \A n \in known : Plain(recovered[n])

MissInv == missed => TmpStorageMayFail

DecoderInv == /\ TypeOK /\ ScanInv /\ Exhausted /\ AnswerInv /\ ContentInv /\ MissInv
              /\ Genuine => Sound

Files == UNION {[0..(m - 1) -> Collected] : m \in 0..MaxDroplets}

LEMMA FilesCounted ==
  ASSUME NEW m \in Nat PROVE Cardinality(0..(m - 1)) = m /\ IsFiniteSet(0..(m - 1))
BY FS_Interval

LEMMA FreshDecoder ==
  ASSUME NEW files \in Files, NewDecoder(files) PROVE DecoderInv'
<1>1. PICK m \in 0..MaxDroplets : files \in [0..(m - 1) -> Collected]
  BY DEF Files
<1>2. count' = m
  BY <1>1, FilesCounted, BoundAssumption DEF NewDecoder
<1>3. 0 \in Epoch
  BY KAssumption DEF Epoch
<1>4. TypeOK'
  <2>1. missed' \in BOOLEAN
    BY DEF NewDecoder
  <2> QED BY <1>1, <1>2, <1>3, <2>1, BoundAssumption DEF NewDecoder, TypeOK
<1>5. ScanInv' /\ Exhausted' /\ AnswerInv' /\ Sound' /\ ContentInv' /\ MissInv'
  BY DEF NewDecoder, ScanInv, Exhausted, AnswerInv, Sound, ContentInv, MissInv
<1> QED BY <1>4, <1>5 DEF DecoderInv

LEMMA CroppedIsPlain == ASSUME NEW content, Valid(content) PROVE Plain(Cropped(content))
BY DEF Valid, Cropped, Plain

LEMMA ContentInvariant == TypeOK /\ ContentInv /\ [Next]_vars => ContentInv'
<1> SUFFICES ASSUME TypeOK, ContentInv, [Next]_vars PROVE ContentInv'
  OBVIOUS
<1>1. CASE Recover
  <2>1. PICK u \in Epoch, content \in SUBSET Terms : Plain(content) /\ Store(u, content)
    BY <1>1, CroppedIsPlain, XorOutType DEF Recover
  <2> QED BY <2>1 DEF Store, ContentInv
<1>2. CASE ~Recover
  BY <1>2 DEF Next, Call, LookupHit, LookupMiss, EndPass, GiveUp, SkipDroplet, ReadFails,
              NotPeelable, TmpStorageFails, Dies, Reject, vars, ContentInv
<1> QED BY <1>1, <1>2

LEMMA MissInvariant == TypeOK /\ MissInv /\ [Next]_vars => MissInv'
<1> SUFFICES ASSUME TypeOK, MissInv, [Next]_vars, missed' PROVE TmpStorageMayFail
  BY DEF MissInv
<1>1. CASE Reject \/ Recover
  <2>1. PICK opened \in Opened(index) : Miss(opened)
    BY <1>1 DEF Reject, Recover
  <2> QED BY <2>1, OpenedType DEF Miss, MissInv
<1>2. CASE LookupMiss
  BY <1>2 DEF LookupMiss, MissInv
<1>3. CASE ~Reject /\ ~Recover /\ ~LookupMiss
  BY <1>3 DEF Next, Call, LookupHit, EndPass, GiveUp, SkipDroplet, ReadFails, NotPeelable,
              TmpStorageFails, Dies, loop, vars, MissInv
<1> QED BY <1>1, <1>2, <1>3

LEMMA DecoderInvariant == DecoderInv /\ [Next]_vars => DecoderInv'
<1> SUFFICES ASSUME DecoderInv, [Next]_vars PROVE DecoderInv'
  OBVIOUS
<1>1. UNCHANGED <<count, droplets>>
  BY DEF Next, Call, LookupHit, LookupMiss, EndPass, GiveUp, SkipDroplet, ReadFails,
         NotPeelable, TmpStorageFails, Dies, Reject, Recover, stores, vars
<1>2. Genuine' = Genuine
  BY <1>1 DEF Genuine, Honest, Murky
<1>3. TypeOK' /\ ScanInv' /\ Exhausted' /\ AnswerInv' /\ ContentInv' /\ MissInv'
  BY TypeInvariant, ScanInvariant, ExhaustedInvariant, AnswerInvariant, ContentInvariant,
     MissInvariant DEF DecoderInv
<1>4. Genuine => Sound'
  BY SoundInvariant DEF DecoderInv
<1> QED BY <1>2, <1>3, <1>4 DEF DecoderInv

\* The droplets determine no superblock the decoder says it cannot decode, unless
\* a wrong superblock was recovered, or one was not there to read.
LEMMA NotDecodedMeansUndetermined ==
  ASSUME DecoderInv, ~missed, \A n \in known : recovered[n] = {n}, outcome = "notDecoded"
  PROVE  requested \notin Abstract!Decodable
<1>1. AllSettled /\ TypeOK
  BY DEF DecoderInv, Exhausted, AllSettled, Settled
<1> QED BY <1>1, SettledIsComplete DEF DecoderInv, AnswerInv
------------------------------------------------------------------------------
(* The directories. *)

DiskOK == /\ EpochCount(disk) \in 0..MaxEpochs
          /\ DOMAIN disk = 0..(EpochCount(disk) - 1)
          /\ \A e \in DOMAIN disk : /\ FilesCount(disk, e) \in 0..MaxDroplets
                                    /\ disk[e] \in [0..(FilesCount(disk, e) - 1) -> Collected]

LEMMA DirectoryOfEpoch ==
  ASSUME DiskOK, NEW e \in 0..(EpochCount(disk) - 1)
  PROVE  OpenDir(disk, e)[e] \in Files /\ DOMAIN OpenDir(disk, e) = DOMAIN disk
BY DEF DiskOK, OpenDir, Files

LEMMA OpenExisting ==
  ASSUME DiskOK, NEW e \in 0..(EpochCount(disk) - 1), disk' = OpenDir(disk, e)
  PROVE  DiskOK' /\ EpochCount(disk)' = EpochCount(disk)
<1>1. DOMAIN disk' = DOMAIN disk /\ \A f \in DOMAIN disk : disk'[f] = disk[f]
  BY DEF DiskOK, OpenDir
<1> QED BY <1>1 DEF DiskOK, EpochCount, FilesCount

LEMMA CollectKeepsDisk ==
  ASSUME DiskOK, NEW e \in 0..(MaxEpochs - 1), NEW d \in Collected, Collect(e, d)
  PROVE  DiskOK' /\ EpochCount(disk) <= EpochCount(disk)'
<1> DEFINE n == EpochCount(disk)
           opened == OpenDir(disk, e)
           m == FilesCount(opened, e)
           n2 == IF e = n THEN n + 1 ELSE n
<1>1. /\ n \in 0..MaxEpochs /\ DOMAIN disk = 0..(n - 1) /\ e \in 0..n
      /\ m < MaxDroplets /\ disk' = PutFile(opened, e, m, d)
  BY DEF Collect, DiskOK
<1>2. DOMAIN opened = 0..(n2 - 1) /\ n2 \in 0..MaxEpochs /\ n <= n2 /\ n2 \in Nat
  BY <1>1, RestoreBounds DEF OpenDir
<1>3. \A f \in DOMAIN opened : opened[f] = IF f \in DOMAIN disk THEN disk[f] ELSE NoFiles
  BY DEF OpenDir
<1>4. ASSUME NEW f \in DOMAIN opened
      PROVE  /\ FilesCount(opened, f) \in 0..MaxDroplets
             /\ opened[f] \in [0..(FilesCount(opened, f) - 1) -> Collected]
  <2>1. CASE f \in DOMAIN disk
    BY <1>3, <2>1 DEF DiskOK, FilesCount
  <2>2. CASE f \notin DOMAIN disk
    <3>1. opened[f] = NoFiles /\ DOMAIN NoFiles = {}
      BY <1>3, <2>2 DEF NoFiles
    <3>2. FilesCount(opened, f) = 0
      BY <3>1, FS_EmptySet DEF FilesCount
    <3> QED BY <3>1, <3>2, BoundAssumption DEF NoFiles
  <2> QED BY <2>1, <2>2
<1>5. e \in DOMAIN opened
  BY <1>1, <1>2
<1>6. m \in Nat /\ opened[e] \in [0..(m - 1) -> Collected] /\ m + 1 \in 0..MaxDroplets
  BY <1>1, <1>4, <1>5, BoundAssumption
<1>7. DOMAIN disk' = 0..(n2 - 1) /\ EpochCount(disk)' = n2
  BY <1>1, <1>2, FilesCounted DEF PutFile, EpochCount
<1>8. disk'[e] = [k \in DOMAIN opened[e] \cup {m} |-> IF k = m THEN d ELSE opened[e][k]]
  BY <1>1, <1>5 DEF PutFile
<1>9. DOMAIN opened[e] \cup {m} = 0..((m + 1) - 1)
  BY <1>6
<1>10. disk'[e] \in [0..((m + 1) - 1) -> Collected] /\ FilesCount(disk, e)' = m + 1
  <2>1. DOMAIN disk'[e] = 0..((m + 1) - 1)
    BY <1>8, <1>9
  <2>2. \A k \in 0..((m + 1) - 1) : disk'[e][k] \in Collected
    BY <1>6, <1>8, <1>9
  <2>3. Cardinality(DOMAIN disk'[e]) = m + 1
    BY <1>6, <2>1, FilesCounted
  <2>4. disk'[e] \in [0..((m + 1) - 1) -> Collected]
    BY <1>8, <1>9, <2>2
  <2> QED BY <2>3, <2>4 DEF FilesCount
<1>11. ASSUME NEW f \in DOMAIN disk'
       PROVE  /\ FilesCount(disk, f)' \in 0..MaxDroplets
              /\ disk'[f] \in [0..(FilesCount(disk, f)' - 1) -> Collected]
  <2>1. CASE f = e
    BY <1>6, <1>10, <2>1
  <2>2. CASE f # e
    <3>1. disk'[f] = opened[f] /\ f \in DOMAIN opened
      BY <1>1, <1>2, <1>7, <1>11, <2>2 DEF PutFile
    <3>2. FilesCount(disk, f)' = FilesCount(opened, f)
      BY <3>1 DEF FilesCount
    <3> QED BY <1>4, <3>1, <3>2
  <2> QED BY <2>1, <2>2
<1> QED BY <1>2, <1>7, <1>11 DEF DiskOK
------------------------------------------------------------------------------
(* Arithmetic. *)

LEMMA ProductType == \A a, b \in Nat : a * b \in Nat
OBVIOUS

LEMMA Distributes == \A a, b \in Nat : (a + 1) * b = a * b + b
OBVIOUS

LEMMA ProductMonotone == \A a, b, c \in Nat : a <= b => a * c <= b * c
OBVIOUS

\* Where the command is in the chain.
Position == Wanted + block

LEMMA PositionType ==
  ASSUME epoch \in Nat, num \in Nat, block \in Nat
  PROVE  /\ Position \in Nat /\ Wanted \in Nat
         /\ BlocksPerEpoch \in Nat /\ BlocksPerSuperBlock \in Nat
         /\ epoch * BlocksPerEpoch \in Nat /\ num * BlocksPerSuperBlock \in Nat
<1>1. BlocksPerEpoch \in Nat /\ BlocksPerSuperBlock \in Nat
  BY KAssumption, BlocksAssumption, ProductType DEF BlocksPerEpoch
<1>2. epoch * BlocksPerEpoch \in Nat /\ num * BlocksPerSuperBlock \in Nat
  BY <1>1, ProductType
<1> QED BY <1>1, <1>2 DEF Position, Wanted

LEMMA AtStart == 0 * BlocksPerEpoch + 0 * BlocksPerSuperBlock + 0 = 0
<1>1. BlocksPerEpoch \in Nat /\ BlocksPerSuperBlock \in Nat
  BY KAssumption, BlocksAssumption, ProductType DEF BlocksPerEpoch
<1> QED BY <1>1

\* A block before the end of its superblock, in a superblock before the end of
\* its epoch, in an epoch before e, is among the blocks up to e.
LEMMA NumberBounded ==
  ASSUME NEW e \in Nat, NEW s \in Nat, epoch \in Nat, block \in Nat,
         epoch < e, s < SuperBlocksPerEpoch, block < BlocksPerSuperBlock
  PROVE  epoch * BlocksPerEpoch + s * BlocksPerSuperBlock + block \in BlocksUpTo(e)
<1> DEFINE K == SuperBlocksPerEpoch
           B == BlocksPerSuperBlock
           P == BlocksPerEpoch
<1>1. K \in Nat /\ B \in Nat /\ P \in Nat /\ P = K * B
  BY KAssumption, BlocksAssumption, ProductType DEF BlocksPerEpoch
<1>2. (s + 1) * B <= K * B /\ (epoch + 1) * P <= e * P
  BY <1>1, ProductMonotone
<1>3. (s + 1) * B = s * B + B /\ (epoch + 1) * P = epoch * P + P
  BY <1>1, Distributes
<1>4. s * B \in Nat /\ epoch * P \in Nat /\ e * P \in Nat
  BY <1>1, ProductType
<1> QED BY <1>1, <1>2, <1>3, <1>4 DEF BlocksUpTo

LEMMA OutputOnlyGrowsByNewBlock ==
  [RestoreNext]_restoreVars /\ ~NewBlock /\ ~Interrupt /\ ~Died => output' = output
BY DEF RestoreNext, Collect, Command, NoEpochs, Start, Step, OpenEpoch, Finish, Ask, EndEpoch,
       Decode, GotSuperBlock, NeedMore, Failed, Duplicate, Rejected, NextSuperBlock, restoreVars
------------------------------------------------------------------------------
(* Where a command is, and type correctness. *)

PlaceInv ==
  /\ stage = "idle" <=> result # "running"
  /\ stage = "idle" => epochs = 0 /\ epoch = 0
  /\ stage \in {"idle", "open"} => num = 0
  /\ stage \in {"ask", "wait", "process"} => epoch < epochs
  /\ stage \in {"wait", "process"} => num < SuperBlocksPerEpoch /\ requested = num
  /\ stage # "process" => block = 0
  /\ stage # "wait" => pc = "ready"
  /\ stage = "process" => outcome = "found" /\ block <= BlocksIn(superblock)
  /\ stage = "process" => stray = "now" \/ InPlace
  /\ stage = "idle" => stray # "now"

CommandOK ==
  /\ stage \in {"idle", "open", "ask", "wait", "process"}
  /\ epochs \in 0..EpochCount(disk) /\ epoch \in 0..epochs
  /\ num \in 0..SuperBlocksPerEpoch
  /\ block \in 0..BlocksPerSuperBlock
  /\ result \in {"none", "running", "noEpochs", "restored", "needMore", "failed", "rejected",
                 "interrupted", "died"}
  /\ stray \in {"never", "before", "now"}
  /\ interrupts \in 0..MaxInterrupts

RestoreInv == DiskOK /\ CommandOK /\ PlaceInv /\ DecoderInv

LEMMA InitRestore == RestoreInit => RestoreInv
<1> SUFFICES ASSUME RestoreInit PROVE RestoreInv
  OBVIOUS
<1>1. DOMAIN disk = {} /\ EpochCount(disk) = 0
  BY FS_EmptySet DEF RestoreInit, EmptyStore, EpochCount
<1>2. DiskOK /\ CommandOK /\ PlaceInv
  BY <1>1, RestoreBounds, KAssumption, BlocksAssumption
     DEF RestoreInit, DiskOK, CommandOK, PlaceInv
<1>3. Init
  BY BoundAssumption DEF RestoreInit, Init, NoFiles
<1>4. DecoderInv
  BY <1>3, InitType, InitExhausted DEF DecoderInv, Init, AnswerInv, Sound, ContentInv, MissInv
<1> QED BY <1>2, <1>4 DEF RestoreInv

LEMMA StopKeeps ==
  ASSUME RestoreInv, UNCHANGED disk, interrupts' \in 0..MaxInterrupts,
         NEW how \in {"noEpochs", "restored", "needMore", "failed", "rejected", "interrupted",
                      "died"},
         Stop(how)
  PROVE  RestoreInv'
<1>1. NoFiles \in Files
  BY BoundAssumption DEF Files, NoFiles
<1>2. DecoderInv'
  BY <1>1, FreshDecoder DEF Stop
<1>3. DiskOK' /\ EpochCount(disk)' \in Nat
  BY RestoreBounds DEF RestoreInv, DiskOK, EpochCount, FilesCount
<1>4. CommandOK' /\ PlaceInv'
  BY <1>3, BlocksAssumption, KAssumption DEF Stop, CommandOK, PlaceInv, NewDecoder, RestoreInv
<1> QED BY <1>2, <1>3, <1>4 DEF RestoreInv

LEMMA KeepsPlace ==
  ASSUME UNCHANGED <<epoch, num, superblock>> PROVE InPlace' = InPlace
BY DEF InPlace, PlaceOf, Wanted

LEMMA RestoreInvariant == RestoreInv /\ [RestoreNext]_restoreVars => RestoreInv'
<1> SUFFICES ASSUME RestoreInv, [RestoreNext]_restoreVars PROVE RestoreInv'
  OBVIOUS
<1> USE DEF RestoreInv
<1>0. /\ EpochCount(disk) \in Nat /\ epochs \in Nat /\ epoch \in Nat /\ num \in Nat
      /\ block \in Nat /\ SuperBlocksPerEpoch \in Nat \ {0} /\ BlocksPerSuperBlock \in Nat \ {0}
      /\ BlocksIn(superblock) \in 0..BlocksPerSuperBlock
  BY RestoreBounds, KAssumption, BlocksAssumption DEF DiskOK, CommandOK, BlocksIn
<1>1. ASSUME UNCHANGED disk
      PROVE  DiskOK' /\ EpochCount(disk)' = EpochCount(disk)
  BY <1>1 DEF DiskOK, EpochCount, FilesCount
<1>2. ASSUME UNCHANGED decoder PROVE DecoderInv'
  BY <1>2, DecoderInvariant DEF decoder
<1>3. ASSUME NEW e \in 0..(MaxEpochs - 1), NEW d \in Collected, Collect(e, d)
      PROVE  RestoreInv'
  <2>1. DiskOK' /\ EpochCount(disk) <= EpochCount(disk)' /\ EpochCount(disk)' \in Nat
    BY <1>3, CollectKeepsDisk, RestoreBounds DEF DiskOK
  <2>2. UNCHANGED <<output, stage, position, result, stray, interrupts, decoder>>
    BY <1>3 DEF Collect
  <2>3. CommandOK' /\ PlaceInv'
    BY <1>0, <2>1, <2>2, KeepsPlace DEF CommandOK, PlaceInv, position, decoder, vars, BlocksIn
  <2> QED BY <1>2, <2>1, <2>2, <2>3
<1>4. CASE NoEpochs
  BY <1>4, StopKeeps DEF NoEpochs, CommandOK
<1>5. CASE Start
  BY <1>0, <1>1, <1>2, <1>5 DEF Start, CommandOK, PlaceInv, decoder, vars
<1>6. CASE OpenEpoch
  <2>1. epoch \in 0..(EpochCount(disk) - 1)
    BY <1>0, <1>6 DEF OpenEpoch, CommandOK
  <2>2. DiskOK' /\ EpochCount(disk)' = EpochCount(disk) /\ DecoderInv'
    BY <1>6, <2>1, OpenExisting, DirectoryOfEpoch, FreshDecoder DEF OpenEpoch
  <2>3. CommandOK' /\ PlaceInv'
    BY <1>0, <1>6, <2>2 DEF OpenEpoch, CommandOK, PlaceInv, position, NewDecoder
  <2> QED BY <2>2, <2>3
<1>7. CASE Finish
  BY <1>7, StopKeeps DEF Finish, CommandOK
<1>8. CASE Ask
  <2>1. num \in Epoch /\ Call(num)
    BY <1>0, <1>8 DEF Ask, SuperBlocksWanted, Epoch
  <2>2. DecoderInv'
    BY <2>1, DecoderInvariant DEF Next
  <2>3. CommandOK' /\ PlaceInv'
    BY <1>0, <1>1, <1>8, <2>1 DEF Ask, SuperBlocksWanted, Call, CommandOK, PlaceInv, position
  <2> QED BY <1>1, <1>8, <2>2, <2>3 DEF Ask
<1>9. CASE EndEpoch
  BY <1>0, <1>1, <1>2, <1>9 DEF EndEpoch, CommandOK, PlaceInv, decoder, vars
<1>10. CASE Decode
  <2>1. Next /\ pc # "ready" /\ requested' = requested
    BY <1>10 DEF Decode, Running, Next, Call, LookupHit, LookupMiss, EndPass, GiveUp,
                 SkipDroplet, ReadFails, NotPeelable, TmpStorageFails, Dies, Reject, Recover, Return
  <2>2. DecoderInv'
    BY <2>1, DecoderInvariant
  <2>3. CommandOK' /\ PlaceInv'
    BY <1>0, <1>1, <1>10, <2>1 DEF Decode, CommandOK, PlaceInv, position
  <2> QED BY <1>1, <1>10, <2>2, <2>3 DEF Decode
<1>11. CASE GotSuperBlock
  <2>1. InPlace' = InPlace
    BY <1>11, KeepsPlace DEF GotSuperBlock, decoder, vars
  <2>2. CommandOK' /\ PlaceInv'
    BY <1>0, <1>1, <1>11, <2>1 DEF GotSuperBlock, Answered, CommandOK, PlaceInv, decoder, vars,
                                   BlocksIn
  <2> QED BY <1>1, <1>2, <1>11, <2>2 DEF GotSuperBlock
<1>12. CASE NeedMore
  BY <1>12, StopKeeps DEF NeedMore, CommandOK
<1>13. CASE Failed
  BY <1>13, StopKeeps DEF Failed, CommandOK
<1>14. CASE NewBlock \/ Duplicate
  <2>1. /\ stage = "process" /\ block < BlocksIn(superblock) /\ block' = block + 1
        /\ UNCHANGED <<disk, stage, epochs, epoch, num, result, stray, interrupts, decoder>>
    BY <1>14 DEF NewBlock, Duplicate, Known, Processing, BlocksIn
  <2>2. InPlace' = InPlace
    BY <2>1, KeepsPlace DEF decoder, vars
  <2>3. CommandOK' /\ PlaceInv'
    BY <1>0, <1>1, <2>1, <2>2 DEF CommandOK, PlaceInv, decoder, vars, BlocksIn
  <2> QED BY <1>1, <1>2, <2>1, <2>3
<1>15. CASE Rejected
  BY <1>15, StopKeeps DEF Rejected, CommandOK
<1>16. CASE NextSuperBlock
  BY <1>0, <1>1, <1>2, <1>16 DEF NextSuperBlock, CommandOK, PlaceInv, decoder, vars, BlocksIn
<1>17. CASE Interrupt
  <2>1. interrupts' \in 0..MaxInterrupts
    BY <1>17, RestoreBounds DEF Interrupt, CommandOK
  <2> QED BY <1>17, <2>1, StopKeeps DEF Interrupt
<1>19. CASE Died
  BY <1>19, StopKeeps DEF Died, CommandOK
<1>18. CASE UNCHANGED restoreVars
  <2>1. UNCHANGED <<disk, stage, epochs, epoch, num, block, result, stray, interrupts, decoder>>
    BY <1>18 DEF restoreVars
  <2>2. CommandOK' /\ PlaceInv'
    BY <1>1, <2>1, KeepsPlace DEF CommandOK, PlaceInv, decoder, vars, BlocksIn
  <2> QED BY <1>1, <1>2, <2>1, <2>2
<1> QED
  BY <1>3, <1>4, <1>5, <1>6, <1>7, <1>8, <1>9, <1>10, <1>11, <1>12, <1>13, <1>14, <1>15, <1>16,
     <1>17, <1>18, <1>19 DEF RestoreNext, Command, Step

LEMMA RestoreInvariantHolds == RestoreSpec => []RestoreInv
BY InitRestore, RestoreInvariant, PTL DEF RestoreSpec

\* A block of a decoded superblock is a block of the chain.
LEMMA BlockOfContent ==
  ASSUME RestoreInv, NEW t \in Epoch \cup Foreign, Processing(t)
  PROVE  Number(t) \in BlocksUpTo(MaxEpochs)
<1>1. /\ epoch \in Nat /\ epoch < MaxEpochs /\ MaxEpochs \in Nat
      /\ block \in Nat /\ block < BlocksPerSuperBlock
  BY RestoreBounds, BlocksAssumption DEF RestoreInv, DiskOK, CommandOK, PlaceInv, Processing
<1>2. CASE t \in Foreign
  <2>1. /\ Place[t] \in Nat /\ BlocksPerSuperBlock \in Nat /\ BlocksPerEpoch \in Nat
        /\ Place[t] + BlocksPerSuperBlock <= MaxEpochs * BlocksPerEpoch
    BY <1>2, KAssumption, PlaceAssumption, BlocksAssumption, ProductType DEF BlocksPerEpoch
  <2>2. MaxEpochs * BlocksPerEpoch \in Nat
    BY <1>1, <2>1, ProductType
  <2> QED BY <1>1, <1>2, <2>1, <2>2 DEF Number, PlaceOf, BlocksUpTo
<1>3. CASE t \notin Foreign
  <2>1. t \in Nat /\ t < SuperBlocksPerEpoch
    BY <1>3, KAssumption DEF Epoch
  <2> QED BY <1>1, <1>3, <2>1, NumberBounded DEF Number, PlaceOf
<1> QED BY <1>2, <1>3

LEMMA FlushedIsPart == ASSUME NEW part \in Flushed PROVE part \subseteq output
BY DEF Flushed

\* Directories and droplets are numbered without a gap, the position of a
\* command stays within what it has found, and its decoder keeps its types.
THEOREM RestoreTypeCorrect == RestoreSpec => []RestoreTypeOK
<1>1. RestoreInv /\ output \subseteq BlocksUpTo(MaxEpochs) => RestoreTypeOK
  BY DEF RestoreInv, DiskOK, CommandOK, DecoderInv, RestoreTypeOK
<1>2. RestoreInit => output \subseteq BlocksUpTo(MaxEpochs)
  BY DEF RestoreInit
<1>3. RestoreInv /\ output \subseteq BlocksUpTo(MaxEpochs) /\ [RestoreNext]_restoreVars
        => (output \subseteq BlocksUpTo(MaxEpochs))'
  <2> SUFFICES ASSUME RestoreInv, output \subseteq BlocksUpTo(MaxEpochs),
                      [RestoreNext]_restoreVars
               PROVE  output' \subseteq BlocksUpTo(MaxEpochs)
    BY DEF BlocksUpTo, BlocksPerEpoch
  <2>1. CASE NewBlock
    BY <2>1, BlockOfContent DEF NewBlock
  <2>2. CASE Interrupt \/ Died
    BY <2>2, FlushedIsPart DEF Interrupt, Died
  <2>3. CASE ~NewBlock /\ ~Interrupt /\ ~Died
    BY <2>3, OutputOnlyGrowsByNewBlock
  <2> QED BY <2>1, <2>2, <2>3
<1> QED BY <1>1, <1>2, <1>3, RestoreInvariantHolds, PTL DEF RestoreSpec
------------------------------------------------------------------------------
(* The output chain. *)

\* The output has every block that a command on the right way has gone through,
\* taken from a droplet now or restored by an earlier run; and it is a prefix of
\* the chain if no command ever went astray.
ChainInv == /\ stray = "never" => \E n \in Nat : output = 0..(n - 1)
            /\ stray # "now" => 0..(Position - 1) \subseteq output

LEMMA EpochSeam == ASSUME CommandOK, EpochCount(disk) \in Nat
                   PROVE  (epoch + 1) * BlocksPerEpoch
                             = epoch * BlocksPerEpoch + SuperBlocksPerEpoch * BlocksPerSuperBlock
<1>1. epoch \in Nat /\ SuperBlocksPerEpoch * BlocksPerSuperBlock \in Nat
  BY KAssumption, BlocksAssumption, ProductType DEF CommandOK
<1> QED BY <1>1, Distributes DEF BlocksPerEpoch

\* On the right way, the block in turn is the one at the command's position.
LEMMA BlockInTurn ==
  ASSUME RestoreInv, stray # "now", NEW t \in Epoch \cup Foreign, Processing(t)
  PROVE  Number(t) = Position
<1>1. InPlace /\ superblock = {t}
  BY DEF RestoreInv, PlaceInv, Processing
<1> QED BY <1>1 DEF InPlace, Number, Position

LEMMA ChainStays ==
  ASSUME RestoreInv, ChainInv, [RestoreNext]_restoreVars
  PROVE  ChainInv'
<1>0. /\ epoch \in Nat /\ num \in Nat /\ block \in Nat /\ Position \in Nat
      /\ SuperBlocksPerEpoch \in Nat /\ BlocksPerSuperBlock \in Nat
      /\ num * BlocksPerSuperBlock \in Nat /\ epoch * BlocksPerEpoch \in Nat
  <2>1. epoch \in Nat /\ num \in Nat /\ block \in Nat /\ SuperBlocksPerEpoch \in Nat
    BY KAssumption, BlocksAssumption, RestoreBounds DEF RestoreInv, DiskOK, CommandOK
  <2> QED BY <2>1, PositionType
<1>1. CASE NewBlock
  <2>1. PICK t \in Epoch \cup Foreign :
          /\ Processing(t) /\ Number(t) \notin output /\ output' = output \cup {Number(t)}
          /\ block' = block + 1 /\ epoch' = epoch /\ num' = num /\ stray' = stray
    BY <1>1 DEF NewBlock
  <2>2. CASE stray = "now"
    BY <2>1, <2>2 DEF ChainInv
  <2>3. CASE stray # "now"
    <3>1. Number(t) = Position
      BY <2>1, <2>3, BlockInTurn
    <3>2. Position' = Position + 1
      BY <1>0, <2>1 DEF Position, Wanted
    <3>3. 0..(Position' - 1) \subseteq output'
      BY <1>0, <2>1, <2>3, <3>1, <3>2 DEF ChainInv
    <3>4. ASSUME stray = "never" PROVE \E n \in Nat : output' = 0..(n - 1)
      <4>1. PICK n \in Nat : output = 0..(n - 1)
        BY <3>4 DEF ChainInv
      <4>2. n = Position
        BY <1>0, <2>1, <2>3, <3>1, <4>1 DEF ChainInv
      <4>3. output' = 0..((n + 1) - 1)
        BY <2>1, <3>1, <4>1, <4>2
      <4> QED BY <4>3
    <3> QED BY <2>1, <3>3, <3>4 DEF ChainInv
  <2> QED BY <2>2, <2>3
<1>2. CASE Duplicate
  <2>1. PICK t \in Epoch \cup Foreign : Processing(t) /\ Number(t) \in output
    BY <1>2 DEF Duplicate, Known
  <2>2. /\ block' = block + 1 /\ UNCHANGED <<output, epoch, num, stray>>
    BY <1>2 DEF Duplicate
  <2>3. Position' = Position + 1
    BY <1>0, <2>2 DEF Position, Wanted
  <2>4. stray # "now" => Position \in output
    BY <2>1, BlockInTurn
  <2>5. 0..(Position' - 1) = 0..(Position - 1) \cup {Position}
    BY <1>0, <2>3
  <2> QED BY <2>2, <2>4, <2>5 DEF ChainInv
<1>3. CASE NextSuperBlock
  <2>1. stray # "now" => superblock # {}
    BY <1>3 DEF NextSuperBlock, RestoreInv, PlaceInv, InPlace
  <2>2. /\ num' = num + 1 /\ block' = 0 /\ UNCHANGED <<epoch, output, stray>>
        /\ stray # "now" => block = BlocksPerSuperBlock
    BY <1>3, <2>1 DEF NextSuperBlock, BlocksIn
  <2>3. num' * BlocksPerSuperBlock = num * BlocksPerSuperBlock + BlocksPerSuperBlock
    BY <1>0, <2>2, Distributes
  <2>4. stray # "now" => Position' = Position
    BY <1>0, <2>2, <2>3 DEF Position, Wanted
  <2> QED BY <2>2, <2>4 DEF ChainInv
<1>4. CASE EndEpoch
  <2>1. /\ num = SuperBlocksPerEpoch /\ block = 0 /\ epoch' = epoch + 1 /\ num' = 0
        /\ block' = 0 /\ UNCHANGED <<output, stray>>
    BY <1>4 DEF EndEpoch, SuperBlocksWanted, RestoreInv, PlaceInv
  <2>2. Position' = Position
    BY <1>0, <2>1, EpochSeam, RestoreBounds DEF Position, Wanted, RestoreInv, DiskOK
  <2> QED BY <2>1, <2>2 DEF ChainInv
<1>5. ASSUME NEW how, Stop(how), stray = "never" => \E n \in Nat : output' = 0..(n - 1)
      PROVE  ChainInv'
  <2>1. Position' = 0
    BY <1>5, AtStart DEF Stop, Position, Wanted
  <2>2. stray' = "never" => stray = "never"
    BY <1>5 DEF Stop
  <2> QED BY <1>5, <2>1, <2>2 DEF ChainInv
<1>6. CASE Interrupt \/ Died
  <2>1. ASSUME stray = "never" PROVE \E n \in Nat : output' = 0..(n - 1)
    <3>1. PICK n \in Nat : output = 0..(n - 1)
      BY <2>1 DEF ChainInv
    <3>2. PICK height \in 0..Cardinality(output) : output' = {k \in output : k < height}
      BY <1>6, <2>1 DEF Interrupt, Died, Flushed
    <3>3. Cardinality(output) = n
      BY <3>1, FilesCounted
    <3>4. output' = 0..(height - 1) /\ height \in Nat
      BY <3>1, <3>2, <3>3
    <3> QED BY <3>4
  <2> QED BY <1>5, <1>6, <2>1 DEF Interrupt, Died
<1>7. CASE NoEpochs \/ Finish \/ NeedMore \/ Failed \/ Rejected
  <2>1. PICK how : Stop(how) /\ UNCHANGED output
    BY <1>7 DEF NoEpochs, Finish, NeedMore, Failed, Rejected
  <2> QED BY <1>5, <2>1 DEF ChainInv
<1>8. ASSUME UNCHANGED <<output, epoch, num, block>>, stray' = stray \/ stray' = "now"
      PROVE  ChainInv'
  BY <1>8 DEF ChainInv, Position, Wanted
<1>9. CASE (\E e \in 0..(MaxEpochs - 1), d \in Collected : Collect(e, d)) \/ Start \/ OpenEpoch
           \/ Ask \/ Decode \/ UNCHANGED restoreVars
  BY <1>8, <1>9 DEF Collect, Start, OpenEpoch, Ask, Decode, position, restoreVars
<1>10. CASE GotSuperBlock
  BY <1>8, <1>10 DEF GotSuperBlock, Answered, RestoreInv, PlaceInv
<1> QED BY <1>1, <1>2, <1>3, <1>4, <1>6, <1>7, <1>9, <1>10 DEF RestoreNext, Command, Step

LEMMA InitChain == RestoreInit => ChainInv
<1> SUFFICES ASSUME RestoreInit PROVE ChainInv
  OBVIOUS
<1>1. output = 0..(0 - 1)
  BY DEF RestoreInit
<1>2. Position = 0
  BY AtStart DEF RestoreInit, Position, Wanted
<1> QED BY <1>1, <1>2 DEF ChainInv

LEMMA ChainInvariantHolds == RestoreSpec => []ChainInv
<1>1. RestoreInv /\ ChainInv /\ [RestoreNext]_restoreVars => ChainInv'
  BY ChainStays
<1> QED BY <1>1, InitChain, RestoreInvariantHolds, PTL DEF RestoreSpec

\* The library is given the blocks in the order of the chain, over all runs that
\* fail, die, are interrupted or find blocks that are there already, as long as no
\* superblock is decoded under the number of another one.
THEOREM OutputHasNoGap == RestoreSpec => []OutputPrefix
<1>1. ChainInv => OutputPrefix
  BY FilesCounted DEF ChainInv, OutputPrefix
<1> QED BY <1>1, ChainInvariantHolds, PTL

\* A command that reports success, and took no superblock for another one, has
\* gone through every block of every epoch it counted, and they are in the output.
THEOREM ReportedIsRestored == RestoreSpec => RestoredComplete
<1> DEFINE Complete == stage # "idle" /\ result' = "restored" /\ stray # "now"
                         => BlocksUpTo(epochs) \subseteq output
<1>1. RestoreInv /\ ChainInv /\ [RestoreNext]_restoreVars => [Complete]_restoreVars
  <2> SUFFICES ASSUME RestoreInv, ChainInv, RestoreNext, stage # "idle", result' = "restored",
                      stray # "now"
               PROVE  BlocksUpTo(epochs) \subseteq output
    OBVIOUS
  <2>1. result = "running"
    BY DEF RestoreInv, PlaceInv
  <2>2. Finish
    BY <2>1 DEF RestoreNext, Collect, Command, NoEpochs, Start, Step, OpenEpoch, Ask, EndEpoch,
                Decode, GotSuperBlock, NeedMore, Failed, Died, NewBlock, Duplicate, Rejected,
                NextSuperBlock, Interrupt, Stop
  <2>3. stage = "open" /\ epoch = epochs /\ num = 0 /\ block = 0 /\ epoch \in Nat
    BY <2>2, RestoreBounds DEF Finish, RestoreInv, PlaceInv, CommandOK, DiskOK
  <2>4. epoch * BlocksPerEpoch \in Nat /\ BlocksPerSuperBlock \in Nat
    BY <2>3, PositionType
  <2>5. Position = epoch * BlocksPerEpoch
    BY <2>3, <2>4 DEF Position, Wanted
  <2> QED BY <2>3, <2>5 DEF ChainInv, BlocksUpTo
<1> QED BY <1>1, ChainInvariantHolds, RestoreInvariantHolds, PTL DEF RestoreSpec, RestoredComplete

\* From honest and murky droplets no superblock is ever taken for another one, if
\* every temporary file can be opened or no mixture cancels.
THEOREM GenuineNeverStray ==
  ASSUME HonestOrMurky, ~TmpStorageMayFail \/ Hollow = {}
  PROVE  RestoreSpec => [](stray = "never")
<1>1. RestoreInit => stray = "never"
  BY DEF RestoreInit
<1>2. RestoreInv /\ stray = "never" /\ [RestoreNext]_restoreVars => (stray = "never")'
  <2> SUFFICES ASSUME RestoreInv, stray = "never", [RestoreNext]_restoreVars
               PROVE  stray' = "never"
    OBVIOUS
  <2>1. CASE GotSuperBlock
    <3>1. superblock = {num} /\ num \in Epoch
      BY <2>1, AllGenuine DEF GotSuperBlock, Answered, RestoreInv, PlaceInv, DecoderInv, Sound,
                              Hollowed, TypeOK
    <3>2. num \notin Foreign
      BY <3>1, TermsAssumption
    <3>3. InPlace
      BY <3>1, <3>2 DEF InPlace, PlaceOf, Wanted
    <3> QED BY <2>1, <3>3 DEF GotSuperBlock
  <2>2. CASE ~GotSuperBlock
    BY <2>2 DEF RestoreNext, Collect, Command, NoEpochs, Start, Step, OpenEpoch, Finish, Ask,
                EndEpoch, Decode, NeedMore, Failed, Died, NewBlock, Duplicate, Rejected,
                NextSuperBlock, Interrupt, Stop, restoreVars
  <2> QED BY <2>1, <2>2
<1> QED BY <1>1, <1>2, RestoreInvariantHolds, PTL DEF RestoreSpec
------------------------------------------------------------------------------
(* "Need more droplets!" *)

\* The command only asks for more droplets when those that the epoch was opened
\* with do not determine the superblock it needs, also when murky and wrong ones
\* are among them, as long as what was recovered from them is right and was there
\* to read.
THEOREM NeedIsJustified == RestoreSpec => NeedMoreJustified
<1> DEFINE Justified == stage # "idle" /\ result' = "needMore" /\ ~missed
                          /\ (\A n \in known : recovered[n] = {n})
                        => requested \notin Abstract!Decodable
<1>1. RestoreInv /\ [RestoreNext]_restoreVars => [Justified]_restoreVars
  <2> SUFFICES ASSUME RestoreInv, RestoreNext, stage # "idle", result' = "needMore",
                      ~missed, \A n \in known : recovered[n] = {n}
               PROVE  requested \notin Abstract!Decodable
    OBVIOUS
  <2>1. result = "running"
    BY DEF RestoreInv, PlaceInv
  <2>2. NeedMore
    BY <2>1 DEF RestoreNext, Collect, Command, NoEpochs, Start, Step, OpenEpoch, Finish, Ask,
                EndEpoch, Decode, GotSuperBlock, Failed, Died, NewBlock, Duplicate, Rejected,
                NextSuperBlock, Interrupt, Stop
  <2> QED BY <2>2, NotDecodedMeansUndetermined DEF NeedMore, Answered, RestoreInv
<1> QED BY <1>1, RestoreInvariantHolds, PTL DEF RestoreSpec, NeedMoreJustified
------------------------------------------------------------------------------
(* Restore implements ChainImport. *)

LEMMA InitImport == RestoreInit => Import!Init
<1> SUFFICES ASSUME RestoreInit PROVE Import!Init
  OBVIOUS
<1>1. EpochCount(disk) = 0
  BY FS_EmptySet DEF RestoreInit, EmptyStore, EpochCount
<1>2. epochs * BlocksPerEpoch = 0
  BY AtStart, KAssumption, BlocksAssumption, ProductType DEF RestoreInit, BlocksPerEpoch
<1> QED BY <1>1, <1>2 DEF Import!Init, RestoreInit

\* Collecting a droplet can only add an epoch.
LEMMA CollectImports ==
  ASSUME RestoreInv, NEW e \in 0..(MaxEpochs - 1), NEW d \in Collected, Collect(e, d)
  PROVE  [Import!Next]_Import!vars
<1> DEFINE n == EpochCount(disk)
<1>1. n \in Nat /\ DOMAIN disk = 0..(n - 1) /\ e \in 0..n
  BY RestoreBounds DEF RestoreInv, DiskOK, Collect
<1>2. DOMAIN disk' = 0..(n - 1) \/ DOMAIN disk' = 0..((n + 1) - 1)
  <2>1. DOMAIN OpenDir(disk, e) = DOMAIN disk \cup {e}
    BY DEF OpenDir
  <2>2. DOMAIN disk' = DOMAIN OpenDir(disk, e)
    BY <2>1 DEF Collect, PutFile
  <2>3. CASE e = n
    BY <1>1, <2>1, <2>2, <2>3
  <2>4. CASE e # n
    BY <1>1, <2>1, <2>2, <2>4
  <2> QED BY <2>3, <2>4
<1>3. EpochCount(disk)' = n \/ EpochCount(disk)' = n + 1
  BY <1>1, <1>2, FilesCounted DEF EpochCount
<1>4. /\ UNCHANGED <<output, epochs, stray, result>>
      /\ (epochs * BlocksPerEpoch)' = epochs * BlocksPerEpoch
  BY DEF Collect, position
<1> QED BY <1>3, <1>4 DEF Import!Next, Import!Appear, Import!vars

LEMMA CommandImports ==
  ASSUME RestoreInv, Command
  PROVE  [Import!Next]_Import!vars
<1>1. result # "running" /\ epochs = 0 /\ UNCHANGED <<disk, output>>
  BY DEF Command, NoEpochs, Start, RestoreInv, PlaceInv
<1>5. stage = "idle" /\ stray # "now"
  BY DEF Command, NoEpochs, Start, RestoreInv, PlaceInv
<1>2. EpochCount(disk)' = EpochCount(disk) /\ EpochCount(disk) \in Nat
  BY <1>1, RestoreBounds DEF EpochCount, RestoreInv, DiskOK
<1>3. CASE NoEpochs
  <2>1. Import!Refuse
    BY <1>1, <1>2, <1>3, <1>5 DEF NoEpochs, Stop, Import!Refuse
  <2> QED BY <2>1 DEF Import!Next
<1>4. CASE Start
  <2>1. Import!Begin
    BY <1>1, <1>2, <1>4 DEF Start, Import!Begin
  <2> QED BY <2>1 DEF Import!Next
<1> QED BY <1>3, <1>4 DEF Command

\* A block that the library is given is the next one, and before the goal, unless
\* the command went astray.
LEMMA NewBlockImports ==
  ASSUME RestoreInv, ChainInv, NewBlock
  PROVE  Import!Extend
<1>1. PICK t \in Epoch \cup Foreign :
        Processing(t) /\ Number(t) \notin output /\ output' = output \cup {Number(t)}
  BY DEF NewBlock
<1>2. Number(t) \in BlocksUpTo(MaxEpochs)
  BY <1>1, BlockOfContent
<1>3. ASSUME stray # "now"
      PROVE  Number(t) \in 0..(epochs * BlocksPerEpoch - 1) /\ 0..(Number(t) - 1) \subseteq output
  <2>1. Number(t) = Position
    BY <1>1, <1>3, BlockInTurn
  <2>2. /\ epochs \in Nat /\ epoch \in Nat /\ num \in Nat /\ block \in Nat
        /\ epoch < epochs /\ num < SuperBlocksPerEpoch /\ block < BlocksPerSuperBlock
    BY <1>1, RestoreBounds, KAssumption, BlocksAssumption
       DEF Processing, RestoreInv, DiskOK, CommandOK, PlaceInv
  <2>3. Position \in BlocksUpTo(epochs)
    BY <2>2, NumberBounded DEF Position, Wanted
  <2> QED BY <1>3, <2>1, <2>3 DEF ChainInv, BlocksUpTo
<1>4. result = "running"
  BY <1>1 DEF Processing, RestoreInv, PlaceInv
<1>5. UNCHANGED <<EpochCount(disk), epochs * BlocksPerEpoch, stray, result>>
  BY DEF NewBlock, EpochCount
<1> QED BY <1>1, <1>2, <1>3, <1>4, <1>5 DEF Import!Extend, Import!IsNext

LEMMA StopImports ==
  ASSUME RestoreInv, stage # "idle", NEW how, Stop(how), UNCHANGED disk
  PROVE  Import!End(how)
<1>1. result = "running"
  BY DEF RestoreInv, PlaceInv
<1>2. (epochs * BlocksPerEpoch)' = 0
  BY KAssumption, BlocksAssumption, ProductType DEF Stop, BlocksPerEpoch
<1> QED BY <1>1, <1>2 DEF Stop, Import!End, EpochCount

LEMMA EndsImport ==
  ASSUME RestoreInv, ChainInv, NEW how \in {"interrupted", "died"}, stage # "idle", Stop(how),
         output' \in Flushed, UNCHANGED disk
  PROVE  Import!Interrupt
<1>1. Import!End(how)
  BY StopImports
<1>2. CASE stray = "never"
  <2>1. PICK n \in Nat : output = 0..(n - 1)
    BY <1>2 DEF ChainInv
  <2>2. PICK height \in 0..Cardinality(output) : output' = {k \in output : k < height}
    BY <1>2 DEF Flushed
  <2>3. Cardinality(output) = n
    BY <2>1, FilesCounted
  <2>4. height \in 0..n /\ output' = 0..(height - 1)
    BY <2>1, <2>2, <2>3
  <2>5. output' \in {{}} \cup {0..last : last \in output}
    <3>1. CASE height = 0
      BY <2>4, <3>1
    <3>2. CASE height # 0
      BY <2>1, <2>4, <3>2
    <3> QED BY <3>1, <3>2
  <2> QED BY <1>1, <1>2, <2>5 DEF Import!Interrupt, Import!Kept
<1>3. CASE stray # "never"
  BY <1>1, <1>3 DEF Import!Interrupt, Import!Kept, Flushed
<1> QED BY <1>2, <1>3

LEMMA StepImports ==
  ASSUME RestoreInv, ChainInv, Step \/ Interrupt
  PROVE  [Import!Next]_Import!vars
<1>1. CASE NewBlock
  BY <1>1, NewBlockImports DEF Import!Next
<1>2. CASE Finish
  <2>1. Import!End("restored")
    BY <1>2, StopImports DEF Finish
  <2>2. epoch = epochs /\ num = 0 /\ block = 0 /\ epoch \in Nat /\ output' = output
    BY <1>2, RestoreBounds DEF Finish, RestoreInv, PlaceInv, CommandOK, DiskOK
  <2>3. epoch * BlocksPerEpoch \in Nat /\ BlocksPerSuperBlock \in Nat
    BY <2>2, PositionType
  <2>4. Position = epochs * BlocksPerEpoch
    BY <2>2, <2>3 DEF Position, Wanted
  <2>5. stray = "now" \/ 0..(epochs * BlocksPerEpoch - 1) \subseteq output
    BY <2>4 DEF ChainInv
  <2> QED BY <2>1, <2>2, <2>5 DEF Import!Next, Import!Succeed
<1>3. CASE NeedMore \/ Failed \/ Rejected
  <2>1. PICK how \in {"needMore", "failed", "rejected"} :
          stage # "idle" /\ Stop(how) /\ UNCHANGED <<disk, output>>
    BY <1>3 DEF NeedMore, Failed, Rejected, Answered, Refused, Processing
  <2>2. Import!End(how)
    BY <2>1, StopImports
  <2> QED BY <2>1, <2>2 DEF Import!Next, Import!GiveUp
<1>4. CASE Interrupt \/ Died
  BY <1>4, EndsImport DEF Interrupt, Died, Import!Next
<1>5. CASE OpenEpoch
  <2>1. epoch \in 0..(EpochCount(disk) - 1)
    BY <1>5, RestoreBounds DEF OpenEpoch, RestoreInv, DiskOK, CommandOK
  <2>2. EpochCount(disk)' = EpochCount(disk)
    BY <1>5, <2>1, OpenExisting DEF OpenEpoch, RestoreInv
  <2>3. UNCHANGED <<output, stray, result>> /\ (epochs * BlocksPerEpoch)' = epochs * BlocksPerEpoch
    BY <1>5 DEF OpenEpoch, position
  <2> QED BY <2>2, <2>3 DEF Import!vars
<1>6. ASSUME UNCHANGED <<disk, output, result, epochs>>
      PROVE  /\ UNCHANGED <<EpochCount(disk), output, result>>
             /\ (epochs * BlocksPerEpoch)' = epochs * BlocksPerEpoch
  BY <1>6 DEF EpochCount
<1>7. CASE Ask \/ EndEpoch \/ Decode \/ Duplicate \/ NextSuperBlock
  <2>1. UNCHANGED <<disk, output, result, epochs, stray>>
    BY <1>7 DEF Ask, EndEpoch, Decode, Duplicate, NextSuperBlock, position
  <2> QED BY <1>6, <2>1 DEF Import!vars
<1>8. CASE GotSuperBlock
  <2>1. /\ UNCHANGED <<disk, output, result, epochs>> /\ result = "running"
        /\ stray' = stray \/ stray' = "now"
    BY <1>8 DEF GotSuperBlock, Answered, RestoreInv, PlaceInv
  <2> QED BY <1>6, <2>1 DEF Import!vars, Import!Next, Import!GoAstray
<1> QED BY <1>1, <1>2, <1>3, <1>4, <1>5, <1>7, <1>8 DEF Step

\* Whatever the droplets and the failures, the library is given the blocks of the
\* chain one by one and in order, never one beyond the epochs the command has
\* counted, and success is reported exactly there.
THEOREM RestoreImplementsImport == RestoreSpec => ImplementsImport
<1>1. RestoreInv /\ ChainInv /\ [RestoreNext]_restoreVars => [Import!Next]_Import!vars
  <2> SUFFICES ASSUME RestoreInv, ChainInv, [RestoreNext]_restoreVars
               PROVE  [Import!Next]_Import!vars
    OBVIOUS
  <2>1. CASE UNCHANGED restoreVars
    BY <2>1 DEF restoreVars, position, Import!vars, EpochCount
  <2> QED BY <2>1, CollectImports, CommandImports, StepImports DEF RestoreNext
<1> QED BY <1>1, InitImport, ChainInvariantHolds, RestoreInvariantHolds, PTL
        DEF RestoreSpec, ImplementsImport, Import!Spec
------------------------------------------------------------------------------
(* A command that has enough droplets. *)

\* The decoder only fails where a storage does, and only dies of a droplet whose
\* numbers are too large.
FailInv ==
  /\ outcome = "failed" => TmpStorageMayFail \/ \E i \in 0..(count - 1) : ~droplets[i].readable
  /\ Genuine /\ pc = "dead" => \E i \in 0..(count - 1) : TooLarge(droplets[i])

LEMMA FailInvariant ==
  TypeOK /\ (Genuine => Sound) /\ FailInv /\ [Next]_vars => FailInv'
<1> SUFFICES ASSUME TypeOK, Genuine => Sound, FailInv, [Next]_vars PROVE FailInv'
  OBVIOUS
<1>1. UNCHANGED <<count, droplets>>
  BY DEF Next, Call, LookupHit, LookupMiss, EndPass, GiveUp, SkipDroplet, ReadFails,
         NotPeelable, TmpStorageFails, Dies, Reject, Recover, stores, vars
<1>2. Genuine' = Genuine
  BY <1>1 DEF Genuine, Honest, Murky
<1>3. CASE ReadFails
  <2>1. index \in 0..(count - 1) /\ ~droplets[index].readable /\ pc' = "ready"
    BY <1>3, BoundAssumption DEF ReadFails, Visit, Scan, TypeOK, Return
  <2> QED BY <1>1, <2>1 DEF FailInv
<1>4. CASE TmpStorageFails
  BY <1>1, <1>4 DEF TmpStorageFails, Return, FailInv
<1>5. CASE Dies
  <2>1. PICK opened \in Opened(index) : XorOut(index, opened) \cap Huge # {}
    BY <1>5 DEF Dies
  <2>2. index \in 0..(count - 1)
    BY <1>5, BoundAssumption DEF Dies, OneUnknown, Visit, Scan, TypeOK
  <2>3. ASSUME Genuine PROVE TooLarge(droplets[index])
    <3>1. PICK t \in Huge : t \in XorOut(index, opened)
      BY <2>1
    <3>2. t \notin Epoch /\ t \notin Used(opened)
      BY <3>1, TermsAssumption, OpenedType DEF Used, TypeOK
    <3>3. t \in droplets[index].payload
      BY <2>3, <3>1, <3>2, XorOutOfSound DEF Sound, RecoveredSound
    <3> QED BY <3>3 DEF TooLarge
  <2> QED BY <1>1, <1>2, <1>5, <2>2, <2>3 DEF Dies, FailInv, TooLarge
<1>6. CASE (\E s \in Epoch : Call(s)) \/ LookupHit \/ GiveUp \/ LookupMiss \/ EndPass
           \/ SkipDroplet \/ NotPeelable \/ Reject \/ Recover \/ UNCHANGED vars
  <2>1. (outcome' = outcome \/ outcome' # "failed") /\ (pc' = pc \/ pc' # "dead")
    BY <1>6 DEF Call, LookupHit, GiveUp, LookupMiss, EndPass, SkipDroplet, NotPeelable, Reject,
                Recover, Return, vars
  <2> QED BY <1>1, <1>2, <2>1 DEF FailInv, TooLarge
<1> QED BY <1>3, <1>4, <1>5, <1>6 DEF Next

LEMMA FailInvariantHolds == RestoreSpec => []FailInv
<1>1. RestoreInit => FailInv
  BY DEF RestoreInit, FailInv
<1>2. RestoreInv /\ FailInv /\ [RestoreNext]_restoreVars => FailInv'
  <2> SUFFICES ASSUME RestoreInv, FailInv, [RestoreNext]_restoreVars PROVE FailInv'
    OBVIOUS
  <2>1. ASSUME NEW files, NewDecoder(files) PROVE FailInv'
    BY <2>1 DEF NewDecoder, FailInv
  <2>2. ASSUME [Next]_vars PROVE FailInv'
    BY <2>2, FailInvariant DEF RestoreInv, DecoderInv
  <2>3. CASE NoEpochs \/ OpenEpoch \/ Finish \/ NeedMore \/ Failed \/ Rejected \/ Interrupt \/ Died
    BY <2>1, <2>3 DEF NoEpochs, OpenEpoch, Finish, NeedMore, Failed, Rejected, Interrupt, Died,
                      Stop
  <2>4. CASE Ask
    <3>1. num \in Epoch
      BY <2>4, KAssumption DEF Ask, SuperBlocksWanted, Epoch, RestoreInv, CommandOK
    <3> QED BY <2>2, <2>4, <3>1 DEF Ask, Next
  <2>5. CASE Decode
    BY <2>2, <2>5 DEF Decode, Running
  <2>6. CASE UNCHANGED decoder
    BY <2>2, <2>6 DEF decoder
  <2> QED BY <2>3, <2>4, <2>5, <2>6
          DEF RestoreNext, Collect, Command, Start, Step, EndEpoch, GotSuperBlock, NewBlock,
              Duplicate, NextSuperBlock, restoreVars
<1> QED BY <1>1, <1>2, RestoreInvariantHolds, PTL DEF RestoreSpec

\* With droplets that can be read, do not mislead and determine the epoch, a
\* command is only stopped by an interruption, whatever earlier runs have left.
THEOREM SufficientDropletsSuffice == RestoreSpec => SufficientSuffices
<1> DEFINE Suffices == stage # "idle" /\ Sufficient /\ stray # "now"
                         => result' \in {"running", "restored", "interrupted"}
<1>1. RestoreInv /\ ChainInv /\ FailInv /\ [RestoreNext]_restoreVars => [Suffices]_restoreVars
  <2> SUFFICES ASSUME RestoreInv, ChainInv, FailInv, RestoreNext, stage # "idle", Sufficient,
                      stray # "now"
               PROVE  result' \in {"running", "restored", "interrupted"}
    OBVIOUS
  <2>1. result = "running" /\ TypeOK
    BY DEF RestoreInv, PlaceInv, DecoderInv
  <2>2. Genuine /\ \A i \in 0..(count - 1) : droplets[i].readable /\ ~TooLarge(droplets[i])
    BY <2>1 DEF Sufficient, Harmless, Wrong, Genuine, TypeOK
  <2>3. Sound /\ (\A n \in known : recovered[n] = {n}) /\ ~missed
    BY <2>2 DEF Sufficient, RestoreInv, DecoderInv, MissInv, Sound, Hollowed
  <2>4. ~NeedMore
    BY <2>1, <2>3, NotDecodedMeansUndetermined DEF NeedMore, Answered, RestoreInv, Sufficient, TypeOK
  <2>5. ~Failed /\ ~Died
    BY <2>2 DEF Failed, Died, Answered, FailInv, Sufficient
  <2>6. ~Rejected
    <3> SUFFICES ASSUME NEW t \in Epoch \cup Foreign, Processing(t), MayReject(t) PROVE FALSE
      BY DEF Rejected, Refused
    <3>1. t = num /\ num \in Epoch
      BY <2>3 DEF Processing, RestoreInv, PlaceInv, DecoderInv, Sound, Sufficient, Hollowed, TypeOK
    <3>2. t \notin BadBodies
      BY <3>1, TermsAssumption, PlaceAssumption
    <3>3. Number(t) = Position
      BY BlockInTurn
    <3>4. epoch \in Nat /\ num \in Nat /\ block \in Nat
      BY KAssumption, BlocksAssumption, RestoreBounds DEF RestoreInv, DiskOK, CommandOK
    <3>5. Position \in Nat
      BY <3>4, PositionType
    <3> QED BY <3>2, <3>3, <3>5 DEF MayReject, ChainInv
  <2>7. CASE Finish \/ Interrupt
    BY <2>7 DEF Finish, Interrupt, Stop
  <2>8. CASE result' = result
    BY <2>1, <2>8
  <2> QED BY <2>4, <2>5, <2>6, <2>7, <2>8
          DEF RestoreNext, Collect, Command, NoEpochs, Start, Step, OpenEpoch, Ask, EndEpoch,
              Decode, GotSuperBlock, NewBlock, Duplicate, NextSuperBlock
<1> QED BY <1>1, FailInvariantHolds, ChainInvariantHolds, RestoreInvariantHolds, PTL
        DEF RestoreSpec, SufficientSuffices
------------------------------------------------------------------------------
(* A command takes finitely many steps. *)

Pairs == Nat \X Nat
SmallerTriple == LexPairOrdering(Smaller, SmallerPair, Nat, Pairs)
CommandOrder == LexPairOrdering(Smaller, SmallerTriple, Nat, Nat \X Pairs)

LEMMA CommandOrderIsWellFounded == IsWellFoundedOn(CommandOrder, Nat \X (Nat \X Pairs))
<1>1. IsWellFoundedOn(Smaller, Nat)
  BY NatLessThanWellFounded DEF Smaller
<1>2. IsWellFoundedOn(SmallerTriple, Nat \X Pairs)
  BY <1>1, SmallerPairs, WFLexPairOrdering DEF SmallerTriple, Pairs
<1> QED BY <1>1, <1>2, WFLexPairOrdering DEF CommandOrder

LEMMA CommandOrderHas ==
  ASSUME NEW a \in Nat, NEW b \in Nat, NEW c \in Nat, NEW d \in Nat,
         NEW p \in Pairs, NEW q \in Pairs,
         \/ a < c
         \/ a = c /\ b < d
         \/ a = c /\ b = d /\ <<p, q>> \in SmallerPair
  PROVE  <<<<a, <<b, p>>>>, <<c, <<d, q>>>>>> \in CommandOrder
<1>1. \A m, n \in Nat : m < n => <<m, n>> \in Smaller
  BY DEF Smaller, OpToRel
<1>2. b < d \/ (b = d /\ <<p, q>> \in SmallerPair) => <<<<b, p>>, <<d, q>>>> \in SmallerTriple
  BY <1>1 DEF SmallerTriple, LexPairOrdering
<1> QED BY <1>1, <1>2 DEF CommandOrder, LexPairOrdering

\* What a command has left: epochs, superblocks and the steps with each, and
\* what is left of a call or of the blocks of a superblock.
EpochsLeft == IF stage = "idle" THEN 0 ELSE epochs - epoch + 1
SuperBlocksLeft ==
  IF stage = "idle" THEN 0
  ELSE IF stage = "open" THEN 4 * (SuperBlocksPerEpoch + 1)
  ELSE 4 * (SuperBlocksPerEpoch - num)
         + (IF stage = "ask" THEN 3 ELSE IF stage = "wait" THEN 2 ELSE 1)
WithinLeft == IF stage = "wait" THEN CallVariant
              ELSE IF stage = "process" THEN <<BlocksIn(superblock) - block, 0>>
              ELSE <<0, 0>>
CommandVariant == <<EpochsLeft, <<SuperBlocksLeft, WithinLeft>>>>
Lowers == <<CommandVariant', CommandVariant>> \in CommandOrder

LEMMA LeftInRange ==
  RestoreInv => EpochsLeft \in Nat /\ SuperBlocksLeft \in Nat /\ WithinLeft \in Pairs
<1> SUFFICES ASSUME RestoreInv
             PROVE  EpochsLeft \in Nat /\ SuperBlocksLeft \in Nat /\ WithinLeft \in Pairs
  OBVIOUS
<1>1. /\ epochs \in Nat /\ epoch \in 0..epochs /\ num \in 0..SuperBlocksPerEpoch
      /\ SuperBlocksPerEpoch \in Nat
  BY RestoreBounds, KAssumption DEF RestoreInv, DiskOK, CommandOK
<1>2. EpochsLeft \in Nat
  BY <1>1 DEF EpochsLeft
<1>3. SuperBlocksLeft \in Nat
  BY <1>1 DEF SuperBlocksLeft
<1>4. CallVariant \in Pairs
  BY VariantType DEF RestoreInv, DecoderInv, Pairs
<1>5. stage = "process" => BlocksIn(superblock) - block \in Nat
  BY BlocksAssumption DEF RestoreInv, PlaceInv, CommandOK, BlocksIn
<1>6. WithinLeft \in Pairs
  BY <1>4, <1>5 DEF WithinLeft, Pairs
<1> QED BY <1>2, <1>3, <1>6

\* The three ways to get on: an epoch further, a superblock or a step further,
\* or further within a call or a superblock.
Further == \/ EpochsLeft' < EpochsLeft
           \/ EpochsLeft' = EpochsLeft /\ SuperBlocksLeft' < SuperBlocksLeft
           \/ /\ EpochsLeft' = EpochsLeft /\ SuperBlocksLeft' = SuperBlocksLeft
              /\ <<WithinLeft', WithinLeft>> \in SmallerPair

LEMMA StepGetsFurther ==
  ASSUME RestoreInv, RestoreInv', Step \/ Interrupt PROVE Further
<1>0. /\ epochs \in Nat /\ epoch \in 0..epochs /\ num \in 0..SuperBlocksPerEpoch
      /\ SuperBlocksPerEpoch \in Nat
  BY RestoreBounds, KAssumption DEF RestoreInv, DiskOK, CommandOK
<1>1. CASE Finish \/ NeedMore \/ Failed \/ Rejected \/ Interrupt \/ Died
  <2>1. stage # "idle" /\ stage' = "idle"
    BY <1>1 DEF Finish, NeedMore, Failed, Rejected, Refused, Interrupt, Died, Stop, Answered,
                Processing
  <2> QED BY <1>0, <2>1 DEF Further, EpochsLeft
<1>2. CASE OpenEpoch
  BY <1>0, <1>2 DEF OpenEpoch, position, Further, EpochsLeft, SuperBlocksLeft, RestoreInv, PlaceInv
<1>3. CASE Ask
  BY <1>0, <1>3 DEF Ask, position, Further, EpochsLeft, SuperBlocksLeft
<1>4. CASE EndEpoch
  BY <1>0, <1>4 DEF EndEpoch, Further, EpochsLeft, RestoreInv, PlaceInv
<1>5. CASE Decode
  <2>1. <<CallVariant', CallVariant>> \in SmallerPair
    BY <1>5, RunningLowers DEF Decode, RestoreInv, DecoderInv
  <2>2. WithinLeft' = CallVariant' /\ WithinLeft = CallVariant
    BY <1>5 DEF Decode, WithinLeft
  <2>3. EpochsLeft' = EpochsLeft /\ SuperBlocksLeft' = SuperBlocksLeft
    BY <1>5 DEF Decode, position, EpochsLeft, SuperBlocksLeft
  <2> QED BY <2>1, <2>2, <2>3 DEF Further
<1>6. CASE GotSuperBlock
  BY <1>0, <1>6 DEF GotSuperBlock, Answered, Further, EpochsLeft, SuperBlocksLeft
<1>7. CASE NewBlock \/ Duplicate
  <2>1. /\ stage = "process" /\ stage' = "process" /\ block' = block + 1
        /\ block < BlocksIn(superblock)
        /\ UNCHANGED <<epochs, epoch, num, decoder>>
    BY <1>7 DEF NewBlock, Duplicate, Known, Processing, BlocksIn
  <2>2. BlocksIn(superblock)' = BlocksIn(superblock)
    BY <2>1 DEF BlocksIn, decoder, vars
  <2>3. BlocksIn(superblock) \in Nat /\ block \in Nat
    BY BlocksAssumption DEF BlocksIn, RestoreInv, CommandOK
  <2>4. /\ BlocksIn(superblock) - block \in Nat /\ BlocksIn(superblock) - (block + 1) \in Nat
        /\ BlocksIn(superblock) - (block + 1) < BlocksIn(superblock) - block
    BY <2>1, <2>3
  <2>5. <<WithinLeft', WithinLeft>> \in SmallerPair
    BY <2>1, <2>2, <2>4, SmallerPairs DEF WithinLeft
  <2>6. EpochsLeft' = EpochsLeft /\ SuperBlocksLeft' = SuperBlocksLeft
    BY <2>1 DEF EpochsLeft, SuperBlocksLeft
  <2> QED BY <2>5, <2>6 DEF Further
<1>8. CASE NextSuperBlock
  <2>1. num < SuperBlocksPerEpoch
    BY <1>8 DEF NextSuperBlock, RestoreInv, PlaceInv
  <2> QED BY <1>0, <1>8, <2>1 DEF NextSuperBlock, Further, EpochsLeft, SuperBlocksLeft
<1> QED BY <1>1, <1>2, <1>3, <1>4, <1>5, <1>6, <1>7, <1>8 DEF Step

LEMMA StepLowers ==
  ASSUME RestoreInv, RestoreInv', Step \/ Interrupt
  PROVE  Lowers
<1>1. EpochsLeft \in Nat /\ SuperBlocksLeft \in Nat /\ WithinLeft \in Pairs
  BY LeftInRange
<1>2. EpochsLeft' \in Nat /\ SuperBlocksLeft' \in Nat /\ WithinLeft' \in Pairs
  <2>1. (RestoreInv => EpochsLeft \in Nat /\ SuperBlocksLeft \in Nat /\ WithinLeft \in Pairs)'
    BY LeftInRange, PTL
  <2> QED BY <2>1
<1>3. Further
  BY StepGetsFurther
<1> QED BY <1>1, <1>2, <1>3, CommandOrderHas DEF Further, CommandVariant, Lowers

\* Every step of a command lowers its variant in a well-founded order, and the
\* droplets that arrive meanwhile do not raise it: no restore goes on for ever,
\* whatever its droplets are.
THEOREM CommandsAreFinite ==
  /\ IsWellFoundedOn(CommandOrder, Nat \X (Nat \X Pairs))
  /\ RestoreSpec => [](CommandVariant \in Nat \X (Nat \X Pairs))
  /\ RestoreSpec => [][Step => Lowers]_restoreVars
  /\ RestoreSpec => [][stage # "idle" => UNCHANGED CommandVariant \/ Lowers]_restoreVars
<1> DEFINE A == (Step => Lowers) /\ (stage # "idle" => UNCHANGED CommandVariant \/ Lowers)
<1>1. RestoreInv => CommandVariant \in Nat \X (Nat \X Pairs)
  BY LeftInRange DEF CommandVariant
<1>2. RestoreInv /\ RestoreInv' /\ [RestoreNext]_restoreVars => [A]_restoreVars
  <2> SUFFICES ASSUME RestoreInv, RestoreInv', RestoreNext PROVE A
    OBVIOUS
  <2>1. CASE Step \/ Interrupt
    BY <2>1, StepLowers
  <2>2. CASE ~Step /\ \E e \in 0..(MaxEpochs - 1), d \in Collected : Collect(e, d)
    <3>1. UNCHANGED <<stage, epochs, epoch, num, block, decoder>>
      BY <2>2 DEF Collect, position
    <3>2. UNCHANGED <<EpochsLeft, SuperBlocksLeft, CallVariant, BlocksIn(superblock) - block>>
      BY <3>1 DEF EpochsLeft, SuperBlocksLeft, CallVariant, TurnsLeft, BlocksIn, decoder, vars
    <3>3. UNCHANGED CommandVariant
      BY <3>1, <3>2 DEF CommandVariant, WithinLeft
    <3> QED BY <2>2, <3>3
  <2>3. CASE ~Step /\ Command
    BY <2>3 DEF Command, NoEpochs, Start
  <2> QED BY <2>1, <2>2, <2>3 DEF RestoreNext
<1>3. RestoreSpec => [](CommandVariant \in Nat \X (Nat \X Pairs))
  BY <1>1, RestoreInvariantHolds, PTL
<1>4. [A]_restoreVars => [Step => Lowers]_restoreVars
  OBVIOUS
<1>5. [A]_restoreVars => [stage # "idle" => UNCHANGED CommandVariant \/ Lowers]_restoreVars
  OBVIOUS
<1>6. RestoreSpec => [][Step => Lowers]_restoreVars
  BY <1>2, <1>4, RestoreInvariantHolds, PTL DEF RestoreSpec
<1>7. RestoreSpec => [][stage # "idle" => UNCHANGED CommandVariant \/ Lowers]_restoreVars
  BY <1>2, <1>5, RestoreInvariantHolds, PTL DEF RestoreSpec
<1> QED BY <1>3, <1>6, <1>7, CommandOrderIsWellFounded
==============================================================================

-------------------------- MODULE DropletNodeProofs --------------------------
(***************************************************************************)
(* Proofs about DropletNode: a purge among commands that die and are       *)
(* resumed, for every chain and every configuration.                       *)
(***************************************************************************)
EXTENDS DropletNode, RoundsProofs
------------------------------------------------------------------------------
\* A purge leaves the progress file of a run that died.  Until it is removed or
\* written again there is at most one epoch, and no run resumes.
Stale ==
  /\ NoEpochMissing /\ EpochCount(store) <= 1
  /\ pc \in {"idle", "begin", "scan", "open", "create", "write", "truncateCount", "removeCount"}
  /\ pc \in {"scan", "open", "create", "write", "truncateCount"} => epoch = 0
  /\ pc \in {"create", "write", "truncateCount"} => epoch \in DOMAIN store

PurgeInv ==
  /\ purging \in {"no", "open", "remove", "done"}
  /\ purgeCount \in Nat /\ purgeEpoch \in Nat
  /\ Purging => /\ pc = "idle"
                /\ purgeEpoch <= purgeCount
                /\ DOMAIN store = purgeEpoch..(purgeCount - 1)
  /\ purging = "remove" => purgeEpoch < purgeCount
  /\ purging = "done" => pc = "idle" /\ DOMAIN store = {}
  /\ ~Purging => EpochInv \/ Stale

NodeTypeOK == TypeOK /\ StepOK

Purge == StartPurge \/ OpenPurged \/ RemovePurged \/ PurgeDone
------------------------------------------------------------------------------
(* The epochs between two purges. *)

LEMMA StaleInvariant ==
  ASSUME TypeOK, StepOK, Stale, [Next]_vars
  PROVE  EpochInv' \/ Stale'
<1>0. /\ EpochCount(store) \in Nat /\ EpochCount(store) <= 1
      /\ DOMAIN store = 0..(EpochCount(store) - 1)
  BY EpochCountType DEF TypeOK, Stale, NoEpochMissing
<1> USE DEF chainVars, files, progress, encoder, control
<1>1. ASSUME store' = store,
             pc' \in {"idle", "begin", "scan", "open", "create", "write", "truncateCount",
                      "removeCount"},
             pc' \in {"scan", "open", "create", "write", "truncateCount"} => epoch' = 0,
             pc' \in {"create", "write", "truncateCount"} => epoch' \in DOMAIN store
      PROVE  Stale'
  BY <1>0, <1>1 DEF Stale, NoEpochMissing
<1>2. CASE BeginFromScratch
  BY <1>1, <1>2 DEF BeginFromScratch, BeginAt
<1>3. ~Resume
  BY <1>0 DEF Resume
<1>4. CASE AddBlock
  <2>1. /\ store' = store /\ pc = "scan"
        /\ pc' \in {"scan", "open", "removeCount"}
        /\ pc' \in {"scan", "open"} => epoch' = epoch
    BY <1>4 DEF AddBlock, NextBlock
  <2> QED BY <1>1, <2>1 DEF Stale
<1>5. CASE OpenStorage
  <2>1. /\ store' = OpenDir(store, 0) /\ epoch' = 0 /\ pc' = "create"
    BY <1>5 DEF OpenStorage, Stale
  <2>2. DOMAIN store' = 0..0
    BY <1>0, <2>1 DEF OpenDir
  <2>3. Cardinality({0}) = 1 /\ 0..0 = {0}
    BY FS_Singleton
  <2>4. EpochCount(store)' = 1
    BY <2>2, <2>3 DEF EpochCount
  <2>5. DOMAIN store' = 0..(EpochCount(store)' - 1)
    BY <2>2, <2>4
  <2> QED BY <2>1, <2>2, <2>4, <2>5 DEF Stale, NoEpochMissing
<1>6. CASE CreateDroplet \/ WriteDroplet
  <2>1. /\ DOMAIN store' = DOMAIN store /\ epoch' = epoch /\ pc' \in {"create", "write"}
        /\ pc \in {"create", "write"}
    BY <1>6 DEF CreateDroplet, WriteDroplet, CreateFile, PutFile
  <2> QED BY <1>0, <2>1 DEF Stale, NoEpochMissing, EpochCount
<1>7. CASE FinishEpoch
  <2>1. store' = store /\ epoch' = epoch /\ pc = "create" /\ pc' \in {"truncateCount", "removeCount"}
    BY <1>7 DEF FinishEpoch
  <2> QED BY <1>1, <2>1 DEF Stale
<1>8. CASE TruncateCount
  <2>1. /\ store' = store /\ epoch' = epoch /\ epochsCountFile' = Empty /\ pc' = "writeCount"
        /\ epoch \in DOMAIN store
    BY <1>8 DEF TruncateCount, Stale
  <2> QED BY <1>0, <2>1 DEF EpochInv, NoEpochMissing, Empty
<1>9. CASE RemoveCount
  <2>1. store' = store /\ epochsCountFile' = Missing /\ pc' = "removeBlock"
    BY <1>9 DEF RemoveCount
  <2> QED BY <1>0, <2>1 DEF EpochInv, NoEpochMissing, Missing, Encoding
<1>10. ~(WriteCount \/ TruncateBlock \/ WriteBlock \/ RemoveBlock)
  BY DEF WriteCount, TruncateBlock, WriteBlock, RemoveBlock, Stale
<1>11. CASE \/ ChainGrows \/ (\E cmd \in {"generate", "generateAll"} : Start(cmd)) \/ ResumeFails
            \/ Crash
  <2>1. store' = store /\ pc' \in {"idle", "begin"}
    BY <1>11 DEF ChainGrows, Start, ResumeFails, Crash, Stop
  <2> QED BY <1>1, <2>1
<1>12. CASE UNCHANGED vars
  BY <1>1, <1>12 DEF vars, Stale
<1> QED BY <1>2, <1>3, <1>4, <1>5, <1>6, <1>7, <1>8, <1>9, <1>10, <1>11, <1>12 DEF Next, Step

\* Only a new command leaves the idle state or touches the store.
LEMMA IdleStays ==
  ASSUME pc = "idle", Next, commands' = commands, TypeOK
  PROVE  pc' = "idle" /\ store' = store
<1>1. ~\E cmd \in {"generate", "generateAll"} : Start(cmd)
  BY DEF Start, TypeOK
<1>2. ~Step
  BY DEF Step, BeginFromScratch, Resume, ResumeFails, AddBlock, OpenStorage, CreateDroplet,
         WriteDroplet, FinishEpoch, TruncateCount, WriteCount, TruncateBlock, WriteBlock,
         RemoveCount, RemoveBlock
<1>3. ChainGrows \/ Crash
  BY <1>1, <1>2 DEF Next
<1> QED BY <1>3 DEF ChainGrows, Crash, Stop, files
------------------------------------------------------------------------------
(* The steps of a purge. *)

\* A purge never makes a directory: those it opens are there.
LEMMA PurgeStep ==
  ASSUME NodeTypeOK, PurgeInv, Purge
  PROVE  /\ pc = "idle" /\ pc' = "idle"
         /\ epochsCountFile' = epochsCountFile
         /\ DOMAIN store' \subseteq DOMAIN store
         /\ \A e \in DOMAIN store' : store'[e] = store[e]
<1> USE DEF files, control, vars
<1>1. CASE StartPurge \/ PurgeDone
  BY <1>1 DEF StartPurge, PurgeDone, PurgeInv, Purging
<1>2. CASE OpenPurged
  <2>1. purgeEpoch \in DOMAIN store
    BY <1>2 DEF OpenPurged, MoreToPurge, PurgeInv, Purging
  <2> QED BY <1>2, <2>1 DEF OpenPurged, OpenDir, PurgeInv, Purging
<1>3. CASE RemovePurged
  BY <1>3 DEF RemovePurged, PurgeInv, Purging
<1> QED BY <1>1, <1>2, <1>3 DEF Purge

LEMMA PurgeType ==
  ASSUME NodeTypeOK, PurgeInv, Purge PROVE NodeTypeOK'
<1>1. StoreTypeOK(store')
  <2>1. DOMAIN store' \subseteq DOMAIN store /\ \A e \in DOMAIN store' : store'[e] = store[e]
    BY PurgeStep
  <2> QED BY <2>1, FS_Subset DEF StoreTypeOK, TypeOK, NodeTypeOK
<1>2. pc = "idle" /\ pc' = "idle" /\ outcome' \in {outcome, "none"}
  BY PurgeStep DEF Purge, StartPurge, OpenPurged, RemovePurged, PurgeDone, control, vars
<1>3. UNCHANGED <<chain, tip, epochsCountFile, lastBlockFile, progress, encoder, command, rounds,
                  resumed, commands, crashes>>
  BY DEF Purge, StartPurge, OpenPurged, RemovePurged, PurgeDone, chainVars, files, control, bounds,
         vars
<1> QED BY <1>1, <1>2, <1>3 DEF NodeTypeOK, TypeOK, StepOK, Encoding, progress, encoder

LEMMA PurgeInvariant ==
  ASSUME NodeTypeOK, PurgeInv, Purge PROVE PurgeInv'
<1>0. DOMAIN store' \subseteq DOMAIN store /\ pc = "idle" /\ pc' = "idle"
  BY PurgeStep
<1>1. CASE StartPurge
  <2>1. /\ store' = store /\ purging' = "open" /\ purgeCount' = EpochCount(store) /\ purgeEpoch' = 0
        /\ NoEpochMissing
    BY <1>1 DEF StartPurge, PurgeInv, Purging, EpochInv, Stale, files
  <2>2. EpochCount(store) \in Nat
    BY EpochCountType DEF NodeTypeOK, TypeOK
  <2> QED BY <1>0, <2>1, <2>2 DEF PurgeInv, Purging, NoEpochMissing
<1>2. CASE OpenPurged
  <2>1. /\ purging = "open" /\ purgeEpoch < purgeCount /\ purging' = "remove"
        /\ purgeCount' = purgeCount /\ purgeEpoch' = purgeEpoch
        /\ store' = OpenDir(store, purgeEpoch)
    BY <1>2 DEF OpenPurged, MoreToPurge
  <2>2. DOMAIN store' = DOMAIN store
    BY <1>0, <2>1 DEF OpenDir
  <2> QED BY <1>0, <2>1, <2>2 DEF PurgeInv, Purging
<1>3. CASE RemovePurged
  <2>1. /\ purging = "remove" /\ purging' = "open"
        /\ purgeCount' = purgeCount /\ purgeEpoch' = purgeEpoch + 1
        /\ DOMAIN store' = DOMAIN store \ {purgeEpoch}
    BY <1>3 DEF RemovePurged
  <2>2. /\ DOMAIN store = purgeEpoch..(purgeCount - 1) /\ purgeEpoch < purgeCount
        /\ purgeEpoch \in Nat /\ purgeCount \in Nat
    BY <2>1 DEF PurgeInv, Purging
  <2>3. DOMAIN store' = (purgeEpoch + 1)..(purgeCount - 1)
    BY <2>1, <2>2
  <2> QED BY <1>0, <2>1, <2>2, <2>3 DEF PurgeInv, Purging
<1>4. CASE PurgeDone
  <2>1. /\ purging = "open" /\ ~(purgeEpoch < purgeCount) /\ purging' = "done"
        /\ purgeCount' = purgeCount /\ purgeEpoch' = purgeEpoch /\ store' = store
        /\ pc' = pc /\ epochsCountFile' = epochsCountFile
    BY <1>4 DEF PurgeDone, MoreToPurge, vars, files
  <2>2. DOMAIN store = {}
    BY <2>1 DEF PurgeInv, Purging
  <2>3. EpochCount(store') = 0 /\ DOMAIN store' = {}
    BY <2>1, <2>2, FS_EmptySet DEF EpochCount
  <2>4. Stale'
    BY <1>0, <2>3 DEF Stale, NoEpochMissing
  <2> QED BY <1>0, <2>1, <2>3, <2>4 DEF PurgeInv, Purging
<1> QED BY <1>1, <1>2, <1>3, <1>4 DEF Purge
------------------------------------------------------------------------------
LEMMA OtherInvariant ==
  ASSUME NodeTypeOK, PurgeInv, OtherCommand PROVE PurgeInv'
<1>1. ~Purging /\ Next /\ (EpochInv \/ Stale)
  BY DEF OtherCommand, PurgeInv
<1>2. purging \in {"no", "done"}
  BY <1>1 DEF PurgeInv, Purging
<1>3. EpochInv' \/ Stale'
  BY <1>1, EpochInvariant, StaleInvariant DEF NodeTypeOK
<1>4. purging' \in {"no", "done"} /\ purgeCount' = purgeCount /\ purgeEpoch' = purgeEpoch
  BY <1>2 DEF OtherCommand
<1>5. purging' = "done" => pc' = "idle" /\ DOMAIN store' = {}
  <2>1. SUFFICES ASSUME purging' = "done" PROVE pc' = "idle" /\ DOMAIN store' = {}
    OBVIOUS
  <2>2. commands' = commands /\ purging = "done"
    BY <2>1 DEF OtherCommand
  <2>3. pc = "idle" /\ DOMAIN store = {}
    BY <2>2 DEF PurgeInv
  <2> QED BY <1>1, <2>2, <2>3, IdleStays DEF NodeTypeOK
<1> QED BY <1>3, <1>4, <1>5 DEF PurgeInv, Purging

LEMMA NodeInvInit == NodeInit => NodeTypeOK /\ PurgeInv /\ RequestInv
BY TypeInit, EpochInit, RequestInit DEF NodeInit, NodeTypeOK, PurgeInv, Purging

LEMMA NodeInvariant ==
  NodeTypeOK /\ PurgeInv /\ RequestInv /\ [NodeNext]_nodeVars =>
    NodeTypeOK' /\ PurgeInv' /\ RequestInv'
<1> SUFFICES ASSUME NodeTypeOK, PurgeInv, RequestInv, [NodeNext]_nodeVars
             PROVE  NodeTypeOK' /\ PurgeInv' /\ RequestInv'
  OBVIOUS
<1>1. CASE OtherCommand
  <2>1. Next
    BY <1>1 DEF OtherCommand
  <2> QED BY <1>1, <2>1, OtherInvariant, TypeInvariant, RequestInvariant DEF NodeTypeOK
<1>2. CASE Purge
  <2>1. RequestInv'
    BY <1>2, PurgeStep DEF RequestInv, Saving
  <2> QED BY <1>2, <2>1, PurgeType, PurgeInvariant
<1>3. CASE UNCHANGED nodeVars
  <2>1. UNCHANGED vars /\ UNCHANGED <<purging, purgeCount, purgeEpoch, pc, store>>
    BY <1>3 DEF nodeVars, purgeVars, vars, files
  <2>2. NodeTypeOK' /\ RequestInv' /\ (~Purging => (EpochInv \/ Stale)')
    BY <2>1, TypeInvariant, RequestInvariant, EpochInvariant, StaleInvariant
       DEF NodeTypeOK, PurgeInv
  <2> QED BY <2>1, <2>2 DEF PurgeInv, Purging
<1> QED BY <1>1, <1>2, <1>3 DEF NodeNext, Purge

\* A purge removes every epoch, also when it follows runs that died anywhere
\* and were resumed: the epochs it counts are those it visits.
THEOREM PurgeIsComplete == NodeSpec => []PurgeRemovesAll
<1>1. PurgeInv => PurgeRemovesAll
  BY DEF PurgeInv, PurgeRemovesAll
<1> QED BY <1>1, NodeInvInit, NodeInvariant, PTL DEF NodeSpec

\* No epoch beyond the requested ones is begun, although a purge leaves the
\* progress files behind.
THEOREM RequestedEpochsOnlyWithPurges == NodeSpec => []RequestedOnly
<1>1. RequestInv => RequestedOnly
  BY DEF RequestInv, RequestedOnly
<1> QED BY <1>1, NodeInvInit, NodeInvariant, PTL DEF NodeSpec
------------------------------------------------------------------------------
(* The droplets and the record, with purges.  A purge takes the droplets     *)
(* away and leaves the record of a run that died, so what is known of either *)
(* is known only between purges.                                             *)

\* Where a record is read, or a run goes on that began at one.
InUse == EpochCount(store) > 1 \/ (pc \in Running /\ epoch > 0)

NodeRoundInv ==
  /\ NumberInv /\ CutInv /\ EnoughInv
  /\ Purging => outcome = "none"
  /\ ~Purging => RoundInv /\ ResumeInv

NodeRecordInv ==
  /\ NumberInv /\ CutInv
  /\ ~Purging => RunStored
  /\ ~Purging /\ InUse => RecordedBlocksStored

\* Between purges the proofs about Compressor apply to a step of a command.
LEMMA NodeFacts ==
  ASSUME NodeTypeOK, PurgeInv, RequestInv, NumberInv, CutInv, ~Purging, [Next]_vars
  PROVE  StepFacts
<1>1. EpochCount(store) \in Nat
  BY EpochCountType DEF NodeTypeOK, TypeOK
<1>2. NoEpochMissing /\ InReach
  BY <1>1 DEF PurgeInv, EpochInv, Stale, InReach, Encoding
<1> QED BY <1>2 DEF NodeTypeOK, StepFacts

LEMMA PurgeKeepsNumbers ==
  ASSUME NodeTypeOK, PurgeInv, NumberInv, CutInv, Purge PROVE NumberInv' /\ CutInv'
<1>1. /\ pc' = "idle" /\ DOMAIN store' \subseteq DOMAIN store
      /\ \A e \in DOMAIN store' : store'[e] = store[e]
  BY PurgeStep
<1>2. UNCHANGED <<tip, lastBlockFile>>
  BY DEF Purge, StartPurge, OpenPurged, RemovePurged, PurgeDone, chainVars, files, vars
<1>3. Contiguous'
  BY <1>1 DEF NumberInv, Contiguous, FilesCount
<1>4. Numbered'
  BY <1>1 DEF Numbered
<1>5. CutInv'
  BY <1>1, <1>2 DEF CutInv, Running, Encoding
<1> QED BY <1>3, <1>4, <1>5 DEF NumberInv

\* The end of a purge leaves no epoch, so no record is in use.
LEMMA PurgeEnds ==
  ASSUME NodeTypeOK, PurgeInv, Purge, ~Purging'
  PROVE  /\ pc' = "idle" /\ ~(EpochCount(store') > 1) /\ ~InUse'
<1>1. PurgeDone
  BY DEF Purge, StartPurge, OpenPurged, RemovePurged, Purging
<1>2. purging' = "done" /\ PurgeInv'
  BY <1>1, PurgeInvariant DEF PurgeDone
<1>3. pc' = "idle" /\ DOMAIN store' = {}
  BY <1>2 DEF PurgeInv
<1>4. EpochCount(store') = 0
  BY <1>3, FS_EmptySet DEF EpochCount
<1> QED BY <1>3, <1>4 DEF InUse, Running, Encoding

LEMMA PurgeRounds ==
  ASSUME NodeTypeOK, PurgeInv, NodeRoundInv, Purge PROVE NodeRoundInv'
<1>1. NumberInv' /\ CutInv'
  BY PurgeKeepsNumbers DEF NodeRoundInv
<1>2. outcome' = "none"
  BY DEF Purge, StartPurge, OpenPurged, RemovePurged, PurgeDone, NodeRoundInv, Purging, control, vars
<1>3. EnoughInv'
  BY <1>2 DEF EnoughInv, EnoughDroplets, Reported
<1>4. ASSUME ~Purging' PROVE RoundInv' /\ ResumeInv'
  <2>1. pc' = "idle"
    BY <1>4, PurgeEnds
  <2> QED BY <2>1 DEF RoundInv, ResumeInv, Running, Encoding, Saving
<1> QED BY <1>1, <1>2, <1>3, <1>4 DEF NodeRoundInv

LEMMA NodeRounds ==
  NodeTypeOK /\ PurgeInv /\ RequestInv /\ NodeRoundInv /\ [NodeNext]_nodeVars => NodeRoundInv'
<1> SUFFICES ASSUME NodeTypeOK, PurgeInv, RequestInv, NodeRoundInv, [NodeNext]_nodeVars
             PROVE  NodeRoundInv'
  OBVIOUS
<1>0. NumberInv /\ CutInv /\ EnoughInv /\ TypeOK /\ StepOK
  BY DEF NodeRoundInv, NodeTypeOK
<1>1. CASE OtherCommand
  <2>1. ~Purging /\ [Next]_vars /\ ~Purging'
    BY <1>1 DEF OtherCommand, Purging
  <2>2. RoundInv /\ ResumeInv /\ StepFacts
    BY <1>0, <2>1, NodeFacts DEF NodeRoundInv
  <2>3. RoundInv' /\ ResumeInv' /\ EnoughInv'
    BY <1>0, <2>1, <2>2, RoundInvariant, ResumeInvariant, EnoughInvariant
  <2>4. NumberInv' /\ CutInv'
    BY <1>0, <2>1, NumberInvariant, CutInvariant
  <2> QED BY <2>1, <2>3, <2>4 DEF NodeRoundInv
<1>2. CASE Purge
  BY <1>2, PurgeRounds
<1>3. CASE UNCHANGED nodeVars
  <2>1. UNCHANGED vars /\ Purging' = Purging /\ outcome' = outcome /\ [Next]_vars
    BY <1>3 DEF nodeVars, purgeVars, Purging, vars, control
  <2>2. NumberInv' /\ CutInv'
    BY <1>0, <2>1, NumberInvariant, CutInvariant
  <2>3. EnoughInv'
    BY <1>0, <2>1 DEF EnoughInv, EnoughDroplets, ManyAlike, Alike, Reported, vars, files, progress,
                      control
  <2>4. ASSUME ~Purging PROVE RoundInv' /\ ResumeInv'
    <3>1. RoundInv /\ ResumeInv /\ StepFacts
      BY <1>0, <2>1, <2>4, NodeFacts DEF NodeRoundInv
    <3> QED BY <1>0, <2>1, <3>1, RoundInvariant, ResumeInvariant
  <2> QED BY <2>1, <2>2, <2>3, <2>4 DEF NodeRoundInv
<1> QED BY <1>1, <1>2, <1>3 DEF NodeNext, Purge

\* A record comes into use only when it is written.
LEMMA InUseBefore ==
  ASSUME StepFacts, ~WriteBlock, InUse' PROVE InUse
<1> USE DEF chainVars, files, progress, encoder, control
<1>0. /\ EpochCount(store) \in Nat /\ NoEpochMissing /\ StoreTypeOK(store)
      /\ DOMAIN store = 0..(EpochCount(store) - 1)
  BY EpochCountType DEF StepFacts, TypeOK, NoEpochMissing
<1>1. CASE OpenStorage
  <2>1. /\ pc = "open" /\ epoch' = epoch /\ DOMAIN store' = DOMAIN store \cup {epoch}
        /\ epoch \in Nat
    BY <1>1 DEF OpenStorage, OpenDir, StepFacts, StepOK, Encoding
  <2>2. CASE epoch > 0
    BY <2>1, <2>2 DEF InUse, Running, Encoding
  <2>3. CASE epoch = 0
    <3>1. ~(epoch' > 0)
      BY <2>1, <2>3
    <3>2. EpochCount(store') > 1
      BY <3>1 DEF InUse
    <3>3. DOMAIN store # {}
      <4>1. SUFFICES ASSUME DOMAIN store = {} PROVE FALSE
        OBVIOUS
      <4>2. DOMAIN store' = {0}
        BY <2>1, <2>3, <4>1
      <4>3. Cardinality({0}) = 1
        BY FS_Singleton
      <4>4. EpochCount(store') = 1
        BY <4>2, <4>3 DEF EpochCount
      <4> QED BY <3>2, <4>4
    <3>4. 0 \in DOMAIN store
      BY <1>0, <3>3
    <3>5. DOMAIN store' = DOMAIN store
      BY <2>1, <2>3, <3>4
    <3> QED BY <3>2, <3>5 DEF InUse, EpochCount
  <2> QED BY <2>1, <2>2, <2>3
<1>2. CASE ~OpenStorage
  <2>1. EpochCount(store') = EpochCount(store)
    <3>1. DOMAIN store' = DOMAIN store
      BY <1>2, FourKinds, StoreUnchangedKeeps
         DEF StepFacts, CreateDroplet, WriteDroplet, CreateFile, PutFile
    <3> QED BY <3>1 DEF EpochCount
  <2>2. SUFFICES ASSUME pc' \in Running, epoch' > 0, EpochCount(store) \in Nat,
                        ~(EpochCount(store) > 1)
                 PROVE  pc \in Running /\ epoch > 0
    BY <1>0, <2>1 DEF InUse
  <2>3. CASE BeginFromScratch
    BY <2>2, <2>3 DEF BeginFromScratch, BeginAt
  <2>4. ~Resume
    BY <2>2 DEF Resume
  <2>5. CASE AddBlock
    <3>1. pc = "scan" /\ epoch' = epoch
      BY <2>2, <2>5 DEF AddBlock, NextBlock, Running, Encoding
    <3> QED BY <2>2, <3>1 DEF Running
  <2>6. CASE \/ CreateDroplet \/ WriteDroplet \/ FinishEpoch
             \/ TruncateCount \/ WriteCount \/ TruncateBlock
    <3>1. pc \in Encoding /\ epoch' = epoch
      BY <2>6 DEF CreateDroplet, WriteDroplet, FinishEpoch, TruncateCount, WriteCount,
                  TruncateBlock, Encoding
    <3> QED BY <2>2, <3>1 DEF Running
  <2>7. ~(RemoveCount \/ RemoveBlock \/ ResumeFails \/ ChainGrows \/ Crash)
    BY <2>2 DEF RemoveCount, RemoveBlock, ResumeFails, ChainGrows, Crash, Stop, Running, Encoding
  <2>8. ~\E cmd \in {"generate", "generateAll"} : Start(cmd)
    BY <2>2 DEF Start, Running, Encoding
  <2>9. CASE UNCHANGED vars
    BY <2>2, <2>9 DEF vars
  <2> QED BY <1>2, <2>3, <2>4, <2>5, <2>6, <2>7, <2>8, <2>9 DEF StepFacts, Next, Step
<1> QED BY <1>1, <1>2

LEMMA CommandRecord ==
  ASSUME StepFacts, RunStored, InUse => RecordedBlocksStored
  PROVE  RunStored' /\ (InUse' => RecordedBlocksStored')
<1>1. TypeOK /\ StepOK /\ NumberInv /\ CutInv /\ [Next]_vars
  BY DEF StepFacts
<1>2. Resume => RecordedBlocksStored
  BY DEF Resume, InUse
<1>3. RunStored'
  BY <1>1, <1>2, RunStoredInvariant
<1>4. CASE WriteBlock
  BY <1>3, <1>4, WrittenRecord
<1>5. ASSUME ~WriteBlock, InUse' PROVE RecordedBlocksStored'
  <2>1. RecordedBlocksStored
    BY <1>5, InUseBefore
  <2> QED BY <1>1, <2>1, RecordInvariant
<1> QED BY <1>3, <1>4, <1>5

LEMMA NodeRecords ==
  NodeTypeOK /\ PurgeInv /\ RequestInv /\ NodeRecordInv /\ [NodeNext]_nodeVars => NodeRecordInv'
<1> SUFFICES ASSUME NodeTypeOK, PurgeInv, RequestInv, NodeRecordInv, [NodeNext]_nodeVars
             PROVE  NodeRecordInv'
  OBVIOUS
<1>0. NumberInv /\ CutInv /\ TypeOK /\ StepOK
  BY DEF NodeRecordInv, NodeTypeOK
<1>1. ASSUME ~Purging, [Next]_vars, ~Purging' PROVE NodeRecordInv'
  <2>1. StepFacts /\ RunStored /\ (InUse => RecordedBlocksStored)
    BY <1>0, <1>1, NodeFacts DEF NodeRecordInv
  <2>2. RunStored' /\ (InUse' => RecordedBlocksStored')
    BY <2>1, CommandRecord
  <2>3. NumberInv' /\ CutInv'
    BY <1>0, <1>1, NumberInvariant, CutInvariant
  <2> QED BY <2>2, <2>3 DEF NodeRecordInv
<1>2. CASE OtherCommand
  <2>1. ~Purging /\ [Next]_vars /\ ~Purging'
    BY <1>2 DEF OtherCommand, Purging
  <2> QED BY <1>1, <2>1
<1>3. CASE Purge
  <2>1. NumberInv' /\ CutInv'
    BY <1>0, <1>3, PurgeKeepsNumbers
  <2>2. ASSUME ~Purging' PROVE RunStored' /\ ~InUse'
    BY <1>3, <2>2, PurgeEnds DEF RunStored, Running, Encoding, Saving
  <2> QED BY <2>1, <2>2 DEF NodeRecordInv
<1>4. CASE UNCHANGED nodeVars
  <2>1. UNCHANGED vars /\ Purging' = Purging /\ [Next]_vars
    BY <1>4 DEF nodeVars, purgeVars, Purging
  <2>2. NumberInv' /\ CutInv'
    BY <1>0, <2>1, NumberInvariant, CutInvariant
  <2>3. CASE ~Purging
    BY <1>1, <2>1, <2>3
  <2>4. CASE Purging
    BY <2>1, <2>2, <2>4 DEF NodeRecordInv
  <2> QED BY <2>3, <2>4
<1> QED BY <1>2, <1>3, <1>4 DEF NodeNext, Purge

LEMMA NodeRoundInit == NodeInit => NodeRoundInv /\ NodeRecordInv
<1> SUFFICES ASSUME NodeInit PROVE NodeRoundInv /\ NodeRecordInv
  OBVIOUS
<1>1. Init /\ ~Purging
  BY DEF NodeInit, Purging
<1> QED BY <1>1, NumberInit, CutInit, EnoughInit, RecordInit DEF NodeRoundInv, NodeRecordInv

\* generate-all leaves in every epoch it reports the droplets of one cutting that
\* a restore needs, or those of all rounds but the first when that round resumed
\* one that died, wherever runs died, whatever was purged before and whatever
\* progress files were left.
THEOREM EnoughDropletsAfterPurges == NodeSpec => []EnoughDroplets
<1>1. NodeRoundInv => EnoughDroplets
  BY DEF NodeRoundInv, EnoughInv
<1> QED BY <1>1, NodeInvInit, NodeInvariant, NodeRoundInit, NodeRounds, PTL DEF NodeSpec

\* A run only begins in the middle of the chain when the droplets of every
\* block up to there are stored, wherever runs died before: the record that a
\* purge leaves behind is written again before it is read.
THEOREM NoResumeFromPurged == NodeSpec => ResumesCovered
<1>1. ASSUME PurgeInv, NodeRecordInv, [NodeNext]_nodeVars
      PROVE  [pc = "begin" /\ pc' = "scan" /\ height' > 0 => RecordedBlocksStored]_nodeVars
  <2>1. SUFFICES ASSUME NodeNext, pc = "begin", pc' = "scan", height' > 0
                 PROVE  RecordedBlocksStored
    BY <1>1
  <2>2. OtherCommand
    BY <2>1 DEF NodeNext, StartPurge, OpenPurged, RemovePurged, PurgeDone, vars, control
  <2>3. Next /\ ~Purging
    BY <2>2 DEF OtherCommand
  <2>4. Resume
    <3>1. ~BeginFromScratch
      BY <2>1 DEF BeginFromScratch, BeginAt, progress
    <3> QED BY <2>1, <2>3, <3>1 DEF Next, Step, ChainGrows, Start, ResumeFails, AddBlock,
              OpenStorage, CreateDroplet, WriteDroplet, FinishEpoch, TruncateCount, WriteCount,
              TruncateBlock, WriteBlock, RemoveCount, RemoveBlock, Crash, Stop
  <2>5. InUse
    BY <2>4 DEF Resume, InUse
  <2> QED BY <1>1, <2>3, <2>5 DEF NodeRecordInv
<1> QED BY <1>1, NodeInvInit, NodeInvariant, NodeRoundInit, NodeRecords, PTL
        DEF NodeSpec, ResumesCovered
------------------------------------------------------------------------------
(* What Compressor promises, with purges between its commands. *)

NodeFilesInv == NumberInv /\ CutInv /\ TornInv /\ InRound

LEMMA NodeFilesInit == NodeInit => NodeFilesInv
BY NumberInit, CutInit, TornInit DEF NodeInit, NodeFilesInv, InRound, Init

LEMMA NodeFilesInvariant ==
  NodeTypeOK /\ PurgeInv /\ NodeFilesInv /\ [NodeNext]_nodeVars => NodeFilesInv'
<1> SUFFICES ASSUME NodeTypeOK, PurgeInv, NodeFilesInv, [NodeNext]_nodeVars PROVE NodeFilesInv'
  OBVIOUS
<1>0. TypeOK /\ StepOK /\ NumberInv /\ CutInv /\ TornInv /\ InRound
  BY DEF NodeTypeOK, NodeFilesInv
<1>1. CASE [Next]_vars
  BY <1>0, <1>1, NumberInvariant, CutInvariant, TornInvariant, InRoundInvariant DEF NodeFilesInv
<1>2. CASE Purge
  <2>1. /\ pc = "idle" /\ pc' = "idle" /\ DOMAIN store' \subseteq DOMAIN store
        /\ \A e \in DOMAIN store' : store'[e] = store[e]
    BY <1>2, PurgeStep
  <2>2. crashes' = crashes /\ crashes \in Nat
    BY <1>0, <1>2, NumbersAssumption
       DEF Purge, StartPurge, OpenPurged, RemovePurged, PurgeDone, bounds, vars, TypeOK
  <2>3. \A p : p \in TornFiles(store') => p \in TornFiles(store)
    BY <2>1, TornMember
  <2>4. /\ IsFiniteSet(TornFiles(store')) /\ Cardinality(TornFiles(store')) \in Nat
        /\ Cardinality(TornFiles(store')) <= Cardinality(TornFiles(store))
        /\ Cardinality(TornFiles(store)) \in Nat /\ Cardinality(TornFiles(store)) <= crashes
    <3>1. IsFiniteSet(TornFiles(store)) /\ Cardinality(TornFiles(store)) <= crashes + 0
      BY <1>0, <2>1 DEF TornInv
    <3>2. TornFiles(store') \subseteq TornFiles(store)
      BY <2>3
    <3> QED BY <2>2, <3>1, <3>2, FS_Subset, FS_CardinalityType
  <2>5. TornInv'
    BY <2>1, <2>2, <2>4 DEF TornInv
  <2>6. InRound'
    BY <2>1 DEF InRound
  <2> QED BY <1>0, <1>2, <2>5, <2>6, PurgeKeepsNumbers DEF NodeFilesInv
<1>3. CASE OtherCommand
  BY <1>1, <1>3 DEF OtherCommand
<1>4. CASE UNCHANGED nodeVars
  BY <1>1, <1>4 DEF nodeVars
<1> QED BY <1>2, <1>3, <1>4 DEF NodeNext, Purge

NodeInv == NodeTypeOK /\ PurgeInv /\ RequestInv /\ NodeFilesInv

LEMMA NodeInvHolds == NodeSpec => []NodeInv
<1>1. NodeInit => NodeInv
  BY NodeInvInit, NodeFilesInit DEF NodeInv
<1>2. NodeInv /\ [NodeNext]_nodeVars => NodeInv'
  BY NodeInvariant, NodeFilesInvariant DEF NodeInv
<1> QED BY <1>1, <1>2, PTL DEF NodeSpec

\* Also while a purge is under way the files of every epoch are numbered
\* without a gap, so the number of files is the next number.
THEOREM ContiguousAmongPurges == NodeSpec => []Contiguous
<1>1. NodeInv => Contiguous
  BY DEF NodeInv, NodeFilesInv, NumberInv
<1> QED BY <1>1, NodeInvHolds, PTL

\* Between purges the epochs are those below their number, where restore, the
\* choice to resume and the next purge look for them.
THEOREM NoEpochMissingBetweenPurges == NodeSpec => [](~Purging => NoEpochMissing)
<1>1. NodeInv => (~Purging => NoEpochMissing)
  BY DEF NodeInv, PurgeInv, EpochInv, Stale
<1> QED BY <1>1, NodeInvHolds, PTL

\* Purges do not make more files torn than runs died.
THEOREM TornFilesAmongPurges == NodeSpec => []TornPerCrash
<1>1. NodeInv => TornPerCrash
  BY NumbersAssumption
     DEF NodeInv, NodeTypeOK, NodeFilesInv, TornInv, TornPerCrash, TornFiles, TypeOK
<1> QED BY <1>1, NodeInvHolds, PTL

\* The only step that takes a written droplet away is the removal of its epoch
\* by a purge, which takes all of that epoch and nothing of any other
\* (main.rs:121-127).
PurgedEpochOnly ==
  /\ purging = "remove" /\ purgeEpoch \notin DOMAIN store'
  /\ \A e \in DOMAIN store \ {purgeEpoch} : e \in DOMAIN store' /\ store'[e] = store[e]

THEOREM DropletsKeptUnlessPurged == NodeSpec => [][Kept \/ PurgedEpochOnly]_nodeVars
<1>1. NodeInv /\ [NodeNext]_nodeVars => [Kept \/ PurgedEpochOnly]_nodeVars
  <2> SUFFICES ASSUME NodeInv, NodeNext PROVE Kept \/ PurgedEpochOnly
    OBVIOUS
  <2>0. TypeOK /\ StepOK /\ NumberInv /\ NodeTypeOK /\ PurgeInv
    BY DEF NodeInv, NodeFilesInv, NodeTypeOK
  <2>1. CASE OtherCommand
    BY <2>0, <2>1, KeptByStep DEF OtherCommand
  <2>2. CASE RemovePurged
    BY <2>2 DEF RemovePurged, PurgedEpochOnly
  <2>3. CASE StartPurge \/ PurgeDone
    BY <2>3 DEF StartPurge, PurgeDone, Kept, Whole, files, vars
  <2>4. CASE OpenPurged
    <3>1. purgeEpoch \in DOMAIN store
      BY <2>0, <2>4 DEF OpenPurged, MoreToPurge, PurgeInv, Purging
    <3> QED BY <2>4, <3>1 DEF OpenPurged, OpenDir, Kept, Whole
  <2> QED BY <2>1, <2>2, <2>3, <2>4 DEF NodeNext
<1> QED BY <1>1, NodeInvHolds, PTL DEF NodeSpec

\* What a purge has left: two steps for each epoch, and its end.
PurgeLeft == IF purging = "open" THEN 2 * (purgeCount - purgeEpoch) + 2
             ELSE IF purging = "remove" THEN 2 * (purgeCount - purgeEpoch) + 1
             ELSE 0

LEMMA ShorterHas == \A i, j \in Nat : i < j => <<i, j>> \in Shorter
BY DEF Shorter, OpToRel

\* Every step of a purge leaves it less, and purges before a command do not keep
\* it from ending either.
THEOREM NodeCommandsAreFinite ==
  /\ IsWellFoundedOn(Shorter, Nat) /\ IsWellFoundedOn(RunOrder, Nat \X (Nat \X Nat))
  /\ NodeSpec => [](PurgeLeft \in Nat /\ RunVariant \in Nat \X (Nat \X Nat))
  /\ NodeSpec => [][Purging => <<PurgeLeft', PurgeLeft>> \in Shorter]_nodeVars
  /\ NodeSpec => [][pc # "idle" => Shortens]_nodeVars
<1>1. NodeInv => RunInv
  BY DEF NodeInv, NodeTypeOK, NodeFilesInv, RunInv
<1>2. NodeInv => PurgeLeft \in Nat /\ RunVariant \in Nat \X (Nat \X Nat)
  <2> SUFFICES ASSUME NodeInv PROVE PurgeLeft \in Nat /\ RunVariant \in Nat \X (Nat \X Nat)
    OBVIOUS
  <2>1. RunVariant \in Nat \X (Nat \X Nat)
    BY <1>1, RunInRange DEF RunVariant
  <2>2. /\ purgeCount \in Nat /\ purgeEpoch \in Nat
        /\ purging \in {"open", "remove"} => purgeEpoch <= purgeCount
    BY DEF NodeInv, PurgeInv, Purging
  <2>3. \A c \in Nat : \A e \in 0..c : 2 * (c - e) + 2 \in Nat /\ 2 * (c - e) + 1 \in Nat
    OBVIOUS
  <2> QED BY <2>1, <2>2, <2>3 DEF PurgeLeft
<1>3. NodeInv /\ NodeInv' /\ [NodeNext]_nodeVars
        => [Purging => <<PurgeLeft', PurgeLeft>> \in Shorter]_nodeVars
  <2> SUFFICES ASSUME NodeInv, NodeInv', NodeNext, Purging
               PROVE  <<PurgeLeft', PurgeLeft>> \in Shorter
    OBVIOUS
  <2>1. PurgeLeft \in Nat /\ PurgeLeft' \in Nat
    <3>1. (NodeInv => PurgeLeft \in Nat)'
      BY <1>2, PTL
    <3> QED BY <1>2, <3>1
  <2>2. purgeCount \in Nat /\ purgeEpoch \in Nat /\ purgeEpoch <= purgeCount
    BY DEF NodeInv, PurgeInv
  <2>3. \A c, e \in Nat : /\ 2 * (c - e) + 1 < 2 * (c - e) + 2
                          /\ 2 * (c - (e + 1)) + 2 < 2 * (c - e) + 1
    OBVIOUS
  <2>4. CASE OpenPurged
    BY <2>1, <2>2, <2>3, <2>4, ShorterHas DEF OpenPurged, PurgeLeft
  <2>5. CASE RemovePurged
    BY <2>1, <2>2, <2>3, <2>5, ShorterHas DEF RemovePurged, PurgeLeft
  <2>6. CASE PurgeDone
    <3>1. PurgeLeft' = 0 /\ PurgeLeft = 2 * (purgeCount - purgeEpoch) + 2
      BY <2>6 DEF PurgeDone, PurgeLeft
    <3>2. 0 < 2 * (purgeCount - purgeEpoch) + 2
      BY <2>2
    <3> QED BY <2>1, <3>1, <3>2, ShorterHas
  <2> QED BY <2>4, <2>5, <2>6 DEF NodeNext, OtherCommand, StartPurge
<1>4. NodeInv /\ NodeInv' /\ [NodeNext]_nodeVars => [pc # "idle" => Shortens]_nodeVars
  <2> SUFFICES ASSUME NodeInv, NodeInv', NodeNext, pc # "idle" PROVE Shortens
    OBVIOUS
  <2>1. RunInv /\ RunInv'
    <3>1. (NodeInv => RunInv)'
      BY <1>1, PTL
    <3> QED BY <1>1, <3>1
  <2>2. Next
    <3>1. ~Purge
      BY PurgeStep DEF NodeInv
    <3> QED BY <3>1 DEF NodeNext, Purge, OtherCommand
  <2>3. Step \/ Crash
    BY <2>2 DEF Next, ChainGrows, Start
  <2> QED BY <2>1, <2>3, StepShortens
<1>5. IsWellFoundedOn(Shorter, Nat)
  BY NatLessThanWellFounded DEF Shorter
<1>6. NodeSpec => [](PurgeLeft \in Nat /\ RunVariant \in Nat \X (Nat \X Nat))
  BY <1>2, NodeInvHolds, PTL
<1>7. NodeSpec => [][Purging => <<PurgeLeft', PurgeLeft>> \in Shorter]_nodeVars
  BY <1>3, NodeInvHolds, PTL DEF NodeSpec
<1>8. NodeSpec => [][pc # "idle" => Shortens]_nodeVars
  BY <1>4, NodeInvHolds, PTL DEF NodeSpec
<1> QED BY <1>5, <1>6, <1>7, <1>8, RunOrderIsWellFounded
==============================================================================
